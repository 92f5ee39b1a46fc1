-------------------------- MODULE DiscoveryProofs ---------------------------
(***************************************************************************)
(* What Enumerate returns, for every board: lemmas about the operators of  *)
(* Discovery.                                                              *)
(***************************************************************************)
EXTENDS Discovery, FiniteSetTheorems, TLAPS

-----------------------------------------------------------------------------
\* Sorting.

\* order puts any two elements of S one before the other.
TotalOrder(S, order) ==
    /\ \A x \in S : <<x, x>> \notin order
    /\ \A x, y \in S : x # y => <<x, y>> \in order \/ <<y, x>> \in order
    /\ \A x, y, z \in S : <<x, y>> \in order /\ <<y, z>> \in order => <<x, z>> \in order

\* The arrangements of S that the two SortFunc calls may return.
Sorted(s, S, order) ==
    /\ s \in [1..Cardinality(S) -> S]
    /\ \A i, j \in 1..Cardinality(S) : i < j => <<s[i], s[j]>> \in order

\* A finite set with a total order on it can be sorted: the number of elements
\* before an element is its place.
LEMMA SortedExists ==
    ASSUME NEW S, IsFiniteSet(S), NEW order, TotalOrder(S, order)
    PROVE  \E s : Sorted(s, S, order)
<1> DEFINE n == Cardinality(S)
           below(x) == {y \in S : <<y, x>> \in order}
           place == [x \in S |-> Cardinality(below(x)) + 1]
<1>1. n \in Nat
  BY FS_CardinalityType
<1>2. ASSUME NEW x \in S
      PROVE  IsFiniteSet(below(x)) /\ Cardinality(below(x)) \in Nat /\ Cardinality(below(x)) < n
  <2>1. below(x) \in SUBSET S /\ below(x) # S
    BY DEF TotalOrder
  <2>2. IsFiniteSet(below(x)) /\ Cardinality(below(x)) <= n /\ n # Cardinality(below(x))
    BY <2>1, FS_Subset
  <2>3. Cardinality(below(x)) \in Nat
    BY <2>2, FS_CardinalityType
  <2> QED BY <1>1, <2>2, <2>3
<1>3. ASSUME NEW x \in S, NEW y \in S, <<x, y>> \in order
      PROVE  place[x] < place[y]
  <2>1. below(x) \in SUBSET below(y) /\ x \in below(y) /\ x \notin below(x)
    BY <1>3 DEF TotalOrder
  <2>2. Cardinality(below(x)) <= Cardinality(below(y)) /\ Cardinality(below(y)) # Cardinality(below(x))
    BY <1>2, <2>1, FS_Subset
  <2>3. Cardinality(below(x)) \in Nat /\ Cardinality(below(y)) \in Nat
    BY <1>2
  <2> HIDE DEF below
  <2> QED BY <2>2, <2>3
<1>4. place \in [S -> 1..n]
  BY <1>1, <1>2
<1>5. place \in Injection(S, 1..n)
  <2>1. ASSUME NEW x \in S, NEW y \in S, place[x] = place[y]
        PROVE  x = y
    <3> HIDE DEF place
    <3>1. place[x] \in Int /\ place[y] \in Int
      BY <1>1, <1>4
    <3>2. <<x, y>> \notin order /\ <<y, x>> \notin order
      BY <1>3, <2>1, <3>1
    <3> QED BY <3>2 DEF TotalOrder
  <2> QED BY <1>4, <2>1 DEF Injection, IsInjective
<1>6. place \in Surjection(S, 1..n)
  <2>1. IsFiniteSet(1..n) /\ Cardinality(1..n) = n
    BY <1>1, FS_Interval
  <2> QED BY <1>5, <2>1, FS_Injection
<1> DEFINE s == [i \in 1..n |-> CHOOSE x \in S : place[x] = i]
<1> HIDE DEF place
<1>7. \A i \in 1..n : s[i] \in S /\ place[s[i]] = i
  BY <1>6 DEF Surjection
<1>8. s \in [1..n -> S]
  BY <1>7
<1>9. ASSUME NEW i \in 1..n, NEW j \in 1..n, i < j
      PROVE  <<s[i], s[j]>> \in order
  <2>1. s[i] # s[j] /\ ~(<<s[j], s[i]>> \in order)
    BY <1>1, <1>3, <1>7, <1>9
  <2> QED BY <1>7, <2>1 DEF TotalOrder
<1> QED BY <1>8, <1>9 DEF Sorted

\* SortFunc returns an arrangement of S in the order, in which every element of
\* S has a place and no two have the same.
LEMMA SortFuncSorts ==
    ASSUME NEW S, IsFiniteSet(S), NEW order, TotalOrder(S, order)
    PROVE  /\ Sorted(SortFunc(S, order), S, order)
           /\ \A x \in S : \E i \in 1..Cardinality(S) : SortFunc(S, order)[i] = x
           /\ Cardinality(S) \in Nat
<1> DEFINE n == Cardinality(S)
           s == SortFunc(S, order)
<1>1. n \in Nat
  BY FS_CardinalityType
<1>2. Sorted(s, S, order)
  <2>1. PICK t : Sorted(t, S, order)
    BY SortedExists
  <2>2. t \in [1..n -> S] /\ \A i, j \in DOMAIN t : i < j => <<t[i], t[j]>> \in order
    BY <2>1 DEF Sorted
  <2>3. s \in [1..n -> S] /\ \A i, j \in DOMAIN s : i < j => <<s[i], s[j]>> \in order
    BY <2>2 DEF SortFunc
  <2> QED BY <2>3 DEF Sorted
<1> HIDE DEF s
<1>3. s \in Injection(1..n, S)
  <2>1. ASSUME NEW i \in 1..n, NEW j \in 1..n, s[i] = s[j]
        PROVE  i = j
    <3>1. s[i] \in S /\ <<s[i], s[j]>> \notin order /\ <<s[j], s[i]>> \notin order
      BY <1>2, <2>1 DEF Sorted, TotalOrder
    <3>2. ~(i < j) /\ ~(j < i)
      BY <1>2, <3>1 DEF Sorted
    <3> QED BY <1>1, <3>2
  <2> QED BY <1>2, <2>1 DEF Sorted, Injection, IsInjective
<1>4. s \in Surjection(1..n, S)
  <2>1. Cardinality(1..n) = n
    BY <1>1, FS_Interval
  <2> QED BY <1>3, <2>1, FS_Injection
<1>5. \A x \in S : \E i \in 1..n : s[i] = x
  BY <1>4 DEF Surjection
<1> QED BY <1>1, <1>2, <1>5 DEF s

-----------------------------------------------------------------------------
\* The nodes of the video4linux class.

\* A class directory as the kernel makes it: finitely many entries, of which no
\* two are the same video node.
V4LClass(v4l) ==
    /\ v4l \subseteq V4LEntry
    /\ IsFiniteSet(v4l)
    /\ \A e, f \in v4l : e # f /\ e.index = f.index => e.index = NotVideo

\* discoverV4L returns finitely many nodes, each with an index of its own.
LEMMA NodesHaveDistinctIndices ==
    ASSUME NEW v4l, V4LClass(v4l)
    PROVE  /\ discoverV4L(v4l) \subseteq V4LNode
           /\ IsFiniteSet(discoverV4L(v4l))
           /\ \A n, m \in discoverV4L(v4l) : n.index = m.index => n = m
           /\ \A n \in discoverV4L(v4l) :
                 \E e \in v4l : e.index = n.index /\ e.compat = n.compat /\ e.card = n.card
<1> DEFINE videos == {f \in v4l : f.index # NotVideo}
           node(e) == [listed |-> e.listed, index |-> e.index, driver |-> boundDriver(e.drivers),
                       compat |-> e.compat, card |-> e.card]
           f == [e \in videos |-> node(e)]
           nodes == discoverV4L(v4l)
<1>1. nodes = {node(e) : e \in videos}
  BY DEF discoverV4L
<1>2. ASSUME NEW e \in videos
      PROVE  node(e) \in V4LNode
  BY DEF V4LClass, V4LEntry, V4LNode, Drivers, boundDriver, NotVideo
<1>3. IsFiniteSet(nodes)
  <2>1. IsFiniteSet(videos)
    BY FS_Subset DEF V4LClass
  <2>2. f \in [videos -> nodes]
    BY <1>1
  <2>3. \A n \in nodes : \E e \in videos : f[e] = n
    BY <1>1
  <2>4. f \in Surjection(videos, nodes)
    BY <2>2, <2>3 DEF Surjection
  <2> HIDE DEF f, videos, nodes
  <2> QED BY <2>1, <2>4, FS_Surjection
<1>4. ASSUME NEW n \in nodes, NEW m \in nodes, n.index = m.index
      PROVE  n = m
  <2>1. PICK e \in videos, d \in videos : n = node(e) /\ m = node(d)
    BY <1>1
  <2>2. e.index = d.index /\ e.index # NotVideo
    BY <1>4, <2>1
  <2> QED BY <2>1, <2>2 DEF V4LClass
<1>5. ASSUME NEW n \in nodes
      PROVE  \E e \in v4l : e.index = n.index /\ e.compat = n.compat /\ e.card = n.card
  BY <1>1
<1> QED BY <1>1, <1>2, <1>3, <1>4, <1>5

Blocks == {"hantro-av1", "hantro-dec", "hantro-enc", "rkvdec"}

\* classifyVPU gives a node one of the four blocks or none, and only a node with
\* none can be an RGA; a node of the H.264 block has no mark of another one.
LEMMA ClassifyOneBlock ==
    ASSUME NEW n
    PROVE  /\ classifyVPU(n) \in Blocks \cup {NoBlock}
           /\ n.driver = "rockchip-rga" => classifyVPU(n) = NoBlock
           /\ n.driver = "rkvdec" => classifyVPU(n) = "rkvdec"
           /\ classifyVPU(n) = "hantro-dec" => {"av1", "vepu"} \cap (n.compat \cup n.card) = {}
BY DEF classifyVPU, Blocks, NoBlock

\* The place of a block in the order of strings.Compare.
BlockRank(b) == CHOOSE i \in DOMAIN BlockOrder : BlockOrder[i] = b

\* Different blocks have different places.
LEMMA BlocksAreRanked ==
    /\ \A b \in Blocks : BlockRank(b) \in Int
    /\ \A b, c \in Blocks : BlockRank(b) = BlockRank(c) => b = c
<1>1. DOMAIN BlockOrder = 1..4
  BY DEF BlockOrder
<1>2. ASSUME NEW b \in Blocks
      PROVE  \E i \in DOMAIN BlockOrder : BlockOrder[i] = b
  <2>1. BlockOrder[1] = "hantro-av1" /\ BlockOrder[2] = "hantro-dec"
        /\ BlockOrder[3] = "hantro-enc" /\ BlockOrder[4] = "rkvdec"
    BY DEF BlockOrder
  <2>2. 1 \in 1..4 /\ 2 \in 1..4 /\ 3 \in 1..4 /\ 4 \in 1..4
    OBVIOUS
  <2> QED BY <1>1, <2>1, <2>2 DEF Blocks
<1>3. \A b \in Blocks : BlockRank(b) \in DOMAIN BlockOrder /\ BlockOrder[BlockRank(b)] = b
  BY <1>2 DEF BlockRank
<1>4. \A b \in Blocks : BlockRank(b) \in Int
  BY <1>1, <1>3
<1> QED BY <1>3, <1>4

\* The comparison of discoverVPU is by block, then by index.
LEMMA VPUComparison ==
    ASSUME NEW a, NEW b
    PROVE  vpuBefore(a, b) <=>
             \/ BlockRank(classifyVPU(a)) < BlockRank(classifyVPU(b))
             \/ BlockRank(classifyVPU(a)) = BlockRank(classifyVPU(b)) /\ a.index < b.index
BY DEF vpuBefore, BlockRank

\* discoverVPU's matches, each once, by block and then by index.
LEMMA VPUsAreSorted ==
    ASSUME NEW v4l, V4LClass(v4l)
    PROVE  /\ Cardinality(vpuMatches(v4l)) \in Nat
           /\ sortedVPU(v4l) \in [1..Cardinality(vpuMatches(v4l)) -> vpuMatches(v4l)]
           /\ \A n \in vpuMatches(v4l) : \E i \in DOMAIN sortedVPU(v4l) : sortedVPU(v4l)[i] = n
           /\ \A i, j \in DOMAIN sortedVPU(v4l) :
                 i < j => vpuBefore(sortedVPU(v4l)[i], sortedVPU(v4l)[j])
<1> DEFINE S == vpuMatches(v4l)
           order == {p \in S \X S : vpuBefore(p[1], p[2])}
           rank(n) == BlockRank(classifyVPU(n))
<1>1. S \subseteq V4LNode /\ \A n, m \in S : n.index = m.index => n = m
  BY NodesHaveDistinctIndices DEF vpuMatches
<1>2. IsFiniteSet(S)
  BY NodesHaveDistinctIndices, FS_Subset DEF vpuMatches
<1>3. \A n \in S : n.index \in Nat /\ rank(n) \in Int
  BY <1>1, ClassifyOneBlock, BlocksAreRanked DEF vpuMatches, V4LNode
<1>4. \A n, m \in S : <<n, m>> \in order <=>
         rank(n) < rank(m) \/ (rank(n) = rank(m) /\ n.index < m.index)
  BY VPUComparison
<1> HIDE DEF order, rank, S
<1>5. TotalOrder(S, order)
  <2>1. \A x \in S : <<x, x>> \notin order
    BY <1>3, <1>4
  <2>2. \A x, y \in S : x # y => <<x, y>> \in order \/ <<y, x>> \in order
    BY <1>1, <1>3, <1>4
  <2>3. \A x, y, z \in S : <<x, y>> \in order /\ <<y, z>> \in order => <<x, z>> \in order
    BY <1>3, <1>4
  <2> QED BY <2>1, <2>2, <2>3 DEF TotalOrder
<1>6. /\ Sorted(SortFunc(S, order), S, order)
      /\ \A x \in S : \E i \in 1..Cardinality(S) : SortFunc(S, order)[i] = x
      /\ Cardinality(S) \in Nat
  BY <1>2, <1>5, SortFuncSorts
<1>7. sortedVPU(v4l) = SortFunc(S, order)
  BY DEF sortedVPU, S, order
<1>8. \A n, m : <<n, m>> \in order => vpuBefore(n, m)
  BY DEF order
<1> QED BY <1>6, <1>7, <1>8 DEF Sorted, S

\* discoverRGA's matches, each once, by index.
LEMMA RGAsAreSorted ==
    ASSUME NEW v4l, V4LClass(v4l)
    PROVE  /\ Cardinality(rgaMatches(v4l)) \in Nat
           /\ sortedRGA(v4l) \in [1..Cardinality(rgaMatches(v4l)) -> rgaMatches(v4l)]
           /\ \A n \in rgaMatches(v4l) : \E i \in DOMAIN sortedRGA(v4l) : sortedRGA(v4l)[i] = n
           /\ \A i, j \in DOMAIN sortedRGA(v4l) :
                 i < j => rgaBefore(sortedRGA(v4l)[i], sortedRGA(v4l)[j])
<1> DEFINE S == rgaMatches(v4l)
           order == {p \in S \X S : rgaBefore(p[1], p[2])}
<1>1. S \subseteq V4LNode /\ \A n, m \in S : n.index = m.index => n = m
  BY NodesHaveDistinctIndices DEF rgaMatches
<1>2. IsFiniteSet(S)
  BY NodesHaveDistinctIndices, FS_Subset DEF rgaMatches
<1>3. \A n \in S : n.index \in Nat
  BY <1>1 DEF V4LNode
<1>4. \A n, m \in S : <<n, m>> \in order <=> n.index < m.index
  BY DEF rgaBefore
<1> HIDE DEF order, S
<1>5. TotalOrder(S, order)
  BY <1>1, <1>3, <1>4 DEF TotalOrder
<1>6. /\ Sorted(SortFunc(S, order), S, order)
      /\ \A x \in S : \E i \in 1..Cardinality(S) : SortFunc(S, order)[i] = x
      /\ Cardinality(S) \in Nat
  BY <1>2, <1>5, SortFuncSorts
<1>7. sortedRGA(v4l) = SortFunc(S, order)
  BY DEF sortedRGA, S, order
<1>8. \A n, m : <<n, m>> \in order => rgaBefore(n, m)
  BY DEF order
<1> QED BY <1>6, <1>7, <1>8 DEF Sorted, S

\* The nodes of a block with a smaller index than a node of it.
Earlier(v4l, n) ==
    {m \in discoverV4L(v4l) : classifyVPU(m) = classifyVPU(n) /\ m.index < n.index}

\* Among the sorted matches, those of a node's block that come before it are
\* those with a smaller index.
LEMMA EarlierMatches ==
    ASSUME NEW v4l, V4LClass(v4l),
           NEW i \in DOMAIN sortedVPU(v4l), NEW j \in DOMAIN sortedVPU(v4l),
           classifyVPU(sortedVPU(v4l)[i]) = classifyVPU(sortedVPU(v4l)[j])
    PROVE  j < i <=> sortedVPU(v4l)[j].index < sortedVPU(v4l)[i].index
<1> DEFINE m == sortedVPU(v4l)
           rank(n) == BlockRank(classifyVPU(n))
<1>1. m[i] \in vpuMatches(v4l) /\ m[j] \in vpuMatches(v4l) /\ i \in Int /\ j \in Int
  BY VPUsAreSorted
<1>2. rank(m[i]) \in Int /\ rank(m[i]) = rank(m[j])
  BY <1>1, ClassifyOneBlock, BlocksAreRanked DEF vpuMatches
<1>3. m[i].index \in Nat /\ m[j].index \in Nat
  BY <1>1, NodesHaveDistinctIndices DEF vpuMatches, V4LNode
<1>4. /\ j < i => vpuBefore(m[j], m[i])
      /\ i < j => vpuBefore(m[i], m[j])
  BY VPUsAreSorted
<1>5. /\ vpuBefore(m[j], m[i]) => m[j].index < m[i].index
      /\ vpuBefore(m[i], m[j]) => m[i].index < m[j].index
  BY <1>2, VPUComparison
<1> HIDE DEF m
<1>6. j < i <=> m[j].index < m[i].index
  <2>1. CASE i = j
    BY <1>1, <1>3, <2>1
  <2>2. CASE i < j
    BY <1>1, <1>3, <1>4, <1>5, <2>2
  <2>3. CASE j < i
    BY <1>4, <1>5, <2>3
  <2> QED BY <1>1, <2>1, <2>2, <2>3
<1> QED BY <1>6 DEF m

\* The number in the name of the i-th match is the number of nodes of its block
\* with a smaller index.
LEMMA NumberCountsEarlier ==
    ASSUME NEW v4l, V4LClass(v4l), NEW i \in DOMAIN sortedVPU(v4l)
    PROVE  /\ vpuNumber(sortedVPU(v4l), i) = Cardinality(Earlier(v4l, sortedVPU(v4l)[i]))
           /\ vpuNumber(sortedVPU(v4l), i) \in Nat
<1> DEFINE m == sortedVPU(v4l)
           P == {j \in 1..(i - 1) : classifyVPU(m[j]) = classifyVPU(m[i])}
           E == Earlier(v4l, m[i])
           f == [j \in P |-> m[j]]
<1>1. m[i] \in vpuMatches(v4l) /\ i \in Nat /\ DOMAIN m = 1..Cardinality(vpuMatches(v4l))
      /\ Cardinality(vpuMatches(v4l)) \in Nat
  BY VPUsAreSorted
<1>2. \A j \in P : j \in DOMAIN m /\ j < i
  BY <1>1
<1>3. IsFiniteSet(P) /\ Cardinality(P) \in Nat
  <2>1. IsFiniteSet(1..(i - 1))
    <3>1. 1 \in Int /\ i - 1 \in Int
      BY <1>1
    <3> QED BY <3>1, FS_Interval
  <2>2. P \in SUBSET (1..(i - 1))
    OBVIOUS
  <2> HIDE DEF P
  <2>3. IsFiniteSet(P)
    BY <2>1, <2>2, FS_Subset
  <2> QED BY <2>3, FS_CardinalityType
<1>4. f \in [P -> E]
  <2> SUFFICES ASSUME NEW j \in P PROVE m[j] \in E
    OBVIOUS
  <2>1. j \in DOMAIN m /\ j < i /\ classifyVPU(m[j]) = classifyVPU(m[i])
    BY <1>2
  <2>2. m[j] \in discoverV4L(v4l)
    BY <2>1, VPUsAreSorted DEF vpuMatches
  <2> QED BY <2>1, <2>2, EarlierMatches DEF Earlier
<1>5. ASSUME NEW e \in E PROVE \E j \in P : f[j] = e
  <2>1. e \in vpuMatches(v4l)
    BY <1>1 DEF Earlier, vpuMatches
  <2>2. PICK j \in DOMAIN m : m[j] = e
    BY <2>1, VPUsAreSorted
  <2>3. j < i
    BY <2>2, EarlierMatches DEF Earlier
  <2>4. j \in P
    BY <1>1, <2>2, <2>3 DEF Earlier
  <2> QED BY <2>2, <2>4
<1>6. ASSUME NEW j \in P, NEW k \in P, f[j] = f[k] PROVE j = k
  <2>1. j \in DOMAIN m /\ k \in DOMAIN m /\ m[j] = m[k] /\ j \in Int /\ k \in Int
    BY <1>1, <1>2, <1>6
  <2>2. m[j].index \in Nat
    <3>1. m[j] \in vpuMatches(v4l)
      BY <2>1, VPUsAreSorted
    <3> QED BY <3>1, NodesHaveDistinctIndices DEF vpuMatches, V4LNode
  <2>3. ~(j < k) /\ ~(k < j)
    BY <2>1, <2>2, EarlierMatches
  <2> QED BY <2>1, <2>3
<1>7. ExistsBijection(P, E)
  <2> HIDE DEF f, P, E
  <2>1. f \in Injection(P, E) /\ f \in Surjection(P, E)
    BY <1>4, <1>5, <1>6 DEF Injection, IsInjective, Surjection
  <2> QED BY <2>1 DEF ExistsBijection, Bijection
<1>8. Cardinality(E) = Cardinality(P)
  BY <1>3, <1>7, FS_Bijection
<1> QED BY <1>3, <1>8 DEF vpuNumber

-----------------------------------------------------------------------------
\* Lists of devices.

\* No two devices of a list have a name or a node in common.
NoneInCommon(s) ==
    \A i, j \in DOMAIN s : i # j => s[i].name # s[j].name /\ s[i].node # s[j].node

\* No device of one set has a name or a node in common with one of the other.
Apart(D, E) == \A d \in D, e \in E : d.name # e.name /\ d.node # e.node

DeviceList(s) == s \in Seq(ToSet(s)) /\ NoneInCommon(s)

\* Appending lists that have nothing in common keeps the devices apart.
LEMMA AppendedLists ==
    ASSUME NEW s, NEW t, DeviceList(s), DeviceList(t), Apart(ToSet(s), ToSet(t))
    PROVE  DeviceList(s \o t) /\ ToSet(s \o t) = ToSet(s) \cup ToSet(t)
<1> DEFINE A == ToSet(s) \cup ToSet(t)
           n == Len(s)
           m == Len(t)
           c == s \o t
<1>1. s \in Seq(A) /\ t \in Seq(A)
  BY DEF DeviceList
<1>2. /\ n \in Nat /\ m \in Nat
      /\ DOMAIN s = 1..n /\ DOMAIN t = 1..m /\ DOMAIN c = 1..(n + m)
      /\ \A i \in 1..n : c[i] = s[i]
      /\ \A i \in (n + 1)..(n + m) : c[i] = t[i - n]
  BY <1>1
<1>3. c \in Seq(A)
  BY <1>1
<1> HIDE DEF n, m, c
<1>4. ASSUME NEW i \in 1..(n + m)
      PROVE  \/ i \in 1..n /\ c[i] = s[i] /\ s[i] \in ToSet(s)
             \/ i \in (n + 1)..(n + m) /\ c[i] = t[i - n] /\ i - n \in 1..m /\ t[i - n] \in ToSet(t)
  BY <1>2 DEF ToSet
<1>5. ToSet(c) = A
  <2>1. ToSet(c) \subseteq A
    BY <1>2, <1>4 DEF ToSet
  <2>2. ASSUME NEW d \in ToSet(s) PROVE d \in ToSet(c)
    BY <1>2 DEF ToSet
  <2>3. ASSUME NEW d \in ToSet(t) PROVE d \in ToSet(c)
    <3>1. PICK j \in 1..m : t[j] = d
      BY <1>2 DEF ToSet
    <3>2. j + n \in (n + 1)..(n + m) /\ j + n \in 1..(n + m) /\ (j + n) - n = j
      BY <1>2
    <3>3. c[j + n] = d
      BY <1>2, <3>1, <3>2
    <3> QED BY <1>2, <3>2, <3>3 DEF ToSet
  <2> QED BY <2>1, <2>2, <2>3
<1>6. NoneInCommon(c)
  <2> SUFFICES ASSUME NEW i \in 1..(n + m), NEW j \in 1..(n + m), i # j
               PROVE  c[i].name # c[j].name /\ c[i].node # c[j].node
    BY <1>2 DEF NoneInCommon
  <2>1. CASE i \in 1..n /\ j \in 1..n
    BY <1>2, <2>1 DEF DeviceList, NoneInCommon
  <2>2. CASE i \in (n + 1)..(n + m) /\ j \in (n + 1)..(n + m)
    <3>1. c[i] = t[i - n] /\ c[j] = t[j - n] /\ i - n \in 1..m /\ j - n \in 1..m /\ i - n # j - n
      BY <1>2, <2>2
    <3> QED BY <1>2, <3>1 DEF DeviceList, NoneInCommon
  <2>3. CASE \/ i \in 1..n /\ j \in (n + 1)..(n + m)
             \/ j \in 1..n /\ i \in (n + 1)..(n + m)
    <3>1. \/ c[i] \in ToSet(s) /\ c[j] \in ToSet(t)
          \/ c[j] \in ToSet(s) /\ c[i] \in ToSet(t)
      BY <1>2, <1>4, <2>3
    <3> QED BY <3>1 DEF Apart
  <2> QED BY <1>2, <2>1, <2>2, <2>3
<1> QED BY <1>3, <1>5, <1>6 DEF DeviceList, c

\* A device as the rest of the driver needs it: named, with a share at least.
Usable(d) ==
    /\ d.name # <<>>
    /\ d.node # <<>>
    /\ d.max \in Nat \ {0}

\* A list of devices of one type whose nodes are of one class.
ListOf(s, type, class) ==
    /\ DeviceList(s)
    /\ \A d \in ToSet(s) : Usable(d) /\ d.name[1] = type /\ d.node[1] = class

\* A share cap is positive whatever the override is.
LEMMA CapIsPositive ==
    ASSUME NEW override \in Int, NEW default \in Nat \ {0}
    PROVE  maxAllocations(override, default) \in Nat \ {0}
BY DEF maxAllocations

\* The devices that the discover functions make are usable.
LEMMA NewDevice ==
    ASSUME NEW name, NEW node, NEW cap
    PROVE  /\ Device(name, node, cap).name = name
           /\ Device(name, node, cap).node = node
           /\ Device(name, node, cap).max = cap
           /\ name # <<>> /\ node # <<>> /\ cap \in Nat \ {0} => Usable(Device(name, node, cap))
BY DEF Device, Usable

\* A name tells its type, block and number, and a char device its class and
\* number.
LEMMA NamesAndNodes ==
    /\ \A type, block, k : Name(type, block, k) # <<>>
    /\ \A type, block, k : Name(type, block, k)[1] = type
    /\ \A type, block, k : Name(type, block, k)[2] = block
    /\ \A type, block, k, t, b, l : Name(type, block, k) = Name(t, b, l) => type = t /\ block = b /\ k = l
    /\ \A class, x : CharDevice(class, x) # <<>>
    /\ \A class, x : CharDevice(class, x)[1] = class
    /\ \A class, x, c, y : CharDevice(class, x) = CharDevice(c, y) => class = c /\ x = y
BY DEF Name, CharDevice

\* The empty list, and a list of one device.
LEMMA ShortLists ==
    /\ \A type, class : ListOf(<<>>, type, class)
    /\ ToSet(<<>>) = {}
    /\ \A d : ToSet(<<d>>) = {d}
    /\ \A d, type, class : Usable(d) /\ d.name[1] = type /\ d.node[1] = class
                             => ListOf(<<d>>, type, class)
<1>1. ToSet(<<>>) = {} /\ \A d : ToSet(<<d>>) = {d}
  BY DEF ToSet
<1>2. <<>> \in Seq({}) /\ \A d : <<d>> \in Seq({d})
  OBVIOUS
<1>3. NoneInCommon(<<>>) /\ \A d : NoneInCommon(<<d>>)
  BY DEF NoneInCommon
<1> QED BY <1>1, <1>2, <1>3 DEF ListOf, DeviceList

\* discoverNPU and discoverGPU return one device or none.
LEMMA NPUList ==
    ASSUME NEW cores \in Nat, NEW accel, NEW override \in Int
    PROVE  ListOf(discoverNPU(cores, accel, override), "npu", "accel")
<1> DEFINE d == Device(Name("npu", NoBlock, 0), rocketAccelNode(accel), maxAllocations(override, cores))
<1>1. CASE cores = 0
  BY <1>1, ShortLists DEF discoverNPU
<1>2. CASE cores # 0
  <2>1. PICK x : rocketAccelNode(accel) = CharDevice("accel", x)
    BY DEF rocketAccelNode
  <2>2. maxAllocations(override, cores) \in Nat \ {0}
    BY <1>2, CapIsPositive
  <2>3. Usable(d) /\ d.name[1] = "npu" /\ d.node[1] = "accel"
    BY <2>1, <2>2, NewDevice, NamesAndNodes
  <2>4. discoverNPU(cores, accel, override) = <<d>>
    BY <1>2 DEF discoverNPU
  <2> HIDE DEF d
  <2> QED BY <2>3, <2>4, ShortLists
<1> QED BY <1>1, <1>2

\* discoverGPU returns the first panthor render node, or nothing.
LEMMA GPUList ==
    ASSUME NEW render, NEW override \in Int
    PROVE  ListOf(discoverGPU(render, override), "gpu", "renderD")
<1> DEFINE panthor == {e \in render : boundDriver(<<e.drivers[1], e.drivers[2], NoDriver>>) = "panthor"}
           d == Device(Name("gpu", NoBlock, 0), CharDevice("renderD", FirstListed(panthor).index),
                       maxAllocations(override, 8))
<1>1. discoverGPU(render, override) = IF panthor = {} THEN <<>> ELSE <<d>>
  BY DEF discoverGPU
<1> HIDE DEF panthor
<1>2. Usable(d) /\ d.name[1] = "gpu" /\ d.node[1] = "renderD"
  <2>1. maxAllocations(override, 8) \in Nat \ {0}
    BY CapIsPositive
  <2> QED BY <2>1, NewDevice, NamesAndNodes
<1> HIDE DEF d
<1> QED BY <1>1, <1>2, ShortLists

\* discoverVPU: the count kept for each block makes the names differ, the index
\* of the node makes the char devices differ.
LEMMA VPUList ==
    ASSUME NEW v4l, V4LClass(v4l), NEW override \in Int
    PROVE  /\ ListOf(discoverVPU(v4l, override), "vpu", "video")
           /\ DOMAIN discoverVPU(v4l, override) = DOMAIN sortedVPU(v4l)
           /\ \A i \in DOMAIN sortedVPU(v4l) :
                 LET n == sortedVPU(v4l)[i]
                 IN  discoverVPU(v4l, override)[i] =
                        Device(Name("vpu", classifyVPU(n), Cardinality(Earlier(v4l, n))),
                               CharDevice("video", n.index), maxAllocations(override, 1))
<1> DEFINE m == sortedVPU(v4l)
           N == Cardinality(vpuMatches(v4l))
           s == discoverVPU(v4l, override)
           cap == maxAllocations(override, 1)
           device(i) == Device(Name("vpu", classifyVPU(m[i]), vpuNumber(m, i)), CharDevice("video", m[i].index), cap)
<1>1. s = [i \in 1..N |-> device(i)] /\ DOMAIN m = 1..N /\ N \in Nat
  BY VPUsAreSorted DEF discoverVPU
<1>2. \A i \in 1..N : m[i] \in vpuMatches(v4l)
  BY VPUsAreSorted
<1>3. \A n \in vpuMatches(v4l) : n \in discoverV4L(v4l) /\ n.index \in Nat
  BY NodesHaveDistinctIndices DEF vpuMatches, V4LNode
<1> DEFINE block(i) == classifyVPU(m[i])
           earlier(i) == Earlier(v4l, m[i])
           number(i) == Cardinality(earlier(i))
<1>4. N \in Nat
  BY <1>1
<1>5. \A i \in 1..N : vpuNumber(m, i) = number(i) /\ number(i) \in Nat
  BY <1>1, NumberCountsEarlier
<1>6. \A i, j \in 1..N : i < j /\ block(i) = block(j) => m[i].index < m[j].index
  BY <1>1, EarlierMatches
<1>7. \A i \in 1..N : device(i) = Device(Name("vpu", block(i), number(i)), CharDevice("video", m[i].index), cap)
  BY <1>5
<1>8. \A i \in 1..N : s[i] = Device(Name("vpu", block(i), number(i)), CharDevice("video", m[i].index), cap)
  BY <1>1, <1>7
<1> HIDE DEF m, N, s, cap, block, number, earlier
<1>9. ASSUME NEW i \in 1..N
      PROVE  Usable(s[i]) /\ s[i].name[1] = "vpu" /\ s[i].node[1] = "video"
  <2>1. cap \in Nat \ {0}
    BY CapIsPositive DEF cap
  <2> QED BY <1>4, <1>8, <2>1, NewDevice, NamesAndNodes
<1>10. s \in Seq(ToSet(s))
  <2>1. \A i \in 1..N : s[i] \in ToSet(s)
    BY <1>1 DEF ToSet
  <2>2. s \in [1..N -> ToSet(s)]
    BY <1>1, <2>1
  <2> QED BY <1>1, <2>2
<1>11. ASSUME NEW i \in 1..N, NEW j \in 1..N, i < j
      PROVE  s[i].name # s[j].name /\ s[i].node # s[j].node
  <2>1. /\ s[i].name = Name("vpu", block(i), number(i)) /\ s[i].node = CharDevice("video", m[i].index)
        /\ s[j].name = Name("vpu", block(j), number(j)) /\ s[j].node = CharDevice("video", m[j].index)
    BY <1>4, <1>8, NewDevice
  <2>2. m[i].index \in Nat /\ m[j].index \in Nat
    BY <1>2, <1>3
  <2>3. m[i].index # m[j].index
    <3>1. CASE block(i) = block(j)
      BY <1>6, <1>11, <2>2, <3>1
    <3>2. CASE block(i) # block(j)
      BY <1>2, <1>3, <3>2, NodesHaveDistinctIndices DEF block
    <3> QED BY <3>1, <3>2
  <2>4. ASSUME block(i) = block(j)
        PROVE  number(i) # number(j)
    <3>1. m[i].index < m[j].index
      BY <1>6, <1>11, <2>4
    <3>2. \A n \in discoverV4L(v4l) : n.index \in Nat
      BY NodesHaveDistinctIndices DEF V4LNode
    <3>3. /\ earlier(i) = {n \in discoverV4L(v4l) : classifyVPU(n) = block(i) /\ n.index < m[i].index}
          /\ earlier(j) = {n \in discoverV4L(v4l) : classifyVPU(n) = block(i) /\ n.index < m[j].index}
      BY <2>4 DEF earlier, block, Earlier
    <3>4. earlier(i) \in SUBSET earlier(j)
      BY <2>2, <3>1, <3>2, <3>3
    <3>5. m[i] \in discoverV4L(v4l) /\ classifyVPU(m[i]) = block(i)
      BY <1>2, <1>3 DEF block
    <3>6. m[i] \in earlier(j) /\ m[i] \notin earlier(i)
      BY <2>2, <3>1, <3>3, <3>5
    <3>7. IsFiniteSet(earlier(j))
      BY <3>3, NodesHaveDistinctIndices, FS_Subset
    <3> QED BY <3>4, <3>6, <3>7, FS_Subset DEF number
  <2> QED BY <2>1, <2>3, <2>4, NamesAndNodes
<1>12. NoneInCommon(s)
  <2> SUFFICES ASSUME NEW i \in 1..N, NEW j \in 1..N, i # j
               PROVE  s[i].name # s[j].name /\ s[i].node # s[j].node
    BY <1>1 DEF NoneInCommon
  <2>1. i < j \/ j < i
    BY <1>1
  <2> QED BY <1>11, <2>1
<1>13. \A d \in ToSet(s) : \E i \in 1..N : d = s[i]
  BY <1>1 DEF ToSet
<1>14. ListOf(s, "vpu", "video")
  <2>1. \A d \in ToSet(s) : Usable(d) /\ d.name[1] = "vpu" /\ d.node[1] = "video"
    BY <1>9, <1>13
  <2> QED BY <1>10, <1>12, <2>1 DEF ListOf, DeviceList
<1>15. DOMAIN s = DOMAIN m
  BY <1>1
<1> QED BY <1>1, <1>8, <1>14, <1>15 DEF m, s, cap, block, number, earlier

\* discoverRGA numbers its matches one after the other.
LEMMA RGAList ==
    ASSUME NEW v4l, V4LClass(v4l), NEW override \in Int
    PROVE  /\ ListOf(discoverRGA(v4l, override), "rga", "video")
           /\ \A d \in ToSet(discoverRGA(v4l, override)) :
                 d.name[2] = NoBlock /\ \E n \in rgaMatches(v4l) : d.node = CharDevice("video", n.index)
           /\ DOMAIN discoverRGA(v4l, override) = DOMAIN sortedRGA(v4l)
           /\ \A i \in DOMAIN sortedRGA(v4l) :
                 discoverRGA(v4l, override)[i] =
                    Device(Name("rga", NoBlock, i - 1), CharDevice("video", sortedRGA(v4l)[i].index),
                           maxAllocations(override, 1))
<1> DEFINE m == sortedRGA(v4l)
           N == Cardinality(rgaMatches(v4l))
           s == discoverRGA(v4l, override)
           cap == maxAllocations(override, 1)
<1>1. s = [i \in 1..N |-> Device(Name("rga", NoBlock, i - 1), CharDevice("video", m[i].index), cap)]
      /\ DOMAIN m = 1..N
  BY RGAsAreSorted DEF discoverRGA
<1>2. N \in Nat /\ DOMAIN s = 1..N
  BY <1>1, RGAsAreSorted
<1>3. \A i \in 1..N : m[i] \in rgaMatches(v4l) /\ m[i].index \in Nat
  BY RGAsAreSorted, NodesHaveDistinctIndices DEF rgaMatches, V4LNode
<1>4. \A i, j \in 1..N : i < j => m[i].index < m[j].index
  BY RGAsAreSorted DEF rgaBefore
<1>5. \A i \in 1..N : s[i] = Device(Name("rga", NoBlock, i - 1), CharDevice("video", m[i].index), cap)
  BY <1>1
<1> HIDE DEF m, N, s, cap
<1>6. ASSUME NEW i \in 1..N
      PROVE  /\ Usable(s[i]) /\ s[i].name[1] = "rga" /\ s[i].node[1] = "video" /\ s[i].name[2] = NoBlock
             /\ s[i].node = CharDevice("video", m[i].index)
  <2>1. cap \in Nat \ {0}
    BY CapIsPositive DEF cap
  <2> QED BY <1>2, <1>5, <2>1, NewDevice, NamesAndNodes
<1>7. NoneInCommon(s)
  <2> SUFFICES ASSUME NEW i \in 1..N, NEW j \in 1..N, i # j
               PROVE  s[i].name # s[j].name /\ s[i].node # s[j].node
    BY <1>2 DEF NoneInCommon
  <2>1. i - 1 # j - 1
    BY <1>2
  <2>2. m[i].index # m[j].index
    <3>1. i < j \/ j < i
      BY <1>2
    <3> QED BY <1>3, <1>4, <3>1
  <2>3. /\ s[i].name = Name("rga", NoBlock, i - 1) /\ s[i].node = CharDevice("video", m[i].index)
        /\ s[j].name = Name("rga", NoBlock, j - 1) /\ s[j].node = CharDevice("video", m[j].index)
    BY <1>2, <1>5, NewDevice
  <2> QED BY <2>1, <2>2, <2>3, NamesAndNodes
<1>8. s \in Seq(ToSet(s))
  <2>1. \A i \in 1..N : s[i] \in ToSet(s)
    BY <1>2 DEF ToSet
  <2>2. s \in [1..N -> ToSet(s)]
    <3>1. s = [i \in 1..N |-> s[i]]
      BY <1>1, <1>2
    <3> QED BY <2>1, <3>1
  <2> QED BY <1>2, <2>2
<1>9. \A d \in ToSet(s) : \E i \in 1..N : d = s[i]
  BY <1>2 DEF ToSet
<1>10. \A d \in ToSet(s) : /\ Usable(d) /\ d.name[1] = "rga" /\ d.node[1] = "video" /\ d.name[2] = NoBlock
                           /\ \E n \in rgaMatches(v4l) : d.node = CharDevice("video", n.index)
  BY <1>3, <1>6, <1>9
<1>11. ListOf(s, "rga", "video")
  BY <1>7, <1>8, <1>10 DEF ListOf, DeviceList
<1> QED BY <1>1, <1>2, <1>5, <1>10, <1>11 DEF m, s, cap

\* A video4linux node is a VPU of one block or an RGA, never both.
LEMMA VPUsAndRGAsApart ==
    ASSUME NEW v4l, V4LClass(v4l), NEW o1 \in Int, NEW o2 \in Int
    PROVE  Apart(ToSet(discoverVPU(v4l, o1)), ToSet(discoverRGA(v4l, o2)))
<1> SUFFICES ASSUME NEW d \in ToSet(discoverVPU(v4l, o1)), NEW e \in ToSet(discoverRGA(v4l, o2))
             PROVE  d.name # e.name /\ d.node # e.node
  BY DEF Apart
<1>1. d.name[1] = "vpu" /\ e.name[1] = "rga"
  BY VPUList, RGAList DEF ListOf
<1>2. PICK n \in vpuMatches(v4l) : d.node = CharDevice("video", n.index)
  <2>1. PICK i \in DOMAIN sortedVPU(v4l) : d = discoverVPU(v4l, o1)[i]
    BY VPUList DEF ToSet
  <2>2. d.node = CharDevice("video", sortedVPU(v4l)[i].index)
    BY <2>1, VPUList, NewDevice
  <2>3. sortedVPU(v4l)[i] \in vpuMatches(v4l)
    BY VPUsAreSorted
  <2> QED BY <2>2, <2>3
<1>3. PICK k \in rgaMatches(v4l) : e.node = CharDevice("video", k.index)
  BY RGAList
<1>4. n # k
  BY ClassifyOneBlock DEF vpuMatches, rgaMatches
<1>5. n.index # k.index
  BY <1>4, NodesHaveDistinctIndices DEF vpuMatches, rgaMatches
<1> QED BY <1>1, <1>2, <1>3, <1>5, NamesAndNodes

\* Appending four lists that have pairwise nothing in common.
LEMMA FourLists ==
    ASSUME NEW a, NEW b, NEW c, NEW d,
           DeviceList(a), DeviceList(b), DeviceList(c), DeviceList(d),
           Apart(ToSet(a), ToSet(b)), Apart(ToSet(a), ToSet(c)), Apart(ToSet(a), ToSet(d)),
           Apart(ToSet(b), ToSet(c)), Apart(ToSet(b), ToSet(d)), Apart(ToSet(c), ToSet(d))
    PROVE  /\ DeviceList(a \o b \o c \o d)
           /\ ToSet(a \o b \o c \o d) = ToSet(a) \cup ToSet(b) \cup ToSet(c) \cup ToSet(d)
<1>1. DeviceList(a \o b) /\ ToSet(a \o b) = ToSet(a) \cup ToSet(b)
  BY AppendedLists
<1>2. Apart(ToSet(a \o b), ToSet(c)) /\ Apart(ToSet(a \o b), ToSet(d))
  BY <1>1 DEF Apart
<1> DEFINE ab == a \o b
<1> HIDE DEF ab
<1>3. DeviceList(ab \o c) /\ ToSet(ab \o c) = ToSet(ab) \cup ToSet(c)
  BY <1>1, <1>2, AppendedLists DEF ab
<1>4. Apart(ToSet(ab \o c), ToSet(d))
  BY <1>2, <1>3 DEF Apart, ab
<1> DEFINE abc == ab \o c
<1> HIDE DEF abc
<1>5. DeviceList(abc \o d) /\ ToSet(abc \o d) = ToSet(abc) \cup ToSet(d)
  BY <1>3, <1>4, AppendedLists DEF abc
<1> QED BY <1>1, <1>3, <1>5 DEF ab, abc

-----------------------------------------------------------------------------
\* Enumerate.

\* The list of a type, if the type is enabled.
On(type, enabled, devices) == IF type \in enabled THEN devices ELSE <<>>

\* The four lists that Enumerate appends when it reads sysfs.
NPUs(sys, cfg) == On("npu", defaultConfig(cfg.enabled), discoverNPU(sys.cores, sys.accel, cfg.override["npu"]))
GPUs(sys, cfg) == On("gpu", defaultConfig(cfg.enabled), discoverGPU(sys.render, cfg.override["gpu"]))
VPUs(sys, cfg) == On("vpu", defaultConfig(cfg.enabled), discoverVPU(sys.v4l, cfg.override["vpu"]))
RGAs(sys, cfg) == On("rga", defaultConfig(cfg.enabled), discoverRGA(sys.v4l, cfg.override["rga"]))

\* The device that mock mode makes of a type.
Mock(cfg, type, node, block, default) ==
    Device(Name(type, block, 0), node, maxAllocations(cfg.override[type], default))
MockNPU(cfg) == Mock(cfg, "npu", CharDevice("accel", 0), NoBlock, 3)
MockGPU(cfg) == Mock(cfg, "gpu", CharDevice("renderD", 128), NoBlock, 8)
MockVPU(cfg) == Mock(cfg, "vpu", CharDevice("video", 2), "rkvdec", 1)
MockRGA(cfg) == Mock(cfg, "rga", CharDevice("video", 0), NoBlock, 1)

\* The four lists that mockDevices appends.
MockNPUs(cfg) == On("npu", defaultConfig(cfg.enabled), <<MockNPU(cfg)>>)
MockGPUs(cfg) == On("gpu", defaultConfig(cfg.enabled), <<MockGPU(cfg)>>)
MockVPUs(cfg) == On("vpu", defaultConfig(cfg.enabled), <<MockVPU(cfg)>>)
MockRGAs(cfg) == On("rga", defaultConfig(cfg.enabled), <<MockRGA(cfg)>>)

\* What Enumerate needs: counted cores, a video4linux directory as the kernel
\* makes it, and an override for each type.
Readable(sys, cfg) ==
    /\ sys.cores \in Nat
    /\ V4LClass(sys.v4l)
    /\ cfg.override \in [Types -> Int]

\* Reading sysfs, Enumerate returns the devices of the four lists, and no two of
\* them have a name or a node in common.
LEMMA EnumerateSysfs ==
    ASSUME NEW sys, NEW cfg, Readable(sys, cfg), ~cfg.mock
    PROVE  /\ DeviceList(Enumerate(sys, cfg))
           /\ ToSet(Enumerate(sys, cfg)) =
                 ToSet(NPUs(sys, cfg)) \cup ToSet(GPUs(sys, cfg))
                 \cup ToSet(VPUs(sys, cfg)) \cup ToSet(RGAs(sys, cfg))
           /\ ListOf(NPUs(sys, cfg), "npu", "accel")
           /\ ListOf(GPUs(sys, cfg), "gpu", "renderD")
           /\ ListOf(VPUs(sys, cfg), "vpu", "video")
           /\ ListOf(RGAs(sys, cfg), "rga", "video")
<1> DEFINE a == NPUs(sys, cfg)
           b == GPUs(sys, cfg)
           c == VPUs(sys, cfg)
           d == RGAs(sys, cfg)
<1>1. \A type \in Types : cfg.override[type] \in Int
  BY DEF Readable
<1>2. ListOf(a, "npu", "accel")
  BY <1>1, NPUList, ShortLists DEF NPUs, On, Readable, Types
<1>3. ListOf(b, "gpu", "renderD")
  BY <1>1, GPUList, ShortLists DEF GPUs, On, Types
<1>4. ListOf(c, "vpu", "video")
  BY <1>1, VPUList, ShortLists DEF VPUs, On, Readable, Types
<1>5. ListOf(d, "rga", "video")
  BY <1>1, RGAList, ShortLists DEF RGAs, On, Readable, Types
<1>6. Apart(ToSet(c), ToSet(d))
  <2>1. Apart(ToSet(discoverVPU(sys.v4l, cfg.override["vpu"])), ToSet(discoverRGA(sys.v4l, cfg.override["rga"])))
    BY <1>1, VPUsAndRGAsApart DEF Readable, Types
  <2>2. \/ c = discoverVPU(sys.v4l, cfg.override["vpu"])
        \/ ToSet(c) = {}
    BY ShortLists DEF VPUs, On
  <2>3. \/ d = discoverRGA(sys.v4l, cfg.override["rga"])
        \/ ToSet(d) = {}
    BY ShortLists DEF RGAs, On
  <2> QED BY <2>1, <2>2, <2>3 DEF Apart
<1>7. Enumerate(sys, cfg) = a \o b \o c \o d
  BY DEF Enumerate, NPUs, GPUs, VPUs, RGAs, On
<1> HIDE DEF a, b, c, d
<1>8. /\ Apart(ToSet(a), ToSet(b)) /\ Apart(ToSet(a), ToSet(c)) /\ Apart(ToSet(a), ToSet(d))
      /\ Apart(ToSet(b), ToSet(c)) /\ Apart(ToSet(b), ToSet(d))
  BY <1>2, <1>3, <1>4, <1>5 DEF ListOf, Apart
<1>9. DeviceList(a) /\ DeviceList(b) /\ DeviceList(c) /\ DeviceList(d)
  BY <1>2, <1>3, <1>4, <1>5 DEF ListOf
<1>10. /\ DeviceList(a \o b \o c \o d)
       /\ ToSet(a \o b \o c \o d) = ToSet(a) \cup ToSet(b) \cup ToSet(c) \cup ToSet(d)
  BY <1>6, <1>8, <1>9, FourLists
<1> QED BY <1>2, <1>3, <1>4, <1>5, <1>7, <1>10 DEF a, b, c, d

\* In mock mode Enumerate returns the enabled ones among four devices that have
\* pairwise nothing in common.
LEMMA EnumerateMock ==
    ASSUME NEW sys, NEW cfg, Readable(sys, cfg), cfg.mock
    PROVE  /\ DeviceList(Enumerate(sys, cfg))
           /\ ToSet(Enumerate(sys, cfg)) =
                 ToSet(MockNPUs(cfg)) \cup ToSet(MockGPUs(cfg))
                 \cup ToSet(MockVPUs(cfg)) \cup ToSet(MockRGAs(cfg))
           /\ ToSet(MockNPUs(cfg)) \subseteq {MockNPU(cfg)}
           /\ ToSet(MockGPUs(cfg)) \subseteq {MockGPU(cfg)}
           /\ ToSet(MockVPUs(cfg)) \subseteq {MockVPU(cfg)}
           /\ ToSet(MockRGAs(cfg)) \subseteq {MockRGA(cfg)}
           /\ \A d \in {MockNPU(cfg), MockGPU(cfg), MockVPU(cfg), MockRGA(cfg)} :
                 Usable(d) /\ d.name[2] \in {NoBlock, "rkvdec"}
<1> DEFINE a == MockNPUs(cfg)
           b == MockGPUs(cfg)
           c == MockVPUs(cfg)
           d == MockRGAs(cfg)
<1>1. \A type \in Types : cfg.override[type] \in Int
  BY DEF Readable
<1>2. ASSUME NEW type \in Types, NEW class, NEW x, NEW block, NEW default \in Nat \ {0}
      PROVE  LET m == Mock(cfg, type, CharDevice(class, x), block, default)
             IN  Usable(m) /\ m.name[1] = type /\ m.node[1] = class /\ m.name[2] = block
                 /\ m.node = CharDevice(class, x)
  <2>1. maxAllocations(cfg.override[type], default) \in Nat \ {0}
    BY <1>1, CapIsPositive
  <2> QED BY <2>1, NewDevice, NamesAndNodes DEF Mock
<1>3. /\ Usable(MockNPU(cfg)) /\ MockNPU(cfg).name[1] = "npu" /\ MockNPU(cfg).node[1] = "accel"
      /\ MockNPU(cfg).name[2] = NoBlock
  BY <1>2 DEF MockNPU, Types
<1>4. /\ Usable(MockGPU(cfg)) /\ MockGPU(cfg).name[1] = "gpu" /\ MockGPU(cfg).node[1] = "renderD"
      /\ MockGPU(cfg).name[2] = NoBlock
  BY <1>2 DEF MockGPU, Types
<1>5. /\ Usable(MockVPU(cfg)) /\ MockVPU(cfg).name[1] = "vpu" /\ MockVPU(cfg).node[1] = "video"
      /\ MockVPU(cfg).name[2] = "rkvdec" /\ MockVPU(cfg).node = CharDevice("video", 2)
  BY <1>2 DEF MockVPU, Types
<1>6. /\ Usable(MockRGA(cfg)) /\ MockRGA(cfg).name[1] = "rga" /\ MockRGA(cfg).node[1] = "video"
      /\ MockRGA(cfg).name[2] = NoBlock /\ MockRGA(cfg).node = CharDevice("video", 0)
  BY <1>2 DEF MockRGA, Types
<1>7. Enumerate(sys, cfg) = a \o b \o c \o d
  BY DEF Enumerate, mockDevices, MockNPUs, MockGPUs, MockVPUs, MockRGAs, On,
         MockNPU, MockGPU, MockVPU, MockRGA, Mock
<1>8. ListOf(a, "npu", "accel") /\ ListOf(b, "gpu", "renderD")
      /\ ListOf(c, "vpu", "video") /\ ListOf(d, "rga", "video")
  BY <1>3, <1>4, <1>5, <1>6, ShortLists DEF On, MockNPUs, MockGPUs, MockVPUs, MockRGAs
<1>9. /\ ToSet(a) \subseteq {MockNPU(cfg)} /\ ToSet(b) \subseteq {MockGPU(cfg)}
      /\ ToSet(c) \subseteq {MockVPU(cfg)} /\ ToSet(d) \subseteq {MockRGA(cfg)}
  BY ShortLists DEF On, MockNPUs, MockGPUs, MockVPUs, MockRGAs
<1>10. Apart(ToSet(c), ToSet(d))
  <2>1. MockVPU(cfg).name # MockRGA(cfg).name
    BY <1>5, <1>6
  <2>2. MockVPU(cfg).node # MockRGA(cfg).node
    BY <1>5, <1>6, NamesAndNodes
  <2> QED BY <1>9, <2>1, <2>2 DEF Apart
<1> HIDE DEF a, b, c, d
<1>11. /\ Apart(ToSet(a), ToSet(b)) /\ Apart(ToSet(a), ToSet(c)) /\ Apart(ToSet(a), ToSet(d))
       /\ Apart(ToSet(b), ToSet(c)) /\ Apart(ToSet(b), ToSet(d))
  BY <1>8 DEF ListOf, Apart
<1>12. DeviceList(a) /\ DeviceList(b) /\ DeviceList(c) /\ DeviceList(d)
  BY <1>8 DEF ListOf
<1>13. /\ DeviceList(a \o b \o c \o d)
       /\ ToSet(a \o b \o c \o d) = ToSet(a) \cup ToSet(b) \cup ToSet(c) \cup ToSet(d)
  BY <1>10, <1>11, <1>12, FourLists
<1> QED BY <1>3, <1>4, <1>5, <1>6, <1>7, <1>9, <1>13 DEF a, b, c, d

\* Each VPU is a match, under the name that its index gives it, and each match is
\* a VPU.
LEMMA VPUsAreMatches ==
    ASSUME NEW v4l, V4LClass(v4l), NEW override \in Int
    PROVE  LET device(n) == Device(Name("vpu", classifyVPU(n), Cardinality(Earlier(v4l, n))),
                                   CharDevice("video", n.index), maxAllocations(override, 1))
           IN  ToSet(discoverVPU(v4l, override)) = {device(n) : n \in vpuMatches(v4l)}
<1> DEFINE m == sortedVPU(v4l)
           s == discoverVPU(v4l, override)
           device(n) == Device(Name("vpu", classifyVPU(n), Cardinality(Earlier(v4l, n))),
                               CharDevice("video", n.index), maxAllocations(override, 1))
<1>1. DOMAIN s = DOMAIN m /\ \A i \in DOMAIN m : s[i] = device(m[i])
  BY VPUList
<1>2. /\ \A i \in DOMAIN m : m[i] \in vpuMatches(v4l)
      /\ \A n \in vpuMatches(v4l) : \E i \in DOMAIN m : m[i] = n
  BY VPUsAreSorted
<1> HIDE DEF m, s, device
<1>3. ToSet(s) = {device(n) : n \in vpuMatches(v4l)}
  BY <1>1, <1>2 DEF ToSet
<1> QED BY <1>3 DEF s, device

\* Only a device of discoverVPU has a block in its name.
LEMMA OthersHaveNoBlock ==
    ASSUME NEW sys, NEW cfg, Readable(sys, cfg), ~cfg.mock,
           NEW d \in ToSet(NPUs(sys, cfg)) \cup ToSet(GPUs(sys, cfg)) \cup ToSet(RGAs(sys, cfg))
    PROVE  d.name[2] = NoBlock
<1>1. \A type \in Types : cfg.override[type] \in Int
  BY DEF Readable
<1>2. CASE d \in ToSet(NPUs(sys, cfg))
  <2>1. d = Device(Name("npu", NoBlock, 0), rocketAccelNode(sys.accel),
                   maxAllocations(cfg.override["npu"], sys.cores))
    BY <1>2, ShortLists DEF NPUs, On, discoverNPU
  <2> QED BY <2>1, NewDevice, NamesAndNodes
<1>3. CASE d \in ToSet(GPUs(sys, cfg))
  <2>1. \E x : d = Device(Name("gpu", NoBlock, 0), x, maxAllocations(cfg.override["gpu"], 8))
    BY <1>3, ShortLists DEF GPUs, On, discoverGPU
  <2> QED BY <2>1, NewDevice, NamesAndNodes
<1>4. CASE d \in ToSet(RGAs(sys, cfg))
  <2>1. d \in ToSet(discoverRGA(sys.v4l, cfg.override["rga"]))
    BY <1>4, ShortLists DEF RGAs, On
  <2> QED BY <1>1, <2>1, RGAList DEF Readable, Types
<1> QED BY <1>2, <1>3, <1>4

\* A node of a decoder: it has neither the marks of an AV1 decoder nor those of an
\* encoder.
DecoderNode(v4l, node) ==
    \E e \in v4l : node = CharDevice("video", e.index) /\ {"av1", "vepu"} \cap (e.compat \cup e.card) = {}

\* What the rest of the driver relies on: devices by different names, with
\* different nodes, each with a share at least, and H.264 decoders that are such.
LEMMA EnumeratedDevices ==
    ASSUME NEW sys, NEW cfg, Readable(sys, cfg), cfg.mock \in BOOLEAN
    PROVE  /\ DeviceList(Enumerate(sys, cfg))
           /\ \A d \in ToSet(Enumerate(sys, cfg)) :
                 Usable(d) /\ (d.name[2] = "hantro-dec" => DecoderNode(sys.v4l, d.node))
<1>1. CASE cfg.mock
  <2>1. \A d \in ToSet(Enumerate(sys, cfg)) :
           d \in {MockNPU(cfg), MockGPU(cfg), MockVPU(cfg), MockRGA(cfg)}
    BY <1>1, EnumerateMock
  <2>2. "hantro-dec" \notin {NoBlock, "rkvdec"}
    BY DEF NoBlock
  <2> QED BY <1>1, <2>1, <2>2, EnumerateMock
<1>2. CASE ~cfg.mock
  <2> SUFFICES ASSUME NEW d \in ToSet(Enumerate(sys, cfg))
               PROVE  Usable(d) /\ (d.name[2] = "hantro-dec" => DecoderNode(sys.v4l, d.node))
    BY <1>2, EnumerateSysfs
  <2>1. Usable(d)
    BY <1>2, EnumerateSysfs DEF ListOf
  <2>2. ASSUME d.name[2] = "hantro-dec"
        PROVE  DecoderNode(sys.v4l, d.node)
    <3>1. d \in ToSet(VPUs(sys, cfg))
      BY <1>2, <2>2, EnumerateSysfs, OthersHaveNoBlock DEF NoBlock
    <3>2. d \in ToSet(discoverVPU(sys.v4l, cfg.override["vpu"]))
      BY <3>1, ShortLists DEF VPUs, On
    <3>3. cfg.override["vpu"] \in Int /\ V4LClass(sys.v4l)
      BY DEF Readable, Types
    <3>4. PICK n \in vpuMatches(sys.v4l) :
             /\ d.name = Name("vpu", classifyVPU(n), Cardinality(Earlier(sys.v4l, n)))
             /\ d.node = CharDevice("video", n.index)
      <4>1. \E n \in vpuMatches(sys.v4l) :
               d = Device(Name("vpu", classifyVPU(n), Cardinality(Earlier(sys.v4l, n))),
                          CharDevice("video", n.index), maxAllocations(cfg.override["vpu"], 1))
        BY <3>2, <3>3, VPUsAreMatches
      <4> QED BY <4>1, NewDevice
    <3>5. {"av1", "vepu"} \cap (n.compat \cup n.card) = {}
      BY <2>2, <3>4, ClassifyOneBlock, NamesAndNodes
    <3>6. PICK e \in sys.v4l : e.index = n.index /\ e.compat = n.compat /\ e.card = n.card
      BY NodesHaveDistinctIndices DEF Readable, vpuMatches
    <3> QED BY <3>4, <3>5, <3>6 DEF DecoderNode
  <2> QED BY <2>1, <2>2
<1> QED BY <1>1, <1>2

-----------------------------------------------------------------------------
\* Mock mode.

\* VPUs and RGAs are not shared unless their cap is raised.
LEMMA VideoNodesAreNotShared ==
    ASSUME NEW sys, NEW cfg, Readable(sys, cfg), cfg.mock \in BOOLEAN,
           cfg.override["vpu"] <= 1, cfg.override["rga"] <= 1,
           NEW d \in ToSet(Enumerate(sys, cfg)), d.node[1] = "video"
    PROVE  d.max = 1
<1>1. cfg.override["vpu"] \in Int /\ cfg.override["rga"] \in Int
  BY DEF Readable, Types
<1>2. maxAllocations(cfg.override["vpu"], 1) = 1 /\ maxAllocations(cfg.override["rga"], 1) = 1
  BY <1>1 DEF maxAllocations
<1>3. CASE cfg.mock
  <2>1. d \in {MockNPU(cfg), MockGPU(cfg), MockVPU(cfg), MockRGA(cfg)}
    BY <1>3, EnumerateMock
  <2>2. MockNPU(cfg).node[1] = "accel" /\ MockGPU(cfg).node[1] = "renderD"
    BY NewDevice, NamesAndNodes DEF MockNPU, MockGPU, Mock
  <2>3. MockVPU(cfg).max = 1 /\ MockRGA(cfg).max = 1
    BY <1>2, NewDevice DEF MockVPU, MockRGA, Mock
  <2> QED BY <2>1, <2>2, <2>3
<1>4. CASE ~cfg.mock
  <2>1. d \in ToSet(VPUs(sys, cfg)) \/ d \in ToSet(RGAs(sys, cfg))
    BY <1>4, EnumerateSysfs DEF ListOf
  <2>2. CASE d \in ToSet(VPUs(sys, cfg))
    <3>1. d \in ToSet(discoverVPU(sys.v4l, cfg.override["vpu"]))
      BY <2>2, ShortLists DEF VPUs, On
    <3>2. V4LClass(sys.v4l)
      BY DEF Readable
    <3>3. \E n \in vpuMatches(sys.v4l) :
             d = Device(Name("vpu", classifyVPU(n), Cardinality(Earlier(sys.v4l, n))),
                        CharDevice("video", n.index), maxAllocations(cfg.override["vpu"], 1))
      BY <1>1, <3>1, <3>2, VPUsAreMatches
    <3> QED BY <1>2, <3>3, NewDevice
  <2>3. CASE d \in ToSet(RGAs(sys, cfg))
    <3>1. d \in ToSet(discoverRGA(sys.v4l, cfg.override["rga"]))
      BY <2>3, ShortLists DEF RGAs, On
    <3>2. PICK i \in DOMAIN discoverRGA(sys.v4l, cfg.override["rga"]) :
             d = discoverRGA(sys.v4l, cfg.override["rga"])[i]
      BY <3>1 DEF ToSet
    <3> QED BY <1>1, <1>2, <3>2, RGAList, NewDevice DEF Readable
  <2> QED BY <2>1, <2>2, <2>3
<1> QED BY <1>3, <1>4

\* A board on which just the devices of mock mode are bound.
MockBoard(sys) ==
    /\ sys.cores = 3
    /\ {e.index : e \in sys.accel} = {0}
    /\ {<<e.index, e.drivers[1]>> : e \in sys.render} = {<<128, "panthor">>}
    /\ {<<n.index, n.driver>> : n \in discoverV4L(sys.v4l)} = {<<2, "rkvdec">>, <<0, "rockchip-rga">>}

\* No two entries of a directory have the same file name.
DistinctFiles(class) == \A e, f \in class : e.index = f.index => e = f

\* The first of the entries is the only one.
LEMMA OnlyEntry ==
    ASSUME NEW e
    PROVE  FirstListed({e}) = e
BY DEF FirstListed

\* discoverNPU finds mock mode's NPU on the board.
LEMMA MockNPUOnBoard ==
    ASSUME NEW sys, NEW cfg, NEW mock, MockBoard(sys), DistinctFiles(sys.accel),
           cfg.enabled = mock.enabled, cfg.override = mock.override
    PROVE  NPUs(sys, cfg) = MockNPUs(mock)
<1>1. PICK e : sys.accel = {e} /\ e.index = 0
  <2>1. PICK e \in sys.accel : e.index = 0
    BY DEF MockBoard
  <2>2. \A f \in sys.accel : f.index = 0
    BY DEF MockBoard
  <2> QED BY <2>1, <2>2 DEF DistinctFiles
<1>2. rocketAccelNode(sys.accel) = CharDevice("accel", 0)
  <2>1. {f \in sys.accel : isRocketAccel(f)} = {e} \/ {f \in sys.accel : isRocketAccel(f)} = {}
    BY <1>1
  <2>2. sys.accel # {} /\ {e} # {} /\ FirstListed({e}).index = 0
    BY <1>1, OnlyEntry
  <2> QED BY <1>1, <2>1, <2>2 DEF rocketAccelNode
<1>3. sys.cores = 3
  BY DEF MockBoard
<1> QED BY <1>2, <1>3 DEF NPUs, MockNPUs, MockNPU, Mock, On, discoverNPU

\* discoverGPU finds mock mode's GPU on the board.
LEMMA MockGPUOnBoard ==
    ASSUME NEW sys, NEW cfg, NEW mock, MockBoard(sys), DistinctFiles(sys.render),
           cfg.enabled = mock.enabled, cfg.override = mock.override
    PROVE  GPUs(sys, cfg) = MockGPUs(mock)
<1> DEFINE panthor == {e \in sys.render : boundDriver(<<e.drivers[1], e.drivers[2], NoDriver>>) = "panthor"}
<1>1. \A e \in sys.render : e.index = 128 /\ e.drivers[1] = "panthor"
  <2>1. \A e \in sys.render : <<e.index, e.drivers[1]>> = <<128, "panthor">>
    BY DEF MockBoard
  <2> QED BY <2>1
<1>2. PICK e : sys.render = {e} /\ e.index = 128
  <2>1. PICK e \in sys.render : TRUE
    BY DEF MockBoard
  <2> QED BY <1>1, <2>1 DEF DistinctFiles
<1>3. panthor = {e}
  BY <1>1, <1>2 DEF boundDriver, NoDriver
<1>4. discoverGPU(sys.render, cfg.override["gpu"]) =
        << Device(Name("gpu", NoBlock, 0), CharDevice("renderD", FirstListed(panthor).index),
                  maxAllocations(cfg.override["gpu"], 8)) >>
  BY <1>3 DEF discoverGPU
<1> HIDE DEF panthor
<1>5. FirstListed(panthor).index = 128
  BY <1>2, <1>3, OnlyEntry
<1> QED BY <1>4, <1>5 DEF GPUs, MockGPUs, MockGPU, Mock, On

\* The two video4linux nodes of the board: one is a VPU, the other is an RGA.
LEMMA MockNodesOnBoard ==
    ASSUME NEW sys, MockBoard(sys), V4LClass(sys.v4l)
    PROVE  \E v, r : /\ discoverV4L(sys.v4l) = {v, r}
                     /\ v.index = 2 /\ v.driver = "rkvdec"
                     /\ r.index = 0 /\ r.driver = "rockchip-rga"
                     /\ vpuMatches(sys.v4l) = {v} /\ rgaMatches(sys.v4l) = {r}
<1> DEFINE nodes == discoverV4L(sys.v4l)
<1>1. {<<n.index, n.driver>> : n \in nodes} = {<<2, "rkvdec">>, <<0, "rockchip-rga">>}
  BY DEF MockBoard
<1> HIDE DEF nodes
<1>2. PICK v \in nodes : <<v.index, v.driver>> = <<2, "rkvdec">>
  BY <1>1
<1>3. PICK r \in nodes : <<r.index, r.driver>> = <<0, "rockchip-rga">>
  BY <1>1
<1>4. \A n \in nodes : <<n.index, n.driver>> \in {<<2, "rkvdec">>, <<0, "rockchip-rga">>}
  BY <1>1
<1>5. v.index = 2 /\ v.driver = "rkvdec" /\ r.index = 0 /\ r.driver = "rockchip-rga"
  BY <1>2, <1>3
<1>6. \A n \in nodes : n.index = 2 \/ n.index = 0
  BY <1>4
<1>7. nodes = {v, r}
  BY <1>5, <1>6, NodesHaveDistinctIndices DEF nodes
<1>8. classifyVPU(v) = "rkvdec" /\ classifyVPU(r) = NoBlock
  BY <1>5, <1>7, ClassifyOneBlock DEF nodes
<1>9. vpuMatches(sys.v4l) = {v}
  BY <1>7, <1>8 DEF nodes, vpuMatches, NoBlock
<1>10. rgaMatches(sys.v4l) = {r}
  BY <1>5, <1>7 DEF nodes, rgaMatches
<1> QED BY <1>5, <1>7, <1>9, <1>10 DEF nodes

\* discoverVPU finds mock mode's VPU on the board.
LEMMA MockVPUOnBoard ==
    ASSUME NEW sys, NEW cfg, NEW mock, MockBoard(sys), Readable(sys, cfg),
           cfg.enabled = mock.enabled, cfg.override = mock.override
    PROVE  ToSet(VPUs(sys, cfg)) = ToSet(MockVPUs(mock))
<1>1. PICK v, r : /\ discoverV4L(sys.v4l) = {v, r}
                  /\ v.index = 2 /\ v.driver = "rkvdec"
                  /\ r.index = 0 /\ r.driver = "rockchip-rga"
                  /\ vpuMatches(sys.v4l) = {v}
  BY MockNodesOnBoard DEF Readable
<1>2. classifyVPU(v) = "rkvdec" /\ classifyVPU(r) = NoBlock /\ "rkvdec" # NoBlock
  BY <1>1, ClassifyOneBlock DEF NoBlock
<1>3. Earlier(sys.v4l, v) = {}
  BY <1>1, <1>2 DEF Earlier
<1>4. Cardinality(Earlier(sys.v4l, v)) = 0
  BY <1>3, FS_EmptySet
<1>5. cfg.override["vpu"] \in Int
  BY DEF Readable, Types
<1> DEFINE device(n) == Device(Name("vpu", classifyVPU(n), Cardinality(Earlier(sys.v4l, n))),
                               CharDevice("video", n.index), maxAllocations(cfg.override["vpu"], 1))
<1>6. ToSet(discoverVPU(sys.v4l, cfg.override["vpu"])) = {device(n) : n \in vpuMatches(sys.v4l)}
  BY <1>5, VPUsAreMatches DEF Readable
<1>7. device(v) = MockVPU(mock)
  BY <1>1, <1>2, <1>4 DEF MockVPU, Mock
<1> HIDE DEF device
<1>8. ToSet(discoverVPU(sys.v4l, cfg.override["vpu"])) = {MockVPU(mock)}
  BY <1>1, <1>6, <1>7
<1> QED BY <1>8, ShortLists DEF VPUs, MockVPUs, On

\* discoverRGA finds mock mode's RGA on the board.
LEMMA MockRGAOnBoard ==
    ASSUME NEW sys, NEW cfg, NEW mock, MockBoard(sys), Readable(sys, cfg),
           cfg.enabled = mock.enabled, cfg.override = mock.override
    PROVE  ToSet(RGAs(sys, cfg)) = ToSet(MockRGAs(mock))
<1>1. PICK r : r.index = 0 /\ rgaMatches(sys.v4l) = {r}
  BY MockNodesOnBoard DEF Readable
<1> DEFINE m == sortedRGA(sys.v4l)
           s == discoverRGA(sys.v4l, cfg.override["rga"])
<1>2. Cardinality(rgaMatches(sys.v4l)) = 1
  BY <1>1, FS_Singleton
<1>3. DOMAIN m = 1..1 /\ m[1] = r
  <2>1. m \in [1..1 -> {r}]
    BY <1>1, <1>2, RGAsAreSorted DEF Readable
  <2> HIDE DEF m
  <2> QED BY <2>1
<1>4. cfg.override["rga"] \in Int
  BY DEF Readable, Types
<1>5. /\ DOMAIN s = DOMAIN m
      /\ \A i \in DOMAIN m : s[i] = Device(Name("rga", NoBlock, i - 1), CharDevice("video", m[i].index),
                                           maxAllocations(cfg.override["rga"], 1))
  BY <1>4, RGAList DEF Readable
<1> HIDE DEF m, s
<1>6. s[1] = Device(Name("rga", NoBlock, 0), CharDevice("video", 0), maxAllocations(cfg.override["rga"], 1))
  BY <1>1, <1>3, <1>5
<1>7. s[1] = MockRGA(mock)
  BY <1>6 DEF MockRGA, Mock
<1>8. ToSet(s) = {MockRGA(mock)}
  BY <1>3, <1>5, <1>7 DEF ToSet
<1> QED BY <1>8, ShortLists DEF RGAs, MockRGAs, On, s
=============================================================================
