------------------------ MODULE NodeOwnershipProofs -------------------------
(***************************************************************************)
(* The properties of NodeOwnership, for every board, every set of flags,   *)
(* any number of claims and all requests.                                  *)
(***************************************************************************)
EXTENDS NodeOwnership, DiscoveryProofs

-----------------------------------------------------------------------------
\* What sysfs shows is part of the board.

SysOK ==
    /\ setup \in Setups
    /\ sys \in [cores: Nat, accel: SUBSET setup.entries.accel,
                render: SUBSET setup.entries.render, v4l: SUBSET setup.entries.v4l]

\* Binding and unbinding shows entries of the board and nothing else; no other
\* step changes sysfs.
LEMMA SysOKStep == SysOK /\ [Next]_ownership => SysOK'
<1> SUFFICES ASSUME SysOK, [Next]_ownership PROVE SysOK'
  OBVIOUS
<1>1. CASE SysfsChanges
  <2>1. setup' = setup
    BY <1>1 DEF SysfsChanges
  <2>2. CASE \E n \in setup.cores : sys' = [sys EXCEPT !.cores = n]
    <3>1. setup.cores \subseteq Nat
      BY SetupAssumption DEF SysOK, Setup
    <3> QED BY <2>1, <2>2, <3>1 DEF SysOK
  <2>3. CASE \E class \in DOMAIN setup.entries : \E e \in setup.entries[class] : Toggle(class, e)
    <3>1. PICK class \in DOMAIN setup.entries : \E e \in setup.entries[class] : Toggle(class, e)
      BY <2>3
    <3>2. DOMAIN setup.entries = {"v4l", "accel", "render"}
      BY SetupAssumption DEF SysOK, Setup
    <3>3. CASE class = "v4l"
      BY <2>1, <3>1, <3>3 DEF SysOK, Toggle
    <3>4. CASE class = "accel"
      BY <2>1, <3>1, <3>4 DEF SysOK, Toggle
    <3>5. CASE class = "render"
      BY <2>1, <3>1, <3>5 DEF SysOK, Toggle
    <3> QED BY <3>2, <3>3, <3>4, <3>5
  <2> QED BY <1>1, <2>2, <2>3 DEF SysfsChanges
<1>2. CASE UNCHANGED <<setup, sys>>
  BY <1>2 DEF SysOK
<1>3. [Next]_ownership => SysfsChanges \/ UNCHANGED <<setup, sys>>
  BY DEF Next, ownership, Reconcile, Prepare, Unprepare, Allocate
<1> QED BY <1>1, <1>2, <1>3

\* At the start nothing is bound.
LEMMA SysOKInit == Init => SysOK
BY DEF Init, SysOK

\* Enumerate can read what sysfs shows.
LEMMA SysIsReadable ==
    ASSUME SysOK
    PROVE  /\ Readable(sys, discoveryConfig(setup.flags))
           /\ discoveryConfig(setup.flags).mock \in BOOLEAN
           /\ DistinctFiles(sys.accel) /\ DistinctFiles(sys.render)
<1>1. /\ setup \in Setup
      /\ IsFiniteSet(setup.entries.v4l)
      /\ \A e, f \in setup.entries.v4l : e # f /\ e.index = f.index => e.index = NotVideo
      /\ \A e, f \in setup.entries.accel : e.index = f.index => e = f
      /\ \A e, f \in setup.entries.render : e.index = f.index => e = f
  BY SetupAssumption DEF SysOK
<1>2. /\ sys.cores \in Nat /\ sys.v4l \subseteq setup.entries.v4l
      /\ sys.accel \subseteq setup.entries.accel /\ sys.render \subseteq setup.entries.render
  BY DEF SysOK
<1>3. setup.entries.v4l \subseteq V4LEntry
  BY <1>1 DEF Setup
<1>4. V4LClass(sys.v4l)
  <2>1. IsFiniteSet(sys.v4l)
    BY <1>1, <1>2, FS_Subset
  <2> QED BY <1>1, <1>2, <1>3, <2>1 DEF V4LClass
<1>5. discoveryConfig(setup.flags).override \in [Types -> Int]
      /\ discoveryConfig(setup.flags).mock \in BOOLEAN
  BY <1>1 DEF Setup, discoveryConfig
<1> QED BY <1>1, <1>2, <1>4, <1>5 DEF Readable, DistinctFiles

-----------------------------------------------------------------------------
\* The inductive invariant.

\* Every tracked device has a node and a cap, and untainted ones share no node.
TrackedOK ==
    /\ \A n \in DOMAIN tracked :
        /\ n # None
        /\ tracked[n].node # None
        /\ tracked[n].max \in Nat \ {0}
        /\ tracked[n].tainted \in BOOLEAN
        /\ n[2] = "hantro-dec" => DecoderNode(setup.entries.v4l, tracked[n].node)
    /\ \A n, m \in DOMAIN tracked :
        n # m /\ ~tracked[n].tainted /\ ~tracked[m].tainted => tracked[n].node # tracked[m].node

\* A claim without a name holds nothing, a claim with one holds at least one
\* share, and a prepared claim's name stays tracked.
ClaimsOK ==
    /\ DOMAIN alloc = Claims
    /\ DOMAIN injected = Claims
    /\ shares \in [Claims -> Nat]
    /\ whole \subseteq Claims
    /\ settled \subseteq Claims
    /\ \A c \in Claims :
        /\ alloc[c] = None => injected[c] = None /\ shares[c] = 0 /\ c \notin whole /\ c \notin settled
        /\ alloc[c] # None => shares[c] # 0
        /\ injected[c] # None => alloc[c] \in DOMAIN tracked

\* A settled claim's name is published and untainted, and the claim's container
\* has no other node than the name's.
SettledOK ==
    \A c \in settled :
        /\ alloc[c] \in DOMAIN tracked
        /\ ~tracked[alloc[c]].tainted
        /\ injected[c] # None => injected[c] = tracked[alloc[c]].node

\* A claim that took every share is alone on its name, and while the name is
\* untainted its cap is no more than what the claim took.
WholeOK ==
    \A c \in whole :
        /\ \A d \in Claims : d # c => alloc[d] # alloc[c]
        /\ alloc[c] \in DOMAIN tracked /\ ~tracked[alloc[c]].tainted
             => tracked[alloc[c]].max <= shares[c]

IInv == SysOK /\ TrackedOK /\ ClaimsOK /\ SettledOK /\ WholeOK /\ DecoderClaimGetsDecoder

-----------------------------------------------------------------------------
\* What the steps rest on.

\* What is found has distinct names and nodes, can be handed out, and its H.264
\* decoders are decoders of the board.
LEMMA FoundDevices ==
    ASSUME SysOK
    PROVE  /\ DeviceList(Found)
           /\ \A d \in ToSet(Found) :
                 Usable(d) /\ (d.name[2] = "hantro-dec" => DecoderNode(setup.entries.v4l, d.node))
<1>1. /\ DeviceList(Found)
      /\ \A d \in ToSet(Found) :
            Usable(d) /\ (d.name[2] = "hantro-dec" => DecoderNode(sys.v4l, d.node))
  BY SysIsReadable, EnumeratedDevices DEF Found
<1>2. sys.v4l \subseteq setup.entries.v4l
  BY DEF SysOK
<1>3. \A node : DecoderNode(sys.v4l, node) => DecoderNode(setup.entries.v4l, node)
  BY <1>2 DEF DecoderNode
<1> QED BY <1>1, <1>3

\* applyDiscoveryLocked indexes the devices by name: a name leads to the device
\* that has it, and two names to two nodes.
LEMMA IndexedByName ==
    ASSUME NEW found, DeviceList(found)
    PROVE  /\ \A n \in Names(found) :
                 DeviceNamed(found, n) \in ToSet(found) /\ DeviceNamed(found, n).name = n
           /\ \A n, m \in Names(found) :
                 n # m => DeviceNamed(found, n).node # DeviceNamed(found, m).node
<1> DEFINE at(n) == CHOOSE i \in DOMAIN found : found[i].name = n
<1>1. \A n \in Names(found) : at(n) \in DOMAIN found /\ found[at(n)].name = n
  BY DEF Names
<1>2. \A n : DeviceNamed(found, n) = found[at(n)]
  BY DEF DeviceNamed
<1>3. \A i \in DOMAIN found : found[i] \in ToSet(found)
  BY DEF ToSet
<1>4. \A i, j \in DOMAIN found : i # j => found[i].node # found[j].node
  BY DEF DeviceList, NoneInCommon
<1> HIDE DEF at
<1> QED BY <1>1, <1>2, <1>3, <1>4

\* The shares in use are a number, and no claim has more of them than are in use.
LEMMA InUseBounds ==
    ASSUME shares \in [Claims -> Nat], NEW n
    PROVE  /\ InUse(n) \in Nat
           /\ \A c \in Claims : alloc[c] = n => shares[c] <= InUse(n)
<1> DEFINE H == {d \in Claims : alloc[d] = n}
           Part(c) == {c} \X (1..shares[c])
           parts == {Part(c) : c \in H}
           f == [c \in H |-> Part(c)]
<1>1. IsFiniteSet(H)
  BY ClaimAssumption, FS_Subset
<1>2. IsFiniteSet(parts)
  <2>1. f \in Surjection(H, parts)
    BY DEF Surjection
  <2> QED BY <1>1, <2>1, FS_Surjection
<1>3. \A c \in Claims : IsFiniteSet(Part(c)) /\ Cardinality(Part(c)) = shares[c]
  <2> SUFFICES ASSUME NEW c \in Claims
               PROVE  IsFiniteSet(Part(c)) /\ Cardinality(Part(c)) = shares[c]
    OBVIOUS
  <2>1. IsFiniteSet({c}) /\ Cardinality({c}) = 1
    BY FS_Singleton
  <2>2. IsFiniteSet(1..shares[c]) /\ Cardinality(1..shares[c]) = shares[c]
    BY FS_Interval
  <2>3. /\ IsFiniteSet({c} \X (1..shares[c]))
        /\ Cardinality({c} \X (1..shares[c])) = Cardinality({c}) * Cardinality(1..shares[c])
    BY <2>1, <2>2, FS_Product
  <2>4. 1 * shares[c] = shares[c]
    OBVIOUS
  <2> QED BY <2>1, <2>2, <2>3, <2>4
<1>4. IsFiniteSet(UNION parts)
  BY <1>2, <1>3, FS_UNION
<1>5. InUse(n) = Cardinality(UNION parts)
  BY DEF InUse
<1>6. ASSUME NEW c \in Claims, alloc[c] = n PROVE shares[c] <= InUse(n)
  <2>1. Part(c) \subseteq UNION parts
    BY <1>6
  <2> HIDE DEF parts, Part
  <2>2. Cardinality(Part(c)) <= Cardinality(UNION parts)
    BY <1>4, <2>1, FS_Subset
  <2> QED BY <1>3, <1>5, <2>2
<1> QED BY <1>4, <1>5, <1>6, FS_CardinalityType

-----------------------------------------------------------------------------
\* The inductive invariant is one.

\* At the start nothing is tracked and no claim has a device.
LEMMA IInvInit == Init => IInv
<1> SUFFICES ASSUME Init PROVE IInv
  OBVIOUS
<1>1. TrackedOK
  BY DEF Init, TrackedOK
<1>2. ClaimsOK
  BY DEF Init, ClaimsOK
<1>3. SettledOK /\ WholeOK
  BY DEF Init, SettledOK, WholeOK
<1>4. DecoderClaimGetsDecoder
  BY DEF Init, DecoderClaimGetsDecoder
<1> QED BY <1>1, <1>2, <1>3, <1>4, SysOKInit DEF IInv

\* Reconcile: the names of prepared claims stay tracked, and the history
\* variables keep only what it leaves true.
LEMMA ReconcileStep == IInv /\ SysOK' /\ Reconcile => IInv'
<1> SUFFICES ASSUME IInv, SysOK', Reconcile PROVE IInv'
  OBVIOUS
<1> DEFINE names == Names(Found)
           device(n) == DeviceNamed(Found, n)
<1>1. /\ tracked' = [n \in names \cup HeldNames |->
                        IF n \in names
                        THEN Tracked(device(n).node, device(n).max, FALSE)
                        ELSE Tracked(tracked[n].node, tracked[n].max, TRUE)]
      /\ settled' = {c \in settled : /\ alloc[c] \in names
                                     /\ device(alloc[c]).node = tracked[alloc[c]].node}
      /\ whole' = {c \in whole : alloc[c] \in names => device(alloc[c]).max <= shares[c]}
      /\ UNCHANGED <<setup, sys, alloc, shares, injected>>
  BY DEF Reconcile, claimVars
<1>2. \A n \in names :
        /\ n # None /\ device(n).node # None /\ device(n).max \in Nat \ {0}
        /\ n[2] = "hantro-dec" => DecoderNode(setup.entries.v4l, device(n).node)
  BY FoundDevices, IndexedByName DEF IInv, Usable, None
<1>3. \A n, m \in names : n # m => device(n).node # device(m).node
  BY FoundDevices, IndexedByName DEF IInv
<1>4. HeldNames \subseteq DOMAIN tracked /\ \A c \in Claims : injected[c] # None => alloc[c] \in HeldNames
  BY DEF IInv, ClaimsOK, HeldNames
<1> HIDE DEF names, device
<1>5. /\ DOMAIN tracked' = names \cup HeldNames
      /\ \A n \in names : /\ tracked'[n].node = device(n).node
                          /\ tracked'[n].max = device(n).max
                          /\ tracked'[n].tainted = FALSE
      /\ \A n \in HeldNames \ names : /\ tracked'[n].node = tracked[n].node
                                      /\ tracked'[n].max = tracked[n].max
                                      /\ tracked'[n].tainted = TRUE
  BY <1>1 DEF Tracked
<1>6. TrackedOK'
  <2>1. ASSUME NEW n \in names \cup HeldNames PROVE
          /\ n # None /\ tracked'[n].node # None /\ tracked'[n].max \in Nat \ {0}
          /\ tracked'[n].tainted \in BOOLEAN
          /\ n[2] = "hantro-dec" => DecoderNode(setup.entries.v4l, tracked'[n].node)
    <3>1. CASE n \in names
      BY <1>2, <1>5, <3>1
    <3>2. CASE n \in HeldNames \ names
      <4>1. /\ n # None /\ tracked[n].node # None /\ tracked[n].max \in Nat \ {0}
            /\ n[2] = "hantro-dec" => DecoderNode(setup.entries.v4l, tracked[n].node)
        BY <1>4, <3>2 DEF IInv, TrackedOK
      <4> QED BY <1>5, <3>2, <4>1
    <3> QED BY <2>1, <3>1, <3>2
  <2>2. ASSUME NEW n \in names \cup HeldNames, NEW m \in names \cup HeldNames,
               n # m, ~tracked'[n].tainted, ~tracked'[m].tainted
        PROVE  tracked'[n].node # tracked'[m].node
    <3>1. n \in names /\ m \in names
      BY <1>5, <2>2
    <3> QED BY <1>3, <1>5, <2>2, <3>1
  <2>3. setup' = setup /\ DOMAIN tracked' = names \cup HeldNames
    BY <1>1, <1>5
  <2> QED BY <2>1, <2>2, <2>3 DEF TrackedOK
<1>7. ClaimsOK'
  BY <1>1, <1>4, <1>5 DEF IInv, ClaimsOK
<1>8. SettledOK'
  BY <1>1, <1>5 DEF IInv, SettledOK
<1>9. WholeOK'
  BY <1>1, <1>5 DEF IInv, WholeOK
<1>10. DecoderClaimGetsDecoder'
  BY <1>1 DEF IInv, DecoderClaimGetsDecoder
<1> QED BY <1>6, <1>7, <1>8, <1>9, <1>10 DEF IInv

\* What the scheduler hands out is at least one share and fits beside what is in
\* use, so a claim with every share leaves no room for a second one.
LEMMA AllocateStep ==
    ASSUME IInv, SysOK', NEW c \in Claims, NEW n \in DOMAIN tracked, Allocate(c, n)
    PROVE  IInv'
<1> DEFINE policy == shareRequestPolicy(tracked[n].max)
<1>1. tracked[n].max \in Nat \ {0} /\ n # None /\ ~tracked[n].tainted /\ alloc[c] = None
  BY DEF IInv, TrackedOK, Allocate
<1>2. policy.default = 1 /\ policy.min = 1 /\ policy.max = tracked[n].max
  BY <1>1 DEF shareRequestPolicy
<1>3. PICK request \in Requests \cup {policy.default} :
        /\ InUse(n) + Consumed(policy, request) <= tracked[n].max
        /\ shares' = [shares EXCEPT ![c] = Consumed(policy, request)]
        /\ whole' = IF Consumed(policy, request) = tracked[n].max THEN whole \cup {c} ELSE whole
  BY DEF Allocate
<1> DEFINE taken == Consumed(policy, request)
<1>4. taken \in Nat \ {0}
  BY <1>2, ClaimAssumption DEF Consumed
<1>5. /\ InUse(n) + taken <= tracked[n].max
      /\ shares' = [shares EXCEPT ![c] = taken]
      /\ whole' = IF taken = tracked[n].max THEN whole \cup {c} ELSE whole
  BY <1>3
<1> HIDE DEF taken, policy
<1>6. /\ alloc' = [alloc EXCEPT ![c] = n]
      /\ settled' = settled \cup {c}
      /\ UNCHANGED <<setup, sys, tracked, injected>>
  BY DEF Allocate
<1>7. ClaimsOK /\ injected[c] = None /\ c \notin whole /\ c \notin settled
  BY <1>1 DEF IInv, ClaimsOK
<1>8. InUse(n) \in Nat /\ \A d \in Claims : alloc[d] = n => shares[d] <= InUse(n)
  BY <1>7, InUseBounds DEF ClaimsOK
<1>9. TrackedOK'
  BY <1>6 DEF IInv, TrackedOK
<1>10. ClaimsOK'
  BY <1>1, <1>4, <1>5, <1>6, <1>7 DEF ClaimsOK
<1>11. SettledOK'
  BY <1>1, <1>6, <1>7 DEF IInv, ClaimsOK, SettledOK
<1>12. WholeOK'
  <2>1. \A w \in whole : alloc[w] # n
    <3> SUFFICES ASSUME NEW w \in whole, alloc[w] = n PROVE FALSE
      OBVIOUS
    <3>1. tracked[n].max <= shares[w] /\ w \in Claims /\ shares[w] \in Nat
      BY <1>1, <1>7 DEF IInv, WholeOK, ClaimsOK
    <3> QED BY <1>1, <1>4, <1>5, <1>8, <3>1
  <2>2. taken = tracked[n].max => \A d \in Claims : alloc[d] # n
    <3> SUFFICES ASSUME taken = tracked[n].max, NEW d \in Claims, alloc[d] = n PROVE FALSE
      OBVIOUS
    <3>1. shares[d] \in Nat \ {0}
      BY <1>1, <1>7 DEF ClaimsOK
    <3> QED BY <1>1, <1>4, <1>5, <1>8, <3>1
  <2>3. \A w \in whole : w \in Claims /\ w # c
    BY <1>7 DEF ClaimsOK
  <2>4. DOMAIN alloc = Claims /\ shares \in [Claims -> Nat]
    BY <1>7 DEF ClaimsOK
  <2>5. ASSUME NEW w \in whole PROVE
          /\ \A d \in Claims : d # w => alloc'[d] # alloc'[w]
          /\ alloc'[w] \in DOMAIN tracked' /\ ~tracked'[alloc'[w]].tainted
               => tracked'[alloc'[w]].max <= shares'[w]
    BY <1>5, <1>6, <2>1, <2>3, <2>4 DEF IInv, WholeOK
  <2>6. ASSUME taken = tracked[n].max PROVE
          /\ \A d \in Claims : d # c => alloc'[d] # alloc'[c]
          /\ tracked'[alloc'[c]].max <= shares'[c]
    BY <1>1, <1>4, <1>5, <1>6, <2>2, <2>4, <2>6
  <2> QED BY <1>5, <2>5, <2>6 DEF WholeOK
<1>13. DecoderClaimGetsDecoder'
  BY <1>6, <1>7 DEF IInv, DecoderClaimGetsDecoder, ClaimsOK
<1> QED BY <1>9, <1>10, <1>11, <1>12, <1>13 DEF IInv

\* Prepare injects the node that the name has now, which is a tracked one.
LEMMA PrepareStep ==
    ASSUME IInv, SysOK', NEW c \in Claims, Prepare(c)
    PROVE  IInv'
<1>1. /\ alloc[c] \in DOMAIN tracked /\ ~tracked[alloc[c]].tainted
      /\ injected' = [injected EXCEPT ![c] = tracked[alloc[c]].node]
      /\ UNCHANGED <<setup, sys, tracked, alloc, shares, whole, settled>>
  BY DEF Prepare, history
<1>2. alloc[c] # None
  BY <1>1 DEF IInv, TrackedOK
<1>3. TrackedOK' /\ WholeOK'
  BY <1>1 DEF IInv, TrackedOK, WholeOK
<1>4. ClaimsOK'
  BY <1>1, <1>2 DEF IInv, ClaimsOK
<1>5. SettledOK'
  BY <1>1 DEF IInv, ClaimsOK, SettledOK
<1>6. DecoderClaimGetsDecoder'
  BY <1>1 DEF IInv, ClaimsOK, TrackedOK, DecoderClaimGetsDecoder, DecoderNode
<1> QED BY <1>3, <1>4, <1>5, <1>6 DEF IInv

\* Unprepare forgets the claim everywhere.
LEMMA UnprepareStep ==
    ASSUME IInv, SysOK', NEW c \in Claims, Unprepare(c)
    PROVE  IInv'
<1>1. /\ injected' = [injected EXCEPT ![c] = None]
      /\ alloc' = [alloc EXCEPT ![c] = None]
      /\ shares' = [shares EXCEPT ![c] = 0]
      /\ whole' = whole \ {c}
      /\ settled' = settled \ {c}
      /\ UNCHANGED <<setup, sys, tracked>>
  BY DEF Unprepare
<1>2. TrackedOK'
  BY <1>1 DEF IInv, TrackedOK
<1>3. ClaimsOK'
  BY <1>1 DEF IInv, ClaimsOK
<1>4. SettledOK'
  BY <1>1 DEF IInv, ClaimsOK, SettledOK
<1>5. WholeOK'
  BY <1>1 DEF IInv, ClaimsOK, WholeOK
<1>6. DecoderClaimGetsDecoder'
  BY <1>1 DEF IInv, ClaimsOK, DecoderClaimGetsDecoder
<1> QED BY <1>2, <1>3, <1>4, <1>5, <1>6 DEF IInv

\* A bind or an unbind changes nothing but sysfs until the next Reconcile.
LEMMA OtherStep ==
    ASSUME IInv, SysOK', UNCHANGED <<setup, tracked, claimVars, history>>
    PROVE  IInv'
BY DEF IInv, TrackedOK, ClaimsOK, SettledOK, WholeOK, DecoderClaimGetsDecoder, claimVars, history

\* Every step keeps the inductive invariant.
LEMMA IInvStep == IInv /\ [Next]_ownership => IInv'
<1> SUFFICES ASSUME IInv, [Next]_ownership PROVE IInv'
  OBVIOUS
<1>1. SysOK'
  BY SysOKStep DEF IInv
<1>2. CASE SysfsChanges
  BY <1>1, <1>2, OtherStep DEF SysfsChanges
<1>3. CASE Reconcile
  BY <1>1, <1>3, ReconcileStep
<1>4. ASSUME NEW c \in Claims, Prepare(c) PROVE IInv'
  BY <1>1, <1>4, PrepareStep
<1>5. ASSUME NEW c \in Claims, Unprepare(c) PROVE IInv'
  BY <1>1, <1>5, UnprepareStep
<1>6. ASSUME NEW c \in Claims, NEW n \in DOMAIN tracked, Allocate(c, n) PROVE IInv'
  BY <1>1, <1>6, AllocateStep
<1>7. CASE UNCHANGED ownership
  BY <1>1, <1>7, OtherStep DEF ownership
<1> QED BY <1>2, <1>3, <1>4, <1>5, <1>6, <1>7 DEF Next

\* The inductive invariant holds throughout.
LEMMA Invariant == Spec => []IInv
BY IInvInit, IInvStep, PTL DEF Spec

-----------------------------------------------------------------------------
\* The properties.

\* Whatever is bound, Enumerate returns devices with distinct names and nodes.
THEOREM DevicesAreDistinct == Spec => []DistinctDevices
<1>1. SysOK => DistinctDevices
  BY FoundDevices DEF DistinctDevices, DeviceList, NoneInCommon
<1>2. IInv => SysOK
  BY DEF IInv
<1> QED BY <1>1, <1>2, Invariant, PTL

\* Whatever was bound between a claim's allocation and its Prepare, a claim for
\* an H.264 decoder gets neither an AV1 decoder nor an encoder.
THEOREM DecoderClaims == Spec => []DecoderClaimGetsDecoder
<1>1. IInv => DecoderClaimGetsDecoder
  BY DEF IInv
<1> QED BY <1>1, Invariant, PTL

\* A claim that took every share is the only one with the node.
THEOREM WholeCount == Spec => []WholeCountIsExclusive
<1>1. ASSUME IInv PROVE WholeCountIsExclusive
  <2> SUFFICES ASSUME NEW c \in whole \cap settled, NEW d \in settled, c # d,
                      injected[c] # None, injected[d] = injected[c]
               PROVE  FALSE
    BY DEF WholeCountIsExclusive
  <2>1. /\ alloc[c] \in DOMAIN tracked /\ ~tracked[alloc[c]].tainted
        /\ alloc[d] \in DOMAIN tracked /\ ~tracked[alloc[d]].tainted
        /\ tracked[alloc[c]].node = tracked[alloc[d]].node
    BY <1>1 DEF IInv, SettledOK
  <2>2. alloc[d] # alloc[c]
    BY <1>1 DEF IInv, ClaimsOK, WholeOK
  <2> QED BY <1>1, <2>1, <2>2 DEF IInv, TrackedOK
<1> QED BY <1>1, Invariant, PTL

\* With the default caps a tracked video node has one share, so a settled claim
\* that holds it took every share.
VideoOK ==
    setup.flags.max["vpu"] <= 1 /\ setup.flags.max["rga"] <= 1 =>
        /\ \A n \in DOMAIN tracked : tracked[n].node[1] = "video" => tracked[n].max = 1
        /\ \A c \in settled : tracked[alloc[c]].node[1] = "video" => c \in whole

\* Every step keeps VideoOK.
LEMMA VideoOKStep == IInv /\ VideoOK /\ [Next]_ownership => VideoOK'
<1> SUFFICES ASSUME IInv, VideoOK, [Next]_ownership,
                    setup'.flags.max["vpu"] <= 1, setup'.flags.max["rga"] <= 1
             PROVE  /\ \A n \in DOMAIN tracked' : tracked'[n].node[1] = "video" => tracked'[n].max = 1
                    /\ \A c \in settled' : tracked'[alloc'[c]].node[1] = "video" => c \in whole'
  BY DEF VideoOK
<1>1. setup' = setup
  BY DEF Next, ownership, SysfsChanges, Reconcile, Prepare, Unprepare, Allocate
<1>2. /\ \A n \in DOMAIN tracked : tracked[n].node[1] = "video" => tracked[n].max = 1
      /\ \A c \in settled : tracked[alloc[c]].node[1] = "video" => c \in whole
  BY <1>1 DEF VideoOK
<1>3. CASE UNCHANGED <<tracked, alloc, settled, whole>>
  BY <1>2, <1>3
<1>4. CASE Reconcile
  <2> DEFINE names == Names(Found)
             device(n) == DeviceNamed(Found, n)
  <2>1. /\ tracked' = [n \in names \cup HeldNames |->
                          IF n \in names
                          THEN Tracked(device(n).node, device(n).max, FALSE)
                          ELSE Tracked(tracked[n].node, tracked[n].max, TRUE)]
        /\ settled' = {c \in settled : /\ alloc[c] \in names
                                       /\ device(alloc[c]).node = tracked[alloc[c]].node}
        /\ whole' = {c \in whole : alloc[c] \in names => device(alloc[c]).max <= shares[c]}
        /\ alloc' = alloc
    BY <1>4 DEF Reconcile, claimVars
  <2>2. \A n \in names : device(n).node[1] = "video" => device(n).max = 1
    <3>1. \A d \in ToSet(Found) : d.node[1] = "video" => d.max = 1
      <4>1. /\ discoveryConfig(setup.flags).override["vpu"] <= 1
            /\ discoveryConfig(setup.flags).override["rga"] <= 1
        BY <1>1 DEF discoveryConfig
      <4> QED BY <4>1, SysIsReadable, VideoNodesAreNotShared DEF IInv, Found
    <3> QED BY <3>1, FoundDevices, IndexedByName DEF IInv
  <2>3. HeldNames \subseteq DOMAIN tracked
    BY DEF IInv, ClaimsOK, HeldNames
  <2> HIDE DEF names, device
  <2>4. /\ DOMAIN tracked' = names \cup HeldNames
        /\ \A n \in names : tracked'[n].node = device(n).node /\ tracked'[n].max = device(n).max
        /\ \A n \in HeldNames \ names : tracked'[n].node = tracked[n].node /\ tracked'[n].max = tracked[n].max
    BY <2>1 DEF Tracked
  <2>5. ASSUME NEW n \in DOMAIN tracked', tracked'[n].node[1] = "video" PROVE tracked'[n].max = 1
    BY <1>2, <2>2, <2>3, <2>4, <2>5
  <2>6. ASSUME NEW c \in settled', tracked'[alloc'[c]].node[1] = "video" PROVE c \in whole'
    <3>1. c \in settled /\ alloc[c] \in names /\ device(alloc[c]).node = tracked[alloc[c]].node
      BY <2>1
    <3>2. alloc' = alloc
      BY <2>1
    <3>3. device(alloc[c]).node[1] = "video"
      BY <2>4, <2>6, <3>1, <3>2
    <3>4. c \in whole
      BY <1>2, <3>1, <3>3
    <3>5. device(alloc[c]).max = 1
      BY <2>2, <3>1, <3>3
    <3>6. shares[c] \in Nat \ {0}
      BY <3>4 DEF IInv, ClaimsOK
    <3> QED BY <2>1, <3>4, <3>5, <3>6
  <2> QED BY <2>5, <2>6
<1>5. ASSUME NEW c \in Claims, Unprepare(c)
      PROVE  \A d \in settled' : tracked'[alloc'[d]].node[1] = "video" => d \in whole'
  BY <1>2, <1>5 DEF Unprepare, IInv, ClaimsOK
<1>6. ASSUME NEW c \in Claims, NEW n \in DOMAIN tracked, Allocate(c, n)
      PROVE  \A d \in settled' : tracked'[alloc'[d]].node[1] = "video" => d \in whole'
  <2>1. /\ alloc' = [alloc EXCEPT ![c] = n] /\ settled' = settled \cup {c} /\ tracked' = tracked
        /\ alloc[c] = None
    BY <1>6 DEF Allocate
  <2>2. DOMAIN alloc = Claims /\ settled \subseteq Claims /\ c \notin settled
    BY <2>1 DEF IInv, ClaimsOK
  <2>3. whole \subseteq whole'
    BY <1>6 DEF Allocate
  <2>4. tracked[n].max = 1 => c \in whole'
    <3> SUFFICES ASSUME tracked[n].max = 1 PROVE c \in whole'
      OBVIOUS
    <3> DEFINE policy == shareRequestPolicy(1)
    <3>1. policy.default = 1 /\ policy.min = 1 /\ policy.max = 1
      BY DEF shareRequestPolicy
    <3> HIDE DEF policy
    <3>2. PICK request \in Requests \cup {policy.default} :
             /\ Consumed(policy, request) <= policy.max
             /\ whole' = IF Consumed(policy, request) = 1 THEN whole \cup {c} ELSE whole
      BY <1>6 DEF Allocate, policy
    <3>3. request \in Nat
      BY <3>1, ClaimAssumption
    <3>4. Consumed(policy, request) = 1
      BY <3>1, <3>2, <3>3 DEF Consumed
    <3> QED BY <3>2, <3>4
  <2> QED BY <1>2, <2>1, <2>2, <2>3, <2>4
<1>7. CASE \E c \in Claims : Unprepare(c)
  BY <1>2, <1>5, <1>7 DEF Unprepare
<1>8. CASE \E c \in Claims, n \in DOMAIN tracked : Allocate(c, n)
  BY <1>2, <1>6, <1>8 DEF Allocate
<1> QED BY <1>3, <1>4, <1>7, <1>8 DEF Next, ownership, SysfsChanges, Prepare, claimVars, history

\* While no cap is raised, a settled claim has its video node for itself.
THEOREM VideoNodeOwners == Spec => []SettledOwnVideoNode
<1>1. ASSUME IInv, VideoOK, WholeCountIsExclusive PROVE SettledOwnVideoNode
  <2> SUFFICES ASSUME setup.flags.max["vpu"] <= 1, setup.flags.max["rga"] <= 1,
                      NEW c \in settled, NEW d \in settled, c # d, injected[c] # None,
                      injected[c] = injected[d], injected[c][1] = "video"
               PROVE  FALSE
    BY DEF SettledOwnVideoNode
  <2>1. tracked[alloc[c]].node = injected[c]
    BY <1>1 DEF IInv, SettledOK
  <2>2. c \in whole
    BY <1>1, <2>1 DEF VideoOK
  <2> QED BY <1>1, <2>2 DEF WholeCountIsExclusive
<1>2. Init => VideoOK
  BY DEF Init, VideoOK
<1> QED BY <1>1, <1>2, Invariant, VideoOKStep, WholeCount, PTL DEF Spec

\* The number in a VPU's name counts the nodes of its block with a smaller index.
THEOREM VPUNumbers == Spec => []NumberedByIndex
<1>1. ASSUME SysOK PROVE NumberedByIndex
  <2> DEFINE cfg == discoveryConfig(setup.flags)
             present == discoverV4L(sys.v4l)
             number(e) == Cardinality({f \in present : classifyVPU(f) = classifyVPU(e) /\ f.index < e.index})
             name(e) == Name("vpu", classifyVPU(e), number(e))
             node(e) == CharDevice("video", e.index)
             blocks == {f \in present : classifyVPU(f) # NoBlock}
             vpus == {d \in ToSet(Found) : d.name[1] = "vpu"}
             cap == maxAllocations(cfg.override["vpu"], 1)
  <2> SUFFICES ASSUME ~cfg.mock, "vpu" \in defaultConfig(cfg.enabled)
               PROVE  {<<d.name, d.node>> : d \in vpus} = {<<name(e), node(e)>> : e \in blocks}
    BY DEF NumberedByIndex
  <2>1. Readable(sys, cfg)
    BY <1>1, SysIsReadable
  <2>2. vpus = ToSet(VPUs(sys, cfg))
    BY <2>1, EnumerateSysfs DEF Found, ListOf
  <2>3. VPUs(sys, cfg) = discoverVPU(sys.v4l, cfg.override["vpu"])
    BY DEF VPUs, On
  <2>4. V4LClass(sys.v4l) /\ cfg.override["vpu"] \in Int
    BY <2>1 DEF Readable, Types
  <2>5. vpuMatches(sys.v4l) = blocks
    BY DEF vpuMatches
  <2> DEFINE device(n) == Device(Name("vpu", classifyVPU(n), Cardinality(Earlier(sys.v4l, n))),
                                 node(n), cap)
  <2>6. ToSet(discoverVPU(sys.v4l, cfg.override["vpu"])) = {device(n) : n \in vpuMatches(sys.v4l)}
    BY <2>4, VPUsAreMatches
  <2>7. \A n : device(n).name = name(n) /\ device(n).node = node(n)
    <3> SUFFICES ASSUME NEW n PROVE device(n).name = name(n) /\ device(n).node = node(n)
      OBVIOUS
    <3>1. Earlier(sys.v4l, n) = {f \in present : classifyVPU(f) = classifyVPU(n) /\ f.index < n.index}
      BY DEF Earlier
    <3> QED BY <3>1, NewDevice
  <2> HIDE DEF name, node, blocks, vpus, device
  <2>8. vpus = {device(n) : n \in blocks}
    BY <2>2, <2>3, <2>5, <2>6
  <2> QED BY <2>7, <2>8
<1>2. IInv => SysOK
  BY DEF IInv
<1> QED BY <1>1, <1>2, Invariant, PTL

\* Mock mode publishes what discovery finds on the board that it stands for.
THEOREM MockIsTheBoard == Spec => []MockMatchesBoard
<1>1. ASSUME SysOK PROVE MockMatchesBoard
  <2> DEFINE cfg == discoveryConfig(setup.flags)
             mock == [cfg EXCEPT !.mock = TRUE]
             board == [cfg EXCEPT !.mock = FALSE]
  <2> SUFFICES ASSUME MockBoard(sys)
               PROVE  ToSet(Enumerate(sys, mock)) = ToSet(Enumerate(sys, board))
    BY DEF MockMatchesBoard, MockBoard
  <2>1. /\ mock.mock /\ ~board.mock
        /\ mock.enabled = cfg.enabled /\ mock.override = cfg.override
        /\ board.enabled = cfg.enabled /\ board.override = cfg.override
    BY DEF discoveryConfig
  <2>2. /\ Readable(sys, mock) /\ Readable(sys, board)
        /\ DistinctFiles(sys.accel) /\ DistinctFiles(sys.render)
    BY <1>1, <2>1, SysIsReadable DEF Readable
  <2> HIDE DEF mock, board, cfg
  <2>3. /\ NPUs(sys, board) = MockNPUs(mock) /\ GPUs(sys, board) = MockGPUs(mock)
        /\ ToSet(VPUs(sys, board)) = ToSet(MockVPUs(mock))
        /\ ToSet(RGAs(sys, board)) = ToSet(MockRGAs(mock))
    BY <2>1, <2>2, MockNPUOnBoard, MockGPUOnBoard, MockVPUOnBoard, MockRGAOnBoard
  <2>4. ToSet(Enumerate(sys, mock)) =
          ToSet(MockNPUs(mock)) \cup ToSet(MockGPUs(mock))
          \cup ToSet(MockVPUs(mock)) \cup ToSet(MockRGAs(mock))
    BY <2>1, <2>2, EnumerateMock
  <2>5. ToSet(Enumerate(sys, board)) =
          ToSet(NPUs(sys, board)) \cup ToSet(GPUs(sys, board))
          \cup ToSet(VPUs(sys, board)) \cup ToSet(RGAs(sys, board))
    BY <2>1, <2>2, EnumerateSysfs
  <2> QED BY <2>3, <2>4, <2>5
<1>2. IInv => SysOK
  BY DEF IInv
<1> QED BY <1>1, <1>2, Invariant, PTL
=============================================================================
