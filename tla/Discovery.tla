----------------------------- MODULE Discovery ------------------------------
(***************************************************************************)
(* internal/discovery: from what sysfs shows to the devices that are       *)
(* advertised, as operators. A file name or a compatible string is what    *)
(* the code reads from it: an index, a driver, the marks it contains.      *)
(* Attributes that are copied through (soc, vendor, model, gid) are left   *)
(* out.                                                                    *)
(***************************************************************************)
EXTENDS Integers, SequencesExt

\* The marks that classifyVPU looks for in the compatible string and in the
\* card name of a video4linux node.
CompatMarks == {"av1", "vepu", "vpu121"}
CardMarks   == {"av1", "vepu", "vpu-dec"}
NoBlock     == "none"

\* An entry of a sysfs class directory: its place in the directory, which
\* ReadDir sorts by file name ("video10" before "video2"), the number in its
\* file name, and the drivers that the uevent of the entry, the uevent of its
\* device and the device's driver link name. A video4linux entry whose file name
\* is not "video" and a number has the index NotVideo; entries of the other
\* classes that are passed over by their file names are left out.
NotVideo == -1
NoDriver == "none"
Drivers  == STRING \X STRING \X STRING
V4LEntry == [listed: Nat, index: Nat \cup {NotVideo}, drivers: Drivers,
             compat: SUBSET CompatMarks, card: SUBSET CardMarks]
AccelEntry  == [listed: Nat, index: Nat, drivers: Drivers, rknn: BOOLEAN]
RenderEntry == [listed: Nat, index: Nat, drivers: Drivers]

\* The order in which ReadDir lists the entries.
listedBefore(a, b) == a.listed < b.listed

\* The entry among the given ones that a loop over the directory meets first.
FirstListed(entries) == CHOOSE e \in entries : \A f \in entries \ {e} : listedBefore(e, f)

\* The driver that is bound: each source is asked when the ones before it name
\* none.
boundDriver(drivers) ==
    CASE drivers[1] # NoDriver -> drivers[1]
      [] drivers[1] = NoDriver /\ drivers[2] # NoDriver -> drivers[2]
      [] OTHER -> drivers[3]

\* v4lNode. The char device is determined by the index; listed is the node's
\* place in the slice that discoverV4L returns.
V4LNode == [listed: Nat, index: Nat, driver: STRING,
            compat: SUBSET CompatMarks, card: SUBSET CardMarks]

\* The nodes of the video4linux class; other entries, such as subdevices, are
\* passed over.
discoverV4L(v4l) ==
    {[listed |-> e.listed, index |-> e.index, driver |-> boundDriver(e.drivers),
      compat |-> e.compat, card |-> e.card] : e \in {f \in v4l : f.index # NotVideo}}

\* Mutant: the marks of the H.264 decoder are looked for first.
classifyVPU_DecFirst(n) ==
    CASE n.driver = "rkvdec" -> "rkvdec"
      [] n.driver = "hantro-vpu" /\ ("vpu121" \in n.compat \/ "vpu-dec" \in n.card) -> "hantro-dec"
      [] n.driver = "hantro-vpu" /\ "vpu121" \notin n.compat /\ "vpu-dec" \notin n.card
            /\ "av1" \in n.compat \cup n.card -> "hantro-av1"
      [] n.driver = "hantro-vpu" /\ "vpu121" \notin n.compat /\ "vpu-dec" \notin n.card
            /\ "av1" \notin n.compat \cup n.card /\ "vepu" \in n.compat \cup n.card -> "hantro-enc"
      [] OTHER -> NoBlock

\* The block that a node is, or NoBlock for a node that is not a VPU.
classifyVPU(n) ==
    CASE n.driver = "rkvdec" -> "rkvdec"
      [] n.driver = "hantro-vpu" /\ "av1" \in n.compat \cup n.card -> "hantro-av1"
      [] n.driver = "hantro-vpu" /\ "av1" \notin n.compat \cup n.card
            /\ "vepu" \in n.compat \cup n.card -> "hantro-enc"
      [] n.driver = "hantro-vpu" /\ {"av1", "vepu"} \cap (n.compat \cup n.card) = {}
            /\ ("vpu121" \in n.compat \/ "vpu-dec" \in n.card) -> "hantro-dec"
      [] OTHER -> NoBlock

\* The blocks in the order of strings.Compare.
BlockOrder == <<"hantro-av1", "hantro-dec", "hantro-enc", "rkvdec">>

\* The comparisons of the two sorts.
vpuBefore(a, b) ==
    LET rank(n) == CHOOSE i \in DOMAIN BlockOrder : BlockOrder[i] = classifyVPU(n)
    IN  rank(a) < rank(b) \/ (rank(a) = rank(b) /\ a.index < b.index)

rgaBefore(a, b) == a.index < b.index

\* slices.SortFunc: the elements of S one after the other in an order on them,
\* which is a set of pairs. (SortSeq does the same, but the proof system has no
\* definition of it.)
SortFunc(S, order) ==
    CHOOSE s \in [1..Cardinality(S) -> S] : \A i, j \in DOMAIN s : i < j => <<s[i], s[j]>> \in order

\* Mutant: the count of the block is not kept.
vpuNumber_Zero(matches, i) == 0

\* The number that the i-th match gets: counts[m.block] when it is reached.
vpuNumber(matches, i) ==
    Cardinality({j \in 1..(i - 1) : classifyVPU(matches[j]) = classifyVPU(matches[i])})

\* Mutant: a device that is not configured has a share too many.
maxAllocations_OneMore(override, default) == IF override > 0 THEN override ELSE default + 1

\* The override when it is positive, else the default.
maxAllocations(override, default) == IF override > 0 THEN override ELSE default

\* A name such as "vpu-rkvdec-0" or, with no block, "npu-0"; a char device such as
\* /dev/video2.
Name(type, block, number)  == <<type, block, number>>
CharDevice(class, number) == <<class, number>>

\* A device with the shares it is published with.
Device(name, node, shares) == [name |-> name, node |-> node, max |-> shares]

\* The matches of discoverVPU and of discoverRGA.
vpuMatches(v4l) == {n \in discoverV4L(v4l) : classifyVPU(n) # NoBlock}
rgaMatches(v4l) == {n \in discoverV4L(v4l) : n.driver = "rockchip-rga"}

\* Mutant: the matches stay in the order of ReadDir.
sortedVPU_Unsorted(v4l) ==
    LET S == vpuMatches(v4l) IN SortFunc(S, {p \in S \X S : listedBefore(p[1], p[2])})

sortedVPU(v4l) ==
    LET S == vpuMatches(v4l) IN SortFunc(S, {p \in S \X S : vpuBefore(p[1], p[2])})

sortedRGA(v4l) ==
    LET S == rgaMatches(v4l) IN SortFunc(S, {p \in S \X S : rgaBefore(p[1], p[2])})

discoverVPU(v4l, override) ==
    LET matches == sortedVPU(v4l)
    IN  [i \in DOMAIN matches |->
            Device(Name("vpu", classifyVPU(matches[i]), vpuNumber(matches, i)),
                   CharDevice("video", matches[i].index), maxAllocations(override, 1))]

discoverRGA(v4l, override) ==
    LET matches == sortedRGA(v4l)
    IN  [i \in DOMAIN matches |->
            Device(Name("rga", NoBlock, i - 1),
                   CharDevice("video", matches[i].index), maxAllocations(override, 1))]

\* Rocket is bound to the cores, mostly not to the accel device: its modalias
\* tells as well.
isRocketAccel(e) == e.drivers[1] = "rocket" \/ e.drivers[2] = "rocket" \/ e.rknn

\* The accel entry of rocket, else the first one, else accel0.
rocketAccelNode(accel) ==
    LET rocket == {e \in accel : isRocketAccel(e)}
    IN  CASE rocket # {} -> CharDevice("accel", FirstListed(rocket).index)
          [] rocket = {} /\ accel # {} -> CharDevice("accel", FirstListed(accel).index)
          [] OTHER -> CharDevice("accel", 0)

\* One NPU when a core is bound; by default it has as many shares as cores.
discoverNPU(cores, accel, override) ==
    IF cores = 0 THEN <<>>
    ELSE << Device(Name("npu", NoBlock, 0), rocketAccelNode(accel), maxAllocations(override, cores)) >>

\* The first render node that panthor drives; the driver link is not asked.
discoverGPU(render, override) ==
    LET panthor == {e \in render : boundDriver(<<e.drivers[1], e.drivers[2], NoDriver>>) = "panthor"}
    IN  IF panthor = {} THEN <<>>
        ELSE << Device(Name("gpu", NoBlock, 0), CharDevice("renderD", FirstListed(panthor).index),
                       maxAllocations(override, 8)) >>

Types == {"npu", "gpu", "vpu", "rga"}

\* A configuration that enables nothing enables everything.
defaultConfig(enabled) == IF enabled = {} THEN Types ELSE enabled

\* Mutant: the NPU has the cap of a SoC that is not known.
mockDevices_OneCore(enabled, override) ==
    LET on(type, node, block, default) ==
            IF type \in enabled
            THEN << Device(Name(type, block, 0), node, maxAllocations(override[type], default)) >>
            ELSE <<>>
    IN  on("npu", CharDevice("accel", 0), NoBlock, 1)
        \o on("gpu", CharDevice("renderD", 128), NoBlock, 8)
        \o on("vpu", CharDevice("video", 2), "rkvdec", 1)
        \o on("rga", CharDevice("video", 0), NoBlock, 1)

\* One device of each enabled type, as an RK3588 has them.
mockDevices(enabled, override) ==
    LET on(type, node, block, default) ==
            IF type \in enabled
            THEN << Device(Name(type, block, 0), node, maxAllocations(override[type], default)) >>
            ELSE <<>>
    IN  on("npu", CharDevice("accel", 0), NoBlock, 3)
        \o on("gpu", CharDevice("renderD", 128), NoBlock, 8)
        \o on("vpu", CharDevice("video", 2), "rkvdec", 1)
        \o on("rga", CharDevice("video", 0), NoBlock, 1)

\* Enumerate, on a sysfs that is a record of what each part reads. The
\* configuration has the enabled types and the share cap of each type.
Enumerate(sys, cfg) ==
    LET enabled == defaultConfig(cfg.enabled)
        on(type, devices) == IF type \in enabled THEN devices ELSE <<>>
    IN  IF cfg.mock
        THEN mockDevices(enabled, cfg.override)
        ELSE on("npu", discoverNPU(sys.cores, sys.accel, cfg.override["npu"]))
             \o on("gpu", discoverGPU(sys.render, cfg.override["gpu"]))
             \o on("vpu", discoverVPU(sys.v4l, cfg.override["vpu"]))
             \o on("rga", discoverRGA(sys.v4l, cfg.override["rga"]))

=============================================================================
