--------------------------- MODULE NodeOwnership ----------------------------
(***************************************************************************)
(* Which claim gets which char device, and how much of it: discovery       *)
(* numbers what it finds each time, claims hold devices by name, and each  *)
(* device is published with a number of shares. Kernel drivers bind and    *)
(* unbind, Reconcile renews names and shares, the scheduler (external)     *)
(* allocates shares of published, untainted names as the published request *)
(* policy allows, and Prepare injects the node that the name has at that   *)
(* moment.                                                                 *)
(*                                                                         *)
(* Files, locks and crashes are the subject of DeviceState; here each call *)
(* is one step and every char device exists while its driver is bound.     *)
(***************************************************************************)
EXTENDS Discovery

CONSTANTS
    Setups,     \* boards (the entries that each class can have, core counts) and flags
    Claims,
    Requests    \* the shares that a claim may ask for

Setup ==
    [entries: [v4l: SUBSET V4LEntry, accel: SUBSET AccelEntry, render: SUBSET RenderEntry],
     cores: SUBSET Nat,
     flags: [mock: BOOLEAN, enabled: [Types -> BOOLEAN], max: [Types -> Int]]]

\* A directory has finitely many entries, and no two of them are the same video,
\* accel or render node.
ASSUME SetupAssumption ==
    \A s \in Setups :
        /\ s \in Setup
        /\ IsFiniteSet(s.entries.v4l)
        /\ \A e, f \in s.entries.v4l : e # f /\ e.index = f.index => e.index = NotVideo
        /\ \A e, f \in s.entries.accel : e.index = f.index => e = f
        /\ \A e, f \in s.entries.render : e.index = f.index => e = f

ASSUME ClaimAssumption == IsFiniteSet(Claims) /\ Requests \subseteq Nat

VARIABLES
    setup,      \* the board and the flags that the plugin was started with
    sys,        \* what sysfs shows
    tracked,    \* the published devices by name, with whether they are tainted
    alloc,      \* the name allocated to each claim
    shares,     \* the shares of it that the claim consumes
    injected,   \* the node that each prepared claim's container gets
    whole,      \* history: the claims that took every published share of a
                \* name whose cap has not been above that number since
    settled     \* history: the claims whose name has had the same node, and has
                \* been found by every reconcile, since it was allocated

claimVars == <<alloc, shares, injected>>
history   == <<whole, settled>>
ownership == <<setup, sys, tracked, claimVars, history>>

None == <<>>

Init ==
    /\ setup \in Setups
    /\ sys = [cores |-> 0, accel |-> {}, render |-> {}, v4l |-> {}]
    /\ tracked = <<>>
    /\ alloc = [c \in Claims |-> None]
    /\ shares = [c \in Claims |-> 0]
    /\ injected = [c \in Claims |-> None]
    /\ whole = {}
    /\ settled = {}

\* A driver binds or unbinds one device of a class.
Toggle(class, e) ==
    sys' = [sys EXCEPT ![class] = IF e \in @ THEN @ \ {e} ELSE @ \cup {e}]

SysfsChanges ==
    /\ \/ \E n \in setup.cores : n # sys.cores /\ sys' = [sys EXCEPT !.cores = n]
       \/ \E class \in DOMAIN setup.entries :
              \E e \in setup.entries[class] : Toggle(class, e)
    /\ UNCHANGED <<setup, tracked, claimVars, history>>

\* The discovery configuration that the flags give.
discoveryConfig(flags) ==
    [mock |-> flags.mock,
     enabled |-> {t \in DOMAIN flags.enabled : flags.enabled[t]},
     override |-> flags.max]

Found == Enumerate(sys, discoveryConfig(setup.flags))

\* The names that prepared claims hold.
HeldNames == {alloc[c] : c \in {d \in Claims : injected[d] # None}}

Tracked(node, max, tainted) == [node |-> node, max |-> max, tainted |-> tainted]

Names(found) == {found[i].name : i \in DOMAIN found}

DeviceNamed(found, n) == found[CHOOSE i \in DOMAIN found : found[i].name = n]

\* applyDiscoveryLocked: what is found, by name, and the held names that are
\* not found, kept with the device they had and tainted.
Reconcile ==
    LET names == Names(Found)
        device(n) == DeviceNamed(Found, n)
    IN  /\ tracked' = [n \in names \cup HeldNames |->
                          IF n \in names
                          THEN Tracked(device(n).node, device(n).max, FALSE)
                          ELSE Tracked(tracked[n].node, tracked[n].max, TRUE)]
        /\ settled' = {c \in settled : /\ alloc[c] \in names
                                       /\ device(alloc[c]).node = tracked[alloc[c]].node}
        /\ whole' = {c \in whole : alloc[c] \in names => device(alloc[c]).max <= shares[c]}
        /\ UNCHANGED <<setup, sys, claimVars>>

-----------------------------------------------------------------------------
\* Shares.

\* Mutant: a request for nothing is valid.
shareRequestPolicy_FromZero(maxAlloc) ==
    IF maxAlloc < 1 THEN [default |-> 1] ELSE [default |-> 1, min |-> 0, max |-> maxAlloc]

\* The request policy published with a device; a cap below 1 has no range.
\* Shares are whole numbers, so the step of 1 is left out.
shareRequestPolicy(maxAlloc) ==
    IF maxAlloc < 1 THEN [default |-> 1] ELSE [default |-> 1, min |-> 1, max |-> maxAlloc]

\* What a request consumes: no less than the least that the policy allows.
Consumed(policy, request) == IF request < policy.min THEN policy.min ELSE request

\* The shares of a name that are in use: what its claims consume, added up as
\* the number of pairs of a claim and one of its shares.
InUse(n) == Cardinality(UNION {{c} \X (1..shares[c]) : c \in {d \in Claims : alloc[d] = n}})

\* The scheduler gives a claim the shares of a published device it asks for,
\* or the default number when it asks for none.
Allocate(c, n) ==
    LET policy == shareRequestPolicy(tracked[n].max)
    IN  /\ alloc[c] = None
        /\ ~tracked[n].tainted
        /\ \E request \in Requests \cup {policy.default} :
              LET taken == Consumed(policy, request)
              IN  /\ taken <= policy.max
                  /\ InUse(n) + taken <= tracked[n].max
                  /\ shares' = [shares EXCEPT ![c] = taken]
                  /\ whole' = IF taken = tracked[n].max THEN whole \cup {c} ELSE whole
        /\ alloc' = [alloc EXCEPT ![c] = n]
        /\ settled' = settled \cup {c}
        /\ UNCHANGED <<setup, sys, tracked, injected>>

\* Prepare, also of a claim that is prepared already: the CDI spec gets the
\* node of the device that has the name now.
Prepare(c) ==
    /\ alloc[c] \in DOMAIN tracked
    /\ ~tracked[alloc[c]].tainted
    /\ injected' = [injected EXCEPT ![c] = tracked[alloc[c]].node]
    /\ UNCHANGED <<setup, sys, tracked, alloc, shares, history>>

\* Unprepare, after which the claim is deallocated.
Unprepare(c) ==
    /\ alloc[c] # None
    /\ injected' = [injected EXCEPT ![c] = None]
    /\ alloc' = [alloc EXCEPT ![c] = None]
    /\ shares' = [shares EXCEPT ![c] = 0]
    /\ whole' = whole \ {c}
    /\ settled' = settled \ {c}
    /\ UNCHANGED <<setup, sys, tracked>>

Next ==
    \/ SysfsChanges
    \/ Reconcile
    \/ \E c \in Claims : Prepare(c) \/ Unprepare(c)
    \/ \E c \in Claims, n \in DOMAIN tracked : Allocate(c, n)

Spec == Init /\ [][Next]_ownership

-----------------------------------------------------------------------------
\* Properties.

\* Whatever is bound, no two devices that Enumerate returns have a name or a
\* char device in common: applyDiscoveryLocked indexes them by name, and a
\* video4linux node is a VPU of one block or an RGA, never both.
DistinctDevices ==
    LET found == Found
    IN  \A i, j \in DOMAIN found :
            i # j => found[i].name # found[j].name /\ found[i].node # found[j].node

\* The number in a VPU's name is the number of nodes of its block with a
\* smaller video index, in whatever order the directory lists them ("video10"
\* before "video2"), so a rescan of the same nodes gives the same names.
NumberedByIndex ==
    LET present == discoverV4L(sys.v4l)
        number(e) == Cardinality({f \in present : classifyVPU(f) = classifyVPU(e) /\ f.index < e.index})
        expected == {<<Name("vpu", classifyVPU(e), number(e)), CharDevice("video", e.index)>> :
                        e \in {f \in present : classifyVPU(f) # NoBlock}}
        vpus == {d \in ToSet(Found) : d.name[1] = "vpu"}
        cfg == discoveryConfig(setup.flags)
    IN  ~cfg.mock /\ "vpu" \in defaultConfig(cfg.enabled)
            => {<<d.name, d.node>> : d \in vpus} = expected

\* "av1 and vepu cannot fall through to the H.264 decoder": a claim that holds
\* a device of the H.264 block has neither an AV1 decoder's nor an encoder's
\* node, whatever was bound between its allocation and its Prepare.
DecoderClaimGetsDecoder ==
    \A c \in Claims :
        injected[c] # None /\ alloc[c][2] = "hantro-dec" =>
            \E e \in setup.entries.v4l :
                /\ injected[c] = CharDevice("video", e.index)
                /\ {"av1", "vepu"} \cap (e.compat \cup e.card) = {}

\* "exclusive use is requesting the whole published count": a claim that took
\* every share of a device is the only one whose container has the node, for as
\* long as the cap is not raised and both claims' names keep their nodes. A
\* later bind, unbind or reconcile, and a request for no shares, lets no second
\* claim in.
WholeCountIsExclusive ==
    \A c \in whole \cap settled, d \in settled :
        c # d /\ injected[c] # None => injected[d] # injected[c]

\* "One claim owns the node until that cap is raised" is true of the claims whose
\* names keep their nodes: while neither the VPU's nor the RGA's cap is raised
\* above 1, no two of them have the same video node, however other claims come
\* and go. (NodeHasOneOwner, without that condition, is not.)
SettledOwnVideoNode ==
    setup.flags.max["vpu"] <= 1 /\ setup.flags.max["rga"] <= 1 =>
        \A c, d \in settled :
            c # d /\ injected[c] # None /\ injected[c] = injected[d] => injected[c][1] # "video"

\* "Mock advertises synthetic RK3588 devices instead of reading sysfs": they
\* have the names, nodes and share caps that discovery finds on a board on which
\* just those devices are bound, whatever is enabled and configured, so that a
\* test in mock mode meets what a node publishes.
MockMatchesBoard ==
    LET cfg == discoveryConfig(setup.flags)
    IN  /\ sys.cores = 3
        /\ {e.index : e \in sys.accel} = {0}
        /\ {<<e.index, e.drivers[1]>> : e \in sys.render} = {<<128, "panthor">>}
        /\ {<<n.index, n.driver>> : n \in discoverV4L(sys.v4l)}
             = {<<2, "rkvdec">>, <<0, "rockchip-rga">>}
        => ToSet(Enumerate(sys, [cfg EXCEPT !.mock = TRUE]))
             = ToSet(Enumerate(sys, [cfg EXCEPT !.mock = FALSE]))

\* "One claim owns the node until that cap is raised": with the default cap of
\* 1 no video node is in the containers of two claims.
NodeHasOneOwner ==
    \A c, d \in Claims :
        c # d /\ injected[c] # None /\ injected[c] = injected[d] => injected[c][1] # "video"

=============================================================================
