---------------------------- MODULE DeviceState -----------------------------
(***************************************************************************)
(* One plugin process's DeviceState (cmd/kubeletplugin/state.go and        *)
(* reconcile.go): Prepare, Unprepare and Reconcile under the process's     *)
(* mutex, the three kinds of file they keep on the node, and an            *)
(* environment in which kernel drivers bind and unbind, char devices come  *)
(* and go, file operations fail, and the process may die between any two   *)
(* file operations and be started again.                                   *)
(*                                                                         *)
(* Each action is one file operation, with the computation that leads up   *)
(* to the next one. The mutex is not a variable: it is held by the call    *)
(* whose control state says so (Unlocked).                                 *)
(***************************************************************************)
EXTENDS DeviceHealth

CONSTANTS
    Claims,         \* claim UIDs
    Alloc,          \* the names an allocated claim holds from this driver
    Torn,           \* a checkpoint file that does not parse
    NoResources,    \* driverResources before the first reconcile
    MaxClock        \* bound of the clock, which is read only to stamp taints

ASSUME ClaimAssumption ==
    /\ Alloc \in PartialFn(Claims, SUBSET Names)
    /\ \A S \in SUBSET Claims : Torn # S
    /\ MaxClock \in Nat \ {0}

VARIABLES
    \* The node.
    sysfs,          \* the devices Enumerate would return, by name
    nodes,          \* the char devices present under /dev
    clock,          \* time.Now()
    \* Files, which outlive the process.
    checkpoint,     \* checkpoint.json: the prepared claims, or Torn
    claimDevices,   \* claim-devices.json: the devices of each claim
    cdiSpecs,       \* CDI spec files: per claim, the names whose node they inject
    \* The process.
    phase,          \* "down", "starting" (in NewDeviceState) or "up"
    rpc,            \* the Prepare or Unprepare call in progress
    rec,            \* the Reconcile call in progress
    tracked,        \* DeviceState.tracked
    driverResources,\* DeviceState.driverResources
    \* History.
    durable,        \* the contents of the last checkpoint written completely
    outcome         \* per claim, what the last call on it returned

node    == <<sysfs, nodes, clock>>
files   == <<checkpoint, claimDevices, cdiSpecs, durable>>
memory  == <<tracked, driverResources>>
vars    == <<node, files, memory, phase, rpc, rec, outcome>>

\* The device snapshots of each claim in claim-devices.json.
ClaimFile == PartialFn(Claims, DeviceMap)

\* The file operation a call does next. Prepare goes through "createSpec",
\* "readClaims", "record", "truncate" and "write"; Unprepare through
\* "deleteSpec", "truncate", "write", "readClaims" and "forget".
PrepareSteps   == {"createSpec", "readClaims", "record", "truncate", "write"}
UnprepareSteps == {"deleteSpec", "truncate", "write", "readClaims", "forget"}

IdleCall == [pc |-> "idle"]

\* A call holds what it has read: the checkpoint, and claim-devices.json.
PrepareCall ==
    [op: {"prepare"}, pc: PrepareSteps, claim: Claims, cp: SUBSET Claims,
     devs: DeviceMap, file: ClaimFile]

UnprepareCall ==
    [op: {"unprepare"}, pc: UnprepareSteps, claim: Claims, cp: SUBSET Claims,
     file: ClaimFile]

\* Reconcile enumerates before it takes the mutex ("lock" is the step that
\* takes it); the other steps are under the mutex.
ReconcileCall ==
    [pc: {"lock", "readClaims", "prune", "apply"}, found: DeviceMap,
     cp: SUBSET Claims, file: ClaimFile]

TypeOK ==
    /\ sysfs \in DeviceMap
    /\ nodes \in SUBSET Nodes
    /\ clock \in Nat \ {0}
    /\ checkpoint = Torn \/ checkpoint \in SUBSET Claims
    /\ claimDevices \in ClaimFile
    /\ cdiSpecs \in PartialFn(Claims, SUBSET Names)
    /\ phase \in {"down", "starting", "up"}
    /\ rpc \in {IdleCall} \cup PrepareCall \cup UnprepareCall
    /\ rec \in {IdleCall} \cup ReconcileCall
    /\ IsMap(tracked, Names, TrackedDevice)
    /\ \/ driverResources = NoResources
       \/ IsMap(driverResources, Names, ResourceDevice)
    /\ durable \in SUBSET Claims
    /\ outcome \in [Claims -> {"none", "prepared", "unprepared"}]

\* A node on which the plugin has not run yet.
Init ==
    /\ sysfs = NoEntries
    /\ nodes = {}
    /\ clock = 1
    /\ checkpoint = {}
    /\ claimDevices = NoEntries
    /\ cdiSpecs = NoEntries
    /\ phase = "down"
    /\ rpc = IdleCall
    /\ rec = IdleCall
    /\ tracked = NoEntries
    /\ driverResources = NoResources
    /\ durable = {}
    /\ outcome = [c \in Claims |-> "none"]

-----------------------------------------------------------------------------
\* The node.

\* A kernel driver binds, so that discovery finds d; it takes the place of a
\* device that had its name.
Bind(d) ==
    /\ sysfs' = [n \in DOMAIN sysfs \cup {NameOf[d]} |->
                    IF n = NameOf[d] THEN d ELSE sysfs[n]]
    /\ UNCHANGED <<nodes, clock, files, memory, phase, rpc, rec, outcome>>

Unbind(n) ==
    /\ n \in DOMAIN sysfs
    /\ sysfs' = Restrict(sysfs, DOMAIN sysfs \ {n})
    /\ UNCHANGED <<nodes, clock, files, memory, phase, rpc, rec, outcome>>

NodeAppears(p) ==
    /\ nodes' = nodes \cup {p}
    /\ UNCHANGED <<sysfs, clock, files, memory, phase, rpc, rec, outcome>>

NodeVanishes(p) ==
    /\ nodes' = nodes \ {p}
    /\ UNCHANGED <<sysfs, clock, files, memory, phase, rpc, rec, outcome>>

Tick ==
    /\ clock < MaxClock
    /\ clock' = clock + 1
    /\ UNCHANGED <<sysfs, nodes, files, memory, phase, rpc, rec, outcome>>

deviceNodeExists(d) == NodeOf[d] \in nodes

\* deviceEdits for each device of a claim: the names whose node the spec
\* injects, which are those whose node is there when it is statted.
deviceEdits(devs) == {n \in DOMAIN devs : deviceNodeExists(devs[n])}

-----------------------------------------------------------------------------
\* Calls and the mutex.

Unlocked == rpc = IdleCall /\ rec.pc \in {"idle", "lock"}

\* The call returns without an error.
Return(c, result) ==
    /\ rpc' = IdleCall
    /\ outcome' = [outcome EXCEPT ![c] = result]

RpcAt(op, pc) == rpc # IdleCall /\ rpc.op = op /\ rpc.pc = pc

-----------------------------------------------------------------------------
\* Prepare.

\* computeDevices succeeds: the claim is allocated and every device it holds
\* from this driver is tracked, not unhealthy, and has its node.
Preparable(c) ==
    /\ c \in DOMAIN Alloc
    /\ \A n \in Alloc[c] :
          /\ n \in DOMAIN tracked
          /\ ~prepareError(tracked[n], deviceNodeExists(tracked[n].dev))

\* Prepare takes the mutex, reads the checkpoint and computes the claim's
\* devices. When one of these fails it returns the error and nothing changes.
PrepareBegin(c) ==
    /\ phase = "up"
    /\ Unlocked
    /\ checkpoint # Torn
    /\ Preparable(c)
    /\ rpc' = [op |-> "prepare", pc |-> "createSpec", claim |-> c,
               cp |-> checkpoint,
               devs |-> [n \in Alloc[c] |-> tracked[n].dev],
               file |-> NoEntries]
    /\ outcome' = [outcome EXCEPT ![c] = "none"]
    /\ UNCHANGED <<node, files, memory, phase, rec>>

\* CreateClaimSpecFile: the spec's nodes are statted again. The CDI library
\* replaces the file by a rename.
CreateClaimSpecFile ==
    /\ RpcAt("prepare", "createSpec")
    /\ cdiSpecs' = [c \in DOMAIN cdiSpecs \cup {rpc.claim} |->
                       IF c = rpc.claim THEN deviceEdits(rpc.devs) ELSE cdiSpecs[c]]
    /\ rpc' = [rpc EXCEPT !.pc = "readClaims"]
    /\ UNCHANGED <<node, checkpoint, claimDevices, durable, memory, phase, rec, outcome>>

\* Mutant: the claim's entry replaces the entries of the others.
RecordRead_Replaces ==
    /\ RpcAt("prepare", "readClaims")
    /\ rpc' = [rpc EXCEPT !.pc = "record", !.file = [c \in {rpc.claim} |-> rpc.devs]]
    /\ UNCHANGED <<node, files, memory, phase, rec, outcome>>

\* recordClaimDevicesLocked reads claim-devices.json ...
RecordRead ==
    /\ RpcAt("prepare", "readClaims")
    /\ rpc' = [rpc EXCEPT
                 !.pc = "record",
                 !.file = [c \in DOMAIN claimDevices \cup {rpc.claim} |->
                              IF c = rpc.claim THEN rpc.devs ELSE claimDevices[c]]]
    /\ UNCHANGED <<node, files, memory, phase, rec, outcome>>

\* Mutant: Prepare answers before it has checkpointed the claim.
RecordClaimDevices_Answers ==
    /\ RpcAt("prepare", "record")
    /\ claimDevices' = rpc.file
    /\ Return(rpc.claim, "prepared")
    /\ UNCHANGED <<node, checkpoint, cdiSpecs, durable, memory, phase, rec>>

\* ... and replaces it by a rename. A claim that is in the checkpoint already
\* is prepared.
RecordClaimDevices ==
    /\ RpcAt("prepare", "record")
    /\ claimDevices' = rpc.file
    /\ IF rpc.claim \in rpc.cp
       THEN Return(rpc.claim, "prepared")
       ELSE /\ rpc' = [rpc EXCEPT !.pc = "truncate",
                                  !.cp = @ \cup {rpc.claim}]
            /\ UNCHANGED outcome
    /\ UNCHANGED <<node, checkpoint, cdiSpecs, durable, memory, phase, rec>>

\* writeCheckpoint is os.WriteFile, which truncates the file ...
TruncateCheckpoint ==
    /\ rpc.pc = "truncate"
    /\ checkpoint' = Torn
    /\ rpc' = [rpc EXCEPT !.pc = "write"]
    /\ UNCHANGED <<node, claimDevices, cdiSpecs, durable, memory, phase, rec, outcome>>

\* ... and then writes it. Prepare is done when it is written; Unprepare goes
\* on to forget the claim's snapshot.
WriteCheckpoint ==
    /\ rpc.pc = "write"
    /\ checkpoint' = rpc.cp
    /\ durable' = rpc.cp
    /\ IF rpc.op = "prepare"
       THEN Return(rpc.claim, "prepared")
       ELSE rpc' = [rpc EXCEPT !.pc = "readClaims"] /\ UNCHANGED outcome
    /\ UNCHANGED <<node, claimDevices, cdiSpecs, memory, phase, rec>>

-----------------------------------------------------------------------------
\* Unprepare.

\* Unprepare takes the mutex and reads the checkpoint.
UnprepareBegin(c) ==
    /\ phase = "up"
    /\ Unlocked
    /\ checkpoint # Torn
    /\ rpc' = [op |-> "unprepare", pc |-> "deleteSpec", claim |-> c,
               cp |-> checkpoint, file |-> NoEntries]
    /\ outcome' = [outcome EXCEPT ![c] = "none"]
    /\ UNCHANGED <<node, files, memory, phase, rec>>

\* Mutant: the checkpoint is emptied.
DeleteClaimSpecFile_DropsAll ==
    /\ RpcAt("unprepare", "deleteSpec")
    /\ cdiSpecs' = Restrict(cdiSpecs, DOMAIN cdiSpecs \ {rpc.claim})
    /\ rpc' = [rpc EXCEPT !.pc = "truncate", !.cp = {}]
    /\ UNCHANGED <<node, checkpoint, claimDevices, durable, memory, phase, rec, outcome>>

\* DeleteClaimSpecFile, which succeeds when there is no such file.
DeleteClaimSpecFile ==
    /\ RpcAt("unprepare", "deleteSpec")
    /\ cdiSpecs' = Restrict(cdiSpecs, DOMAIN cdiSpecs \ {rpc.claim})
    /\ rpc' = [rpc EXCEPT !.pc = "truncate", !.cp = @ \ {rpc.claim}]
    /\ UNCHANGED <<node, checkpoint, claimDevices, durable, memory, phase, rec, outcome>>

\* Mutant: the claim's snapshot is left to the next reconcile.
ForgetRead_Skips ==
    /\ RpcAt("unprepare", "readClaims")
    /\ Return(rpc.claim, "unprepared")
    /\ UNCHANGED <<node, files, memory, phase, rec>>

\* deleteClaimDevicesLocked reads claim-devices.json; without an entry for
\* the claim there is nothing to write and Unprepare is done.
ForgetRead ==
    /\ RpcAt("unprepare", "readClaims")
    /\ IF rpc.claim \in DOMAIN claimDevices
       THEN /\ rpc' = [rpc EXCEPT
                         !.pc = "forget",
                         !.file = Restrict(claimDevices,
                                           DOMAIN claimDevices \ {rpc.claim})]
            /\ UNCHANGED outcome
       ELSE Return(rpc.claim, "unprepared")
    /\ UNCHANGED <<node, files, memory, phase, rec>>

ForgetClaimDevices ==
    /\ RpcAt("unprepare", "forget")
    /\ claimDevices' = rpc.file
    /\ Return(rpc.claim, "unprepared")
    /\ UNCHANGED <<node, checkpoint, cdiSpecs, durable, memory, phase, rec>>

\* The file operation that a Prepare or an Unprepare does next fails, and the
\* call returns the error. The files stay as they are; in particular a
\* checkpoint that was truncated stays torn.
RpcFails ==
    /\ rpc # IdleCall
    /\ rpc' = IdleCall
    /\ UNCHANGED <<node, files, memory, phase, rec, outcome>>

-----------------------------------------------------------------------------
\* Reconcile.

\* Enumerate, before the mutex is taken. It never fails.
Enumerate ==
    /\ phase \in {"starting", "up"}
    /\ rec = IdleCall
    /\ rec' = [pc |-> "lock", found |-> sysfs, cp |-> {}, file |-> NoEntries]
    /\ UNCHANGED <<node, files, memory, phase, rpc, outcome>>

\* applyDiscoveryLocked takes the mutex and reads the checkpoint.
ReadCheckpoint ==
    /\ rec.pc = "lock"
    /\ Unlocked
    /\ checkpoint # Torn
    /\ rec' = [rec EXCEPT !.pc = "readClaims", !.cp = checkpoint]
    /\ UNCHANGED <<node, files, memory, phase, rpc, outcome>>

\* It reads claim-devices.json and drops the entries of claims that are not
\* in the checkpoint (pruneClaimDevices); only a change is written back.
ReadClaimDevices ==
    /\ rec.pc = "readClaims"
    /\ rec' = [rec EXCEPT
                 !.pc = IF DOMAIN claimDevices \subseteq rec.cp THEN "apply" ELSE "prune",
                 !.file = Restrict(claimDevices, DOMAIN claimDevices \cap rec.cp)]
    /\ UNCHANGED <<node, files, memory, phase, rpc, outcome>>

PruneClaimDevices ==
    /\ rec.pc = "prune"
    /\ claimDevices' = rec.file
    /\ rec' = [rec EXCEPT !.pc = "apply"]
    /\ UNCHANGED <<node, checkpoint, cdiSpecs, durable, memory, phase, rpc, outcome>>
\* claimedSnapshots: one device per name that a prepared claim's entry holds.
\* When the entries of two claims differ on a name, the order of a Go map
\* decides which one is taken.
ClaimedSnapshots(cp, file) ==
    LET entries(n) == {c \in DOMAIN file \cap cp : n \in DOMAIN file[c]}
        held == {n \in Names : entries(n) # {}}
    IN  {snap \in [held -> Devices] :
            \A n \in held : \E c \in entries(n) : snap[n] = file[c][n]}

\* The rest of applyDiscoveryLocked: the new tracked set and resources. In
\* NewDeviceState this ends the start.
ApplyDiscovery ==
    /\ rec.pc = "apply"
    /\ \E snapshots \in ClaimedSnapshots(rec.cp, rec.file) :
          tracked' = nextTracked(rec.found, snapshots, tracked, nodes, clock)
    /\ driverResources' = devicesToResources(tracked')
    /\ rec' = IdleCall
    /\ phase' = "up"
    /\ UNCHANGED <<node, files, rpc, outcome>>

\* A file operation of Reconcile fails, or the checkpoint it reads does not
\* parse: Reconcile returns the error, which ends the process when it is
\* starting.
ReconcileFails ==
    /\ \/ rec.pc = "lock" /\ Unlocked
       \/ rec.pc \in {"readClaims", "prune"}
    /\ rec' = IdleCall
    /\ phase' = IF phase = "starting" THEN "down" ELSE phase
    /\ UNCHANGED <<node, files, memory, rpc, outcome>>

-----------------------------------------------------------------------------
\* The process.

Start ==
    /\ phase = "down"
    /\ phase' = "starting"
    /\ UNCHANGED <<node, files, memory, rpc, rec, outcome>>

\* The process dies or is stopped, at any point.
Crash ==
    /\ phase # "down"
    /\ phase' = "down"
    /\ rpc' = IdleCall
    /\ rec' = IdleCall
    /\ tracked' = NoEntries
    /\ driverResources' = NoResources
    /\ UNCHANGED <<node, files, outcome>>

Environment ==
    \/ \E d \in Devices : Bind(d)
    \/ \E n \in Names : Unbind(n)
    \/ \E p \in Nodes : NodeAppears(p) \/ NodeVanishes(p)
    \/ Tick

RpcStep ==
    \/ CreateClaimSpecFile
    \/ RecordRead
    \/ RecordClaimDevices
    \/ TruncateCheckpoint
    \/ WriteCheckpoint
    \/ DeleteClaimSpecFile
    \/ ForgetRead
    \/ ForgetClaimDevices
    \/ RpcFails

ReconcileStep ==
    \/ Enumerate
    \/ ReadCheckpoint
    \/ ReadClaimDevices
    \/ PruneClaimDevices
    \/ ApplyDiscovery
    \/ ReconcileFails

Process ==
    \/ Start
    \/ Crash
    \/ \E c \in Claims : PrepareBegin(c) \/ UnprepareBegin(c)
    \/ RpcStep
    \/ ReconcileStep

Next == Environment \/ Process

Spec == Init /\ [][Next]_vars

-----------------------------------------------------------------------------
\* Properties.

\* Every claim of the checkpoint has its devices in claim-devices.json, at
\* every instant and so after a crash between any two file operations:
\* Prepare records before it checkpoints, Unprepare checkpoints before it
\* forgets, and Reconcile prunes only what is not in the checkpoint.
SnapshotRecorded ==
    \A c \in durable : c \in DOMAIN claimDevices /\ DOMAIN claimDevices[c] = Alloc[c]

\* While the plugin is up, it publishes every device of every checkpointed
\* claim, whether sysfs still shows the device or not: Reconcile keeps a
\* device until the last claim that holds it is unprepared, also across a
\* restart, and also when what it enumerated is older than the claim.
PreparedStaysPublished ==
    phase = "up" => \A c \in durable : Alloc[c] \subseteq DOMAIN driverResources

\* A claim whose last call was a Prepare that returned success is in the
\* checkpoint and has its snapshot and its CDI spec, whatever crashes and
\* whatever calls on other claims have happened since.
PreparedIsDurable ==
    \A c \in Claims :
        outcome[c] = "prepared" =>
            c \in durable \cap DOMAIN claimDevices \cap DOMAIN cdiSpecs

\* A claim whose last call was an Unprepare that returned success has left
\* nothing behind, also when earlier calls on it failed or died half-way, and
\* nothing that runs later brings an entry back.
UnpreparedLeavesNothing ==
    \A c \in Claims :
        outcome[c] = "unprepared" =>
            c \notin durable \cup DOMAIN claimDevices \cup DOMAIN cdiSpecs

\* The inverse of a retained device's reason: whenever Reconcile changes the
\* tracked set, what it keeps without having enumerated it is held by a claim
\* that is in the checkpoint, so a device is not kept for orphan snapshots.
RetainedForClaim ==
    [][tracked' # tracked =>
         \A n \in DOMAIN tracked' :
             tracked'[n].taintValue = "not-discovered" =>
                 \E c \in durable : n \in Alloc[c]]_vars

\* As long as a process tracks a device as tainted, the time of the taint does
\* not move, even when the reason changes (the eviction delay that a pod
\* tolerates counts from it).
TaintTimeKept ==
    [][\A n \in DOMAIN tracked \cap DOMAIN tracked' :
         tracked[n].status = "Unhealthy" /\ tracked'[n].status = "Unhealthy"
             => tracked'[n].taintedAt = tracked[n].taintedAt]_vars

\* When Prepare returns success, none of the claim's devices is unhealthy in
\* the tracked set of that moment, not only of the moment it looked.
PreparedNotUnhealthy ==
    [][\A c \in Claims :
         outcome[c] # "prepared" /\ outcome'[c] = "prepared" =>
             \A n \in Alloc[c] :
                 n \in DOMAIN tracked /\ tracked[n].status # "Unhealthy"]_vars

\* "udev may still be creating it": a reconcile taints a device as missing only
\* if the process has tracked its name since the reconcile before, and then as
\* Healthy or as Unhealthy. A name that has just been found, or that has been
\* Unknown through any number of reconciles, is not tainted for its missing
\* node, also after a restart. (What was seen is kept by name: a device that
\* takes the place of another one under its name inherits it.)
UnseenNotTainted ==
    [][\A n \in DOMAIN tracked' :
         tracked'[n].taintValue = "node-missing" =>
             n \in DOMAIN tracked /\ tracked[n].status # "Unknown"]_vars

\* "The device stays published while a claim is still prepared": a process that
\* starts while claims are prepared can read the checkpoint that names them.
RestartReadsCheckpoint ==
    phase = "starting" /\ durable # {} => checkpoint # Torn

\* "Once a device has been seen, losing its kernel driver or char device marks
\* it Unhealthy and taints it": a process that starts does not take a device of
\* a claim that was prepared before, when its char device existed, for one that
\* udev has yet to create.
RestartKnowsSeenDevice ==
    [][phase = "starting" /\ phase' = "up" =>
         \A c \in Claims : outcome[c] = "prepared" =>
             \A n \in Alloc[c] : tracked'[n].status # "Unknown"]_vars

\* "New prepares fail until the device is usable again": the CDI spec of a
\* claim that was prepared injects the char device of each of its devices.
PreparedInjectsNodes ==
    \A c \in Claims : outcome[c] = "prepared" => cdiSpecs[c] = Alloc[c]

\* The claims of the last complete checkpoint are the prepared ones, and a
\* plugin that is up publishes driverResources.
Retention ==
    INSTANCE ClaimRetention
    WITH alive <- phase = "up",
         held <- durable,
         published <- IF phase = "up" THEN DOMAIN driverResources ELSE {}

\* Every file operation, reconcile, crash and restart is a step of the
\* retention promise or none: claims are held and released one at a time, only
\* while the plugin is up, and no reconcile or restart loses a held device.
KeepsRetentionPromise == Retention!Spec

=============================================================================
