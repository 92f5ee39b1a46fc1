------------------------- MODULE DeviceStateProofs --------------------------
(***************************************************************************)
(* Theorems about DeviceState, for any devices, claims and allocations.    *)
(*                                                                         *)
(* The properties are not inductive. The parts of the invariant below say  *)
(* what the call in progress has read from the files and how far it is     *)
(* with changing them, which is what makes the order of the file           *)
(* operations in Prepare, Unprepare and Reconcile matter.                  *)
(***************************************************************************)
EXTENDS DeviceState, TLAPS

-----------------------------------------------------------------------------
\* The inductive invariant.

\* Every entry of a claim-devices.json is that of an allocated claim and holds
\* exactly the claim's names.
EntriesMatchAlloc(file) ==
    \A c \in DOMAIN file : c \in DOMAIN Alloc /\ DOMAIN file[c] = Alloc[c]

\* The calls that exist in each phase, and the mutex.
CallsInv ==
    /\ phase = "down" => rec = IdleCall
    /\ phase # "up" => rpc = IdleCall
    /\ rpc # IdleCall => rec.pc \in {"idle", "lock"}

\* The files between the operations of a call.
FilesInv ==
    /\ checkpoint = Torn \/ checkpoint = durable
    /\ EntriesMatchAlloc(claimDevices)
    /\ durable \subseteq DOMAIN claimDevices

\* What a Prepare in progress has read and done.
PrepareInv ==
    rpc \in PrepareCall =>
        /\ rpc.claim \in DOMAIN Alloc
        /\ DOMAIN rpc.devs = Alloc[rpc.claim]
        /\ Alloc[rpc.claim] \subseteq DOMAIN tracked
        /\ rpc.pc \in {"createSpec", "readClaims", "record"} => rpc.cp = durable
        /\ rpc.pc = "record" =>
              /\ EntriesMatchAlloc(rpc.file)
              /\ DOMAIN rpc.file = DOMAIN claimDevices \cup {rpc.claim}
        /\ rpc.pc \in {"truncate", "write"} =>
              /\ rpc.cp = durable \cup {rpc.claim}
              /\ rpc.claim \in DOMAIN claimDevices

\* What an Unprepare in progress has read and done.
UnprepareInv ==
    rpc \in UnprepareCall =>
        /\ rpc.pc = "deleteSpec" => rpc.cp = durable
        /\ rpc.pc \in {"truncate", "write"} => rpc.cp = durable \ {rpc.claim}
        /\ rpc.pc \in {"readClaims", "forget"} => rpc.claim \notin durable
        /\ rpc.pc = "forget" =>
              /\ EntriesMatchAlloc(rpc.file)
              /\ DOMAIN rpc.file = DOMAIN claimDevices \ {rpc.claim}

\* What a Reconcile that holds the mutex has read.
ReconcileInv ==
    /\ rec.pc \in {"readClaims", "prune", "apply"} => rec.cp = durable
    /\ rec.pc \in {"prune", "apply"} =>
          /\ EntriesMatchAlloc(rec.file)
          /\ DOMAIN rec.file = durable

\* The tracked set holds what the checkpointed claims hold.
TrackedInv ==
    phase = "up" =>
        /\ \A c \in durable : Alloc[c] \subseteq DOMAIN tracked
        /\ DOMAIN driverResources = DOMAIN tracked

\* What the retention of devices rests on.
RetentionInv ==
    /\ CallsInv
    /\ FilesInv
    /\ PrepareInv
    /\ UnprepareInv
    /\ ReconcileInv
    /\ TrackedInv

\* The claim of the call in progress, how far its CDI spec is, and what the
\* last outcomes promise.
OutcomeInv ==
    /\ rpc # IdleCall => outcome[rpc.claim] = "none"
    /\ rpc \in PrepareCall /\ rpc.pc # "createSpec" => rpc.claim \in DOMAIN cdiSpecs
    /\ rpc \in UnprepareCall /\ rpc.pc # "deleteSpec" => rpc.claim \notin DOMAIN cdiSpecs
    /\ PreparedIsDurable
    /\ UnpreparedLeavesNothing

-----------------------------------------------------------------------------

\* A Go map is a function on the set of its keys.
LEMMA PartialFnIsMap ==
    ASSUME NEW S, NEW T, NEW f
    PROVE  f \in PartialFn(S, T) <=> IsMap(f, S, T)
BY DEF PartialFn, IsMap

\* Setting an entry of a map, as recordClaimDevicesLocked does, gives a map.
LEMMA PartialFnExtend ==
    ASSUME NEW S, NEW T, NEW f \in PartialFn(S, T), NEW k \in S, NEW v \in T
    PROVE  [x \in DOMAIN f \cup {k} |-> IF x = k THEN v ELSE f[x]] \in PartialFn(S, T)
BY PartialFnIsMap DEF IsMap

\* Deleting entries, as deleteClaimDevicesLocked and pruneClaimDevices do, gives
\* a map.
LEMMA PartialFnRestrict ==
    ASSUME NEW S, NEW T, NEW f \in PartialFn(S, T), NEW D \in SUBSET DOMAIN f
    PROVE  Restrict(f, D) \in PartialFn(S, T)
BY PartialFnIsMap DEF IsMap, Restrict

\* So does starting from none, as when the file does not exist.
LEMMA NoEntriesPartialFn ==
    ASSUME NEW S, NEW T
    PROVE  NoEntries \in PartialFn(S, T)
BY PartialFnIsMap DEF IsMap, NoEntries

\* A node on which the plugin has not run is well typed.
LEMMA InitType == Init => TypeOK
  <1> SUFFICES ASSUME Init PROVE TypeOK
    OBVIOUS
  <1>1. sysfs \in DeviceMap /\ claimDevices \in ClaimFile /\ cdiSpecs \in PartialFn(Claims, SUBSET Names)
    BY NoEntriesPartialFn DEF Init, DeviceMap, ClaimFile
  <1>2. IsMap(tracked, Names, TrackedDevice)
    BY DEF Init, IsMap, NoEntries
  <1> QED
    BY <1>1, <1>2 DEF Init, TypeOK

\* The tracked device of an enumerated device is a tracked device.
LEMMA AssessType ==
    ASSUME NEW d \in Devices, NEW tr, IsMap(tr, Names, TrackedDevice),
           NEW ok \in BOOLEAN, NEW now \in Nat
    PROVE  assessEnumerated(d, tr, ok, now) \in TrackedDevice
  <1> DEFINE seen == ok \/ (NameOf[d] \in DOMAIN tr /\ tr[NameOf[d]].nodeSeen)
             fresh == [dev |-> d, status |-> "Unknown", nodeSeen |-> seen,
                       taintedAt |-> ZeroTime, taintValue |-> ""]
  <1>1. fresh \in TrackedDevice
    BY DEF TrackedDevice, Statuses, TaintValues, ZeroTime
  <1>2. CASE ok
    BY <1>1, <1>2 DEF assessEnumerated, TrackedDevice, Statuses
  <1>3. CASE ~ok /\ ~seen
    BY <1>1, <1>3 DEF assessEnumerated
  <1>4. CASE ~ok /\ seen
    <2>1. tr[NameOf[d]] \in TrackedDevice
      BY <1>4 DEF IsMap
    <2>2. [fresh EXCEPT !.taintedAt = tr[NameOf[d]].taintedAt] \in TrackedDevice
      BY <1>1, <2>1 DEF TrackedDevice
    <2> QED
      BY <1>4, <2>2 DEF assessEnumerated, markUnavailable, TrackedDevice,
         Statuses, TaintValues
  <1> QED
    BY <1>2, <1>3, <1>4

\* So is that of a retained one.
LEMMA RetainType ==
    ASSUME NEW n, NEW d \in Devices, NEW tr, IsMap(tr, Names, TrackedDevice),
           NEW now \in Nat
    PROVE  retain(n, d, tr, now) \in TrackedDevice
BY DEF retain, markUnavailable, IsMap, TrackedDevice, Statuses, TaintValues, ZeroTime

\* A reconcile tracks tracked devices.
LEMMA NextTrackedType ==
    ASSUME NEW found \in DeviceMap, NEW snaps \in DeviceMap, NEW tr,
           IsMap(tr, Names, TrackedDevice), NEW present, NEW now \in Nat
    PROVE  IsMap(nextTracked(found, snaps, tr, present, now), Names, TrackedDevice)
  <1>1. IsMap(found, Names, Devices) /\ IsMap(snaps, Names, Devices)
    BY PartialFnIsMap DEF DeviceMap
  <1>2. \A n \in DOMAIN found :
           assessEnumerated(found[n], tr, NodeOf[found[n]] \in present, now) \in TrackedDevice
    <2> SUFFICES ASSUME NEW n \in DOMAIN found
                 PROVE  assessEnumerated(found[n], tr, NodeOf[found[n]] \in present, now)
                           \in TrackedDevice
      OBVIOUS
    <2>1. found[n] \in Devices
      BY <1>1 DEF IsMap
    <2>2. DEFINE ok == NodeOf[found[n]] \in present
    <2>3. ok \in BOOLEAN
      OBVIOUS
    <2> HIDE DEF ok
    <2>4. assessEnumerated(found[n], tr, ok, now) \in TrackedDevice
      BY <2>1, <2>3, AssessType
    <2> QED
      BY <2>4 DEF ok
  <1>3. \A n \in DOMAIN snaps : retain(n, snaps[n], tr, now) \in TrackedDevice
    BY <1>1, RetainType DEF IsMap
  <1> QED
    BY <1>1, <1>2, <1>3 DEF nextTracked, IsMap

\* devicesToResources publishes well-typed devices.
LEMMA ResourcesType ==
    ASSUME NEW tr, IsMap(tr, Names, TrackedDevice)
    PROVE  /\ IsMap(devicesToResources(tr), Names, ResourceDevice)
           /\ DOMAIN devicesToResources(tr) = DOMAIN tr
  <1>1. \A n \in DOMAIN tr : toResourceDevice(tr[n]) \in ResourceDevice
    BY DEF IsMap, toResourceDevice, ResourceDevice, TrackedDevice, TaintValues, ZeroTime
  <1> QED
    BY <1>1 DEF devicesToResources, IsMap

\* claimedSnapshots picks devices, whichever entry it takes them from.
LEMMA SnapshotsType ==
    ASSUME NEW cp, NEW file, NEW snaps \in ClaimedSnapshots(cp, file)
    PROVE  /\ snaps \in DeviceMap
           /\ \A c \in DOMAIN file \cap cp : DOMAIN file[c] \cap Names \subseteq DOMAIN snaps
BY PartialFnIsMap DEF ClaimedSnapshots, DeviceMap, IsMap

-----------------------------------------------------------------------------
\* Type correctness.

\* No file operation, reconcile, crash or change of the node breaks a type.
LEMMA TypeStep == TypeOK /\ [Next]_vars => TypeOK'
  <1> SUFFICES ASSUME TypeOK, [Next]_vars
               PROVE  TypeOK'
    OBVIOUS
  <1> USE DeviceAssumption, ClaimAssumption DEF node, files, memory
  <1>1. ASSUME NEW d \in Devices, Bind(d) PROVE TypeOK'
    <2>1. sysfs \in PartialFn(Names, Devices)
      BY DEF TypeOK, DeviceMap
    <2>2. NameOf[d] \in Names
      OBVIOUS
    <2>3. [n \in DOMAIN sysfs \cup {NameOf[d]} |-> IF n = NameOf[d] THEN d ELSE sysfs[n]]
             \in PartialFn(Names, Devices)
      BY ONLY <2>1, <2>2, PartialFnExtend
    <2>4. sysfs' \in DeviceMap
      BY <1>1, <2>3 DEF Bind, DeviceMap
    <2> QED
      BY <1>1, <2>4 DEF Bind, TypeOK
  <1>2. ASSUME NEW n \in Names, Unbind(n) PROVE TypeOK'
    <2>1. sysfs' \in DeviceMap
      BY <1>2, PartialFnRestrict DEF Unbind, TypeOK, DeviceMap
    <2> QED
      BY <1>2, <2>1 DEF Unbind, TypeOK
  <1>3. ASSUME NEW p \in Nodes, NodeAppears(p) \/ NodeVanishes(p) PROVE TypeOK'
    BY <1>3 DEF NodeAppears, NodeVanishes, TypeOK
  <1>4. CASE Tick
    BY <1>4 DEF Tick, TypeOK
  <1>5. CASE Start
    BY <1>5 DEF Start, TypeOK
  <1>6. CASE Crash
    BY <1>6 DEF Crash, TypeOK, IsMap, NoEntries
  <1>7. ASSUME NEW c \in Claims, PrepareBegin(c) PROVE TypeOK'
    <2>1. IsMap(tracked, Names, TrackedDevice)
      BY DEF TypeOK
    <2>2. Alloc[c] \subseteq Names /\ Alloc[c] \subseteq DOMAIN tracked
      BY <1>7, <2>1, PartialFnIsMap DEF PrepareBegin, Preparable, IsMap
    <2>3. [n \in Alloc[c] |-> tracked[n].dev] \in DeviceMap
      BY <2>1, <2>2, PartialFnIsMap DEF DeviceMap, IsMap, TrackedDevice
    <2>4. NoEntries \in ClaimFile
      BY NoEntriesPartialFn DEF ClaimFile
    <2>5. rpc' \in PrepareCall
      BY <1>7, <2>3, <2>4 DEF PrepareBegin, PrepareCall, PrepareSteps, TypeOK
    <2> QED
      BY <1>7, <2>5 DEF PrepareBegin, TypeOK
  <1>8. ASSUME NEW c \in Claims, UnprepareBegin(c) PROVE TypeOK'
    <2>1. NoEntries \in ClaimFile
      BY NoEntriesPartialFn DEF ClaimFile
    <2>2. rpc' \in UnprepareCall
      BY <1>8, <2>1 DEF UnprepareBegin, UnprepareCall, UnprepareSteps, TypeOK
    <2> QED
      BY <1>8, <2>2 DEF UnprepareBegin, TypeOK
  <1>9. CASE CreateClaimSpecFile
    <2>1. rpc \in PrepareCall
      BY <1>9 DEF CreateClaimSpecFile, RpcAt, TypeOK, PrepareCall, UnprepareCall, IdleCall
    <2>2. rpc' \in PrepareCall
      BY <1>9, <2>1 DEF CreateClaimSpecFile, PrepareCall, PrepareSteps
    <2> DEFINE injected == deviceEdits(rpc.devs)
    <2>3. injected \in SUBSET Names
      BY <2>1, PartialFnIsMap DEF PrepareCall, DeviceMap, IsMap, deviceEdits
    <2>4. cdiSpecs' = [c \in DOMAIN cdiSpecs \cup {rpc.claim} |->
                          IF c = rpc.claim THEN injected ELSE cdiSpecs[c]]
      BY <1>9 DEF CreateClaimSpecFile
    <2> HIDE DEF injected
    <2>5. rpc.claim \in Claims /\ cdiSpecs \in PartialFn(Claims, SUBSET Names)
      BY <2>1 DEF PrepareCall, TypeOK
    <2>6. cdiSpecs' \in PartialFn(Claims, SUBSET Names)
      <3> DEFINE T == SUBSET Names
      <3>1. injected \in T /\ cdiSpecs \in PartialFn(Claims, T)
        BY <2>3, <2>5
      <3> HIDE DEF T
      <3>2. cdiSpecs' \in PartialFn(Claims, T)
        BY <2>4, <2>5, <3>1, PartialFnExtend
      <3> QED
        BY <3>2 DEF T
    <2> QED
      BY <1>9, <2>2, <2>6 DEF CreateClaimSpecFile, TypeOK
  <1>10. CASE RecordRead
    <2>1. rpc \in PrepareCall
      BY <1>10 DEF RecordRead, RpcAt, TypeOK, PrepareCall, UnprepareCall, IdleCall
    <2>2. [c \in DOMAIN claimDevices \cup {rpc.claim} |->
              IF c = rpc.claim THEN rpc.devs ELSE claimDevices[c]] \in ClaimFile
      BY <2>1, PartialFnExtend DEF ClaimFile, TypeOK, PrepareCall
    <2>3. rpc' \in PrepareCall
      BY <1>10, <2>1, <2>2 DEF RecordRead, PrepareCall, PrepareSteps
    <2> QED
      BY <1>10, <2>3 DEF RecordRead, TypeOK
  <1>11. CASE RecordClaimDevices
    <2>1. rpc \in PrepareCall
      BY <1>11 DEF RecordClaimDevices, RpcAt, TypeOK, PrepareCall, UnprepareCall, IdleCall
    <2>2. rpc' = IdleCall \/ rpc' \in PrepareCall
      <3>1. rpc.cp \cup {rpc.claim} \in SUBSET Claims
        BY <2>1 DEF PrepareCall
      <3>2. CASE rpc.claim \in rpc.cp
        BY <1>11, <3>2 DEF RecordClaimDevices, Return
      <3>3. CASE rpc.claim \notin rpc.cp
        BY <1>11, <2>1, <3>1, <3>3 DEF RecordClaimDevices, PrepareCall, PrepareSteps
      <3> QED
        BY <3>2, <3>3
    <2>3. outcome' \in [Claims -> {"none", "prepared", "unprepared"}]
      BY <1>11, <2>1 DEF RecordClaimDevices, Return, TypeOK, PrepareCall
    <2>4. claimDevices' \in ClaimFile
      BY <1>11, <2>1 DEF RecordClaimDevices, PrepareCall
    <2> QED
      BY <1>11, <2>2, <2>3, <2>4 DEF RecordClaimDevices, TypeOK
  <1>12. CASE TruncateCheckpoint
    <2>1. rpc \in PrepareCall \/ rpc \in UnprepareCall
      BY <1>12 DEF TruncateCheckpoint, TypeOK, IdleCall
    <2>2. rpc' \in PrepareCall \/ rpc' \in UnprepareCall
      BY <1>12, <2>1 DEF TruncateCheckpoint, PrepareCall, PrepareSteps,
         UnprepareCall, UnprepareSteps
    <2> QED
      BY <1>12, <2>2 DEF TruncateCheckpoint, TypeOK
  <1>13. CASE WriteCheckpoint
    <2>1. rpc \in PrepareCall \/ rpc \in UnprepareCall
      BY <1>13 DEF WriteCheckpoint, TypeOK, IdleCall
    <2>2. rpc' = IdleCall \/ rpc' \in UnprepareCall
      BY <1>13, <2>1 DEF WriteCheckpoint, Return, PrepareCall, UnprepareCall, UnprepareSteps
    <2>3. outcome' \in [Claims -> {"none", "prepared", "unprepared"}]
      BY <1>13, <2>1 DEF WriteCheckpoint, Return, TypeOK, PrepareCall, UnprepareCall
    <2>4. rpc.cp \in SUBSET Claims
      BY <2>1 DEF PrepareCall, UnprepareCall
    <2> QED
      BY <1>13, <2>2, <2>3, <2>4 DEF WriteCheckpoint, TypeOK
  <1>14. CASE DeleteClaimSpecFile
    <2>1. rpc \in UnprepareCall
      BY <1>14 DEF DeleteClaimSpecFile, RpcAt, TypeOK, PrepareCall, UnprepareCall, IdleCall
    <2>2. rpc' \in UnprepareCall
      BY <1>14, <2>1 DEF DeleteClaimSpecFile, UnprepareCall, UnprepareSteps
    <2>3. cdiSpecs' \in PartialFn(Claims, SUBSET Names)
      BY <1>14, PartialFnRestrict DEF DeleteClaimSpecFile, TypeOK
    <2> QED
      BY <1>14, <2>2, <2>3 DEF DeleteClaimSpecFile, TypeOK
  <1>15. CASE ForgetRead
    <2>1. rpc \in UnprepareCall
      BY <1>15 DEF ForgetRead, RpcAt, TypeOK, PrepareCall, UnprepareCall, IdleCall
    <2>2. Restrict(claimDevices, DOMAIN claimDevices \ {rpc.claim}) \in ClaimFile
      BY PartialFnRestrict DEF TypeOK, ClaimFile
    <2>3. rpc' = IdleCall \/ rpc' \in UnprepareCall
      BY <1>15, <2>1, <2>2 DEF ForgetRead, Return, UnprepareCall, UnprepareSteps
    <2>4. outcome' \in [Claims -> {"none", "prepared", "unprepared"}]
      BY <1>15, <2>1 DEF ForgetRead, Return, TypeOK, UnprepareCall
    <2> QED
      BY <1>15, <2>3, <2>4 DEF ForgetRead, TypeOK
  <1>16. CASE ForgetClaimDevices
    <2>1. rpc \in UnprepareCall
      BY <1>16 DEF ForgetClaimDevices, RpcAt, TypeOK, PrepareCall, UnprepareCall, IdleCall
    <2> QED
      BY <1>16, <2>1 DEF ForgetClaimDevices, Return, TypeOK, UnprepareCall
  <1>17. CASE RpcFails
    BY <1>17 DEF RpcFails, TypeOK
  <1>18. CASE Enumerate
    <2>1. NoEntries \in ClaimFile
      BY NoEntriesPartialFn DEF ClaimFile
    <2>2. rec' \in ReconcileCall
      BY <1>18, <2>1 DEF Enumerate, ReconcileCall, TypeOK
    <2> QED
      BY <1>18, <2>2 DEF Enumerate, TypeOK
  <1>19. CASE ReadCheckpoint
    <2>1. rec \in ReconcileCall
      BY <1>19 DEF ReadCheckpoint, TypeOK, IdleCall
    <2>2. rec' \in ReconcileCall
      BY <1>19, <2>1 DEF ReadCheckpoint, ReconcileCall, TypeOK
    <2> QED
      BY <1>19, <2>2 DEF ReadCheckpoint, TypeOK
  <1>20. CASE ReadClaimDevices
    <2>1. rec \in ReconcileCall
      BY <1>20 DEF ReadClaimDevices, TypeOK, IdleCall
    <2>2. Restrict(claimDevices, DOMAIN claimDevices \cap rec.cp) \in ClaimFile
      BY PartialFnRestrict DEF TypeOK, ClaimFile
    <2>3. rec' \in ReconcileCall
      BY <1>20, <2>1, <2>2 DEF ReadClaimDevices, ReconcileCall
    <2> QED
      BY <1>20, <2>3 DEF ReadClaimDevices, TypeOK
  <1>21. CASE PruneClaimDevices
    <2>1. rec \in ReconcileCall
      BY <1>21 DEF PruneClaimDevices, TypeOK, IdleCall
    <2>2. rec' \in ReconcileCall /\ claimDevices' \in ClaimFile
      BY <1>21, <2>1 DEF PruneClaimDevices, ReconcileCall
    <2> QED
      BY <1>21, <2>2 DEF PruneClaimDevices, TypeOK
  <1>22. CASE ApplyDiscovery
    <2>1. rec.found \in DeviceMap
      BY <1>22 DEF ApplyDiscovery, TypeOK, IdleCall, ReconcileCall
    <2>2. PICK snaps \in ClaimedSnapshots(rec.cp, rec.file) :
             tracked' = nextTracked(rec.found, snaps, tracked, nodes, clock)
      BY <1>22 DEF ApplyDiscovery
    <2>3. IsMap(tracked', Names, TrackedDevice)
      BY <2>1, <2>2, SnapshotsType, NextTrackedType DEF TypeOK
    <2>4. IsMap(driverResources', Names, ResourceDevice)
      BY <1>22, <2>3, ResourcesType DEF ApplyDiscovery
    <2> QED
      BY <1>22, <2>3, <2>4 DEF ApplyDiscovery, TypeOK
  <1>23. CASE ReconcileFails
    BY <1>23 DEF ReconcileFails, TypeOK
  <1>24. CASE UNCHANGED vars
    BY <1>24 DEF vars, TypeOK
  <1> QED
    BY <1>1, <1>2, <1>3, <1>4, <1>5, <1>6, <1>7, <1>8, <1>9, <1>10, <1>11, <1>12,
       <1>13, <1>14, <1>15, <1>16, <1>17, <1>18, <1>19, <1>20, <1>21, <1>22,
       <1>23, <1>24
       DEF Next, Environment, Process, RpcStep, ReconcileStep

\* Every variable of DeviceState keeps its type, so that every call in progress
\* is a well-formed one.
THEOREM TypeCorrect == Spec => []TypeOK
  BY InitType, TypeStep, PTL DEF Spec

-----------------------------------------------------------------------------
\* Retention.

\* Without claims there is nothing to retain.
LEMMA RetentionInit == Init => RetentionInv
  <1> SUFFICES ASSUME Init PROVE RetentionInv
    OBVIOUS
  <1>1. CallsInv /\ PrepareInv /\ UnprepareInv /\ ReconcileInv /\ TrackedInv
    BY DEF Init, CallsInv, PrepareInv, UnprepareInv, ReconcileInv, TrackedInv,
       IdleCall, PrepareCall, UnprepareCall
  <1>2. FilesInv
    BY DEF Init, FilesInv, EntriesMatchAlloc, NoEntries
  <1> QED
    BY <1>1, <1>2 DEF RetentionInv

\* The calls are told apart by their fields.
LEMMA CallKinds ==
    /\ IdleCall \notin PrepareCall \cup UnprepareCall
    /\ PrepareCall \cap UnprepareCall = {}
    /\ IdleCall.pc = "idle"
BY DEF IdleCall, PrepareCall, UnprepareCall

\* Every file operation of Prepare, Unprepare and Reconcile, a failure of one,
\* a crash and a restart keep what the retention of devices rests on.
LEMMA RetentionStep == TypeOK /\ RetentionInv /\ [Next]_vars => RetentionInv'
  <1> SUFFICES ASSUME TypeOK, RetentionInv, [Next]_vars
               PROVE  RetentionInv'
    OBVIOUS
  <1> USE DeviceAssumption, ClaimAssumption DEF node, files, memory
  <1>1. CASE Environment
    <2>1. UNCHANGED <<files, memory, phase, rpc, rec>>
      BY <1>1 DEF Environment, Bind, Unbind, NodeAppears, NodeVanishes, Tick
    <2> QED
      BY <2>1 DEF RetentionInv, CallsInv, FilesInv, EntriesMatchAlloc, PrepareInv,
         UnprepareInv, ReconcileInv, TrackedInv
  <1>2. CASE Start
    BY <1>2 DEF Start, RetentionInv, CallsInv, FilesInv, EntriesMatchAlloc,
       PrepareInv, UnprepareInv, ReconcileInv, TrackedInv
  <1>3. CASE Crash
    BY <1>3, CallKinds DEF Crash, RetentionInv, CallsInv, FilesInv,
       EntriesMatchAlloc, PrepareInv, UnprepareInv, ReconcileInv, TrackedInv
  <1>4. ASSUME NEW c \in Claims, PrepareBegin(c) PROVE RetentionInv'
    <2>1. CallsInv' /\ FilesInv' /\ ReconcileInv' /\ TrackedInv'
      BY <1>4 DEF PrepareBegin, Unlocked, RetentionInv, CallsInv, FilesInv,
         EntriesMatchAlloc, ReconcileInv, TrackedInv
    <2>2. PrepareInv'
      BY <1>4 DEF PrepareBegin, Preparable, PrepareInv, RetentionInv, FilesInv
    <2>3. UnprepareInv'
      BY <1>4, CallKinds DEF PrepareBegin, UnprepareInv, UnprepareCall
    <2> QED
      BY <2>1, <2>2, <2>3 DEF RetentionInv
  <1>5. ASSUME NEW c \in Claims, UnprepareBegin(c) PROVE RetentionInv'
    <2>1. CallsInv' /\ FilesInv' /\ ReconcileInv' /\ TrackedInv'
      BY <1>5 DEF UnprepareBegin, Unlocked, RetentionInv, CallsInv, FilesInv,
         EntriesMatchAlloc, ReconcileInv, TrackedInv
    <2>2. UnprepareInv'
      BY <1>5 DEF UnprepareBegin, UnprepareInv, RetentionInv, FilesInv
    <2>3. PrepareInv'
      BY <1>5, CallKinds DEF UnprepareBegin, PrepareInv, PrepareCall
    <2> QED
      BY <2>1, <2>2, <2>3 DEF RetentionInv
  <1>6. CASE CreateClaimSpecFile
    <2>1. rpc \in PrepareCall
      BY <1>6 DEF CreateClaimSpecFile, RpcAt, TypeOK, PrepareCall, UnprepareCall, IdleCall
    <2>2. rpc' \in PrepareCall /\ rpc' = [rpc EXCEPT !.pc = "readClaims"]
      BY <1>6, <2>1 DEF CreateClaimSpecFile, PrepareCall, PrepareSteps
    <2>3. CallsInv' /\ FilesInv' /\ ReconcileInv' /\ TrackedInv'
      BY <1>6, <2>1, CallKinds DEF CreateClaimSpecFile, RetentionInv, CallsInv, FilesInv,
         EntriesMatchAlloc, ReconcileInv, TrackedInv
    <2>4. PrepareInv'
      BY <1>6, <2>1, <2>2 DEF CreateClaimSpecFile, RpcAt, RetentionInv, PrepareInv, PrepareCall
    <2>5. UnprepareInv'
      BY <2>2, CallKinds DEF UnprepareInv
    <2> QED
      BY <2>3, <2>4, <2>5 DEF RetentionInv
  <1>7. CASE RecordRead
    <2>1. rpc \in PrepareCall
      BY <1>7 DEF RecordRead, RpcAt, TypeOK, PrepareCall, UnprepareCall, IdleCall
    <2> DEFINE f == [c \in DOMAIN claimDevices \cup {rpc.claim} |->
                        IF c = rpc.claim THEN rpc.devs ELSE claimDevices[c]]
    <2>2. EntriesMatchAlloc(f) /\ DOMAIN f = DOMAIN claimDevices \cup {rpc.claim}
      BY <2>1 DEF EntriesMatchAlloc, RetentionInv, FilesInv, PrepareInv
    <2>3. rpc' = [rpc EXCEPT !.pc = "record", !.file = f]
      BY <1>7 DEF RecordRead
    <2> HIDE DEF f
    <2>4. rpc'.pc = "record" /\ rpc'.file = f /\ rpc'.claim = rpc.claim /\ rpc'.devs = rpc.devs
          /\ rpc'.cp = rpc.cp /\ rpc'.op = "prepare"
      BY <2>1, <2>3 DEF PrepareCall
    <2>5. CallsInv' /\ FilesInv' /\ ReconcileInv' /\ TrackedInv'
      BY <1>7, <2>1, CallKinds DEF RecordRead, RetentionInv, CallsInv, FilesInv,
         EntriesMatchAlloc, ReconcileInv, TrackedInv
    <2>6. PrepareInv'
      BY <1>7, <2>1, <2>2, <2>4 DEF RecordRead, RpcAt, RetentionInv, PrepareInv, EntriesMatchAlloc
    <2>7. UnprepareInv'
      BY <2>4 DEF UnprepareInv, UnprepareCall
    <2> QED
      BY <2>5, <2>6, <2>7 DEF RetentionInv
  <1>8. CASE RecordClaimDevices
    <2>1. rpc \in PrepareCall
      BY <1>8 DEF RecordClaimDevices, RpcAt, TypeOK, PrepareCall, UnprepareCall, IdleCall
    <2>2. EntriesMatchAlloc(rpc.file) /\ DOMAIN rpc.file = DOMAIN claimDevices \cup {rpc.claim}
          /\ rpc.cp = durable
      BY <1>8, <2>1 DEF RecordClaimDevices, RpcAt, RetentionInv, PrepareInv
    <2>3. FilesInv'
      BY <1>8, <2>2 DEF RecordClaimDevices, RetentionInv, FilesInv, EntriesMatchAlloc
    <2>4. CASE rpc.claim \in rpc.cp
      <3>1. rpc' = IdleCall
        BY <1>8, <2>4 DEF RecordClaimDevices, Return
      <3> QED
        BY <1>8, <2>3, <3>1, CallKinds DEF RecordClaimDevices, RetentionInv, CallsInv,
           PrepareInv, UnprepareInv, ReconcileInv, EntriesMatchAlloc, TrackedInv
    <2>5. CASE rpc.claim \notin rpc.cp
      <3>1. rpc' = [rpc EXCEPT !.pc = "truncate", !.cp = @ \cup {rpc.claim}]
        BY <1>8, <2>5 DEF RecordClaimDevices
      <3>2. rpc'.pc = "truncate" /\ rpc'.cp = rpc.cp \cup {rpc.claim} /\ rpc'.claim = rpc.claim
            /\ rpc'.devs = rpc.devs /\ rpc'.op = "prepare"
        BY <2>1, <3>1 DEF PrepareCall
      <3>3. CallsInv' /\ ReconcileInv' /\ TrackedInv'
        BY <1>8, <2>1, CallKinds DEF RecordClaimDevices, RetentionInv, CallsInv,
           ReconcileInv, EntriesMatchAlloc, TrackedInv
      <3>4. PrepareInv'
        BY <1>8, <2>1, <2>2, <3>2 DEF RecordClaimDevices, RetentionInv, PrepareInv
      <3>5. UnprepareInv'
        BY <3>2 DEF UnprepareInv, UnprepareCall
      <3> QED
        BY <2>3, <3>3, <3>4, <3>5 DEF RetentionInv
    <2> QED
      BY <2>4, <2>5
  <1>9. CASE TruncateCheckpoint
    <2>1. rpc \in PrepareCall \/ rpc \in UnprepareCall
      BY <1>9 DEF TruncateCheckpoint, TypeOK, IdleCall
    <2>2. CallsInv' /\ FilesInv' /\ ReconcileInv' /\ TrackedInv'
      BY <1>9, <2>1, CallKinds DEF TruncateCheckpoint, RetentionInv, CallsInv, FilesInv,
         EntriesMatchAlloc, ReconcileInv, TrackedInv
    <2>3. PrepareInv'
      BY <1>9, <2>1, CallKinds DEF TruncateCheckpoint, RetentionInv, PrepareInv,
         PrepareCall, UnprepareCall
    <2>4. UnprepareInv'
      BY <1>9, <2>1, CallKinds DEF TruncateCheckpoint, RetentionInv, UnprepareInv,
         PrepareCall, UnprepareCall
    <2> QED
      BY <2>2, <2>3, <2>4 DEF RetentionInv
  <1>10. CASE WriteCheckpoint
    <2>1. CASE rpc \in PrepareCall
      <3>1. rpc' = IdleCall
        BY <1>10, <2>1 DEF WriteCheckpoint, Return, PrepareCall
      <3>2. rpc.cp = durable \cup {rpc.claim} /\ rpc.claim \in DOMAIN claimDevices
            /\ Alloc[rpc.claim] \subseteq DOMAIN tracked
        BY <1>10, <2>1 DEF WriteCheckpoint, RetentionInv, PrepareInv
      <3>3. FilesInv'
        BY <1>10, <3>2 DEF WriteCheckpoint, RetentionInv, FilesInv, EntriesMatchAlloc
      <3>4. CallsInv' /\ ReconcileInv'
        BY <1>10, <2>1, <3>1, CallKinds DEF WriteCheckpoint, RetentionInv, CallsInv, ReconcileInv
      <3>5. TrackedInv'
        BY <1>10, <3>2 DEF WriteCheckpoint, RetentionInv, TrackedInv
      <3> QED
        BY <3>1, <3>3, <3>4, <3>5, CallKinds DEF RetentionInv, PrepareInv, UnprepareInv
    <2>2. CASE rpc \in UnprepareCall
      <3>1. rpc' = [rpc EXCEPT !.pc = "readClaims"]
        BY <1>10, <2>2 DEF WriteCheckpoint, UnprepareCall
      <3>2. rpc'.pc = "readClaims" /\ rpc'.claim = rpc.claim /\ rpc'.op = "unprepare"
        BY <2>2, <3>1 DEF UnprepareCall
      <3>3. rpc.cp = durable \ {rpc.claim}
        BY <1>10, <2>2 DEF WriteCheckpoint, RetentionInv, UnprepareInv
      <3>4. FilesInv' /\ TrackedInv'
        BY <1>10, <3>3 DEF WriteCheckpoint, RetentionInv, FilesInv, TrackedInv, EntriesMatchAlloc
      <3>5. CallsInv' /\ ReconcileInv'
        BY <1>10, <2>2, CallKinds DEF WriteCheckpoint, RetentionInv, CallsInv, ReconcileInv
      <3>6. PrepareInv' /\ UnprepareInv'
        BY <1>10, <3>2, <3>3 DEF WriteCheckpoint, PrepareInv, UnprepareInv, PrepareCall
      <3> QED
        BY <3>4, <3>5, <3>6 DEF RetentionInv
    <2> QED
      BY <1>10, <2>1, <2>2 DEF WriteCheckpoint, TypeOK, IdleCall
  <1>11. CASE DeleteClaimSpecFile
    <2>1. rpc \in UnprepareCall
      BY <1>11 DEF DeleteClaimSpecFile, RpcAt, TypeOK, PrepareCall, UnprepareCall, IdleCall
    <2>2. rpc' = [rpc EXCEPT !.pc = "truncate", !.cp = @ \ {rpc.claim}]
      BY <1>11 DEF DeleteClaimSpecFile
    <2>3. rpc'.pc = "truncate" /\ rpc'.claim = rpc.claim /\ rpc'.op = "unprepare"
          /\ rpc'.cp = rpc.cp \ {rpc.claim}
      BY <2>1, <2>2 DEF UnprepareCall
    <2>4. CallsInv' /\ FilesInv' /\ ReconcileInv' /\ TrackedInv'
      BY <1>11, <2>1, CallKinds DEF DeleteClaimSpecFile, RetentionInv, CallsInv, FilesInv,
         EntriesMatchAlloc, ReconcileInv, TrackedInv
    <2>5. PrepareInv' /\ UnprepareInv'
      BY <1>11, <2>1, <2>3 DEF DeleteClaimSpecFile, RpcAt, RetentionInv, PrepareInv,
         UnprepareInv, PrepareCall
    <2> QED
      BY <2>4, <2>5 DEF RetentionInv
  <1>12. CASE ForgetRead
    <2>1. rpc \in UnprepareCall
      BY <1>12 DEF ForgetRead, RpcAt, TypeOK, PrepareCall, UnprepareCall, IdleCall
    <2>2. FilesInv' /\ ReconcileInv' /\ TrackedInv'
      BY <1>12 DEF ForgetRead, RetentionInv, FilesInv, EntriesMatchAlloc, ReconcileInv, TrackedInv
    <2>3. CallsInv'
      BY <1>12, <2>1, CallKinds DEF ForgetRead, RetentionInv, CallsInv
    <2>4. CASE rpc.claim \in DOMAIN claimDevices
      <3> DEFINE f == Restrict(claimDevices, DOMAIN claimDevices \ {rpc.claim})
      <3>1. EntriesMatchAlloc(f) /\ DOMAIN f = DOMAIN claimDevices \ {rpc.claim}
        BY DEF RetentionInv, FilesInv, EntriesMatchAlloc, Restrict
      <3>2. rpc' = [rpc EXCEPT !.pc = "forget", !.file = f]
        BY <1>12, <2>4 DEF ForgetRead
      <3> HIDE DEF f
      <3>3. rpc'.pc = "forget" /\ rpc'.claim = rpc.claim /\ rpc'.op = "unprepare" /\ rpc'.file = f
        BY <2>1, <3>2 DEF UnprepareCall
      <3>4. rpc.claim \notin durable
        BY <1>12, <2>1 DEF ForgetRead, RpcAt, RetentionInv, UnprepareInv
      <3>5. PrepareInv' /\ UnprepareInv'
        BY <1>12, <3>1, <3>3, <3>4 DEF ForgetRead, PrepareInv, UnprepareInv, PrepareCall,
           EntriesMatchAlloc
      <3> QED
        BY <2>2, <2>3, <3>5 DEF RetentionInv
    <2>5. CASE rpc.claim \notin DOMAIN claimDevices
      <3>1. rpc' = IdleCall
        BY <1>12, <2>5 DEF ForgetRead, Return
      <3> QED
        BY <2>2, <2>3, <3>1, CallKinds DEF RetentionInv, PrepareInv, UnprepareInv
    <2> QED
      BY <2>4, <2>5
  <1>13. CASE ForgetClaimDevices
    <2>1. rpc \in UnprepareCall
      BY <1>13 DEF ForgetClaimDevices, RpcAt, TypeOK, PrepareCall, UnprepareCall, IdleCall
    <2>2. rpc' = IdleCall
      BY <1>13 DEF ForgetClaimDevices, Return
    <2>3. FilesInv'
      BY <1>13, <2>1 DEF ForgetClaimDevices, RpcAt, RetentionInv, FilesInv, UnprepareInv,
         EntriesMatchAlloc
    <2>4. CallsInv' /\ ReconcileInv' /\ TrackedInv'
      BY <1>13, <2>2 DEF ForgetClaimDevices, RetentionInv, CallsInv, ReconcileInv,
         EntriesMatchAlloc, TrackedInv
    <2> QED
      BY <2>2, <2>3, <2>4, CallKinds DEF RetentionInv, PrepareInv, UnprepareInv
  <1>14. CASE RpcFails
    BY <1>14, CallKinds DEF RpcFails, RetentionInv, CallsInv, FilesInv, EntriesMatchAlloc,
       PrepareInv, UnprepareInv, ReconcileInv, TrackedInv
  <1>15. CASE Enumerate
    BY <1>15, CallKinds DEF Enumerate, RetentionInv, CallsInv, FilesInv, EntriesMatchAlloc,
       PrepareInv, UnprepareInv, ReconcileInv, TrackedInv
  <1>16. CASE ReadCheckpoint
    <2>1. rec \in ReconcileCall
      BY <1>16 DEF ReadCheckpoint, TypeOK, IdleCall
    <2>2. rec'.pc = "readClaims" /\ rec'.cp = durable
      BY <1>16, <2>1 DEF ReadCheckpoint, ReconcileCall, RetentionInv, FilesInv
    <2> QED
      BY <1>16, <2>2, CallKinds DEF ReadCheckpoint, Unlocked, RetentionInv, CallsInv, FilesInv,
         EntriesMatchAlloc, PrepareInv, UnprepareInv, ReconcileInv, TrackedInv
  <1>17. CASE ReadClaimDevices
    <2>1. rec \in ReconcileCall
      BY <1>17 DEF ReadClaimDevices, TypeOK, IdleCall
    <2> DEFINE f == Restrict(claimDevices, DOMAIN claimDevices \cap rec.cp)
    <2>2. rec.cp = durable
      BY <1>17 DEF ReadClaimDevices, RetentionInv, ReconcileInv
    <2>3. EntriesMatchAlloc(f) /\ DOMAIN f = durable
      BY <2>2 DEF RetentionInv, FilesInv, EntriesMatchAlloc, Restrict
    <2>4. rec' = [rec EXCEPT !.pc = IF DOMAIN claimDevices \subseteq rec.cp
                                    THEN "apply" ELSE "prune", !.file = f]
      BY <1>17 DEF ReadClaimDevices
    <2> HIDE DEF f
    <2>5. rec'.pc \in {"apply", "prune"} /\ rec'.cp = durable /\ rec'.file = f
      BY <2>1, <2>2, <2>4 DEF ReconcileCall
    <2>6. rpc = IdleCall /\ phase # "down"
      BY <1>17, CallKinds DEF ReadClaimDevices, RetentionInv, CallsInv
    <2>7. ReconcileInv'
      BY <1>17, <2>3, <2>5 DEF ReadClaimDevices, ReconcileInv, EntriesMatchAlloc
    <2> QED
      BY <1>17, <2>6, <2>7, CallKinds DEF ReadClaimDevices, RetentionInv, CallsInv, FilesInv,
         EntriesMatchAlloc, PrepareInv, UnprepareInv, TrackedInv
  <1>18. CASE PruneClaimDevices
    <2>1. rec \in ReconcileCall
      BY <1>18 DEF PruneClaimDevices, TypeOK, IdleCall
    <2>2. EntriesMatchAlloc(rec.file) /\ DOMAIN rec.file = durable /\ rec.cp = durable
      BY <1>18 DEF PruneClaimDevices, RetentionInv, ReconcileInv
    <2>3. rec'.pc = "apply" /\ rec'.cp = rec.cp /\ rec'.file = rec.file
      BY <1>18, <2>1 DEF PruneClaimDevices, ReconcileCall
    <2>4. rpc = IdleCall /\ phase # "down"
      BY <1>18, CallKinds DEF PruneClaimDevices, RetentionInv, CallsInv
    <2>5. FilesInv' /\ ReconcileInv'
      BY <1>18, <2>2, <2>3 DEF PruneClaimDevices, RetentionInv, FilesInv, ReconcileInv,
         EntriesMatchAlloc
    <2> QED
      BY <1>18, <2>4, <2>5, CallKinds DEF PruneClaimDevices, RetentionInv, CallsInv, PrepareInv,
         UnprepareInv, TrackedInv
  <1>19. CASE ApplyDiscovery
    <2>1. rec.found \in DeviceMap /\ rec.cp = durable /\ DOMAIN rec.file = durable
          /\ EntriesMatchAlloc(rec.file)
      <3>1. rec \in ReconcileCall
        BY <1>19 DEF ApplyDiscovery, TypeOK, IdleCall
      <3>2. rec.found \in DeviceMap
        BY <3>1 DEF ReconcileCall
      <3> QED
        BY <1>19, <3>2 DEF ApplyDiscovery, RetentionInv, ReconcileInv
    <2>2. PICK snaps \in ClaimedSnapshots(rec.cp, rec.file) :
             tracked' = nextTracked(rec.found, snaps, tracked, nodes, clock)
      BY <1>19 DEF ApplyDiscovery
    <2>3. IsMap(tracked', Names, TrackedDevice) /\ DOMAIN snaps \subseteq DOMAIN tracked'
      <3>1. snaps \in DeviceMap /\ IsMap(tracked, Names, TrackedDevice) /\ clock \in Nat
        BY SnapshotsType DEF TypeOK
      <3>2. IsMap(tracked', Names, TrackedDevice)
        BY <2>1, <2>2, <3>1, NextTrackedType
      <3>3. DOMAIN snaps \subseteq DOMAIN tracked'
        BY <2>2 DEF nextTracked
      <3> QED
        BY <3>2, <3>3
    <2>4. \A c \in durable : Alloc[c] \subseteq DOMAIN snaps
      <3>1. \A c \in DOMAIN Alloc : Alloc[c] \subseteq Names
        BY PartialFnIsMap DEF IsMap
      <3> QED
        BY <2>1, <3>1, SnapshotsType DEF EntriesMatchAlloc
    <2>5. DOMAIN driverResources' = DOMAIN tracked'
      BY <1>19, <2>3, ResourcesType DEF ApplyDiscovery
    <2>6. TrackedInv'
      BY <1>19, <2>3, <2>4, <2>5 DEF ApplyDiscovery, TrackedInv
    <2>7. rpc = IdleCall /\ rec' = IdleCall
      BY <1>19, CallKinds DEF ApplyDiscovery, RetentionInv, CallsInv
    <2> QED
      BY <1>19, <2>6, <2>7, CallKinds DEF ApplyDiscovery, RetentionInv, CallsInv, FilesInv,
         EntriesMatchAlloc, PrepareInv, UnprepareInv, ReconcileInv
  <1>20. CASE ReconcileFails
    BY <1>20, CallKinds DEF ReconcileFails, RetentionInv, CallsInv, FilesInv, EntriesMatchAlloc,
       PrepareInv, UnprepareInv, ReconcileInv, TrackedInv
  <1>21. CASE UNCHANGED vars
    <2>1. UNCHANGED <<files, memory, phase, rpc, rec>>
      BY <1>21 DEF vars
    <2>2. CallsInv' /\ FilesInv' /\ TrackedInv'
      BY <2>1 DEF RetentionInv, CallsInv, FilesInv, EntriesMatchAlloc, TrackedInv
    <2>3. PrepareInv' /\ UnprepareInv'
      BY <2>1 DEF RetentionInv, EntriesMatchAlloc, PrepareInv, UnprepareInv
    <2>4. ReconcileInv'
      BY <2>1 DEF RetentionInv, EntriesMatchAlloc, ReconcileInv
    <2> QED
      BY <2>2, <2>3, <2>4 DEF RetentionInv
  <1> QED
    BY <1>1, <1>2, <1>3, <1>4, <1>5, <1>6, <1>7, <1>8, <1>9, <1>10, <1>11, <1>12,
       <1>13, <1>14, <1>15, <1>16, <1>17, <1>18, <1>19, <1>20, <1>21
       DEF Next, Process, RpcStep, ReconcileStep

\* Every checkpointed claim has its snapshot in claim-devices.json at every
\* instant, hence after a crash at any point: Prepare, Unprepare and Reconcile
\* order their writes for it.
THEOREM SnapshotsRecorded == Spec => []SnapshotRecorded
  <1>1. RetentionInv => SnapshotRecorded
    BY DEF RetentionInv, FilesInv, EntriesMatchAlloc, SnapshotRecorded
  <1> QED
    BY <1>1, TypeCorrect, RetentionInit, RetentionStep, PTL DEF Spec

\* While the plugin is up, Reconcile keeps the devices of checkpointed claims
\* published, across restarts and with a stale enumeration.
THEOREM PublishedWhilePrepared == Spec => []PreparedStaysPublished
  <1>1. RetentionInv => PreparedStaysPublished
    BY DEF RetentionInv, TrackedInv, PreparedStaysPublished
  <1> QED
    BY <1>1, TypeCorrect, RetentionInit, RetentionStep, PTL DEF Spec

-----------------------------------------------------------------------------
\* What the outcomes of calls promise.

\* Before the first call nothing has been promised.
LEMMA OutcomeInit == Init => OutcomeInv
BY CallKinds DEF Init, OutcomeInv, PreparedIsDurable, UnpreparedLeavesNothing

\* No step breaks what an earlier success of Prepare or Unprepare has promised,
\* unless it begins the next call on the same claim.
LEMMA OutcomeStep ==
    TypeOK /\ RetentionInv /\ OutcomeInv /\ [Next]_vars => OutcomeInv'
  <1> SUFFICES ASSUME TypeOK, RetentionInv, OutcomeInv, [Next]_vars
               PROVE  OutcomeInv'
    OBVIOUS
  <1> USE CallKinds DEF node, files, memory
  <1>0. outcome \in [Claims -> {"none", "prepared", "unprepared"}]
    BY DEF TypeOK
  <1>1. CASE Environment
    <2>1. UNCHANGED <<files, rpc, outcome>>
      BY <1>1 DEF Environment, Bind, Unbind, NodeAppears, NodeVanishes, Tick
    <2> QED
      BY <2>1 DEF OutcomeInv, PreparedIsDurable, UnpreparedLeavesNothing
  <1>2. CASE Start \/ Crash \/ RpcFails
    BY <1>2 DEF Start, Crash, RpcFails, OutcomeInv, PreparedIsDurable, UnpreparedLeavesNothing
  <1>3. CASE Enumerate \/ ReadCheckpoint \/ ReadClaimDevices \/ ApplyDiscovery \/ ReconcileFails
    <2>1. UNCHANGED <<files, rpc, outcome>>
      BY <1>3 DEF Enumerate, ReadCheckpoint, ReadClaimDevices, ApplyDiscovery, ReconcileFails
    <2> QED
      BY <2>1 DEF OutcomeInv, PreparedIsDurable, UnpreparedLeavesNothing
  <1>4. CASE PruneClaimDevices
    <2>1. DOMAIN claimDevices' = durable
      BY <1>4 DEF PruneClaimDevices, RetentionInv, ReconcileInv
    <2> QED
      BY <1>4, <2>1 DEF PruneClaimDevices, OutcomeInv, PreparedIsDurable, UnpreparedLeavesNothing
  <1>5. ASSUME NEW c \in Claims, PrepareBegin(c) \/ UnprepareBegin(c) PROVE OutcomeInv'
    <2>1. outcome' = [outcome EXCEPT ![c] = "none"] /\ UNCHANGED files /\ rpc'.claim = c
      <3>1. CASE PrepareBegin(c)
        BY <3>1 DEF PrepareBegin
      <3>2. CASE UnprepareBegin(c)
        BY <3>2 DEF UnprepareBegin
      <3> QED
        BY <1>5, <3>1, <3>2
    <2>2. rpc' \in PrepareCall => rpc'.pc = "createSpec"
      <3>1. CASE PrepareBegin(c)
        BY <3>1 DEF PrepareBegin
      <3>2. CASE UnprepareBegin(c)
        <4>1. rpc'.op = "unprepare"
          BY <3>2 DEF UnprepareBegin
        <4> QED
          BY ONLY <4>1 DEF PrepareCall
      <3> QED
        BY <1>5, <3>1, <3>2
    <2>3. rpc' \in UnprepareCall => rpc'.pc = "deleteSpec"
      <3>1. CASE PrepareBegin(c)
        <4>1. rpc'.op = "prepare"
          BY <3>1 DEF PrepareBegin
        <4> QED
          BY ONLY <4>1 DEF UnprepareCall
      <3>2. CASE UnprepareBegin(c)
        BY <3>2 DEF UnprepareBegin
      <3> QED
        BY <1>5, <3>1, <3>2
    <2> QED
      BY <1>0, <2>1, <2>2, <2>3 DEF OutcomeInv, PreparedIsDurable, UnpreparedLeavesNothing
  <1>6. CASE CreateClaimSpecFile
    <2>1. rpc \in PrepareCall /\ rpc.pc = "createSpec"
      BY <1>6 DEF CreateClaimSpecFile, RpcAt, TypeOK, PrepareCall, UnprepareCall, IdleCall
    <2>2. rpc'.op = "prepare" /\ rpc'.claim = rpc.claim
      BY <1>6, <2>1 DEF CreateClaimSpecFile, PrepareCall
    <2>3. DOMAIN cdiSpecs' = DOMAIN cdiSpecs \cup {rpc.claim}
      BY <1>6 DEF CreateClaimSpecFile
    <2>4. outcome[rpc.claim] = "none"
      BY <2>1 DEF OutcomeInv
    <2> QED
      BY <1>6, <2>2, <2>3, <2>4 DEF CreateClaimSpecFile, OutcomeInv, PreparedIsDurable,
         UnpreparedLeavesNothing, UnprepareCall
  <1>7. CASE RecordRead
    <2>1. rpc \in PrepareCall /\ rpc.pc = "readClaims"
      BY <1>7 DEF RecordRead, RpcAt, TypeOK, PrepareCall, UnprepareCall, IdleCall
    <2>2. rpc'.op = "prepare" /\ rpc'.claim = rpc.claim
      BY <1>7, <2>1 DEF RecordRead, PrepareCall
    <2> QED
      BY <1>7, <2>1, <2>2 DEF RecordRead, OutcomeInv, PreparedIsDurable, UnpreparedLeavesNothing,
         UnprepareCall
  <1>8. CASE RecordClaimDevices
    <2>1. rpc \in PrepareCall /\ rpc.pc = "record"
      BY <1>8 DEF RecordClaimDevices, RpcAt, TypeOK, PrepareCall, UnprepareCall, IdleCall
    <2>2. DOMAIN claimDevices' = DOMAIN claimDevices \cup {rpc.claim} /\ rpc.cp = durable
      BY <1>8, <2>1 DEF RecordClaimDevices, RetentionInv, PrepareInv
    <2>3. outcome[rpc.claim] = "none" /\ rpc.claim \in DOMAIN cdiSpecs /\ rpc.claim \in Claims
      BY <2>1 DEF OutcomeInv, PrepareCall
    <2>4. PreparedIsDurable' /\ UnpreparedLeavesNothing'
      BY <1>0, <1>8, <2>2, <2>3 DEF RecordClaimDevices, Return, OutcomeInv, PreparedIsDurable,
         UnpreparedLeavesNothing
    <2>5. CASE rpc.claim \in rpc.cp
      BY <1>8, <2>4, <2>5 DEF RecordClaimDevices, Return, OutcomeInv
    <2>6. CASE rpc.claim \notin rpc.cp
      <3>1. rpc'.op = "prepare" /\ rpc'.claim = rpc.claim /\ outcome' = outcome
        BY <1>8, <2>1, <2>6 DEF RecordClaimDevices, PrepareCall
      <3> QED
        BY <1>8, <2>3, <2>4, <3>1 DEF RecordClaimDevices, OutcomeInv, UnprepareCall
    <2> QED
      BY <2>5, <2>6
  <1>9. CASE TruncateCheckpoint
    <2>1. rpc \in PrepareCall \/ rpc \in UnprepareCall
      BY <1>9 DEF TruncateCheckpoint, TypeOK, IdleCall
    <2>2. rpc'.op = rpc.op /\ rpc'.claim = rpc.claim /\ rpc'.pc = "write"
      BY <1>9, <2>1 DEF TruncateCheckpoint, PrepareCall, UnprepareCall
    <2>3. /\ rpc \in PrepareCall => rpc.claim \in DOMAIN cdiSpecs
          /\ rpc \in UnprepareCall => rpc.claim \notin DOMAIN cdiSpecs
          /\ outcome[rpc.claim] = "none"
      BY <1>9, <2>1 DEF TruncateCheckpoint, OutcomeInv
    <2>4. /\ rpc' \in PrepareCall => rpc \in PrepareCall
          /\ rpc' \in UnprepareCall => rpc \in UnprepareCall
      BY <2>1, <2>2 DEF PrepareCall, UnprepareCall
    <2> QED
      BY <1>9, <2>2, <2>3, <2>4 DEF TruncateCheckpoint, OutcomeInv, PreparedIsDurable,
         UnpreparedLeavesNothing
  <1>10. CASE WriteCheckpoint
    <2>1. CASE rpc \in PrepareCall
      <3>1. rpc' = IdleCall /\ outcome' = [outcome EXCEPT ![rpc.claim] = "prepared"]
        BY <1>10, <2>1 DEF WriteCheckpoint, Return, PrepareCall
      <3>2. durable' = durable \cup {rpc.claim} /\ rpc.claim \in DOMAIN claimDevices
            /\ rpc.claim \in DOMAIN cdiSpecs /\ rpc.claim \in Claims
            /\ outcome[rpc.claim] = "none"
        BY <1>10, <2>1 DEF WriteCheckpoint, RetentionInv, PrepareInv, OutcomeInv, PrepareCall
      <3> QED
        BY <1>0, <1>10, <3>1, <3>2 DEF WriteCheckpoint, OutcomeInv, PreparedIsDurable,
           UnpreparedLeavesNothing
    <2>2. CASE rpc \in UnprepareCall
      <3>1. rpc'.op = "unprepare" /\ rpc'.claim = rpc.claim /\ outcome' = outcome
        BY <1>10, <2>2 DEF WriteCheckpoint, UnprepareCall
      <3>2. durable' = durable \ {rpc.claim} /\ rpc.claim \notin DOMAIN cdiSpecs
            /\ outcome[rpc.claim] = "none"
        BY <1>10, <2>2 DEF WriteCheckpoint, RetentionInv, UnprepareInv, OutcomeInv
      <3> QED
        BY <1>10, <3>1, <3>2 DEF WriteCheckpoint, OutcomeInv, PreparedIsDurable,
           UnpreparedLeavesNothing, PrepareCall
    <2> QED
      BY <1>10, <2>1, <2>2 DEF WriteCheckpoint, TypeOK, IdleCall
  <1>11. CASE DeleteClaimSpecFile
    <2>1. rpc \in UnprepareCall
      BY <1>11 DEF DeleteClaimSpecFile, RpcAt, TypeOK, PrepareCall, UnprepareCall, IdleCall
    <2>2. rpc'.op = "unprepare" /\ rpc'.claim = rpc.claim
      BY <1>11, <2>1 DEF DeleteClaimSpecFile, UnprepareCall
    <2>3. DOMAIN cdiSpecs' = DOMAIN cdiSpecs \ {rpc.claim} /\ outcome[rpc.claim] = "none"
      BY <1>11, <2>1 DEF DeleteClaimSpecFile, Restrict, OutcomeInv
    <2> QED
      BY <1>11, <2>2, <2>3 DEF DeleteClaimSpecFile, OutcomeInv, PreparedIsDurable,
         UnpreparedLeavesNothing, PrepareCall
  <1>12. CASE ForgetRead
    <2>1. rpc \in UnprepareCall
      BY <1>12 DEF ForgetRead, RpcAt, TypeOK, PrepareCall, UnprepareCall, IdleCall
    <2>2. rpc.claim \notin DOMAIN cdiSpecs /\ outcome[rpc.claim] = "none" /\ rpc.claim \in Claims
          /\ rpc.claim \notin durable
      BY <1>12, <2>1 DEF ForgetRead, RpcAt, RetentionInv, UnprepareInv, OutcomeInv, UnprepareCall
    <2>3. CASE rpc.claim \in DOMAIN claimDevices
      <3>1. rpc'.op = "unprepare" /\ rpc'.claim = rpc.claim /\ outcome' = outcome
        BY <1>12, <2>1, <2>3 DEF ForgetRead, UnprepareCall
      <3> QED
        BY <1>12, <2>2, <3>1 DEF ForgetRead, OutcomeInv, PreparedIsDurable,
           UnpreparedLeavesNothing, PrepareCall
    <2>4. CASE rpc.claim \notin DOMAIN claimDevices
      <3>1. rpc' = IdleCall /\ outcome' = [outcome EXCEPT ![rpc.claim] = "unprepared"]
        BY <1>12, <2>4 DEF ForgetRead, Return
      <3> QED
        BY <1>0, <1>12, <2>2, <2>4, <3>1 DEF ForgetRead, OutcomeInv, PreparedIsDurable,
           UnpreparedLeavesNothing
    <2> QED
      BY <2>3, <2>4
  <1>13. CASE ForgetClaimDevices
    <2>1. rpc \in UnprepareCall /\ rpc.pc = "forget"
      BY <1>13 DEF ForgetClaimDevices, RpcAt, TypeOK, PrepareCall, UnprepareCall, IdleCall
    <2>2. rpc.claim \notin DOMAIN cdiSpecs /\ outcome[rpc.claim] = "none" /\ rpc.claim \in Claims
          /\ rpc.claim \notin durable /\ DOMAIN rpc.file = DOMAIN claimDevices \ {rpc.claim}
      BY <2>1 DEF RetentionInv, UnprepareInv, OutcomeInv, UnprepareCall
    <2> QED
      BY <1>0, <1>13, <2>2 DEF ForgetClaimDevices, Return, OutcomeInv, PreparedIsDurable,
         UnpreparedLeavesNothing
  <1>14. CASE UNCHANGED vars
    BY <1>14 DEF vars, OutcomeInv, PreparedIsDurable, UnpreparedLeavesNothing
  <1> QED
    BY <1>1, <1>2, <1>3, <1>4, <1>5, <1>6, <1>7, <1>8, <1>9, <1>10, <1>11, <1>12, <1>13, <1>14
       DEF Next, Process, RpcStep, ReconcileStep

\* A successful Prepare is durable: its claim stays checkpointed, recorded and
\* specified until the next call on it.
THEOREM PreparedDurable == Spec => []PreparedIsDurable
  <1>1. OutcomeInv => PreparedIsDurable
    BY DEF OutcomeInv
  <1> QED
    BY <1>1, TypeCorrect, RetentionInit, RetentionStep, OutcomeInit, OutcomeStep, PTL DEF Spec

\* A successful Unprepare is complete: nothing of its claim is left, and nothing
\* comes back until the next call on it.
THEOREM UnprepareComplete == Spec => []UnpreparedLeavesNothing
  <1>1. OutcomeInv => UnpreparedLeavesNothing
    BY DEF OutcomeInv
  <1> QED
    BY <1>1, TypeCorrect, RetentionInit, RetentionStep, OutcomeInit, OutcomeStep, PTL DEF Spec

-----------------------------------------------------------------------------
\* Refinement of the retention promise.

\* A plugin that has not run holds and publishes nothing.
LEMMA RefinementInit == Init => Retention!Init
BY DEF Init, Retention!Init

\* Writing the checkpoint holds or releases one claim, the last step of
\* Reconcile starts the plugin or refreshes what it publishes, a crash stops it,
\* and every other step changes nothing that the promise speaks of.
LEMMA RefinementStep ==
    TypeOK /\ TypeOK' /\ RetentionInv /\ RetentionInv' /\ [Next]_vars
        => [Retention!Next]_(Retention!retention)
  <1> SUFFICES ASSUME TypeOK, TypeOK', RetentionInv, RetentionInv', [Next]_vars
               PROVE  [Retention!Next]_(Retention!retention)
    OBVIOUS
  <1> USE DEF node, files, memory, Retention!retention
  <1>1. CASE UNCHANGED <<phase, durable, driverResources>>
    BY <1>1
  <1>2. CASE Start \/ ReconcileFails
    BY <1>2 DEF Start, ReconcileFails
  <1>3. CASE Crash
    BY <1>3 DEF Crash, Retention!Next, Retention!Stop
  <1>4. CASE WriteCheckpoint
    <2>1. rpc # IdleCall
      BY <1>4 DEF WriteCheckpoint, IdleCall
    <2>2. phase = "up" /\ phase' = "up" /\ UNCHANGED driverResources /\ durable' = rpc.cp
      BY <1>4, <2>1 DEF WriteCheckpoint, RetentionInv, CallsInv
    <2>3. CASE rpc \in PrepareCall
      <3>1. rpc.claim \in DOMAIN Alloc /\ rpc.claim \in Claims
            /\ Alloc[rpc.claim] \subseteq DOMAIN driverResources
            /\ rpc.cp = durable \cup {rpc.claim}
        BY <1>4, <2>2, <2>3 DEF WriteCheckpoint, RetentionInv, PrepareInv, TrackedInv, PrepareCall
      <3>2. Retention!Hold(rpc.claim)
        BY <2>2, <3>1 DEF Retention!Hold
      <3> QED
        BY <3>1, <3>2 DEF Retention!Next
    <2>4. CASE rpc \in UnprepareCall
      <3>1. rpc.claim \in Claims /\ rpc.cp = durable \ {rpc.claim}
        BY <1>4, <2>4 DEF WriteCheckpoint, RetentionInv, UnprepareInv, UnprepareCall
      <3>2. Retention!Release(rpc.claim)
        BY <2>2, <3>1 DEF Retention!Release
      <3> QED
        BY <3>1, <3>2 DEF Retention!Next
    <2> QED
      BY <2>1, <2>3, <2>4 DEF TypeOK
  <1>5. CASE ApplyDiscovery
    <2>1. phase' = "up" /\ durable' = durable
      BY <1>5 DEF ApplyDiscovery
    <2>2. DOMAIN driverResources' \in SUBSET Names
      BY <2>1 DEF TypeOK, RetentionInv, TrackedInv, IsMap
    <2>3. Retention!Needed(durable) \subseteq DOMAIN driverResources'
      BY <2>1 DEF RetentionInv, TrackedInv, Retention!Needed
    <2>4. Retention!Start \/ Retention!Refresh
      BY <2>1, <2>2, <2>3 DEF Retention!Start, Retention!Refresh
    <2> QED
      BY <2>4 DEF Retention!Next
  <1>6. CASE Environment
    BY <1>1, <1>6 DEF Environment, Bind, Unbind, NodeAppears, NodeVanishes, Tick
  <1>7. ASSUME NEW c \in Claims, PrepareBegin(c) \/ UnprepareBegin(c)
        PROVE  [Retention!Next]_(Retention!retention)
    BY <1>1, <1>7 DEF PrepareBegin, UnprepareBegin
  <1>8. CASE CreateClaimSpecFile \/ RecordRead \/ RecordClaimDevices \/ TruncateCheckpoint
    BY <1>1, <1>8 DEF CreateClaimSpecFile, RecordRead, RecordClaimDevices, TruncateCheckpoint
  <1>9. CASE DeleteClaimSpecFile \/ ForgetRead \/ ForgetClaimDevices \/ RpcFails
    BY <1>1, <1>9 DEF DeleteClaimSpecFile, ForgetRead, ForgetClaimDevices, RpcFails
  <1>10. CASE Enumerate \/ ReadCheckpoint \/ ReadClaimDevices \/ PruneClaimDevices
    BY <1>1, <1>10 DEF Enumerate, ReadCheckpoint, ReadClaimDevices, PruneClaimDevices
  <1>11. CASE UNCHANGED vars
    BY <1>1, <1>11 DEF vars
  <1> QED
    BY <1>2, <1>3, <1>4, <1>5, <1>6, <1>7, <1>8, <1>9, <1>10, <1>11
       DEF Next, Process, RpcStep, ReconcileStep

\* DeviceState implements the retention promise: Reconcile keeps a device while
\* any prepared claim still references it, and a claim is only prepared on
\* published devices.
THEOREM Refinement == Spec => KeepsRetentionPromise
  BY TypeCorrect, RetentionInit, RetentionStep, RefinementInit, RefinementStep, PTL
     DEF Spec, KeepsRetentionPromise, Retention!Spec

=============================================================================
