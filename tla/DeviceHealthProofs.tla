------------------------ MODULE DeviceHealthProofs --------------------------
(***************************************************************************)
(* Theorems about the health that DeviceState keeps of its devices, for    *)
(* any devices, claims and allocations.                                    *)
(*                                                                         *)
(* Only a reconcile's last step and a crash change the tracked set. What   *)
(* they do to it follows from what one reconcile makes of the previous     *)
(* set (the lemmas on assessEnumerated, retain and nextTracked) and from   *)
(* what the reconcile has read (RetentionInv).                             *)
(***************************************************************************)
EXTENDS DeviceStateProofs

-----------------------------------------------------------------------------
\* The inductive invariant.

\* A device whose health is bad has the time it went bad.
TaintInv ==
    \A n \in DOMAIN tracked : tracked[n].status = "Unhealthy" => tracked[n].taintedAt # ZeroTime

\* The devices of a Prepare in progress are as healthy as when it looked.
UsableInv ==
    rpc \in PrepareCall =>
        \A n \in Alloc[rpc.claim] : n \in DOMAIN tracked /\ tracked[n].status # "Unhealthy"

\* Every device found is found under its own name.
OwnNames(found) == \A n \in DOMAIN found : NameOf[found[n]] = n

\* nodeSeen, which the taint depends on, and the reported status agree: a device
\* of unknown health is one whose char device has not been seen.
SeenInv ==
    /\ OwnNames(sysfs)
    /\ rec # IdleCall => OwnNames(rec.found)
    /\ \A n \in DOMAIN tracked :
          tracked[n].status = "Unknown" =>
              ~tracked[n].nodeSeen /\ tracked[n].taintValue # "node-missing"

HealthInv == TaintInv /\ UsableInv /\ SeenInv

-----------------------------------------------------------------------------
\* What one reconcile makes of a device.

\* An enumerated device is tainted only as missing, only if its node was seen
\* before, and then since the time of the taint it had.
LEMMA AssessHealth ==
    ASSUME NEW d \in Devices, NEW tr, IsMap(tr, Names, TrackedDevice),
           NEW ok \in BOOLEAN, NEW now \in Nat \ {0}
    PROVE  LET n  == NameOf[d]
               td == assessEnumerated(d, tr, ok, now)
           IN  /\ td.taintValue # "not-discovered"
               /\ td.taintValue = "node-missing" => n \in DOMAIN tr /\ tr[n].nodeSeen
               /\ td.status = "Unknown" => ~td.nodeSeen /\ td.taintValue # "node-missing"
               /\ td.status = "Unhealthy" =>
                     /\ td.taintedAt # ZeroTime
                     /\ n \in DOMAIN tr
                     /\ tr[n].taintedAt # ZeroTime => td.taintedAt = tr[n].taintedAt
  <1> DEFINE n == NameOf[d]
             seen == ok \/ (n \in DOMAIN tr /\ tr[n].nodeSeen)
             td == assessEnumerated(d, tr, ok, now)
  <1>1. CASE ok
    BY <1>1 DEF assessEnumerated
  <1>2. CASE ~ok /\ ~seen
    BY <1>2 DEF assessEnumerated
  <1>3. CASE ~ok /\ seen
    <2>1. n \in DOMAIN tr /\ tr[n] \in TrackedDevice
      BY <1>3 DEF IsMap
    <2>2. tr[n].taintedAt \in Nat
      BY <2>1 DEF TrackedDevice
    <2>3. /\ td.status = "Unhealthy"
          /\ td.taintedAt = IF tr[n].taintedAt = ZeroTime THEN now ELSE tr[n].taintedAt
          /\ td.taintValue = "node-missing"
      BY <1>3 DEF assessEnumerated, markUnavailable
    <2>4. tr[n].nodeSeen
      BY <1>3
    <2>5. td.taintedAt # ZeroTime
      BY <2>2, <2>3 DEF ZeroTime
    <2> HIDE DEF td, n
    <2>6. /\ td.taintValue # "not-discovered" /\ td.status # "Unknown"
          /\ tr[n].taintedAt # ZeroTime => td.taintedAt = tr[n].taintedAt
      BY <2>3
    <2> QED
      BY <2>1, <2>4, <2>5, <2>6 DEF td, n
  <1> QED
    BY <1>1, <1>2, <1>3

\* A retained device is tainted as not discovered, since the time of the taint
\* it had.
LEMMA RetainHealth ==
    ASSUME NEW n, NEW d \in Devices, NEW tr, IsMap(tr, Names, TrackedDevice),
           NEW now \in Nat \ {0}
    PROVE  LET td == retain(n, d, tr, now)
           IN  /\ td.taintValue = "not-discovered"
               /\ td.status = "Unhealthy"
               /\ td.taintedAt # ZeroTime
               /\ n \in DOMAIN tr /\ tr[n].taintedAt # ZeroTime =>
                     td.taintedAt = tr[n].taintedAt
  <1> DEFINE td == retain(n, d, tr, now)
  <1>1. CASE n \in DOMAIN tr
    <2>1. tr[n] \in TrackedDevice
      BY <1>1 DEF IsMap
    <2>2. td = [tr[n] EXCEPT !.status = "Unhealthy", !.taintValue = "not-discovered",
                             !.taintedAt = IF tr[n].taintedAt = ZeroTime
                                           THEN now ELSE tr[n].taintedAt]
      BY <1>1, <2>1 DEF retain, markUnavailable, TrackedDevice
    <2> QED
      BY <1>1, <2>1, <2>2 DEF TrackedDevice, ZeroTime
  <1>2. CASE n \notin DOMAIN tr
    BY <1>2 DEF retain, markUnavailable, ZeroTime
  <1> QED
    BY <1>1, <1>2

\* The step that ends a reconcile, with what it has read.
LEMMA ApplyRead ==
    ASSUME TypeOK, ApplyDiscovery
    PROVE  /\ rec \in ReconcileCall
           /\ IsMap(rec.found, Names, Devices)
           /\ IsMap(tracked, Names, TrackedDevice)
           /\ clock \in Nat \ {0}
           /\ \E snaps \in ClaimedSnapshots(rec.cp, rec.file) :
                 /\ IsMap(snaps, Names, Devices)
                 /\ tracked' = nextTracked(rec.found, snaps, tracked, nodes, clock)
  <1>1. rec \in ReconcileCall
    BY DEF ApplyDiscovery, TypeOK, IdleCall
  <1>2. IsMap(rec.found, Names, Devices)
    BY <1>1, PartialFnIsMap DEF ReconcileCall, DeviceMap
  <1>3. PICK snaps \in ClaimedSnapshots(rec.cp, rec.file) :
           tracked' = nextTracked(rec.found, snaps, tracked, nodes, clock)
    BY DEF ApplyDiscovery
  <1>4. IsMap(snaps, Names, Devices)
    BY SnapshotsType, PartialFnIsMap DEF DeviceMap
  <1> QED
    BY <1>1, <1>2, <1>3, <1>4 DEF TypeOK

\* Each device that a reconcile leaves tracked is an enumerated one or a
\* retained one.
LEMMA ApplyCases ==
    ASSUME TypeOK, ApplyDiscovery, NEW n \in DOMAIN tracked'
    PROVE  \/ /\ n \in DOMAIN rec.found
              /\ rec.found[n] \in Devices
              /\ \E ok \in BOOLEAN :
                    /\ ok = (NodeOf[rec.found[n]] \in nodes)
                    /\ tracked'[n] = assessEnumerated(rec.found[n], tracked, ok, clock)
           \/ /\ n \notin DOMAIN rec.found
              /\ \E c \in DOMAIN rec.file \cap rec.cp : n \in DOMAIN rec.file[c]
              /\ \E d \in Devices : tracked'[n] = retain(n, d, tracked, clock)
  <1>1. PICK snaps \in ClaimedSnapshots(rec.cp, rec.file) :
           /\ IsMap(snaps, Names, Devices)
           /\ tracked' = nextTracked(rec.found, snaps, tracked, nodes, clock)
    BY ApplyRead
  <1>2. IsMap(rec.found, Names, Devices)
    BY ApplyRead
  <1>3. n \in DOMAIN rec.found \cup DOMAIN snaps
    BY <1>1 DEF nextTracked
  <1>4. CASE n \in DOMAIN rec.found
    <2> DEFINE ok == NodeOf[rec.found[n]] \in nodes
    <2>1. tracked'[n] = assessEnumerated(rec.found[n], tracked, ok, clock)
      BY <1>1, <1>4 DEF nextTracked
    <2>2. ok \in BOOLEAN
      OBVIOUS
    <2>3. rec.found[n] \in Devices
      BY <1>2, <1>4 DEF IsMap
    <2> HIDE DEF ok
    <2>4. \E b \in BOOLEAN : b = ok /\ tracked'[n] = assessEnumerated(rec.found[n], tracked, b, clock)
      BY <2>1, <2>2
    <2> QED
      BY <1>4, <2>3, <2>4 DEF ok
  <1>5. CASE n \notin DOMAIN rec.found
    <2>1. n \in DOMAIN snaps /\ snaps[n] \in Devices
      BY <1>1, <1>3, <1>5 DEF IsMap
    <2>2. tracked'[n] = retain(n, snaps[n], tracked, clock)
      BY <1>1, <1>3, <1>5 DEF nextTracked
    <2>3. \E c \in DOMAIN rec.file \cap rec.cp : n \in DOMAIN rec.file[c]
      BY <2>1 DEF ClaimedSnapshots
    <2> QED
      BY <1>5, <2>1, <2>2, <2>3
  <1> QED
    BY <1>4, <1>5

\* Nothing but a reconcile's last step and the end of the process changes the
\* tracked set.
LEMMA TrackedSteps ==
    [Next]_vars => UNCHANGED tracked \/ Crash \/ ApplyDiscovery
BY DEF Next, Environment, Process, RpcStep, ReconcileStep, Bind, Unbind, NodeAppears,
   NodeVanishes, Tick, Start, PrepareBegin, UnprepareBegin, CreateClaimSpecFile, RecordRead,
   RecordClaimDevices, TruncateCheckpoint, WriteCheckpoint, DeleteClaimSpecFile, ForgetRead,
   ForgetClaimDevices, RpcFails, Enumerate, ReadCheckpoint, ReadClaimDevices,
   PruneClaimDevices, ReconcileFails, memory, vars

-----------------------------------------------------------------------------
\* The invariant.

\* Before the first start nothing is tracked.
LEMMA HealthInit == Init => HealthInv
BY CallKinds DEF Init, HealthInv, TaintInv, UsableInv, SeenInv, OwnNames, NoEntries

\* A taint has a time after every reconcile.
LEMMA TaintStep == TypeOK /\ TaintInv /\ [Next]_vars => TaintInv'
  <1> SUFFICES ASSUME TypeOK, TaintInv, [Next]_vars
               PROVE  TaintInv'
    OBVIOUS
  <1>1. CASE UNCHANGED tracked
    BY <1>1 DEF TaintInv
  <1>2. CASE Crash
    BY <1>2 DEF Crash, TaintInv, NoEntries
  <1>3. CASE ApplyDiscovery
    <2> SUFFICES ASSUME NEW n \in DOMAIN tracked', tracked'[n].status = "Unhealthy"
                 PROVE  tracked'[n].taintedAt # ZeroTime
      BY DEF TaintInv
    <2>1. IsMap(tracked, Names, TrackedDevice) /\ clock \in Nat \ {0}
      BY DEF TypeOK
    <2>2. CASE n \in DOMAIN rec.found
      BY <1>3, <2>1, <2>2, ApplyCases, AssessHealth
    <2>3. CASE n \notin DOMAIN rec.found
      BY <1>3, <2>1, <2>3, ApplyCases, RetainHealth
    <2> QED
      BY <2>2, <2>3
  <1> QED
    BY <1>1, <1>2, <1>3, TrackedSteps

\* A reconcile does not come between the steps of a Prepare.
LEMMA UsableStep == TypeOK /\ RetentionInv /\ UsableInv /\ [Next]_vars => UsableInv'
  <1> SUFFICES ASSUME TypeOK, RetentionInv, UsableInv, [Next]_vars
               PROVE  UsableInv'
    OBVIOUS
  <1> USE CallKinds DEF node, files, memory
  <1>1. CASE UNCHANGED <<rpc, tracked>>
    BY <1>1 DEF UsableInv
  <1>2. CASE rpc' = IdleCall
    BY <1>2 DEF UsableInv
  <1>3. ASSUME NEW c \in Claims, PrepareBegin(c) PROVE UsableInv'
    BY <1>3 DEF PrepareBegin, Preparable, prepareError, UsableInv
  <1>4. ASSUME NEW c \in Claims, UnprepareBegin(c) PROVE UsableInv'
    BY <1>4 DEF UnprepareBegin, UsableInv, PrepareCall
  <1>5. CASE ApplyDiscovery
    <2>1. rpc = IdleCall /\ rpc' = IdleCall
      BY <1>5 DEF ApplyDiscovery, RetentionInv, CallsInv
    <2> QED
      BY <1>2, <2>1
  <1>6. CASE CreateClaimSpecFile \/ RecordRead \/ RecordClaimDevices \/ TruncateCheckpoint
             \/ WriteCheckpoint \/ DeleteClaimSpecFile \/ ForgetRead \/ ForgetClaimDevices
    <2>1. UNCHANGED tracked
      BY <1>6 DEF CreateClaimSpecFile, RecordRead, RecordClaimDevices, TruncateCheckpoint,
         WriteCheckpoint, DeleteClaimSpecFile, ForgetRead, ForgetClaimDevices
    <2>2. rpc \in PrepareCall \/ rpc \in UnprepareCall
      BY <1>6 DEF CreateClaimSpecFile, RecordRead, RecordClaimDevices, TruncateCheckpoint,
         WriteCheckpoint, DeleteClaimSpecFile, ForgetRead, ForgetClaimDevices, RpcAt, TypeOK,
         IdleCall
    <2>3. CASE rpc \in PrepareCall
      <3>1. rpc' = IdleCall \/ rpc'.claim = rpc.claim
        BY <1>6, <2>3 DEF CreateClaimSpecFile, RecordRead, RecordClaimDevices,
           TruncateCheckpoint, WriteCheckpoint, DeleteClaimSpecFile, ForgetRead,
           ForgetClaimDevices, RpcAt, Return, PrepareCall
      <3> QED
        BY <1>2, <2>1, <2>3, <3>1 DEF UsableInv
    <2>4. CASE rpc \in UnprepareCall
      <3>1. rpc' = IdleCall \/ rpc'.op = "unprepare"
        BY <1>6, <2>4 DEF CreateClaimSpecFile, RecordRead, RecordClaimDevices,
           TruncateCheckpoint, WriteCheckpoint, DeleteClaimSpecFile, ForgetRead,
           ForgetClaimDevices, RpcAt, Return, UnprepareCall
      <3> QED
        BY <1>2, <3>1 DEF UsableInv, PrepareCall
    <2> QED
      BY <2>2, <2>3, <2>4
  <1>7. CASE Environment \/ Start \/ UNCHANGED vars
    BY <1>1, <1>7 DEF Environment, Bind, Unbind, NodeAppears, NodeVanishes, Tick, Start, vars
  <1>8. CASE Enumerate \/ ReadCheckpoint \/ ReadClaimDevices \/ PruneClaimDevices \/ ReconcileFails
    BY <1>1, <1>8 DEF Enumerate, ReadCheckpoint, ReadClaimDevices, PruneClaimDevices, ReconcileFails
  <1>9. CASE Crash \/ RpcFails
    BY <1>2, <1>9 DEF Crash, RpcFails
  <1> QED
    BY <1>3, <1>4, <1>5, <1>6, <1>7, <1>8, <1>9
       DEF Next, Process, RpcStep, ReconcileStep

\* Every reconcile sets the status of a device and nodeSeen together.
LEMMA SeenStep == TypeOK /\ SeenInv /\ [Next]_vars => SeenInv'
  <1> SUFFICES ASSUME TypeOK, SeenInv, [Next]_vars
               PROVE  SeenInv'
    OBVIOUS
  <1> USE DEF node, files, memory
  <1>1. OwnNames(sysfs)'
    <2>1. CASE UNCHANGED sysfs
      BY <2>1 DEF SeenInv, OwnNames
    <2>2. ASSUME NEW d \in Devices, Bind(d) PROVE OwnNames(sysfs)'
      BY <2>2 DEF Bind, SeenInv, OwnNames
    <2>3. ASSUME NEW n \in Names, Unbind(n) PROVE OwnNames(sysfs)'
      BY <2>3 DEF Unbind, SeenInv, OwnNames, Restrict
    <2>4. CASE Process \/ UNCHANGED vars
      BY <2>1, <2>4 DEF Process, RpcStep, ReconcileStep, Start, Crash, PrepareBegin,
         UnprepareBegin, CreateClaimSpecFile, RecordRead, RecordClaimDevices,
         TruncateCheckpoint, WriteCheckpoint, DeleteClaimSpecFile, ForgetRead,
         ForgetClaimDevices, RpcFails, Enumerate, ReadCheckpoint, ReadClaimDevices,
         PruneClaimDevices, ApplyDiscovery, ReconcileFails, vars
    <2> QED
      BY <2>1, <2>2, <2>3, <2>4 DEF Next, Environment, NodeAppears, NodeVanishes, Tick
  <1>2. rec' # IdleCall => OwnNames(rec.found)'
    <2>1. CASE UNCHANGED rec
      BY <2>1 DEF SeenInv, OwnNames
    <2>2. CASE Enumerate
      BY <2>2 DEF Enumerate, SeenInv, OwnNames
    <2>3. CASE ReadCheckpoint \/ ReadClaimDevices \/ PruneClaimDevices
      <3>1. rec \in ReconcileCall
        BY <2>3 DEF ReadCheckpoint, ReadClaimDevices, PruneClaimDevices, TypeOK, IdleCall
      <3>2. rec # IdleCall
        BY <2>3 DEF ReadCheckpoint, ReadClaimDevices, PruneClaimDevices, IdleCall
      <3>3. rec'.found = rec.found
        <4>1. CASE ReadCheckpoint
          BY <3>1, <4>1 DEF ReadCheckpoint, ReconcileCall
        <4>2. CASE ReadClaimDevices
          BY <3>1, <4>2 DEF ReadClaimDevices, ReconcileCall
        <4>3. CASE PruneClaimDevices
          BY <3>1, <4>3 DEF PruneClaimDevices, ReconcileCall
        <4> QED
          BY <2>3, <4>1, <4>2, <4>3
      <3> QED
        BY <3>2, <3>3 DEF SeenInv, OwnNames
    <2>4. CASE rec' = IdleCall
      BY <2>4
    <2> QED
      BY <2>1, <2>2, <2>3, <2>4 DEF Next, Environment, Process, RpcStep, ReconcileStep, Bind,
         Unbind, NodeAppears, NodeVanishes, Tick, Start, Crash, PrepareBegin, UnprepareBegin,
         CreateClaimSpecFile, RecordRead, RecordClaimDevices, TruncateCheckpoint,
         WriteCheckpoint, DeleteClaimSpecFile, ForgetRead, ForgetClaimDevices, RpcFails,
         ApplyDiscovery, ReconcileFails, vars
  <1>3. ASSUME NEW n \in DOMAIN tracked', tracked'[n].status = "Unknown"
        PROVE  ~tracked'[n].nodeSeen /\ tracked'[n].taintValue # "node-missing"
    <2>1. CASE UNCHANGED tracked
      BY <1>3, <2>1 DEF SeenInv
    <2>2. CASE Crash
      BY <2>2 DEF Crash, NoEntries
    <2>3. CASE ApplyDiscovery
      <3>1. IsMap(tracked, Names, TrackedDevice) /\ clock \in Nat \ {0}
        BY DEF TypeOK
      <3>2. CASE n \in DOMAIN rec.found
        BY <1>3, <2>3, <3>1, <3>2, ApplyCases, AssessHealth
      <3>3. CASE n \notin DOMAIN rec.found
        BY <1>3, <2>3, <3>1, <3>3, ApplyCases, RetainHealth
      <3> QED
        BY <3>2, <3>3
    <2> QED
      BY <2>1, <2>2, <2>3, TrackedSteps
  <1> QED
    BY <1>1, <1>2, <1>3 DEF SeenInv

\* All parts of the invariant together.
LEMMA HealthStep == TypeOK /\ RetentionInv /\ HealthInv /\ [Next]_vars => HealthInv'
BY TaintStep, UsableStep, SeenStep DEF HealthInv

-----------------------------------------------------------------------------
\* The theorems.

\* A reconcile does not turn a device that is new to the process, or of unknown
\* health, into one tainted as missing.
THEOREM UnseenIsNotTainted == Spec => UnseenNotTainted
  <1>1. TypeOK /\ HealthInv /\ [Next]_vars =>
           [\A n \in DOMAIN tracked' :
              tracked'[n].taintValue = "node-missing" =>
                  n \in DOMAIN tracked /\ tracked[n].status # "Unknown"]_vars
    <2> SUFFICES ASSUME TypeOK, HealthInv, [Next]_vars, NEW n \in DOMAIN tracked',
                        tracked'[n].taintValue = "node-missing"
                 PROVE  n \in DOMAIN tracked /\ tracked[n].status # "Unknown"
      OBVIOUS
    <2>1. IsMap(tracked, Names, TrackedDevice) /\ clock \in Nat \ {0}
      BY DEF TypeOK
    <2>2. CASE UNCHANGED tracked
      BY <2>2 DEF HealthInv, SeenInv
    <2>3. CASE Crash
      BY <2>3 DEF Crash, NoEntries
    <2>4. CASE ApplyDiscovery
      <3>1. n \in DOMAIN rec.found
        BY <2>1, <2>4, ApplyCases, RetainHealth
      <3>2. NameOf[rec.found[n]] = n
        BY <2>4, <3>1 DEF ApplyDiscovery, IdleCall, HealthInv, SeenInv, OwnNames
      <3>3. n \in DOMAIN tracked /\ tracked[n].nodeSeen
        BY <2>1, <2>4, <3>1, <3>2, ApplyCases, AssessHealth
      <3> QED
        BY <3>3 DEF HealthInv, SeenInv
    <2> QED
      BY <2>2, <2>3, <2>4, TrackedSteps
  <1> QED
    BY <1>1, TypeCorrect, RetentionInit, RetentionStep, HealthInit, HealthStep, PTL
       DEF Spec, UnseenNotTainted

\* markUnavailable keeps the time of a taint through changes of its reason.
THEOREM TaintTime == Spec => TaintTimeKept
  <1>1. TypeOK /\ HealthInv /\ [Next]_vars =>
           [\A n \in DOMAIN tracked \cap DOMAIN tracked' :
              tracked[n].status = "Unhealthy" /\ tracked'[n].status = "Unhealthy"
                  => tracked'[n].taintedAt = tracked[n].taintedAt]_vars
    <2> SUFFICES ASSUME TypeOK, HealthInv, [Next]_vars,
                        NEW n \in DOMAIN tracked \cap DOMAIN tracked',
                        tracked[n].status = "Unhealthy", tracked'[n].status = "Unhealthy"
                 PROVE  tracked'[n].taintedAt = tracked[n].taintedAt
      OBVIOUS
    <2>1. IsMap(tracked, Names, TrackedDevice) /\ clock \in Nat \ {0}
      BY DEF TypeOK
    <2>2. tracked[n].taintedAt # ZeroTime
      BY DEF HealthInv, TaintInv
    <2>3. CASE UNCHANGED tracked
      BY <2>3
    <2>4. CASE Crash
      BY <2>4 DEF Crash, NoEntries
    <2>5. CASE ApplyDiscovery
      <3>1. CASE n \in DOMAIN rec.found
        <4>1. NameOf[rec.found[n]] = n
          BY <2>5, <3>1 DEF ApplyDiscovery, IdleCall, HealthInv, SeenInv, OwnNames
        <4> QED
          BY <2>1, <2>2, <2>5, <3>1, <4>1, ApplyCases, AssessHealth
      <3>2. CASE n \notin DOMAIN rec.found
        BY <2>1, <2>2, <2>5, <3>2, ApplyCases, RetainHealth
      <3> QED
        BY <3>1, <3>2
    <2> QED
      BY <2>3, <2>4, <2>5, TrackedSteps
  <1> QED
    BY <1>1, TypeCorrect, RetentionInit, RetentionStep, HealthInit, HealthStep, PTL
       DEF Spec, TaintTimeKept

\* A device that the last step of a reconcile leaves tainted as not discovered
\* is one of a checkpointed claim.
LEMMA ApplyRetains ==
    ASSUME TypeOK, RetentionInv, ApplyDiscovery, NEW n \in DOMAIN tracked',
           tracked'[n].taintValue = "not-discovered"
    PROVE  \E c \in durable : c \in DOMAIN Alloc /\ n \in Alloc[c]
  <1>1. IsMap(tracked, Names, TrackedDevice) /\ clock \in Nat \ {0}
    BY DEF TypeOK
  <1>2. n \notin DOMAIN rec.found
    BY <1>1, ApplyCases, AssessHealth
  <1>3. \E c \in DOMAIN rec.file \cap rec.cp : n \in DOMAIN rec.file[c]
    BY <1>2, ApplyCases
  <1>4. rec.cp = durable /\ EntriesMatchAlloc(rec.file)
    BY DEF ApplyDiscovery, RetentionInv, ReconcileInv
  <1> QED
    BY <1>3, <1>4 DEF EntriesMatchAlloc

\* A reconcile retains a device only for a claim that is in the checkpoint.
THEOREM RetainedOnlyForClaims == Spec => RetainedForClaim
  <1>1. TypeOK /\ RetentionInv /\ [Next]_vars =>
           [tracked' # tracked =>
              \A n \in DOMAIN tracked' :
                  tracked'[n].taintValue = "not-discovered" =>
                      \E c \in durable : n \in Alloc[c]]_vars
    <2> SUFFICES ASSUME TypeOK, RetentionInv, [Next]_vars, tracked' # tracked,
                        NEW n \in DOMAIN tracked', tracked'[n].taintValue = "not-discovered"
                 PROVE  \E c \in durable : n \in Alloc[c]
      OBVIOUS
    <2>1. CASE Crash
      BY <2>1 DEF Crash, NoEntries
    <2>2. CASE ApplyDiscovery
      BY <2>2, ApplyRetains
    <2> QED
      BY <2>1, <2>2, TrackedSteps
  <1> QED
    BY <1>1, TypeCorrect, RetentionInit, RetentionStep, PTL DEF Spec, RetainedForClaim

\* Prepare does not return success for a device that a reconcile has found
\* unhealthy meanwhile: the mutex keeps the reconcile out.
THEOREM PreparesUsableDevices == Spec => PreparedNotUnhealthy
  <1>1. TypeOK /\ RetentionInv /\ HealthInv /\ [Next]_vars =>
           [\A c \in Claims :
              outcome[c] # "prepared" /\ outcome'[c] = "prepared" =>
                  \A n \in Alloc[c] :
                      n \in DOMAIN tracked /\ tracked[n].status # "Unhealthy"]_vars
    <2> SUFFICES ASSUME TypeOK, RetentionInv, HealthInv, [Next]_vars, NEW c \in Claims,
                        outcome[c] # "prepared", outcome'[c] = "prepared"
                 PROVE  rpc \in PrepareCall /\ rpc.claim = c
      BY DEF HealthInv, UsableInv
    <2>0. outcome \in [Claims -> {"none", "prepared", "unprepared"}]
      BY DEF TypeOK
    <2>1. CASE RecordClaimDevices
      <3>1. rpc \in PrepareCall
        BY <2>1 DEF RecordClaimDevices, RpcAt, TypeOK, UnprepareCall
      <3> QED
        BY <2>0, <2>1, <3>1 DEF RecordClaimDevices, Return, PrepareCall
    <2>2. CASE WriteCheckpoint
      <3>1. rpc.op = "prepare" /\ rpc.claim = c
        BY <2>0, <2>2 DEF WriteCheckpoint, Return
      <3>2. rpc \in PrepareCall \/ rpc \in UnprepareCall
        BY <2>2 DEF WriteCheckpoint, TypeOK, IdleCall
      <3> QED
        BY <3>1, <3>2 DEF UnprepareCall
    <2>3. CASE ForgetRead \/ ForgetClaimDevices
      BY <2>0, <2>3 DEF ForgetRead, ForgetClaimDevices, Return
    <2>4. ASSUME NEW d \in Claims, PrepareBegin(d) \/ UnprepareBegin(d) PROVE FALSE
      BY <2>0, <2>4 DEF PrepareBegin, UnprepareBegin
    <2>5. CASE UNCHANGED outcome
      BY <2>5
    <2> QED
      BY <2>1, <2>2, <2>3, <2>4, <2>5 DEF Next, Environment, Process, RpcStep, ReconcileStep,
         Bind, Unbind, NodeAppears, NodeVanishes, Tick, Start, Crash, CreateClaimSpecFile,
         RecordRead, TruncateCheckpoint, DeleteClaimSpecFile, RpcFails, Enumerate,
         ReadCheckpoint, ReadClaimDevices, PruneClaimDevices, ApplyDiscovery, ReconcileFails, vars
  <1> QED
    BY <1>1, TypeCorrect, RetentionInit, RetentionStep, HealthInit, HealthStep, PTL
       DEF Spec, PreparedNotUnhealthy

=============================================================================
