------------------------ MODULE RollingUpdateProofs -------------------------
(***************************************************************************)
(* A theorem about RollingUpdate, for any devices, claims and allocations. *)
(*                                                                         *)
(* Each process keeps what DeviceCallProofs says of one: its own call      *)
(* steps by the lemmas there, and those of the other because the lock file *)
(* leaves it without a call meanwhile.                                     *)
(***************************************************************************)
EXTENDS RollingUpdate, TLAPS

\* What is proved of one DeviceState, for the old process and for the new one.
OldP ==
    INSTANCE DeviceCallProofs
    WITH phase <- oldPhase, rpc <- oldRpc, rec <- oldRec,
         tracked <- oldTracked, driverResources <- oldResources

NewP ==
    INSTANCE DeviceCallProofs
    WITH phase <- newPhase, rpc <- newRpc, rec <- newRec,
         tracked <- newTracked, driverResources <- newResources

\* The old process of RollingUpdate is the one that OldP is about.
LEMMA OldSteps ==
    /\ Old!IdleCall = OldP!IdleCall
    /\ Old!Init => OldP!Init
    /\ Old!Environment => OldP!Environment
    /\ Old!Start \/ Old!Crash => OldP!Start \/ OldP!Crash
    /\ \A c \in Claims : Old!PrepareBegin(c) => OldP!PrepareBegin(c)
    /\ \A c \in Claims : Old!UnprepareBegin(c) => OldP!UnprepareBegin(c)
    /\ Old!RpcStep => OldP!RpcStep
    /\ Old!ReconcileStep => OldP!ReconcileStep
  <1>1. Old!IdleCall = OldP!IdleCall
    BY DEF Old!IdleCall, OldP!IdleCall
  <1>2. Old!Init => OldP!Init
    BY DEF Old!Init, OldP!Init, Old!IdleCall, OldP!IdleCall, Old!NoEntries, OldP!NoEntries
  <1>3. Old!Environment => OldP!Environment
    BY DEF Old!Environment, OldP!Environment, Old!Bind, OldP!Bind, Old!Unbind, OldP!Unbind,
       Old!NodeAppears, OldP!NodeAppears, Old!NodeVanishes, OldP!NodeVanishes, Old!Tick,
       OldP!Tick, Old!Restrict, OldP!Restrict, Old!files, OldP!files, Old!memory, OldP!memory
  <1>4. Old!Start \/ Old!Crash => OldP!Start \/ OldP!Crash
    BY DEF Old!Start, OldP!Start, Old!Crash, OldP!Crash, Old!IdleCall, OldP!IdleCall,
       Old!NoEntries, OldP!NoEntries, Old!node, OldP!node, Old!files, OldP!files, Old!memory,
       OldP!memory
  <1>5. \A c \in Claims : Old!PrepareBegin(c) => OldP!PrepareBegin(c)
    BY DEF Old!PrepareBegin, OldP!PrepareBegin, Old!Preparable, OldP!Preparable, Old!prepareError,
       OldP!prepareError, Old!deviceNodeExists, OldP!deviceNodeExists, Old!Unlocked,
       OldP!Unlocked, Old!IdleCall, OldP!IdleCall, Old!NoEntries, OldP!NoEntries, Old!node,
       OldP!node, Old!files, OldP!files, Old!memory, OldP!memory
  <1>6. \A c \in Claims : Old!UnprepareBegin(c) => OldP!UnprepareBegin(c)
    BY DEF Old!UnprepareBegin, OldP!UnprepareBegin, Old!Unlocked, OldP!Unlocked, Old!IdleCall,
       OldP!IdleCall, Old!NoEntries, OldP!NoEntries, Old!node, OldP!node, Old!files, OldP!files,
       Old!memory, OldP!memory
  <1>7. Old!RpcStep => OldP!RpcStep
    BY DEF Old!RpcStep, OldP!RpcStep, Old!CreateClaimSpecFile, OldP!CreateClaimSpecFile,
       Old!RecordRead, OldP!RecordRead, Old!RecordClaimDevices, OldP!RecordClaimDevices,
       Old!TruncateCheckpoint, OldP!TruncateCheckpoint, Old!WriteCheckpoint, OldP!WriteCheckpoint,
       Old!DeleteClaimSpecFile, OldP!DeleteClaimSpecFile, Old!ForgetRead, OldP!ForgetRead,
       Old!ForgetClaimDevices, OldP!ForgetClaimDevices, Old!RpcFails, OldP!RpcFails, Old!RpcAt,
       OldP!RpcAt, Old!Return, OldP!Return, Old!IdleCall, OldP!IdleCall, Old!deviceEdits,
       OldP!deviceEdits, Old!deviceNodeExists, OldP!deviceNodeExists, Old!Restrict, OldP!Restrict,
       Old!node, OldP!node, Old!files, OldP!files, Old!memory, OldP!memory
  <1>8. Old!ReconcileStep => OldP!ReconcileStep
    BY DEF Old!ReconcileStep, OldP!ReconcileStep, Old!Enumerate, OldP!Enumerate,
       Old!ReadCheckpoint, OldP!ReadCheckpoint, Old!ReadClaimDevices, OldP!ReadClaimDevices,
       Old!PruneClaimDevices, OldP!PruneClaimDevices, Old!ApplyDiscovery, OldP!ApplyDiscovery,
       Old!ReconcileFails, OldP!ReconcileFails, Old!Unlocked, OldP!Unlocked, Old!IdleCall,
       OldP!IdleCall, Old!NoEntries, OldP!NoEntries, Old!Restrict, OldP!Restrict,
       Old!ClaimedSnapshots, OldP!ClaimedSnapshots, Old!nextTracked, OldP!nextTracked,
       Old!assessEnumerated, OldP!assessEnumerated, Old!retain, OldP!retain, Old!markUnavailable,
       OldP!markUnavailable, Old!devicesToResources, OldP!devicesToResources,
       Old!toResourceDevice, OldP!toResourceDevice, Old!ZeroTime, OldP!ZeroTime, Old!node,
       OldP!node, Old!files, OldP!files, Old!memory, OldP!memory
  <1> QED
    BY <1>1, <1>2, <1>3, <1>4, <1>5, <1>6, <1>7, <1>8

\* The new process of RollingUpdate is the one that NewP is about.
LEMMA NewSteps ==
    /\ New!IdleCall = NewP!IdleCall
    /\ New!Init => NewP!Init
    /\ New!Environment => NewP!Environment
    /\ New!Start \/ New!Crash => NewP!Start \/ NewP!Crash
    /\ \A c \in Claims : New!PrepareBegin(c) => NewP!PrepareBegin(c)
    /\ \A c \in Claims : New!UnprepareBegin(c) => NewP!UnprepareBegin(c)
    /\ New!RpcStep => NewP!RpcStep
    /\ New!ReconcileStep => NewP!ReconcileStep
  <1>1. New!IdleCall = NewP!IdleCall
    BY DEF New!IdleCall, NewP!IdleCall
  <1>2. New!Init => NewP!Init
    BY DEF New!Init, NewP!Init, New!IdleCall, NewP!IdleCall, New!NoEntries, NewP!NoEntries
  <1>3. New!Environment => NewP!Environment
    BY DEF New!Environment, NewP!Environment, New!Bind, NewP!Bind, New!Unbind, NewP!Unbind,
       New!NodeAppears, NewP!NodeAppears, New!NodeVanishes, NewP!NodeVanishes, New!Tick,
       NewP!Tick, New!Restrict, NewP!Restrict, New!files, NewP!files, New!memory, NewP!memory
  <1>4. New!Start \/ New!Crash => NewP!Start \/ NewP!Crash
    BY DEF New!Start, NewP!Start, New!Crash, NewP!Crash, New!IdleCall, NewP!IdleCall,
       New!NoEntries, NewP!NoEntries, New!node, NewP!node, New!files, NewP!files, New!memory,
       NewP!memory
  <1>5. \A c \in Claims : New!PrepareBegin(c) => NewP!PrepareBegin(c)
    BY DEF New!PrepareBegin, NewP!PrepareBegin, New!Preparable, NewP!Preparable, New!prepareError,
       NewP!prepareError, New!deviceNodeExists, NewP!deviceNodeExists, New!Unlocked,
       NewP!Unlocked, New!IdleCall, NewP!IdleCall, New!NoEntries, NewP!NoEntries, New!node,
       NewP!node, New!files, NewP!files, New!memory, NewP!memory
  <1>6. \A c \in Claims : New!UnprepareBegin(c) => NewP!UnprepareBegin(c)
    BY DEF New!UnprepareBegin, NewP!UnprepareBegin, New!Unlocked, NewP!Unlocked, New!IdleCall,
       NewP!IdleCall, New!NoEntries, NewP!NoEntries, New!node, NewP!node, New!files, NewP!files,
       New!memory, NewP!memory
  <1>7. New!RpcStep => NewP!RpcStep
    BY DEF New!RpcStep, NewP!RpcStep, New!CreateClaimSpecFile, NewP!CreateClaimSpecFile,
       New!RecordRead, NewP!RecordRead, New!RecordClaimDevices, NewP!RecordClaimDevices,
       New!TruncateCheckpoint, NewP!TruncateCheckpoint, New!WriteCheckpoint, NewP!WriteCheckpoint,
       New!DeleteClaimSpecFile, NewP!DeleteClaimSpecFile, New!ForgetRead, NewP!ForgetRead,
       New!ForgetClaimDevices, NewP!ForgetClaimDevices, New!RpcFails, NewP!RpcFails, New!RpcAt,
       NewP!RpcAt, New!Return, NewP!Return, New!IdleCall, NewP!IdleCall, New!deviceEdits,
       NewP!deviceEdits, New!deviceNodeExists, NewP!deviceNodeExists, New!Restrict, NewP!Restrict,
       New!node, NewP!node, New!files, NewP!files, New!memory, NewP!memory
  <1>8. New!ReconcileStep => NewP!ReconcileStep
    BY DEF New!ReconcileStep, NewP!ReconcileStep, New!Enumerate, NewP!Enumerate,
       New!ReadCheckpoint, NewP!ReadCheckpoint, New!ReadClaimDevices, NewP!ReadClaimDevices,
       New!PruneClaimDevices, NewP!PruneClaimDevices, New!ApplyDiscovery, NewP!ApplyDiscovery,
       New!ReconcileFails, NewP!ReconcileFails, New!Unlocked, NewP!Unlocked, New!IdleCall,
       NewP!IdleCall, New!NoEntries, NewP!NoEntries, New!Restrict, NewP!Restrict,
       New!ClaimedSnapshots, NewP!ClaimedSnapshots, New!nextTracked, NewP!nextTracked,
       New!assessEnumerated, NewP!assessEnumerated, New!retain, NewP!retain, New!markUnavailable,
       NewP!markUnavailable, New!devicesToResources, NewP!devicesToResources,
       New!toResourceDevice, NewP!toResourceDevice, New!ZeroTime, NewP!ZeroTime, New!node,
       NewP!node, New!files, NewP!files, New!memory, NewP!memory
  <1> QED
    BY <1>1, <1>2, <1>3, <1>4, <1>5, <1>6, <1>7, <1>8

-----------------------------------------------------------------------------
\* The invariant.

\* At most one process has a call, and both keep what one keeps.
SurgeInv ==
    /\ OldP!TypeOK /\ OldP!CallInv
    /\ NewP!TypeOK /\ NewP!CallInv
    /\ oldRpc = OldP!IdleCall \/ newRpc = OldP!IdleCall

\* The files that the old process leaves well typed are so for the new one too.
LEMMA OldKeepsType ==
    ASSUME OldP!TypeOK', NewP!TypeOK, UNCHANGED newProcess
    PROVE  NewP!TypeOK'
BY DEF OldP!TypeOK, NewP!TypeOK, OldP!ClaimFile, NewP!ClaimFile, OldP!DeviceMap, NewP!DeviceMap,
   OldP!PartialFn, NewP!PartialFn, newProcess

\* A new process without a call keeps what the old one keeps.
LEMMA OldKeepsIdle ==
    ASSUME OldP!CallInv', newRpc' = OldP!IdleCall
    PROVE  NewP!CallInv'
BY DEF OldP!CallInv, NewP!CallInv, OldP!IdleCall, NewP!IdleCall, NewP!PrepareCall,
   NewP!UnprepareCall

\* The files that the new process leaves well typed are so for the old one too.
LEMMA NewKeepsType ==
    ASSUME NewP!TypeOK', OldP!TypeOK, UNCHANGED oldProcess
    PROVE  OldP!TypeOK'
BY DEF OldP!TypeOK, NewP!TypeOK, OldP!ClaimFile, NewP!ClaimFile, OldP!DeviceMap, NewP!DeviceMap,
   OldP!PartialFn, NewP!PartialFn, oldProcess

\* A old process without a call keeps what the new one keeps.
LEMMA NewKeepsIdle ==
    ASSUME NewP!CallInv', oldRpc' = OldP!IdleCall
    PROVE  OldP!CallInv'
BY DEF OldP!CallInv, NewP!CallInv, OldP!IdleCall, NewP!IdleCall, OldP!PrepareCall,
   OldP!UnprepareCall

\* The old process, or the node, takes a step.
LEMMA OldStep ==
    ASSUME SurgeInv, UNCHANGED newProcess,
           \/ OldP!Environment \/ OldP!Start \/ OldP!Crash \/ OldP!ReconcileStep
           \/ OldP!RpcStep
           \/ /\ newRpc = OldP!IdleCall
              /\ \E c \in Claims : OldP!PrepareBegin(c) \/ OldP!UnprepareBegin(c)
    PROVE  SurgeInv'
  <1> USE DeviceAssumption, SurgeAssumption DEF PartialFn, OldP!PartialFn
  <1>0. /\ OldP!TypeOK /\ OldP!CallInv /\ NewP!TypeOK /\ NewP!CallInv
        /\ oldRpc = OldP!IdleCall \/ newRpc = OldP!IdleCall
    BY DEF SurgeInv
  <1>1. OldP!TypeOK'
    <2>1. [OldP!Next]_(OldP!vars)
      BY DEF OldP!Next, OldP!Process
    <2> QED
      BY <1>0, <2>1, OldP!TypeStep
  <1>2. NewP!TypeOK'
    BY <1>0, <1>1, OldKeepsType
  <1>3. newRpc' = newRpc
    BY DEF newProcess
  <1>4. CASE OldP!Environment \/ OldP!Start \/ OldP!Crash \/ OldP!ReconcileStep
    <2>1. UNCHANGED OldP!callFiles /\ (oldRpc' = oldRpc \/ oldRpc' = OldP!IdleCall)
      BY <1>4, OldP!OtherSteps
    <2>2. UNCHANGED NewP!callFiles
      BY <2>1 DEF OldP!callFiles, NewP!callFiles
    <2>3. OldP!CallInv'
      BY <1>0, <2>1, OldP!CallInvKept
    <2>4. NewP!CallInv'
      BY <1>0, <1>3, <2>2, NewP!CallInvKept DEF NewP!PartialFn
    <2> QED
      BY <1>0, <1>1, <1>2, <1>3, <2>1, <2>3, <2>4 DEF SurgeInv, OldP!IdleCall, OldP!IdleCall
  <1>5. CASE OldP!RpcStep
    <2>1. OldP!CallInv' /\ oldRpc # OldP!IdleCall
      BY <1>0, <1>5, OldP!CallGoesOn
    <2>2. newRpc' = OldP!IdleCall
      BY <1>0, <1>3, <2>1 DEF OldP!IdleCall, OldP!IdleCall
    <2> QED
      BY <1>1, <1>2, <2>1, <2>2, OldKeepsIdle DEF SurgeInv
  <1>6. CASE /\ newRpc = OldP!IdleCall
             /\ \E c \in Claims : OldP!PrepareBegin(c) \/ OldP!UnprepareBegin(c)
    <2>1. OldP!CallInv'
      BY <1>0, <1>6, OldP!CallBegins
    <2> QED
      BY <1>1, <1>2, <1>3, <1>6, <2>1, OldKeepsIdle DEF SurgeInv
  <1> QED
    BY <1>4, <1>5, <1>6

\* The new process, or the node, takes a step.
LEMMA NewStep ==
    ASSUME SurgeInv, UNCHANGED oldProcess,
           \/ NewP!Environment \/ NewP!Start \/ NewP!Crash \/ NewP!ReconcileStep
           \/ NewP!RpcStep
           \/ /\ oldRpc = OldP!IdleCall
              /\ \E c \in Claims : NewP!PrepareBegin(c) \/ NewP!UnprepareBegin(c)
    PROVE  SurgeInv'
  <1> USE DeviceAssumption, SurgeAssumption DEF PartialFn, NewP!PartialFn
  <1>0. /\ NewP!TypeOK /\ NewP!CallInv /\ OldP!TypeOK /\ OldP!CallInv
        /\ newRpc = OldP!IdleCall \/ oldRpc = OldP!IdleCall
    BY DEF SurgeInv
  <1>1. NewP!TypeOK'
    <2>1. [NewP!Next]_(NewP!vars)
      BY DEF NewP!Next, NewP!Process
    <2> QED
      BY <1>0, <2>1, NewP!TypeStep
  <1>2. OldP!TypeOK'
    BY <1>0, <1>1, NewKeepsType
  <1>3. oldRpc' = oldRpc
    BY DEF oldProcess
  <1>4. CASE NewP!Environment \/ NewP!Start \/ NewP!Crash \/ NewP!ReconcileStep
    <2>1. UNCHANGED NewP!callFiles /\ (newRpc' = newRpc \/ newRpc' = NewP!IdleCall)
      BY <1>4, NewP!OtherSteps
    <2>2. UNCHANGED OldP!callFiles
      BY <2>1 DEF NewP!callFiles, OldP!callFiles
    <2>3. NewP!CallInv'
      BY <1>0, <2>1, NewP!CallInvKept
    <2>4. OldP!CallInv'
      BY <1>0, <1>3, <2>2, OldP!CallInvKept DEF OldP!PartialFn
    <2> QED
      BY <1>0, <1>1, <1>2, <1>3, <2>1, <2>3, <2>4 DEF SurgeInv, NewP!IdleCall, OldP!IdleCall
  <1>5. CASE NewP!RpcStep
    <2>1. NewP!CallInv' /\ newRpc # NewP!IdleCall
      BY <1>0, <1>5, NewP!CallGoesOn
    <2>2. oldRpc' = OldP!IdleCall
      BY <1>0, <1>3, <2>1 DEF NewP!IdleCall, OldP!IdleCall
    <2> QED
      BY <1>1, <1>2, <2>1, <2>2, NewKeepsIdle DEF SurgeInv
  <1>6. CASE /\ oldRpc = OldP!IdleCall
             /\ \E c \in Claims : NewP!PrepareBegin(c) \/ NewP!UnprepareBegin(c)
    <2>1. NewP!CallInv'
      BY <1>0, <1>6, NewP!CallBegins
    <2> QED
      BY <1>1, <1>2, <1>3, <1>6, <2>1, NewKeepsIdle DEF SurgeInv
  <1> QED
    BY <1>4, <1>5, <1>6

\* A node without either process.
LEMMA SurgeInvInit == SurgeInit => SurgeInv
  <1> USE DeviceAssumption, SurgeAssumption DEF PartialFn, OldP!PartialFn, NewP!PartialFn
  <1> SUFFICES ASSUME SurgeInit PROVE SurgeInv
    OBVIOUS
  <1>1. OldP!Init /\ NewP!Init
    BY OldSteps, NewSteps DEF SurgeInit
  <1>2. OldP!TypeOK /\ OldP!CallInv
    BY <1>1, OldP!InitType, OldP!CallInit
  <1>3. NewP!TypeOK /\ NewP!CallInv
    BY <1>1, NewP!InitType, NewP!CallInit
  <1> QED
    BY <1>1, <1>2, <1>3 DEF SurgeInv, OldP!Init

\* Every step is one of a process or of the node.
LEMMA SurgeInvStep == SurgeInv /\ [SurgeNext]_surge => SurgeInv'
  <1> SUFFICES ASSUME SurgeInv, [SurgeNext]_surge PROVE SurgeInv'
    OBVIOUS
  <1>1. CASE Old!Environment /\ UNCHANGED newProcess
    BY <1>1, OldSteps, OldStep
  <1>2. CASE OldRuns
    BY <1>2, OldSteps, OldStep DEF OldRuns
  <1>3. CASE NewRuns
    BY <1>3, NewSteps, NewStep DEF NewRuns
  <1>4. ASSUME NEW c \in Claims, OldBegins(c) PROVE SurgeInv'
    BY <1>4, OldSteps, OldStep DEF OldBegins, Serialized
  <1>5. ASSUME NEW c \in Claims, NewBegins(c) PROVE SurgeInv'
    BY <1>5, OldSteps, NewSteps, NewStep DEF NewBegins, Serialized
  <1>6. CASE UNCHANGED surge
    <2> USE <1>6 DEF surge, shared, oldProcess, newProcess
    <2>1. OldP!TypeOK'
      BY DEF SurgeInv, OldP!TypeOK
    <2>2. NewP!TypeOK'
      BY DEF SurgeInv, NewP!TypeOK
    <2>3. OldP!CallInv'
      BY DEF SurgeInv, OldP!CallInv
    <2>4. NewP!CallInv'
      BY DEF SurgeInv, NewP!CallInv
    <2> QED
      BY <2>1, <2>2, <2>3, <2>4 DEF SurgeInv
  <1> QED
    BY <1>1, <1>2, <1>3, <1>4, <1>5, <1>6 DEF SurgeNext

\* While two processes of a rolling update share the files, the last call on a
\* claim decides whether it is in the checkpoint and has a CDI spec, for any
\* number of claims and devices: the lock file keeps the calls apart, and a
\* reconcile writes neither.
THEOREM SurgeCallsAgree == SurgeSpec => []CallsAgreeAcrossProcesses
  <1>1. SurgeInv => CallsAgreeAcrossProcesses
    BY DEF SurgeInv, OldP!CallInv, CallsAgreeAcrossProcesses
  <1> QED
    BY <1>1, SurgeInvInit, SurgeInvStep, PTL DEF SurgeSpec

=============================================================================
