-------------------------- MODULE DeviceCallProofs --------------------------
(***************************************************************************)
(* What a call of one DeviceState does to the checkpoint and the CDI       *)
(* specs, without what DeviceStateProofs knows of claim-devices.json:      *)
(* another process that shares the files may change that one at any time,  *)
(* while the calls of the two processes come one after the other.          *)
(***************************************************************************)
EXTENDS DeviceStateProofs

\* What a call in progress has read and done, and what the last outcomes say
\* of the checkpoint and the CDI specs.
CallInv ==
    /\ checkpoint = Torn \/ checkpoint = durable
    /\ rpc # IdleCall => outcome[rpc.claim] = "none"
    /\ rpc \in PrepareCall =>
          /\ rpc.pc \in {"createSpec", "readClaims", "record"} => rpc.cp = durable
          /\ rpc.pc \in {"truncate", "write"} => rpc.cp = durable \cup {rpc.claim}
          /\ rpc.pc # "createSpec" => rpc.claim \in DOMAIN cdiSpecs
    /\ rpc \in UnprepareCall =>
          /\ rpc.pc = "deleteSpec" => rpc.cp = durable
          /\ rpc.pc \in {"truncate", "write"} => rpc.cp = durable \ {rpc.claim}
          /\ rpc.pc \in {"readClaims", "forget"} => rpc.claim \notin durable
          /\ rpc.pc # "deleteSpec" => rpc.claim \notin DOMAIN cdiSpecs
    /\ \A c \in Claims :
          /\ outcome[c] = "prepared" => c \in durable \cap DOMAIN cdiSpecs
          /\ outcome[c] = "unprepared" => c \notin durable \cup DOMAIN cdiSpecs

\* The files and answers that a call and nothing else changes.
callFiles == <<checkpoint, cdiSpecs, durable, outcome>>

\* Before the first call.
LEMMA CallInit == Init => CallInv
BY CallKinds DEF Init, CallInv

\* Reconcile, start, crash and the node leave the calls' files alone.
LEMMA OtherSteps ==
    ASSUME Environment \/ Start \/ Crash \/ ReconcileStep
    PROVE  UNCHANGED callFiles /\ (rpc' = rpc \/ rpc' = IdleCall)
BY DEF Environment, Bind, Unbind, NodeAppears, NodeVanishes, Tick, Start, Crash, ReconcileStep,
   Enumerate, ReadCheckpoint, ReadClaimDevices, PruneClaimDevices, ApplyDiscovery,
   ReconcileFails, node, files, callFiles

\* With no call, or with the same call, on the same files.
LEMMA CallInvKept ==
    ASSUME CallInv, UNCHANGED callFiles, rpc' = rpc \/ rpc' = IdleCall
    PROVE  CallInv'
BY CallKinds DEF CallInv, callFiles

\* A call begins.
LEMMA CallBegins ==
    ASSUME TypeOK, CallInv, NEW c \in Claims, PrepareBegin(c) \/ UnprepareBegin(c)
    PROVE  CallInv'
  <1> USE DEF files, node, memory
  <1>0. outcome \in [Claims -> {"none", "prepared", "unprepared"}]
    BY DEF TypeOK
  <1>1. CASE PrepareBegin(c)
    <2>1. /\ rpc'.op = "prepare" /\ rpc'.pc = "createSpec" /\ rpc'.claim = c
          /\ rpc'.cp = durable /\ outcome' = [outcome EXCEPT ![c] = "none"]
          /\ UNCHANGED files
      BY <1>1 DEF PrepareBegin, CallInv
    <2> QED
      BY <1>0, <2>1 DEF CallInv, UnprepareCall
  <1>2. CASE UnprepareBegin(c)
    <2>1. /\ rpc'.op = "unprepare" /\ rpc'.pc = "deleteSpec" /\ rpc'.claim = c
          /\ rpc'.cp = durable /\ outcome' = [outcome EXCEPT ![c] = "none"]
          /\ UNCHANGED files
      BY <1>2 DEF UnprepareBegin, CallInv
    <2> QED
      BY <1>0, <2>1 DEF CallInv, PrepareCall
  <1> QED
    BY <1>1, <1>2

\* A Prepare goes on.
LEMMA PrepareGoesOn ==
    ASSUME TypeOK, CallInv, rpc \in PrepareCall, RpcStep
    PROVE  CallInv'
  <1> USE CallKinds DEF files, node, memory
  <1>0. outcome \in [Claims -> {"none", "prepared", "unprepared"}]
    BY DEF TypeOK
  <1>a. /\ rpc.op = "prepare" /\ rpc.claim \in Claims /\ rpc # IdleCall
        /\ outcome[rpc.claim] = "none"
    BY DEF PrepareCall, CallInv
  <1>1. CASE CreateClaimSpecFile
    <2>1. /\ rpc.pc = "createSpec"
          /\ rpc'.op = "prepare" /\ rpc'.claim = rpc.claim /\ rpc'.cp = rpc.cp
          /\ rpc'.pc = "readClaims"
      BY <1>1 DEF CreateClaimSpecFile, RpcAt, PrepareCall
    <2>2. DOMAIN cdiSpecs' = DOMAIN cdiSpecs \cup {rpc.claim}
      BY <1>1 DEF CreateClaimSpecFile
    <2> QED
      BY <1>1, <1>a, <2>1, <2>2 DEF CreateClaimSpecFile, CallInv, UnprepareCall
  <1>2. CASE RecordRead
    <2>1. /\ rpc.pc = "readClaims"
          /\ rpc'.op = "prepare" /\ rpc'.claim = rpc.claim /\ rpc'.cp = rpc.cp
          /\ rpc'.pc = "record"
      BY <1>2 DEF RecordRead, RpcAt, PrepareCall
    <2> QED
      BY <1>2, <1>a, <2>1 DEF RecordRead, CallInv, UnprepareCall
  <1>3. CASE RecordClaimDevices
    <2>1. rpc.pc = "record" /\ rpc.cp = durable /\ rpc.claim \in DOMAIN cdiSpecs
      BY <1>3 DEF RecordClaimDevices, RpcAt, CallInv
    <2>2. CASE rpc.claim \in rpc.cp
      <3>1. rpc' = IdleCall /\ outcome' = [outcome EXCEPT ![rpc.claim] = "prepared"]
        BY <1>3, <2>2 DEF RecordClaimDevices, Return
      <3> QED
        BY <1>0, <1>3, <1>a, <2>1, <2>2, <3>1 DEF RecordClaimDevices, CallInv
    <2>3. CASE rpc.claim \notin rpc.cp
      <3>1. /\ rpc'.op = "prepare" /\ rpc'.claim = rpc.claim /\ rpc'.pc = "truncate"
            /\ rpc'.cp = rpc.cp \cup {rpc.claim} /\ UNCHANGED outcome
        BY <1>3, <2>3 DEF RecordClaimDevices, PrepareCall
      <3> QED
        BY <1>3, <1>a, <2>1, <3>1 DEF RecordClaimDevices, CallInv, UnprepareCall
    <2> QED
      BY <2>2, <2>3
  <1>4. CASE TruncateCheckpoint
    <2>1. /\ rpc'.op = "prepare" /\ rpc'.claim = rpc.claim /\ rpc'.cp = rpc.cp
          /\ rpc'.pc = "write"
      BY <1>4 DEF TruncateCheckpoint, PrepareCall
    <2> QED
      BY <1>4, <1>a, <2>1 DEF TruncateCheckpoint, CallInv, UnprepareCall
  <1>5. CASE WriteCheckpoint
    <2>1. rpc' = IdleCall /\ outcome' = [outcome EXCEPT ![rpc.claim] = "prepared"]
      BY <1>5, <1>a DEF WriteCheckpoint, Return
    <2>2. /\ checkpoint' = durable' /\ durable' = durable \cup {rpc.claim}
          /\ rpc.claim \in DOMAIN cdiSpecs /\ UNCHANGED cdiSpecs
      BY <1>5 DEF WriteCheckpoint, CallInv
    <2> QED
      BY <1>0, <1>a, <2>1, <2>2 DEF CallInv
  <1>6. CASE RpcFails
    BY <1>6, CallInvKept DEF RpcFails, callFiles
  <1> QED
    BY <1>1, <1>2, <1>3, <1>4, <1>5, <1>6, <1>a
       DEF RpcStep, DeleteClaimSpecFile, ForgetRead, ForgetClaimDevices, RpcAt

\* An Unprepare goes on.
LEMMA UnprepareGoesOn ==
    ASSUME TypeOK, CallInv, rpc \in UnprepareCall, RpcStep
    PROVE  CallInv'
  <1> USE CallKinds DEF files, node, memory
  <1>0. outcome \in [Claims -> {"none", "prepared", "unprepared"}]
    BY DEF TypeOK
  <1>a. /\ rpc.op = "unprepare" /\ rpc.claim \in Claims /\ rpc # IdleCall
        /\ outcome[rpc.claim] = "none"
    BY DEF UnprepareCall, CallInv
  <1>1. CASE DeleteClaimSpecFile
    <2>1. /\ rpc.pc = "deleteSpec" /\ rpc.cp = durable
          /\ rpc'.op = "unprepare" /\ rpc'.claim = rpc.claim /\ rpc'.cp = rpc.cp \ {rpc.claim}
          /\ rpc'.pc = "truncate"
      BY <1>1 DEF DeleteClaimSpecFile, RpcAt, UnprepareCall, CallInv
    <2>2. DOMAIN cdiSpecs' = DOMAIN cdiSpecs \ {rpc.claim}
      BY <1>1 DEF DeleteClaimSpecFile, Restrict
    <2> QED
      BY <1>1, <1>a, <2>1, <2>2 DEF DeleteClaimSpecFile, CallInv, PrepareCall
  <1>2. CASE TruncateCheckpoint
    <2>1. /\ rpc'.op = "unprepare" /\ rpc'.claim = rpc.claim /\ rpc'.cp = rpc.cp
          /\ rpc'.pc = "write"
      BY <1>2 DEF TruncateCheckpoint, UnprepareCall
    <2> QED
      BY <1>2, <1>a, <2>1 DEF TruncateCheckpoint, CallInv, PrepareCall
  <1>3. CASE WriteCheckpoint
    <2>1. /\ rpc'.op = "unprepare" /\ rpc'.claim = rpc.claim /\ rpc'.pc = "readClaims"
          /\ UNCHANGED <<outcome, cdiSpecs>>
      BY <1>3, <1>a DEF WriteCheckpoint, UnprepareCall
    <2>2. /\ checkpoint' = durable' /\ durable' = durable \ {rpc.claim}
          /\ rpc.claim \notin DOMAIN cdiSpecs
      BY <1>3 DEF WriteCheckpoint, CallInv
    <2> QED
      BY <1>a, <2>1, <2>2 DEF CallInv, PrepareCall
  <1>4. CASE ForgetRead
    <2>1. rpc.claim \notin durable \cup DOMAIN cdiSpecs
      BY <1>4 DEF ForgetRead, RpcAt, CallInv
    <2>2. CASE rpc.claim \in DOMAIN claimDevices
      <3>1. /\ rpc'.op = "unprepare" /\ rpc'.claim = rpc.claim /\ rpc'.pc = "forget"
            /\ UNCHANGED outcome
        BY <1>4, <2>2 DEF ForgetRead, UnprepareCall
      <3> QED
        BY <1>4, <1>a, <2>1, <3>1 DEF ForgetRead, CallInv, PrepareCall
    <2>3. CASE rpc.claim \notin DOMAIN claimDevices
      <3>1. rpc' = IdleCall /\ outcome' = [outcome EXCEPT ![rpc.claim] = "unprepared"]
        BY <1>4, <2>3 DEF ForgetRead, Return
      <3> QED
        BY <1>0, <1>4, <1>a, <2>1, <3>1 DEF ForgetRead, CallInv
    <2> QED
      BY <2>2, <2>3
  <1>5. CASE ForgetClaimDevices
    <2>1. rpc.claim \notin durable \cup DOMAIN cdiSpecs
      BY <1>5 DEF ForgetClaimDevices, RpcAt, CallInv
    <2> QED
      BY <1>0, <1>5, <1>a, <2>1 DEF ForgetClaimDevices, Return, CallInv
  <1>6. CASE RpcFails
    BY <1>6, CallInvKept DEF RpcFails, callFiles
  <1> QED
    BY <1>1, <1>2, <1>3, <1>4, <1>5, <1>6, <1>a
       DEF RpcStep, CreateClaimSpecFile, RecordRead, RecordClaimDevices, RpcAt

\* A step of a call belongs to a Prepare or an Unprepare.
LEMMA CallGoesOn ==
    ASSUME TypeOK, CallInv, RpcStep
    PROVE  CallInv' /\ rpc # IdleCall
  <1>1. rpc # IdleCall
    BY DEF RpcStep, CreateClaimSpecFile, RecordRead, RecordClaimDevices, TruncateCheckpoint,
       WriteCheckpoint, DeleteClaimSpecFile, ForgetRead, ForgetClaimDevices, RpcFails, RpcAt,
       IdleCall
  <1> QED
    BY <1>1, PrepareGoesOn, UnprepareGoesOn DEF TypeOK

=============================================================================
