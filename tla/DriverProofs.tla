---------------------------- MODULE DriverProofs ----------------------------
(***************************************************************************)
(* Theorems about Driver, for any devices, claims, allocations and         *)
(* streams, with or without faults.                                        *)
(*                                                                         *)
(* A step of the driver is a step of DeviceState or leaves it alone, so    *)
(* every theorem about DeviceState holds of the device state inside the    *)
(* running plugin. What the channels and the loop add rests on DriverInv.  *)
(***************************************************************************)
EXTENDS Driver, DeviceHealthProofs

-----------------------------------------------------------------------------
\* The driver runs DeviceState.

\* Every step of the driver is one of DeviceState or leaves its variables alone.
LEMMA DriverStep == [DriverNext]_allVars => [Next]_vars
  <1> SUFFICES ASSUME [DriverNext]_allVars PROVE [Next]_vars
    OBVIOUS
  <1>1. CASE DriverEnvironment
    BY <1>1 DEF DriverEnvironment, Next
  <1>2. CASE NewDeviceState
    BY <1>2 DEF NewDeviceState, Next, Process, ReconcileStep
  <1>3. CASE StartHelper \/ PublishFirst \/ Cancel \/ Shutdown \/ kickReconcile
    BY <1>3 DEF StartHelper, PublishFirst, Cancel, Shutdown, kickReconcile
  <1>4. CASE Exit \/ Die
    BY <1>4 DEF Exit, Die, Next, Process
  <1>5. ASSUME NEW c \in Claims, CallBegin(c) PROVE Next
    BY <1>5 DEF CallBegin, Next, Process
  <1>6. CASE CallStep
    BY <1>6 DEF CallStep, Next, Process
  <1>7. CASE LoopNext
    BY <1>7 DEF LoopNext, LoopDone, LoopTick, LoopKicked, LoopReconciles, LoopReconcileFails,
       LoopReconciled, notifyHealth, PublishResources, PublishFails, Next, Process, ReconcileStep
  <1>8. ASSUME NEW w \in Watchers, WatchNext(w) PROVE UNCHANGED vars
    BY <1>8 DEF WatchNext, WatchGoesOn, WatchOpen, WatchRead, WatchSend, WatchWoken,
       WatchResend, WatchClose
  <1>9. CASE UNCHANGED allVars
    BY <1>9 DEF allVars
  <1> QED
    BY <1>1, <1>2, <1>3, <1>4, <1>5, <1>6, <1>7, <1>8, <1>9 DEF DriverNext

\* The running plugin behaves as DeviceState, so that the promises of Prepare,
\* Unprepare and Reconcile are kept among loop, calls, streams, start and
\* shutdown.
THEOREM DriverRunsDeviceState == DriverSpec => Spec
  <1>1. DriverInit => Init
    BY DEF DriverInit
  <1> QED
    BY <1>1, DriverStep, PTL DEF DriverSpec, Spec

\* What a successful Prepare has written stays, and the devices of prepared
\* claims stay published, in the running plugin.
THEOREM DriverKeepsClaims == DriverSpec => [](PreparedIsDurable /\ PreparedStaysPublished)
  BY DriverRunsDeviceState, PreparedDurable, PublishedWhilePrepared, PTL

-----------------------------------------------------------------------------
\* Type correctness.

\* healthReport makes reports.
LEMMA ReportType ==
    ASSUME NEW tr, IsMap(tr, Names, TrackedDevice)
    PROVE  healthReport(tr) \in Report
  <1>1. \A n \in DOMAIN tr : <<tr[n].status, tr[n].taintValue>> \in Statuses \X TaintValues
    BY DEF IsMap, TrackedDevice
  <1>2. IsMap(healthReport(tr), Names, Statuses \X TaintValues)
    BY <1>1 DEF healthReport, IsMap
  <1> DEFINE T == Statuses \X TaintValues
  <1> HIDE DEF T
  <1>3. healthReport(tr) \in PartialFn(Names, T)
    BY <1>2, PartialFnIsMap DEF T
  <1> QED
    BY <1>3 DEF Report, T

\* No stream is open at first.
LEMMA DriverInitType == DriverInit => DriverTypeOK
  <1> SUFFICES ASSUME DriverInit PROVE DriverTypeOK
    OBVIOUS
  <1>1. TypeOK
    BY InitType DEF DriverInit
  <1>2. NoEntries \in Report
    BY NoEntriesPartialFn DEF Report
  <1>3. watch \in [Watchers -> Stream] /\ delivered \in [Watchers -> Report]
    BY <1>2 DEF DriverInit, Stream
  <1> QED
    BY <1>1, <1>3 DEF DriverInit, DriverTypeOK

\* No step of the loop, of a stream, of a call or of RunPlugin breaks a type.
LEMMA DriverTypeStep == DriverTypeOK /\ [DriverNext]_allVars => DriverTypeOK'
  <1> SUFFICES ASSUME DriverTypeOK, [DriverNext]_allVars
               PROVE  DriverTypeOK'
    OBVIOUS
  <1> USE DEF driverVars, loopVars, chanVars, watchVars, errorVars
  <1>0. TypeOK /\ TypeOK'
    BY DriverStep, TypeStep DEF DriverTypeOK
  <1>1. CASE UNCHANGED driverVars
    BY <1>0, <1>1 DEF DriverTypeOK
  <1>2. CASE DriverEnvironment \/ NewDeviceState \/ LoopReconciles
    BY <1>1, <1>2 DEF DriverEnvironment, NewDeviceState, LoopReconciles
  <1>3. CASE StartHelper \/ Cancel \/ Shutdown \/ kickReconcile
    BY <1>0, <1>3 DEF StartHelper, Cancel, Shutdown, kickReconcile, DriverTypeOK
  <1>4. CASE PublishFirst \/ PublishResources
    <2>1. driverResources = NoResources \/ IsMap(driverResources, Names, ResourceDevice)
      BY <1>0 DEF TypeOK
    <2> QED
      BY <1>0, <1>4, <2>1 DEF PublishFirst, PublishResources, DriverTypeOK
  <1>5. CASE Exit \/ Die
    <2>1. NoEntries \in Report
      BY NoEntriesPartialFn DEF Report
    <2>2. DriverGone
      BY <1>5 DEF Exit, Die
    <2>3. watch' \in [Watchers -> Stream] /\ delivered' \in [Watchers -> Report]
      BY <2>1, <2>2 DEF DriverGone, Stream
    <2> QED
      BY <1>0, <2>2, <2>3 DEF DriverGone, DriverTypeOK
  <1>6. ASSUME NEW c \in Claims, CallBegin(c) PROVE DriverTypeOK'
    BY <1>1, <1>6 DEF CallBegin
  <1>7. CASE CallStep
    BY <1>0, <1>7 DEF CallStep, DriverTypeOK
  <1>8. CASE LoopDone \/ LoopTick \/ LoopKicked \/ LoopReconcileFails \/ PublishFails
    BY <1>0, <1>8 DEF LoopDone, LoopTick, LoopKicked, LoopReconcileFails, PublishFails, DriverTypeOK
  <1>9. CASE LoopReconciled \/ notifyHealth
    BY <1>0, <1>9 DEF LoopReconciled, notifyHealth, AfterReconcile, DriverTypeOK
  <1>10. ASSUME NEW w \in Watchers, WatchNext(w) PROVE DriverTypeOK'
    <2>1. watch \in [Watchers -> Stream] /\ delivered \in [Watchers -> Report]
      BY DEF DriverTypeOK
    <2>2. watch' \in [Watchers -> Stream]
      <3>1. CASE WatchRead(w)
        <4>1. healthReport(tracked) \in Report
          BY <1>0, ReportType DEF TypeOK
        <4> QED
          BY <2>1, <3>1, <4>1 DEF WatchRead, Stream
      <3> QED
        BY <1>10, <2>1, <3>1 DEF WatchNext, WatchGoesOn, WatchOpen, WatchSend, WatchWoken, WatchResend,
           WatchClose, Stream
    <2>3. delivered' \in [Watchers -> Report]
      <3>1. CASE WatchSend(w)
        <4>1. watch[w].report \in Report
          BY <2>1, <3>1 DEF WatchSend, Stream, ClosedStream
        <4> QED
          BY <2>1, <3>1, <4>1 DEF WatchSend
      <3>2. CASE WatchClose(w)
        <4>1. NoEntries \in Report
          BY NoEntriesPartialFn DEF Report
        <4> QED
          BY <2>1, <3>2, <4>1 DEF WatchClose
      <3> QED
        BY <1>10, <2>1, <3>1, <3>2 DEF WatchNext, WatchGoesOn, WatchOpen, WatchRead, WatchWoken,
           WatchResend
    <2>4. UNCHANGED <<main, loop, republish, reconcileNow, kicking, slice, errorVars>>
          /\ healthChanged' \in BOOLEAN
      BY <1>10 DEF WatchNext, WatchGoesOn, WatchOpen, WatchRead, WatchSend, WatchWoken, WatchResend,
         WatchClose, DriverTypeOK
    <2>5. woken' \subseteq Watchers
      BY <1>10 DEF WatchNext, WatchGoesOn, WatchOpen, WatchRead, WatchSend, WatchWoken,
         WatchResend, WatchClose, DriverTypeOK
    <2> QED
      BY <1>0, <2>2, <2>3, <2>4, <2>5 DEF DriverTypeOK
  <1>11. CASE UNCHANGED allVars
    BY <1>1, <1>11 DEF allVars
  <1> QED
    BY <1>2, <1>3, <1>4, <1>5, <1>6, <1>7, <1>8, <1>9, <1>10, <1>11 DEF DriverNext, LoopNext

\* Every variable of the driver keeps its type.
THEOREM DriverTypeCorrect == DriverSpec => []DriverTypeOK
  BY DriverInitType, DriverTypeStep, PTL DEF DriverSpec

-----------------------------------------------------------------------------
\* The inductive invariant of the loop and its channels.

\* How far RunPlugin, the loop, the kick of a call and the streams can be.
RunInv ==
    /\ main # "off" => phase = "up"
    /\ main \in {"off", "serving"} => loop = "off"
    /\ main = "off" => \A w \in Watchers : watch[w] = ClosedStream
    /\ kicking => rpc = IdleCall

\* From the first publication on, what differs from the published resources is
\* on its way to be published or could not be.
SliceInv ==
    /\ loop \in {"select", "reconcile"} /\ ~publishError => slice = driverResources
    /\ loop = "notify" /\ ~publishError /\ ~republish => slice = driverResources

\* A retained device all of whose claims are unprepared.
Abandoned(n) ==
    /\ tracked[n].taintValue = "not-discovered"
    /\ \A c \in DOMAIN Alloc : n \in Alloc[c] => outcome[c] = "unprepared"

\* KickIsPending, also before the loop runs.
KickInv ==
    \A n \in DOMAIN tracked :
        Abandoned(n) /\ loop # "done"
            => kicking \/ reconcileNow \/ loop = "reconcile" \/ reconcileError

\* What keeps a stream from waiting with an outdated report for nothing.
Woken(w) == healthChanged \/ loop = "notify" \/ \E v \in woken : v # w

\* HealthWakeup, also for the report that a stream is about to send.
WakeInv ==
    \A w \in Watchers :
        \/ watch[w].pc = "wait" /\ delivered[w] # healthReport(tracked)
        \/ watch[w].pc = "send" /\ watch[w].report # healthReport(tracked)
        => Woken(w)

\* Nothing runs and nothing is tracked at first.
LEMMA DriverInvInit == DriverInit => RunInv /\ SliceInv /\ KickInv /\ WakeInv
BY DEF DriverInit, Init, NoEntries, RunInv, SliceInv, KickInv, WakeInv, ClosedStream

\* A call kicks when it has ended, and the loop runs between the first
\* publication and the exit.
LEMMA RunStep == DriverTypeOK /\ RunInv /\ [DriverNext]_allVars => RunInv'
  <1> SUFFICES ASSUME DriverTypeOK, RunInv, [DriverNext]_allVars
               PROVE  RunInv'
    OBVIOUS
  <1> USE DEF driverVars, loopVars, chanVars, watchVars, errorVars, vars, node, files, memory
  <1>1. CASE UNCHANGED <<driverVars, phase, rpc>>
    BY <1>1 DEF RunInv
  <1>2. CASE DriverEnvironment
    BY <1>1, <1>2 DEF DriverEnvironment, Environment, Bind, Unbind, NodeAppears, NodeVanishes, Tick
  <1>3. CASE NewDeviceState
    BY <1>3 DEF NewDeviceState, Start, Enumerate, ReadCheckpoint, ReadClaimDevices,
       PruneClaimDevices, ApplyDiscovery, ReconcileFails, RunInv
  <1>4. CASE StartHelper \/ PublishFirst \/ Cancel \/ Shutdown \/ kickReconcile
    BY <1>4 DEF StartHelper, PublishFirst, Cancel, Shutdown, kickReconcile, RunInv
  <1>5. CASE Exit \/ Die
    BY <1>5 DEF Exit, Die, DriverGone, Crash, RunInv
  <1>6. ASSUME NEW c \in Claims, CallBegin(c) PROVE RunInv'
    BY <1>6 DEF CallBegin, PrepareBegin, UnprepareBegin, RunInv
  <1>7. CASE CallStep
    <2>1. UNCHANGED phase
      BY <1>7 DEF CallStep, RpcStep, CreateClaimSpecFile, RecordRead, RecordClaimDevices,
         TruncateCheckpoint, WriteCheckpoint, DeleteClaimSpecFile, ForgetRead,
         ForgetClaimDevices, RpcFails
    <2> QED
      BY <1>7, <2>1 DEF CallStep, RunInv
  <1>8. CASE LoopNext
    <2>1. UNCHANGED <<rpc, main, kicking, watch>>
      BY <1>8 DEF LoopNext, LoopDone, LoopTick, LoopKicked, LoopReconciles, LoopReconcileFails,
         LoopReconciled, notifyHealth, PublishResources, PublishFails, Enumerate,
         ReadCheckpoint, ReadClaimDevices, PruneClaimDevices, ApplyDiscovery, ReconcileFails
    <2>2. loop # "off"
      BY <1>8 DEF LoopNext, LoopDone, LoopTick, LoopKicked, LoopReconciles, LoopReconcileFails,
         LoopReconciled, notifyHealth, PublishResources, PublishFails
    <2>3. phase = "up"
      BY <2>2 DEF RunInv
    <2>4. phase' = "up"
      BY <1>8, <2>3 DEF LoopNext, LoopDone, LoopTick, LoopKicked, LoopReconciles,
         LoopReconcileFails, LoopReconciled, notifyHealth, PublishResources, PublishFails,
         Enumerate, ReadCheckpoint, ReadClaimDevices, PruneClaimDevices, ApplyDiscovery,
         ReconcileFails
    <2> QED
      BY <2>1, <2>2, <2>4 DEF RunInv
  <1>9. ASSUME NEW w \in Watchers, WatchNext(w) PROVE RunInv'
    <2>1. UNCHANGED <<phase, rpc, main, loop, kicking>>
      BY <1>9 DEF WatchNext, WatchGoesOn, WatchOpen, WatchRead, WatchSend, WatchWoken,
         WatchResend, WatchClose
    <2>2. Serving \/ watch[w].pc \in {"read", "send", "wait"}
      BY <1>9 DEF WatchNext, WatchGoesOn, WatchOpen, WatchRead, WatchSend, WatchWoken,
         WatchResend, WatchClose
    <2>3. main # "off"
      BY <2>2 DEF Serving, RunInv, ClosedStream
    <2> QED
      BY <2>1, <2>3 DEF RunInv
  <1>10. CASE UNCHANGED allVars
    BY <1>1, <1>10 DEF allVars
  <1> QED
    BY <1>2, <1>3, <1>4, <1>5, <1>6, <1>7, <1>8, <1>9, <1>10 DEF DriverNext

\* The loop alone changes what is tracked and published while it runs, by the
\* last step of a reconcile.
LEMMA MemorySteps ==
    ASSUME DriverTypeOK, RunInv, [DriverNext]_allVars
    PROVE  \/ UNCHANGED memory
           \/ NewDeviceState /\ main = "off" /\ ApplyDiscovery
           \/ LoopReconciled
           \/ Crash /\ DriverGone
  <1> USE DEF memory, vars, node, files
  <1>1. CASE DriverEnvironment
    BY <1>1 DEF DriverEnvironment, Environment, Bind, Unbind, NodeAppears, NodeVanishes, Tick
  <1>2. CASE NewDeviceState
    BY <1>2 DEF NewDeviceState, RunInv, Start, Enumerate, ReadCheckpoint, ReadClaimDevices,
       PruneClaimDevices, ReconcileFails
  <1>3. CASE StartHelper \/ PublishFirst \/ Cancel \/ Shutdown \/ kickReconcile
    BY <1>3 DEF StartHelper, PublishFirst, Cancel, Shutdown, kickReconcile
  <1>4. CASE Exit \/ Die
    BY <1>4 DEF Exit, Die
  <1>5. ASSUME NEW c \in Claims, CallBegin(c) PROVE UNCHANGED memory
    BY <1>5 DEF CallBegin, PrepareBegin, UnprepareBegin
  <1>6. CASE CallStep
    BY <1>6 DEF CallStep, RpcStep, CreateClaimSpecFile, RecordRead, RecordClaimDevices,
       TruncateCheckpoint, WriteCheckpoint, DeleteClaimSpecFile, ForgetRead,
       ForgetClaimDevices, RpcFails
  <1>7. CASE LoopNext
    BY <1>7 DEF LoopNext, LoopDone, LoopTick, LoopKicked, LoopReconciles, LoopReconcileFails,
       notifyHealth, PublishResources, PublishFails, Enumerate, ReadCheckpoint,
       ReadClaimDevices, PruneClaimDevices, ReconcileFails
  <1>8. ASSUME NEW w \in Watchers, WatchNext(w) PROVE UNCHANGED memory
    BY <1>8 DEF WatchNext, WatchGoesOn, WatchOpen, WatchRead, WatchSend, WatchWoken,
       WatchResend, WatchClose
  <1>9. CASE UNCHANGED allVars
    BY <1>9 DEF allVars
  <1> QED
    BY <1>1, <1>2, <1>3, <1>4, <1>5, <1>6, <1>7, <1>8, <1>9 DEF DriverNext

\* ResourcesChanged tells the loop to publish whenever it has to.
LEMMA SliceStep == DriverTypeOK /\ RunInv /\ SliceInv /\ [DriverNext]_allVars => SliceInv'
  <1> SUFFICES ASSUME DriverTypeOK, RunInv, SliceInv, [DriverNext]_allVars
               PROVE  SliceInv'
    OBVIOUS
  <1> USE DEF memory, vars, node, files, driverVars, loopVars, chanVars, watchVars, errorVars
  <1>1. CASE LoopReconciled
    <2>1. republish' = (driverResources' # driverResources)
      BY <1>1 DEF LoopReconciled
    <2>2. republish' \in BOOLEAN
      BY DriverTypeStep DEF DriverTypeOK
    <2>3. loop' \in {"notify", "publish"} \/ (loop' = "select" /\ ~republish')
      BY <1>1, <2>2 DEF LoopReconciled, AfterReconcile
    <2>4. ~publishError' => slice' = driverResources
      BY <1>1 DEF LoopReconciled, SliceInv
    <2> QED
      BY <2>1, <2>3, <2>4 DEF SliceInv
  <1>2. CASE NewDeviceState /\ main = "off" /\ ApplyDiscovery
    BY <1>2 DEF NewDeviceState, RunInv, SliceInv
  <1>3. CASE Crash /\ DriverGone
    BY <1>3 DEF DriverGone, SliceInv
  <1>4. CASE UNCHANGED memory
    <2>1. CASE UNCHANGED <<loop, republish, publishError, slice>>
      BY <1>4, <2>1 DEF SliceInv
    <2>2. CASE DriverEnvironment \/ NewDeviceState \/ UNCHANGED allVars
      BY <2>1, <2>2 DEF DriverEnvironment, NewDeviceState, allVars
    <2>3. CASE StartHelper \/ Cancel \/ Shutdown \/ kickReconcile \/ CallStep
      BY <2>1, <2>3 DEF StartHelper, Cancel, Shutdown, kickReconcile, CallStep
    <2>4. CASE PublishFirst \/ PublishResources
      BY <1>4, <2>4 DEF PublishFirst, PublishResources, SliceInv
    <2>5. CASE Exit \/ Die
      BY <1>3, <2>5 DEF Exit, Die
    <2>6. ASSUME NEW c \in Claims, CallBegin(c) PROVE SliceInv'
      BY <2>1, <2>6 DEF CallBegin
    <2>7. CASE LoopDone \/ LoopTick \/ LoopKicked \/ LoopReconciles \/ LoopReconcileFails
      BY <1>4, <2>7 DEF LoopDone, LoopTick, LoopKicked, LoopReconciles, LoopReconcileFails, SliceInv
    <2>8. CASE notifyHealth
      BY <1>4, <2>8 DEF notifyHealth, AfterReconcile, SliceInv
    <2>9. CASE PublishFails
      BY <2>9 DEF PublishFails, SliceInv
    <2>10. ASSUME NEW w \in Watchers, WatchNext(w) PROVE SliceInv'
      BY <2>1, <2>10 DEF WatchNext, WatchGoesOn, WatchOpen, WatchRead, WatchSend, WatchWoken, WatchResend,
         WatchClose
    <2> QED
      BY <1>1, <2>2, <2>3, <2>4, <2>5, <2>6, <2>7, <2>8, <2>9, <2>10 DEF DriverNext, LoopNext
  <1> QED
    BY <1>1, <1>2, <1>3, <1>4, MemorySteps

\* What the loop has published is what the last reconcile computed, unless
\* publishing failed.
THEOREM PublishedIsCurrent == DriverSpec => []SliceIsCurrent
  <1>1. SliceInv => SliceIsCurrent
    BY DEF SliceInv, SliceIsCurrent
  <1> QED
    BY <1>1, DriverTypeCorrect, DriverInvInit, RunStep, SliceStep, PTL DEF DriverSpec

-----------------------------------------------------------------------------
\* The kick.

\* A call that makes a claim unprepared kicks next.
LEMMA UnpreparedKicks ==
    ASSUME TypeOK, OutcomeInv, CallStep, NEW c \in Claims, outcome'[c] = "unprepared"
    PROVE  outcome[c] = "unprepared" \/ kicking'
  <1>0. outcome \in [Claims -> {"none", "prepared", "unprepared"}]
    BY DEF TypeOK
  <1>1. CASE UNCHANGED outcome
    BY <1>1
  <1>2. CASE RecordClaimDevices \/ WriteCheckpoint
    BY <1>0, <1>2 DEF RecordClaimDevices, WriteCheckpoint, Return
  <1>3. CASE ForgetRead \/ ForgetClaimDevices
    <2>1. CASE outcome[c] = "unprepared"
      BY <2>1
    <2>2. CASE outcome[c] # "unprepared"
      <3>1. rpc.op = "unprepare" /\ rpc' = IdleCall /\ outcome' # outcome
        BY <1>3, <2>2 DEF ForgetRead, ForgetClaimDevices, RpcAt, Return
      <3> QED
        BY <3>1 DEF CallStep, CallFails
    <2> QED
      BY <2>1, <2>2
  <1> QED
    BY <1>1, <1>2, <1>3 DEF CallStep, RpcStep, CreateClaimSpecFile, RecordRead,
       TruncateCheckpoint, DeleteClaimSpecFile, RpcFails

\* A call in progress has not kicked yet.
LEMMA CallNotKicking == RunInv /\ CallStep => ~kicking
BY DEF RunInv, CallStep, RpcStep, CreateClaimSpecFile, RecordRead, RecordClaimDevices,
   TruncateCheckpoint, WriteCheckpoint, DeleteClaimSpecFile, ForgetRead, ForgetClaimDevices,
   RpcFails, RpcAt, IdleCall

\* A kick stays in the channel until a reconcile begins, and what a reconcile
\* retains is held by a claim that is not unprepared.
LEMMA KickStep ==
    /\ DriverTypeOK /\ RetentionInv /\ OutcomeInv /\ RunInv /\ KickInv
    /\ [DriverNext]_allVars
    => KickInv'
  <1> SUFFICES ASSUME DriverTypeOK, RetentionInv, OutcomeInv, RunInv, KickInv,
                      [DriverNext]_allVars,
                      NEW n \in DOMAIN tracked', Abandoned(n)', loop' # "done"
               PROVE  (kicking \/ reconcileNow \/ loop = "reconcile" \/ reconcileError)'
    BY DEF KickInv
  <1> DEFINE Pending == kicking \/ reconcileNow \/ loop = "reconcile" \/ reconcileError
  <1> USE DEF memory, vars, node, files, driverVars, loopVars, chanVars, watchVars, errorVars
  <1>0. TypeOK /\ DOMAIN Alloc \subseteq Claims
    BY ClaimAssumption, PartialFnIsMap DEF DriverTypeOK, IsMap
  <1>1. ASSUME ApplyDiscovery PROVE FALSE
    <2>1. PICK c \in durable : c \in DOMAIN Alloc /\ n \in Alloc[c]
      BY <1>0, <1>1, ApplyRetains DEF Abandoned
    <2>2. outcome[c] = "unprepared"
      BY <1>1, <2>1 DEF ApplyDiscovery, Abandoned
    <2> QED
      BY <1>0, <2>1, <2>2 DEF OutcomeInv, UnpreparedLeavesNothing
  <1>2. ASSUME Crash PROVE FALSE
    BY <1>2 DEF Crash, NoEntries
  <1>3. CASE UNCHANGED memory
    <2>1. CASE UNCHANGED outcome /\ loop # "done" /\ (Pending => Pending')
      BY <1>3, <2>1 DEF Abandoned, KickInv
    <2>2. CASE DriverEnvironment
      BY <2>1, <2>2 DEF DriverEnvironment, Environment, Bind, Unbind, NodeAppears,
         NodeVanishes, Tick
    <2>3. CASE NewDeviceState
      BY <1>1, <2>1, <2>3 DEF NewDeviceState, Start, Enumerate, ReadCheckpoint,
         ReadClaimDevices, PruneClaimDevices, ReconcileFails
    <2>4. CASE StartHelper \/ Cancel \/ Shutdown
      BY <2>1, <2>4 DEF StartHelper, Cancel, Shutdown
    <2>5. CASE PublishFirst
      BY <2>1, <2>5 DEF PublishFirst, RunInv
    <2>6. CASE kickReconcile
      BY <2>6 DEF kickReconcile
    <2>7. ASSUME NEW c \in Claims, CallBegin(c) PROVE Pending'
      <3>1. \A d \in Claims : outcome'[d] = "unprepared" => outcome[d] = "unprepared"
        BY <1>0, <2>7 DEF CallBegin, PrepareBegin, UnprepareBegin, TypeOK
      <3> QED
        BY <1>0, <1>3, <2>7, <3>1 DEF CallBegin, Abandoned, KickInv
    <2>8. CASE CallStep
      <3>1. CASE kicking'
        BY <3>1
      <3>2. CASE ~kicking'
        <4>1. Abandoned(n)
          BY <1>0, <1>3, <2>8, <3>2, UnpreparedKicks DEF Abandoned
        <4> QED
          BY <1>3, <2>8, <4>1, CallNotKicking DEF CallStep, KickInv
      <3> QED
        BY <3>1, <3>2
    <2>9. CASE LoopDone \/ LoopTick \/ LoopKicked
      BY <2>9 DEF LoopDone, LoopTick, LoopKicked
    <2>10. CASE LoopReconciles
      BY <2>10 DEF LoopReconciles
    <2>11. CASE LoopReconcileFails
      BY <2>11 DEF LoopReconcileFails
    <2>12. CASE LoopReconciled
      BY <1>1, <2>12 DEF LoopReconciled
    <2>13. CASE notifyHealth \/ PublishResources \/ PublishFails
      BY <2>1, <2>13 DEF notifyHealth, PublishResources, PublishFails
    <2>14. ASSUME NEW w \in Watchers, WatchNext(w) PROVE Pending'
      BY <2>1, <2>14 DEF WatchNext, WatchGoesOn, WatchOpen, WatchRead, WatchSend, WatchWoken, WatchResend,
         WatchClose
    <2>15. CASE Exit \/ Die
      BY <1>2, <2>15 DEF Exit, Die
    <2>16. CASE UNCHANGED allVars
      BY <2>1, <2>16 DEF allVars
    <2> QED
      BY <2>2, <2>3, <2>4, <2>5, <2>6, <2>7, <2>8, <2>9, <2>10, <2>11, <2>12, <2>13, <2>14,
         <2>15, <2>16 DEF DriverNext, LoopNext
  <1> QED
    BY <1>1, <1>2, <1>3, MemorySteps DEF LoopReconciled

\* kickReconcile loses no kick, whatever the loop does meanwhile.
THEOREM NoKickIsLost == DriverSpec => []KickIsPending
  <1>1. KickInv => KickIsPending
    BY DEF KickInv, Abandoned, KickIsPending
  <1>2. TypeOK /\ RetentionInv /\ OutcomeInv /\ [DriverNext]_allVars
           => (RetentionInv /\ OutcomeInv)'
    BY DriverStep, RetentionStep, OutcomeStep
  <1>3. DriverInit => RetentionInv /\ OutcomeInv
    BY RetentionInit, OutcomeInit DEF DriverInit
  <1>4. DriverTypeOK => TypeOK
    BY DEF DriverTypeOK
  <1> QED
    BY <1>1, <1>2, <1>3, <1>4, DriverTypeCorrect, DriverInvInit, RunStep, KickStep, PTL
       DEF DriverSpec

-----------------------------------------------------------------------------
\* The health streams.

\* A stream that takes the token reads the current health; it is the one that
\* the others have been overtaken by.
LEMMA WakeStep == DriverTypeOK /\ RunInv /\ WakeInv /\ [DriverNext]_allVars => WakeInv'
  <1> SUFFICES ASSUME DriverTypeOK, RunInv, WakeInv, [DriverNext]_allVars,
                      NEW w \in Watchers,
                      \/ watch'[w].pc = "wait" /\ delivered'[w] # healthReport(tracked')
                      \/ watch'[w].pc = "send" /\ watch'[w].report # healthReport(tracked')
               PROVE  Woken(w)'
    BY DEF WakeInv
  <1> USE DEF memory, vars, node, files, driverVars, loopVars, chanVars, watchVars, errorVars
  <1>0. watch \in [Watchers -> Stream] /\ delivered \in [Watchers -> Report]
    BY DEF DriverTypeOK
  <1>1. CASE NewDeviceState /\ main = "off"
    BY <1>1 DEF NewDeviceState, RunInv, ClosedStream
  <1>2. CASE Crash /\ DriverGone
    BY <1>2 DEF DriverGone, ClosedStream
  <1>3. CASE LoopReconciled
    <2>1. CASE healthEqual(tracked, tracked')
      <3>1. healthReport(tracked') = healthReport(tracked)
        BY <2>1 DEF healthEqual
      <3>2. loop # "notify" /\ UNCHANGED <<watch, delivered, healthChanged, woken>>
        BY <1>3, <2>1 DEF LoopReconciled
      <3> HIDE DEF healthReport
      <3> QED
        BY <3>1, <3>2 DEF WakeInv, Woken
    <2>2. CASE ~healthEqual(tracked, tracked')
      BY <1>3, <2>2 DEF LoopReconciled, AfterReconcile, Woken
    <2> QED
      BY <2>1, <2>2
  <1>4. CASE UNCHANGED memory
    <2>0. healthReport(tracked') = healthReport(tracked)
      BY <1>4
    <2> HIDE DEF healthReport
    <2>1. CASE /\ UNCHANGED <<watch[w], delivered[w], healthChanged, woken>>
               /\ loop = "notify" => loop' = "notify"
      BY <2>0, <2>1 DEF WakeInv, Woken
    <2>2. CASE DriverEnvironment \/ NewDeviceState \/ UNCHANGED allVars
      BY <2>1, <2>2 DEF DriverEnvironment, NewDeviceState, allVars
    <2>3. CASE StartHelper \/ Cancel \/ Shutdown \/ kickReconcile \/ CallStep
      BY <2>1, <2>3 DEF StartHelper, Cancel, Shutdown, kickReconcile, CallStep
    <2>4. CASE PublishFirst
      BY <2>1, <2>4 DEF PublishFirst, RunInv
    <2>5. CASE Exit \/ Die
      BY <1>2, <2>5 DEF Exit, Die
    <2>6. ASSUME NEW c \in Claims, CallBegin(c) PROVE Woken(w)'
      BY <2>1, <2>6 DEF CallBegin
    <2>7. CASE LoopDone \/ LoopTick \/ LoopKicked \/ LoopReconciles \/ LoopReconcileFails
               \/ PublishResources \/ PublishFails
      BY <2>1, <2>7 DEF LoopDone, LoopTick, LoopKicked, LoopReconciles, LoopReconcileFails,
         PublishResources, PublishFails
    <2>8. CASE notifyHealth
      BY <2>8 DEF notifyHealth, Woken
    <2>9. ASSUME NEW v \in Watchers, WatchNext(v) PROVE Woken(w)'
      <3>1. CASE v # w /\ WatchWoken(v)
        BY <3>1 DEF WatchWoken, Woken
      <3>2. CASE v # w /\ ~WatchWoken(v)
        <4>1. UNCHANGED <<healthChanged, woken, loop>>
          BY <2>9, <3>2 DEF WatchNext, WatchGoesOn, WatchOpen, WatchRead, WatchSend,
             WatchResend, WatchClose
        <4>2. UNCHANGED <<watch[w], delivered[w]>>
          BY <1>0, <2>9, <3>2 DEF WatchNext, WatchGoesOn, WatchOpen, WatchRead, WatchSend,
             WatchResend, WatchClose
        <4> QED
          BY <2>1, <4>1, <4>2
      <3>3. CASE v = w /\ WatchClose(w)
        <4>1. watch'[w].pc = "closed"
          BY <1>0, <3>3 DEF WatchClose, ClosedStream
        <4> QED
          BY <4>1
      <3>4. CASE v = w /\ (WatchOpen(w) \/ WatchWoken(w) \/ WatchResend(w))
        <4>1. watch' = [watch EXCEPT ![w] = [pc |-> "read"]]
          BY <3>4 DEF WatchOpen, WatchWoken, WatchResend
        <4>2. watch'[w].pc = "read"
          BY <1>0, <4>1
        <4> QED
          BY <4>2
      <3>5. CASE v = w /\ WatchRead(w)
        BY <1>0, <2>0, <3>5 DEF WatchRead
      <3>6. CASE v = w /\ WatchSend(w)
        BY <1>0, <2>0, <3>6 DEF WatchSend, WakeInv, Woken
      <3> QED
        BY <2>9, <3>1, <3>2, <3>3, <3>4, <3>5, <3>6 DEF WatchNext, WatchGoesOn
    <2> QED
      BY <1>3, <2>2, <2>3, <2>4, <2>5, <2>6, <2>7, <2>8, <2>9 DEF DriverNext, LoopNext
  <1> QED
    BY <1>1, <1>2, <1>3, <1>4, MemorySteps

\* No stream waits with an outdated report while nothing has been put into the
\* channel for it: what wakes it is there, is about to be, or another stream took
\* it. This holds for any number of streams on the one channel.
THEOREM NoChangeIsMissed == DriverSpec => []HealthWakeup
  <1>1. WakeInv => HealthWakeup
    BY DEF WakeInv, Woken, HealthWakeup
  <1> QED
    BY <1>1, WakeStep, DriverTypeCorrect, DriverInvInit, RunStep, PTL DEF DriverSpec

\* A single stream on the channel loses no wake-up at all.
COROLLARY SingleStreamIsWoken ==
    ASSUME NEW w, Watchers = {w}
    PROVE  DriverSpec =>
             [](watch[w].pc = "wait" /\ delivered[w] # healthReport(tracked)
                    => healthChanged \/ loop = "notify")
  <1>1. DriverTypeOK /\ HealthWakeup =>
           (watch[w].pc = "wait" /\ delivered[w] # healthReport(tracked)
               => healthChanged \/ loop = "notify")
    BY DEF DriverTypeOK, HealthWakeup
  <1> QED
    BY <1>1, NoChangeIsMissed, DriverTypeCorrect, PTL

=============================================================================
