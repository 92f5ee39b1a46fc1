------------------------------- MODULE Driver -------------------------------
(***************************************************************************)
(* The driver around DeviceState (cmd/kubeletplugin/driver.go and the end  *)
(* of main.go): start and shutdown, the rediscovery loop, the two channels *)
(* of capacity 1 that wake it and the health watchers, the kubelet's       *)
(* calls, and the publication of the ResourceSlice.                        *)
(*                                                                         *)
(* The helper of k8s.io/dynamic-resource-allocation is external: it        *)
(* serializes Prepare and Unprepare calls, hands the resources it is given *)
(* to the API server, and runs one WatchHealthStatus per kubelet stream.   *)
(***************************************************************************)
EXTENDS DeviceState

CONSTANTS
    Watchers,   \* health streams
    Faulty,     \* whether crashes and failures happen
    Stoppable   \* whether the process is ever asked to stop

ASSUME ModeAssumption == {Faulty, Stoppable} \subseteq BOOLEAN

VARIABLES
    main,           \* how far NewDriver and RunPlugin are
    loop,           \* runRediscovery
    republish,      \* ResourcesChanged of the last reconcile
    reconcileNow,   \* a token is in the channel
    healthChanged,  \* a token is in the channel
    kicking,        \* an Unprepare has succeeded and kickReconcile is next
    slice,          \* the resources the helper was given last
    watch,          \* each WatchHealthStatus call, with the report it holds
    delivered,      \* history: the last report each stream has sent
    woken,          \* history: the stream that took the last token since the health changed
    reconcileError, \* history: the last Reconcile returned an error
    publishError    \* history: the last PublishResources returned an error

loopVars   == <<loop, republish>>
chanVars   == <<reconcileNow, healthChanged, kicking>>
watchVars  == <<watch, delivered, woken>>
errorVars  == <<reconcileError, publishError>>
driverVars == <<main, loopVars, chanVars, slice, watchVars, errorVars>>
allVars    == <<vars, driverVars>>

\* The reports that healthReport makes, and the states of a stream.
Report       == PartialFn(Names, Statuses \X TaintValues)
ClosedStream == [pc |-> "closed"]
Stream       == {ClosedStream} \cup [pc: {"read", "wait"}] \cup [pc: {"send"}, report: Report]

DriverInit ==
    /\ Init
    /\ main = "off"
    /\ loop = "off"
    /\ republish = FALSE
    /\ reconcileNow = FALSE
    /\ healthChanged = FALSE
    /\ kicking = FALSE
    /\ slice = NoResources
    /\ watch = [w \in Watchers |-> ClosedStream]
    /\ delivered = [w \in Watchers |-> NoEntries]
    /\ woken = {}
    /\ reconcileError = FALSE
    /\ publishError = FALSE

\* The process is gone: everything but the slice at the API server.
DriverGone ==
    /\ main' = "off"
    /\ loop' = "off"
    /\ republish' = FALSE
    /\ reconcileNow' = FALSE
    /\ healthChanged' = FALSE
    /\ kicking' = FALSE
    /\ watch' = [w \in Watchers |-> ClosedStream]
    /\ delivered' = [w \in Watchers |-> NoEntries]
    /\ woken' = {}
    /\ reconcileError' = FALSE
    /\ publishError' = FALSE
    /\ UNCHANGED slice

-----------------------------------------------------------------------------
\* NewDriver and RunPlugin.

\* NewDeviceState, a Reconcile that no channel and no loop is involved in.
NewDeviceState ==
    /\ phase # "up"
    /\ Start \/ Enumerate \/ ReadCheckpoint \/ ReadClaimDevices
         \/ PruneClaimDevices \/ ApplyDiscovery \/ (Faulty /\ ReconcileFails)
    /\ UNCHANGED driverVars

\* kubeletplugin.Start: from here the kubelet calls and watches.
StartHelper ==
    /\ phase = "up" /\ main = "off"
    /\ main' = "serving"
    /\ UNCHANGED <<vars, loopVars, chanVars, slice, watchVars, errorVars>>

\* The first PublishResources, and the start of the loop.
PublishFirst ==
    /\ main = "serving"
    /\ slice' = driverResources
    /\ main' = "running"
    /\ loop' = "select"
    /\ UNCHANGED <<vars, republish, chanVars, watchVars, errorVars>>

\* A signal, or HandleError on an error that is not recoverable, cancels the
\* context that RunPlugin waits on.
Cancel ==
    /\ Stoppable
    /\ main = "running"
    /\ main' = "draining"
    /\ UNCHANGED <<vars, loopVars, chanVars, slice, watchVars, errorVars>>

\* Shutdown has seen the loop end and stops the helper, which takes no more
\* calls ...
Shutdown ==
    /\ main = "draining" /\ loop = "done"
    /\ main' = "stopping"
    /\ UNCHANGED <<vars, loopVars, chanVars, slice, watchVars, errorVars>>

\* ... and lets the one in progress finish; then the process exits.
Exit ==
    /\ main = "stopping"
    /\ rpc = IdleCall /\ ~kicking
    /\ Crash
    /\ DriverGone

\* The process is killed, or NewDriver returns an error after NewDeviceState
\* and the process exits.
Die ==
    /\ Faulty
    /\ Crash
    /\ DriverGone

-----------------------------------------------------------------------------
\* The kubelet's calls.

Serving == main \in {"serving", "running", "draining"}

CallBegin(c) ==
    /\ Serving
    /\ ~kicking
    /\ PrepareBegin(c) \/ UnprepareBegin(c)
    /\ UNCHANGED driverVars

\* The step ends the call with an error: one that ends it with success sets
\* its outcome.
CallFails == rpc' = IdleCall /\ outcome' = outcome

\* A call goes on; one that ends an Unprepare with success kicks next.
CallStep ==
    /\ RpcStep
    /\ CallFails => Faulty
    /\ kicking' = (rpc.op = "unprepare" /\ rpc' = IdleCall /\ ~CallFails)
    /\ UNCHANGED <<main, loopVars, reconcileNow, healthChanged, slice, watchVars, errorVars>>

\* Mutant: the channel has no buffer, so only a loop that waits is kicked.
kickReconcile_Unbuffered ==
    /\ kicking
    /\ kicking' = FALSE
    /\ reconcileNow' = (reconcileNow \/ loop = "select")
    /\ UNCHANGED <<vars, main, loopVars, healthChanged, slice, watchVars, errorVars>>

\* A send that does not block: a token that is there already is enough.
kickReconcile ==
    /\ kicking
    /\ kicking' = FALSE
    /\ reconcileNow' = TRUE
    /\ UNCHANGED <<vars, main, loopVars, healthChanged, slice, watchVars, errorVars>>

-----------------------------------------------------------------------------
\* runRediscovery.

\* Mutant: the loop does not look at the context.
LoopDone_Missing ==
    /\ FALSE
    /\ loop' = "done"
    /\ UNCHANGED <<vars, main, republish, chanVars, slice, watchVars, errorVars>>

\* The select of the loop: the context is done, the ticker fires, or a token
\* is taken. Go picks any branch that is ready.
LoopDone ==
    /\ loop = "select" /\ main = "draining"
    /\ loop' = "done"
    /\ UNCHANGED <<vars, main, republish, chanVars, slice, watchVars, errorVars>>

\* Mutant: no ticker.
LoopTick_Missing ==
    /\ FALSE
    /\ loop' = "reconcile"
    /\ UNCHANGED <<vars, main, republish, chanVars, slice, watchVars, errorVars>>

LoopTick ==
    /\ loop = "select"
    /\ loop' = "reconcile"
    /\ UNCHANGED <<vars, main, republish, chanVars, slice, watchVars, errorVars>>

LoopKicked ==
    /\ loop = "select" /\ reconcileNow
    /\ reconcileNow' = FALSE
    /\ loop' = "reconcile"
    /\ UNCHANGED <<vars, main, republish, healthChanged, kicking, slice, watchVars, errorVars>>

\* The steps of Reconcile before the last.
LoopReconciles ==
    /\ loop = "reconcile"
    /\ Enumerate \/ ReadCheckpoint \/ ReadClaimDevices \/ PruneClaimDevices
    /\ UNCHANGED driverVars

\* Reconcile returns an error, which is logged.
LoopReconcileFails ==
    /\ Faulty
    /\ loop = "reconcile"
    /\ ReconcileFails
    /\ loop' = "select"
    /\ reconcileError' = TRUE
    /\ UNCHANGED <<main, republish, chanVars, slice, watchVars, publishError>>

\* Where reconcileAndPublish goes on to.
AfterReconcile(healthDiffers, resourcesDiffer) ==
    IF healthDiffers THEN "notify" ELSE IF resourcesDiffer THEN "publish" ELSE "select"

\* The last step of Reconcile, with the result it returns.
LoopReconciled ==
    /\ loop = "reconcile"
    /\ ApplyDiscovery
    /\ republish' = (driverResources' # driverResources)
    /\ loop' = AfterReconcile(~healthEqual(tracked, tracked'), republish')
    /\ reconcileError' = FALSE
    /\ woken' = IF healthEqual(tracked, tracked') THEN woken ELSE {}
    /\ UNCHANGED <<main, chanVars, slice, watch, delivered, publishError>>

\* Mutant: the channel has no buffer, so only a watcher that waits is woken.
notifyHealth_Unbuffered ==
    /\ loop = "notify"
    /\ healthChanged' = (healthChanged \/ \E w \in Watchers : watch[w].pc = "wait")
    /\ loop' = AfterReconcile(FALSE, republish)
    /\ UNCHANGED <<vars, main, republish, reconcileNow, kicking, slice, watchVars, errorVars>>

\* Mutant: a change of health is notified instead of published.
notifyHealth_Returns ==
    /\ loop = "notify"
    /\ healthChanged' = TRUE
    /\ loop' = "select"
    /\ UNCHANGED <<vars, main, republish, reconcileNow, kicking, slice, watchVars, errorVars>>

notifyHealth ==
    /\ loop = "notify"
    /\ healthChanged' = TRUE
    /\ loop' = AfterReconcile(FALSE, republish)
    /\ UNCHANGED <<vars, main, republish, reconcileNow, kicking, slice, watchVars, errorVars>>

PublishResources ==
    /\ loop = "publish"
    /\ slice' = driverResources
    /\ publishError' = FALSE
    /\ loop' = "select"
    /\ UNCHANGED <<vars, main, republish, chanVars, watchVars, reconcileError>>

\* An error of PublishResources is logged.
PublishFails ==
    /\ Faulty
    /\ loop = "publish"
    /\ publishError' = TRUE
    /\ loop' = "select"
    /\ UNCHANGED <<vars, main, republish, chanVars, slice, watchVars, reconcileError>>

-----------------------------------------------------------------------------
\* WatchHealthStatus.

WatchOpen(w) ==
    /\ Serving
    /\ watch[w] = ClosedStream
    /\ watch' = [watch EXCEPT ![w] = [pc |-> "read"]]
    /\ UNCHANGED <<vars, main, loopVars, chanVars, slice, delivered, woken, errorVars>>

\* healthReport, under the mutex.
WatchRead(w) ==
    /\ watch[w].pc = "read"
    /\ Unlocked
    /\ watch' = [watch EXCEPT ![w] = [pc |-> "send", report |-> healthReport(tracked)]]
    /\ UNCHANGED <<vars, main, loopVars, chanVars, slice, delivered, woken, errorVars>>

WatchSend(w) ==
    /\ watch[w].pc = "send"
    /\ delivered' = [delivered EXCEPT ![w] = watch[w].report]
    /\ watch' = [watch EXCEPT ![w] = [pc |-> "wait"]]
    /\ UNCHANGED <<vars, main, loopVars, chanVars, slice, woken, errorVars>>

WatchWoken(w) ==
    /\ watch[w].pc = "wait"
    /\ healthChanged
    /\ healthChanged' = FALSE
    /\ woken' = {w}
    /\ watch' = [watch EXCEPT ![w] = [pc |-> "read"]]
    /\ UNCHANGED <<vars, main, loopVars, reconcileNow, kicking, slice, delivered, errorVars>>

\* Mutant: the health is sent only when the channel says that it has changed.
WatchResend_Missing(w) ==
    /\ FALSE
    /\ watch' = [watch EXCEPT ![w] = [pc |-> "read"]]
    /\ UNCHANGED <<vars, main, loopVars, chanVars, slice, delivered, woken, errorVars>>

\* The resend ticker.
WatchResend(w) ==
    /\ watch[w].pc = "wait"
    /\ watch' = [watch EXCEPT ![w] = [pc |-> "read"]]
    /\ UNCHANGED <<vars, main, loopVars, chanVars, slice, delivered, woken, errorVars>>

\* The stream's context is done.
WatchClose(w) ==
    /\ watch[w].pc \in {"send", "wait"}
    /\ watch' = [watch EXCEPT ![w] = ClosedStream]
    /\ delivered' = [delivered EXCEPT ![w] = NoEntries]
    /\ UNCHANGED <<vars, main, loopVars, chanVars, slice, woken, errorVars>>

-----------------------------------------------------------------------------

DriverEnvironment == Environment /\ UNCHANGED driverVars

LoopNext ==
    \/ LoopDone
    \/ LoopTick
    \/ LoopKicked
    \/ LoopReconciles
    \/ LoopReconcileFails
    \/ LoopReconciled
    \/ notifyHealth
    \/ PublishResources
    \/ PublishFails

WatchGoesOn(w) ==
    \/ WatchOpen(w)
    \/ WatchRead(w)
    \/ WatchSend(w)
    \/ WatchWoken(w)
    \/ WatchResend(w)

WatchNext(w) == WatchGoesOn(w) \/ WatchClose(w)

DriverNext ==
    \/ DriverEnvironment
    \/ NewDeviceState
    \/ StartHelper
    \/ PublishFirst
    \/ Cancel
    \/ Shutdown
    \/ Exit
    \/ Die
    \/ \E c \in Claims : CallBegin(c)
    \/ CallStep
    \/ kickReconcile
    \/ LoopNext
    \/ \E w \in Watchers : WatchNext(w)

DriverSpec == DriverInit /\ [][DriverNext]_allVars

\* The process is started again whenever it is down and gets through its
\* start; a call that has begun goes on; the loop and the watchers get the
\* mutex although calls compete for it (a Go mutex hands itself to a waiter
\* that has waited for long), tickers fire, and a select that finds the
\* context done again and again picks that branch at last (the choice among
\* ready branches is random). The kubelet watches and receives; no stream need
\* ever be closed and no call made, and nothing is assumed of the node.
Fairness ==
    /\ WF_allVars(NewDeviceState \/ StartHelper \/ PublishFirst \/ Shutdown \/ Exit)
    /\ WF_allVars(CallStep \/ kickReconcile)
    /\ SF_allVars(LoopNext)
    /\ SF_allVars(LoopDone)
    /\ \A w \in Watchers : SF_allVars(WatchGoesOn(w))

FairDriverSpec == DriverSpec /\ Fairness

-----------------------------------------------------------------------------
\* Properties.

DriverTypeOK ==
    /\ TypeOK
    /\ main \in {"off", "serving", "running", "draining", "stopping"}
    /\ loop \in {"off", "select", "reconcile", "notify", "publish", "done"}
    /\ {republish, reconcileNow, healthChanged, kicking} \subseteq BOOLEAN
    /\ slice = NoResources \/ IsMap(slice, Names, ResourceDevice)
    /\ watch \in [Watchers -> Stream]
    /\ delivered \in [Watchers -> Report]
    /\ woken \subseteq Watchers
    /\ {reconcileError, publishError} \subseteq BOOLEAN

\* A name that some claim of the checkpoint holds.
Claimed(n) == \E c \in durable : n \in Alloc[c]

\* "Drop a retained device as soon as its last claim is gone, instead of
\* waiting for the next poll": while a device is retained although every claim
\* on it has been unprepared, a reconcile that will drop it is under way or has
\* been asked for, unless the last one failed. A kick is not lost when the
\* channel is full or the loop is busy.
KickIsPending ==
    \A n \in DOMAIN tracked :
        /\ main \in {"running", "draining"} /\ loop # "done"
        /\ tracked[n].taintValue = "not-discovered"
        /\ \A c \in DOMAIN Alloc : n \in Alloc[c] => outcome[c] = "unprepared"
        => kicking \/ reconcileNow \/ loop = "reconcile" \/ reconcileError

\* The health is sent "again whenever rediscovery changes it": a watcher that
\* waits and has not sent the current health has a token to wake it, the loop is
\* about to put one, or another stream has taken it since the health changed. No
\* change between reading the health and waiting is missed, with any number of
\* streams on the one channel; with a single stream no wake-up is ever lost.
HealthWakeup ==
    \A w \in Watchers :
        watch[w].pc = "wait" /\ delivered[w] # healthReport(tracked)
            => healthChanged \/ loop = "notify" \/ \E v \in woken : v # w

\* When the loop is idle, what was published last is what the last reconcile
\* computed, unless publishing it failed: a reconcile that reports no change
\* leaves nothing unpublished, across starts and failed reconciles too.
SliceIsCurrent ==
    loop = "select" /\ ~publishError => slice = driverResources

\* A file operation or a publication fails, or the process dies without having
\* been asked to stop.
Fault == RpcFails \/ ReconcileFails \/ PublishFails \/ (Die /\ ~Exit)

\* runRediscovery: a published device that is neither bound nor claimed leaves
\* the ResourceSlice at last, unless it is bound or claimed again, also when
\* the process stops and restarts meanwhile. The plugin gets there after any
\* faults that come to an end (a checkpoint that does not parse is one that
\* does not), unless the last publication has failed: nothing repeats it.
ReleasedDeviceIsDropped ==
    /\ <>[][~Fault]_allVars
    /\ <>[]~publishError
    => \A n \in Names :
         LET gone == n \notin DOMAIN sysfs /\ ~Claimed(n)
             shown == slice # NoResources /\ n \in DOMAIN slice
         IN  shown /\ gone ~> ~shown \/ ~gone

\* What the kubelet should see of a device that is bound and whose node exists.
Usable(n) == n \in DOMAIN sysfs /\ deviceNodeExists(sysfs[n])

\* Once the node stays as it is, the plugin runs and the kubelet's streams stay
\* open, the kubelet is told for good that exactly the usable devices are
\* healthy: runRediscovery and WatchHealthStatus carry every change to it.
HealthConverges ==
    /\ <>[](main = "running" /\ \A w \in Watchers : watch[w] # ClosedStream)
    /\ <>[][UNCHANGED <<sysfs, nodes>>]_allVars
    => <>[](\A w \in Watchers : \A n \in Names :
                Usable(n) <=> /\ n \in DOMAIN delivered[w]
                              /\ delivered[w][n][1] = "Healthy")

\* A cancelled context ends the process: the loop sees it although ticks and
\* kicks compete with it, and Shutdown does not wait forever, whatever fails.
ShutdownCompletes == main = "draining" ~> main = "off"

=============================================================================
