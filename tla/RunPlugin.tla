----------------------------- MODULE RunPlugin ------------------------------
(***************************************************************************)
(* The life of a plugin process (RunPlugin in cmd/kubeletplugin/main.go):  *)
(* directories, signals, the metrics server of pkg/metrics, NewDriver, and *)
(* the way back out through Shutdown and the deferred calls, while the     *)
(* kubelet calls, scrapers read metrics, signals arrive, and any of the    *)
(* steps of the start fails. What the driver does in between is the        *)
(* subject of Driver; here a claim of a call is handled in one step, with  *)
(* success or an error.                                                    *)
(*                                                                         *)
(* External: the kubelet helper, which runs one call at a time and whose   *)
(* Stop lets it finish, and net/http, whose Shutdown closes the listener   *)
(* that Serve has registered and waits for the requests in progress.       *)
(***************************************************************************)
EXTENDS Naturals, FiniteSets

CONSTANTS
    Claims,
    Scrapers,
    MaxHandled,     \* bound of the claims that one process handles
    MaxSignals,     \* bound of the signals that one process gets
    MaxFatal        \* bound of the fatal errors that one process is told of

ASSUME ClaimsAssumption == IsFiniteSet(Claims)

VARIABLES
    cdiRoot,        \* what is at the CDI path, which outlives the process
    metricsPort,    \* whether the port is not negative
    pc,             \* RunPlugin
    failed,         \* RunPlugin is returning an error
    caught,         \* signals go to NotifyContext and not to the default handler
    ctxDone,        \* the context that RunPlugin waits on
    loop,           \* runRediscovery
    helper,         \* the kubelet helper
    serve,          \* the goroutine of the metrics server
    listening,      \* its listener is open
    inShutdown,     \* Shutdown of net/http has been called
    stopError,      \* Stop of the metrics server has returned an error
    scraping,       \* the scrapes in progress
    call,           \* the call of the kubelet in progress
    counters,       \* pkg/metrics/driver.go
    answers,        \* history: what the kubelet was told, by operation and result
    cleared,        \* history: what resets have taken from the counters
    signals,        \* history: the signals the process has got
    exit            \* history: how the last process ended

server  == <<serve, listening, inShutdown, stopError, scraping>>
calls   == <<call, counters, answers, cleared>>
context == <<caught, ctxDone, signals>>
plugin  == <<cdiRoot, metricsPort, pc, failed, context, loop, helper, server, calls, exit>>

Operations == {"prepare", "unprepare"}
Results    == {"success", "error"}
NoCall     == [op |-> "none"]
Call       == [op: Operations, claims: SUBSET Claims,
               results: UNION {[D -> Results] : D \in SUBSET Claims}]
Tally      == [Operations -> [Results -> Nat]]
Zero       == [o \in Operations |-> [r \in Results |-> 0]]

Init ==
    /\ cdiRoot \in {"absent", "directory", "file"}
    /\ metricsPort \in BOOLEAN
    /\ pc = "off"
    /\ exit = "none"
    /\ failed = FALSE
    /\ caught = FALSE
    /\ ctxDone = FALSE
    /\ loop = "off"
    /\ helper = "off"
    /\ serve = "none"
    /\ listening = FALSE
    /\ inShutdown = FALSE
    /\ stopError = FALSE
    /\ scraping = {}
    /\ call = NoCall
    /\ counters = [claims |-> Zero, fatal |-> 0]
    /\ answers = Zero
    /\ cleared = Zero
    /\ signals = 0

\* The process is gone, with everything but the CDI directory.
Gone(how) ==
    /\ pc' = "off"
    /\ exit' = how
    /\ failed' = FALSE
    /\ caught' = FALSE
    /\ ctxDone' = FALSE
    /\ loop' = "off"
    /\ helper' = "off"
    /\ serve' = "none"
    /\ listening' = FALSE
    /\ inShutdown' = FALSE
    /\ stopError' = FALSE
    /\ scraping' = {}
    /\ call' = NoCall
    /\ counters' = [claims |-> Zero, fatal |-> 0]
    /\ answers' = Zero
    /\ cleared' = Zero
    /\ signals' = 0
    /\ UNCHANGED <<cdiRoot, metricsPort>>

-----------------------------------------------------------------------------
\* The start.

Begin ==
    /\ pc = "off"
    /\ pc' = "directories"
    /\ exit' = "none"
    /\ UNCHANGED <<cdiRoot, metricsPort, failed, context, loop, helper, server, calls>>

\* The plugin directory and the CDI root, which must not be a file.
MakeDirectories ==
    /\ pc = "directories"
    /\ cdiRoot # "file"
    /\ cdiRoot' = "directory"
    /\ pc' = "notify"
    /\ UNCHANGED <<metricsPort, failed, context, loop, helper, server, calls, exit>>

\* MkdirAll or Stat fails, or the CDI root is a file: nothing is deferred yet.
DirectoriesFail ==
    /\ pc = "directories"
    /\ Gone("error")

NotifyContext ==
    /\ pc = "notify"
    /\ caught' = TRUE
    /\ pc' = "metrics"
    /\ UNCHANGED <<cdiRoot, metricsPort, failed, ctxDone, signals, loop, helper, server, calls, exit>>

\* StartServer: a negative port starts none. Otherwise the port is open before
\* the goroutine that serves it runs.
StartServer ==
    /\ pc = "metrics"
    /\ pc' = "deviceState"
    /\ serve' = IF metricsPort THEN "starting" ELSE "none"
    /\ listening' = metricsPort
    /\ UNCHANGED <<cdiRoot, metricsPort, failed, context, loop, helper, inShutdown, stopError,
                   scraping, calls, exit>>

\* Listen fails: the Stop of the server is not deferred yet.
StartServerFails ==
    /\ pc = "metrics" /\ metricsPort
    /\ failed' = TRUE
    /\ pc' = "return"
    /\ UNCHANGED <<cdiRoot, metricsPort, context, loop, helper, server, calls, exit>>

\* NewDriver: the device state, the helper, the first publication with the
\* start of the loop. An error of any of them unwinds the deferred Stop; the
\* helper keeps running if it was started.
NewDeviceState ==
    /\ pc = "deviceState"
    /\ pc' = "startHelper"
    /\ UNCHANGED <<cdiRoot, metricsPort, failed, context, loop, helper, server, calls, exit>>

StartHelper ==
    /\ pc = "startHelper"
    /\ helper' = "on"
    /\ pc' = "publish"
    /\ UNCHANGED <<cdiRoot, metricsPort, failed, context, loop, server, calls, exit>>

\* Mutant: the signals are given back before the wait.
PublishFirst_StopsEarly ==
    /\ pc = "publish"
    /\ loop' = "on"
    /\ caught' = FALSE
    /\ pc' = "wait"
    /\ UNCHANGED <<cdiRoot, metricsPort, failed, ctxDone, signals, helper, server, calls, exit>>

PublishFirst ==
    /\ pc = "publish"
    /\ loop' = "on"
    /\ pc' = "wait"
    /\ UNCHANGED <<cdiRoot, metricsPort, failed, context, helper, server, calls, exit>>

NewDriverFails ==
    /\ pc \in {"deviceState", "startHelper", "publish"}
    /\ failed' = TRUE
    /\ pc' = "stopServer"
    /\ UNCHANGED <<cdiRoot, metricsPort, context, loop, helper, server, calls, exit>>

-----------------------------------------------------------------------------
\* The end.

\* A signal cancels the context while NotifyContext is in effect, and kills
\* the process otherwise.
Signal ==
    /\ pc # "off"
    /\ signals < MaxSignals
    /\ \/ /\ caught
          /\ ctxDone' = TRUE
          /\ signals' = signals + 1
          /\ UNCHANGED <<cdiRoot, metricsPort, pc, failed, caught, loop, helper, server, calls, exit>>
       \/ ~caught /\ Gone("killed")

\* The helper reports an error that is not recoverable.
HandleError ==
    /\ helper = "on"
    /\ counters.fatal < MaxFatal
    /\ counters' = [counters EXCEPT !.fatal = @ + 1]
    /\ ctxDone' = TRUE
    /\ UNCHANGED <<cdiRoot, metricsPort, pc, failed, caught, signals, loop, helper, server,
                   call, answers, cleared, exit>>

\* Mutant: the metrics server is shut down with the context and not after the
\* driver.
ContextDone_MetricsFirst ==
    /\ pc = "wait" /\ ctxDone
    /\ caught' = FALSE
    /\ pc' = "shutdown"
    /\ inShutdown' = (serve # "none")
    /\ listening' = FALSE
    /\ UNCHANGED <<cdiRoot, metricsPort, failed, ctxDone, signals, loop, helper, serve, stopError,
                   scraping, calls, exit>>

\* The context is done: from stop() on, a signal kills.
ContextDone ==
    /\ pc = "wait" /\ ctxDone
    /\ caught' = FALSE
    /\ pc' = "shutdown"
    /\ UNCHANGED <<cdiRoot, metricsPort, failed, ctxDone, signals, loop, helper, server, calls, exit>>

\* runRediscovery returns and closes rediscoveryDone.
LoopEnds ==
    /\ loop = "on" /\ ctxDone
    /\ loop' = "done"
    /\ UNCHANGED <<cdiRoot, metricsPort, pc, failed, context, helper, server, calls, exit>>

\* Mutant: Shutdown does not wait for the loop.
Shutdown_NoWait ==
    /\ pc = "shutdown"
    /\ helper' = "stopping"
    /\ pc' = "stopHelper"
    /\ UNCHANGED <<cdiRoot, metricsPort, failed, context, loop, server, calls, exit>>

\* Shutdown waits for the loop and then stops the helper, which takes no more
\* calls ...
Shutdown ==
    /\ pc = "shutdown" /\ loop = "done"
    /\ helper' = "stopping"
    /\ pc' = "stopHelper"
    /\ UNCHANGED <<cdiRoot, metricsPort, failed, context, loop, server, calls, exit>>

\* ... and lets the one in progress finish.
HelperStopped ==
    /\ pc = "stopHelper" /\ call = NoCall
    /\ helper' = "off"
    /\ pc' = "stopServer"
    /\ UNCHANGED <<cdiRoot, metricsPort, failed, context, loop, server, calls, exit>>

\* The deferred Stop. A nil server has nothing to stop. Otherwise net/http
\* closes the listener that Serve has registered and looks once for scrapes.
StopServer ==
    /\ pc = "stopServer"
    /\ IF serve = "none"
       THEN pc' = "return" /\ UNCHANGED server
       ELSE /\ inShutdown' = TRUE
            /\ listening' = (listening /\ serve = "starting")
            /\ pc' = IF scraping = {} THEN "join" ELSE "drain"
            /\ UNCHANGED <<serve, stopError, scraping>>
    /\ UNCHANGED <<cdiRoot, metricsPort, failed, context, loop, helper, calls, exit>>

Drained ==
    /\ pc = "drain" /\ scraping = {}
    /\ pc' = "join"
    /\ UNCHANGED <<cdiRoot, metricsPort, failed, context, loop, helper, server, calls, exit>>

\* Mutant: the context of Stop has no deadline.
DrainTimeout_Never ==
    /\ FALSE
    /\ stopError' = TRUE
    /\ pc' = "return"
    /\ UNCHANGED <<cdiRoot, metricsPort, failed, context, loop, helper, serve, listening, inShutdown,
                   scraping, calls, exit>>

\* Five seconds are over: Stop returns the error without waiting for Serve.
DrainTimeout ==
    /\ pc = "drain"
    /\ stopError' = TRUE
    /\ pc' = "return"
    /\ UNCHANGED <<cdiRoot, metricsPort, failed, context, loop, helper, serve, listening, inShutdown,
                   scraping, calls, exit>>

\* Mutant: Stop does not wait for the goroutine.
Join_NoWait ==
    /\ pc = "join"
    /\ pc' = "return"
    /\ UNCHANGED <<cdiRoot, metricsPort, failed, context, loop, helper, server, calls, exit>>

\* wg.Wait.
Join ==
    /\ pc = "join" /\ serve = "done"
    /\ pc' = "return"
    /\ UNCHANGED <<cdiRoot, metricsPort, failed, context, loop, helper, server, calls, exit>>

\* The deferred stop(), and the exit status that main gives an error.
Return ==
    /\ pc = "return"
    /\ Gone(IF failed THEN "error" ELSE "ok")

-----------------------------------------------------------------------------
\* The metrics server and its clients.

\* Serve registers the listener; when Shutdown was faster it closes the
\* listener and returns.
Serve ==
    /\ serve = "starting"
    /\ serve' = IF inShutdown THEN "done" ELSE "serving"
    /\ listening' = ~inShutdown
    /\ UNCHANGED <<cdiRoot, metricsPort, pc, failed, context, loop, helper, inShutdown, stopError,
                   scraping, calls, exit>>

\* Serve returns, when it is shut down or when accepting fails, which is
\* logged.
ServeReturns ==
    /\ serve = "serving"
    /\ serve' = "done"
    /\ listening' = FALSE
    /\ UNCHANGED <<cdiRoot, metricsPort, pc, failed, context, loop, helper, inShutdown, stopError,
                   scraping, calls, exit>>

Scrape(s) ==
    /\ serve = "serving" /\ listening
    /\ scraping' = scraping \cup {s}
    /\ UNCHANGED <<cdiRoot, metricsPort, pc, failed, context, loop, helper, serve, listening,
                   inShutdown, stopError, calls, exit>>

ScrapeEnds(s) ==
    /\ scraping' = scraping \ {s}
    /\ UNCHANGED <<cdiRoot, metricsPort, pc, failed, context, loop, helper, serve, listening,
                   inShutdown, stopError, calls, exit>>

\* HandlerWithReset: a DELETE clears the counters that have labels.
ResetMetrics ==
    /\ serve = "serving" /\ listening
    /\ cleared' = [o \in Operations |-> [r \in Results |-> cleared[o][r] + counters.claims[o][r]]]
    /\ counters' = [counters EXCEPT !.claims = Zero]
    /\ UNCHANGED <<cdiRoot, metricsPort, pc, failed, context, loop, helper, server, call, answers,
                   exit>>

-----------------------------------------------------------------------------
\* The kubelet's calls, which carry several claims.

Handled == answers["prepare"]["success"] + answers["prepare"]["error"]
           + answers["unprepare"]["success"] + answers["unprepare"]["error"]

CallBegin(op, claims) ==
    /\ helper = "on" /\ call = NoCall
    /\ Handled + Cardinality(claims) <= MaxHandled
    /\ call' = [op |-> op, claims |-> claims, results |-> [c \in {} |-> c]]
    /\ UNCHANGED <<cdiRoot, metricsPort, pc, failed, context, loop, helper, server, counters,
                   answers, cleared, exit>>

\* ObservePrepareClaim and ObserveUnprepareClaim.
Observe(op, result) == counters' = [counters EXCEPT !.claims[op][result] = @ + 1]

\* Mutant: the deferred function reads another err than the one that Unprepare
\* sets.
HandleClaim_Shadowed(c, result) ==
    /\ call' = [call EXCEPT !.results = [d \in DOMAIN @ \cup {c} |->
                                            IF d = c THEN result ELSE @[d]]]
    /\ Observe(call.op, IF call.op = "unprepare" THEN "success" ELSE result)
    /\ UNCHANGED <<cdiRoot, metricsPort, pc, failed, context, loop, helper, server, answers, cleared,
                   exit>>

\* One claim of the call, with or without an error; a defer observes it.
HandleClaim(c, result) ==
    /\ call' = [call EXCEPT !.results = [d \in DOMAIN @ \cup {c} |->
                                            IF d = c THEN result ELSE @[d]]]
    /\ Observe(call.op, result)
    /\ UNCHANGED <<cdiRoot, metricsPort, pc, failed, context, loop, helper, server, answers, cleared,
                   exit>>

\* The number of claims of the call that have a result.
Count(result) == Cardinality({c \in DOMAIN call.results : call.results[c] = result})

CallReturns ==
    /\ call # NoCall
    /\ DOMAIN call.results = call.claims
    /\ answers' = [answers EXCEPT ![call.op] = [r \in Results |-> @[r] + Count(r)]]
    /\ call' = NoCall
    /\ UNCHANGED <<cdiRoot, metricsPort, pc, failed, context, loop, helper, server, counters, cleared,
                   exit>>

CallProgress ==
    \/ /\ call # NoCall
       /\ \E c \in call.claims \ DOMAIN call.results, r \in Results : HandleClaim(c, r)
    \/ CallReturns

RunPluginNext ==
    \/ Begin \/ MakeDirectories \/ DirectoriesFail \/ NotifyContext
    \/ StartServer \/ StartServerFails
    \/ NewDeviceState \/ StartHelper \/ PublishFirst \/ NewDriverFails
    \/ ContextDone \/ Shutdown \/ HelperStopped
    \/ StopServer \/ Drained \/ DrainTimeout \/ Join \/ Return

Next ==
    \/ RunPluginNext
    \/ Signal
    \/ HandleError
    \/ LoopEnds
    \/ Serve
    \/ ServeReturns
    \/ \E s \in Scrapers : Scrape(s) \/ ScrapeEnds(s)
    \/ ResetMetrics
    \/ \E op \in Operations, claims \in SUBSET Claims : claims # {} /\ CallBegin(op, claims)
    \/ CallProgress

\* Every goroutine of the process goes on, the loop sees the context, the timer
\* of Stop fires and the kubelet starts the process again. No scrape need ever
\* end, no call or signal need ever come.
Fairness ==
    /\ WF_plugin(RunPluginNext)
    /\ WF_plugin(LoopEnds)
    /\ WF_plugin(Serve)
    /\ WF_plugin(inShutdown /\ ServeReturns)
    /\ WF_plugin(CallProgress)

Spec == Init /\ [][Next]_plugin /\ Fairness

-----------------------------------------------------------------------------
\* Properties.

TypeOK ==
    /\ cdiRoot \in {"absent", "directory", "file"}
    /\ {metricsPort, failed, caught, ctxDone, listening, inShutdown, stopError} \subseteq BOOLEAN
    /\ pc \in {"off", "directories", "notify", "metrics", "deviceState", "startHelper", "publish",
               "wait", "shutdown", "stopHelper", "stopServer", "drain", "join", "return"}
    /\ loop \in {"off", "on", "done"}
    /\ helper \in {"off", "on", "stopping"}
    /\ serve \in {"none", "starting", "serving", "done"}
    /\ scraping \subseteq Scrapers
    /\ call = NoCall \/ call \in Call
    /\ counters \in [claims: Tally, fatal: Nat]
    /\ {answers, cleared} \subseteq Tally
    /\ signals \in Nat
    /\ exit \in {"none", "ok", "error", "killed"}

\* Stop "gracefully shuts down the metrics server": when it has returned
\* without an error, the goroutine has ended, the port is closed and no scrape
\* is cut, also when NewDriver fails before the goroutine has begun to serve.
StopLeavesNoServer ==
    pc = "return" /\ ~stopError => serve \in {"none", "done"} /\ ~listening /\ scraping = {}

\* RunPlugin returns without an error only when the loop and every call of the
\* kubelet have ended, so a stopped plugin is not in the middle of a file.
ReturnsDrained ==
    pc = "return" /\ ~failed => loop = "done" /\ helper = "off" /\ call = NoCall

\* The metrics server is stopped last: as long as a plugin that has started
\* handles calls, and so changes counters, they can be scraped.
MetricsOutliveCalls == inShutdown /\ ~failed => call = NoCall

\* The first signal does not kill a plugin that serves the kubelet: only one
\* that comes while it is already stopping does.
FirstSignalIsGraceful ==
    [][exit # "killed" /\ exit' = "killed" => ctxDone \/ helper = "off"]_plugin

\* The counters of each operation and result agree with what the kubelet has
\* been told and is about to be told, but for what a reset has cleared: every
\* claim of every call is counted once and under its own result, also when
\* others of the same call fail and when a reset comes in the middle of a call.
CountersMatchAnswers ==
    \A o \in Operations, r \in Results :
        counters.claims[o][r] + cleared[o][r]
            = answers[o][r] + (IF call.op = o THEN Count(r) ELSE 0)

\* A process that was told to stop, by a signal or by a fatal error, ends, even
\* when a scrape never does.
StopsWhenAsked == ctxDone ~> pc = "off"

=============================================================================
