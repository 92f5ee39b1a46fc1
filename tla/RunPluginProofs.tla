-------------------------- MODULE RunPluginProofs ---------------------------
(***************************************************************************)
(* Theorems about RunPlugin, for any claims, scrapers and number of        *)
(* signals.                                                                *)
(*                                                                         *)
(* The properties of the end rest on where RunPlugin is when the loop, the *)
(* helper, the signals and the metrics server are in each of their states. *)
(***************************************************************************)
EXTENDS RunPlugin, FiniteSetTheorems, TLAPS

-----------------------------------------------------------------------------
\* The inductive invariant.

Starting == {"off", "directories", "notify", "metrics", "deviceState", "startHelper"}
Ending   == {"stopServer", "drain", "join", "return"}

\* The helper and the loop run from NewDriver to Shutdown, and an error leads
\* to the deferred Stop.
DriverInv ==
    /\ pc \in Starting => helper = "off"
    /\ pc = "stopHelper" => loop = "done"
    /\ pc \in Ending /\ ~failed => helper = "off" /\ loop = "done"
    /\ failed => pc \in Ending
    /\ helper = "off" => call = NoCall

\* From NotifyContext on, a signal is caught unless the context is done.
SignalInv == pc \notin {"off", "directories", "notify"} => caught \/ ctxDone

\* The listener, the goroutine and the scrapes of the metrics server.
ServerInv ==
    /\ pc \in {"off", "directories", "notify", "metrics"} => serve = "none"
    /\ inShutdown => pc \in {"drain", "join", "return"}
    /\ pc \in {"drain", "join"} => inShutdown /\ serve # "none"
    /\ serve \in {"none", "done"} \/ (inShutdown /\ serve = "serving") => ~listening
    /\ serve \in {"none", "starting"} => scraping = {}
    /\ pc = "join" => scraping = {}
    /\ pc = "return" /\ ~stopError => serve \in {"none", "done"} /\ scraping = {}

-----------------------------------------------------------------------------
\* Type correctness.

\* The flags, the control states, and the calls with their counters.
FlagsType ==
    /\ metricsPort \in BOOLEAN /\ failed \in BOOLEAN /\ caught \in BOOLEAN
    /\ ctxDone \in BOOLEAN /\ listening \in BOOLEAN /\ inShutdown \in BOOLEAN
    /\ stopError \in BOOLEAN

ControlType ==
    /\ cdiRoot \in {"absent", "directory", "file"}
    /\ pc \in {"off", "directories", "notify", "metrics", "deviceState", "startHelper", "publish",
               "wait", "shutdown", "stopHelper", "stopServer", "drain", "join", "return"}
    /\ loop \in {"off", "on", "done"}
    /\ helper \in {"off", "on", "stopping"}
    /\ serve \in {"none", "starting", "serving", "done"}
    /\ scraping \subseteq Scrapers
    /\ signals \in Nat
    /\ exit \in {"none", "ok", "error", "killed"}

CallsType ==
    /\ call = NoCall \/ call \in Call
    /\ counters \in [claims: Tally, fatal: Nat]
    /\ answers \in Tally /\ cleared \in Tally

\* TypeOK in its three parts.
LEMMA TypeParts == TypeOK <=> FlagsType /\ ControlType /\ CallsType
BY Zenon DEF TypeOK, FlagsType, ControlType, CallsType

\* Counters start from zero.
LEMMA TallyZero == Zero \in Tally
BY DEF Zero, Tally

\* A new process is well typed.
LEMMA InitType == Init => TypeOK
  <1> SUFFICES ASSUME Init PROVE TypeOK
    OBVIOUS
  <1>1. FlagsType
    BY DEF Init, FlagsType
  <1>2. ControlType
    BY DEF Init, ControlType
  <1>3. CallsType
    BY TallyZero DEF Init, CallsType
  <1> QED
    BY <1>1, <1>2, <1>3, TypeParts

\* The steps of RunPlugin that leave the calls alone.
LEMMA RunPluginType ==
    ASSUME TypeOK, RunPluginNext, UNCHANGED calls
    PROVE  TypeOK'
  <1> USE DEF server, calls, context
  <1>0. FlagsType /\ ControlType /\ CallsType /\ CallsType'
    BY TypeParts DEF CallsType
  <1>1. FlagsType'
    <2>1. CASE Begin \/ MakeDirectories \/ NotifyContext \/ StartServer \/ StartServerFails
               \/ NewDeviceState \/ StartHelper \/ PublishFirst \/ NewDriverFails
      BY <1>0, <2>1 DEF Begin, MakeDirectories, NotifyContext, StartServer, StartServerFails,
         NewDeviceState, StartHelper, PublishFirst, NewDriverFails, FlagsType
    <2>2. CASE ContextDone \/ Shutdown \/ HelperStopped \/ Drained \/ DrainTimeout \/ Join
      BY <1>0, <2>2 DEF ContextDone, Shutdown, HelperStopped, Drained, DrainTimeout, Join, FlagsType
    <2>3. CASE StopServer
      BY <1>0, <2>3 DEF StopServer, FlagsType
    <2>4. CASE DirectoriesFail \/ Return
      BY <1>0, <2>4 DEF DirectoriesFail, Return, Gone, FlagsType
    <2> QED
      BY <2>1, <2>2, <2>3, <2>4 DEF RunPluginNext
  <1>2. ControlType'
    <2>1. CASE Begin \/ MakeDirectories \/ NotifyContext \/ StartServer \/ StartServerFails
               \/ NewDeviceState \/ StartHelper \/ PublishFirst \/ NewDriverFails
      BY <1>0, <2>1 DEF Begin, MakeDirectories, NotifyContext, StartServer, StartServerFails,
         NewDeviceState, StartHelper, PublishFirst, NewDriverFails, ControlType
    <2>2. CASE ContextDone \/ Shutdown \/ HelperStopped \/ Drained \/ DrainTimeout \/ Join
      BY <1>0, <2>2 DEF ContextDone, Shutdown, HelperStopped, Drained, DrainTimeout, Join, ControlType
    <2>3. CASE StopServer
      BY <1>0, <2>3 DEF StopServer, ControlType
    <2>4. CASE DirectoriesFail \/ Return
      BY <1>0, <2>4 DEF DirectoriesFail, Return, Gone, ControlType
    <2> QED
      BY <2>1, <2>2, <2>3, <2>4 DEF RunPluginNext
  <1> QED
    BY <1>0, <1>1, <1>2, Zenon DEF TypeOK, FlagsType, ControlType, CallsType

\* No step breaks a type.
LEMMA TypeStep == TypeOK /\ [Next]_plugin => TypeOK'
  <1> SUFFICES ASSUME TypeOK, [Next]_plugin PROVE TypeOK'
    OBVIOUS
  <1> USE DEF server, calls, context, plugin
  <1>1. CASE UNCHANGED plugin
    BY <1>1 DEF TypeOK
  <1>2. ASSUME NEW how \in {"ok", "error", "killed"}, Gone(how) PROVE TypeOK'
    BY <1>2, TallyZero DEF Gone, TypeOK
  <1>3. CASE RunPluginNext
    <2>1. CASE DirectoriesFail \/ Return
      BY <1>2, <2>1 DEF DirectoriesFail, Return
    <2>2. CASE UNCHANGED calls
      BY <1>3, <2>2, RunPluginType
    <2> QED
      BY <1>3, <2>1, <2>2 DEF RunPluginNext, Begin, MakeDirectories, NotifyContext, StartServer,
         StartServerFails, NewDeviceState, StartHelper, PublishFirst, NewDriverFails,
         ContextDone, Shutdown, HelperStopped, StopServer, Drained, DrainTimeout, Join
  <1>4. CASE LoopEnds
    BY <1>4 DEF LoopEnds, TypeOK
  <1>7. CASE Signal
    <2>1. CASE caught
      BY <1>7, <2>1 DEF Signal, Gone, TypeOK
    <2>2. CASE ~caught
      BY <1>2, <1>7, <2>2 DEF Signal
    <2> QED
      BY <2>1, <2>2
  <1>8. CASE HandleError
    <2>1. counters' \in [claims: Tally, fatal: Nat]
      BY <1>8 DEF HandleError, TypeOK
    <2> QED
      BY <1>8, <2>1 DEF HandleError, TypeOK
  <1>9. CASE Serve \/ ServeReturns
    BY <1>9 DEF Serve, ServeReturns, TypeOK
  <1>10. ASSUME NEW s \in Scrapers, Scrape(s) \/ ScrapeEnds(s) PROVE TypeOK'
    BY <1>10 DEF Scrape, ScrapeEnds, TypeOK
  <1>11. CASE ResetMetrics
    <2>1. cleared' \in Tally
      BY <1>11 DEF ResetMetrics, TypeOK, Tally
    <2>2. counters' \in [claims: Tally, fatal: Nat]
      BY <1>11, TallyZero DEF ResetMetrics, TypeOK
    <2> QED
      BY <1>11, <2>1, <2>2 DEF ResetMetrics, TypeOK
  <1>12. ASSUME NEW op \in Operations, NEW claims \in SUBSET Claims, CallBegin(op, claims)
         PROVE  TypeOK'
    <2>1. call' \in Call
      BY <1>12 DEF CallBegin, Call
    <2> QED
      BY <1>12, <2>1 DEF CallBegin, TypeOK
  <1>13. ASSUME call # NoCall, NEW c \in call.claims, NEW r \in Results, HandleClaim(c, r)
         PROVE  TypeOK'
    <2>0. call \in Call
      BY <1>13 DEF TypeOK
    <2>1. PICK D \in SUBSET Claims : call.results \in [D -> Results]
      BY <2>0 DEF Call
    <2>2. [d \in DOMAIN call.results \cup {c} |-> IF d = c THEN r ELSE call.results[d]]
             \in [D \cup {c} -> Results]
      BY <2>1
    <2>3. D \cup {c} \in SUBSET Claims
      BY <1>13, <2>0 DEF Call
    <2>4. call' \in Call
      BY <1>13, <2>0, <2>2, <2>3 DEF HandleClaim, Call
    <2>5. counters' \in [claims: Tally, fatal: Nat]
      <3>1. counters \in [claims: Tally, fatal: Nat] /\ call.op \in Operations
        BY <2>0 DEF TypeOK, Call
      <3>2. counters' = [counters EXCEPT !.claims[call.op][r] = @ + 1]
        BY <1>13 DEF HandleClaim, Observe
      <3>3. [counters.claims EXCEPT ![call.op][r] = @ + 1] \in Tally
        BY <3>1 DEF Tally
      <3> QED
        BY <3>1, <3>2, <3>3
    <2> QED
      BY <1>13, <2>4, <2>5 DEF HandleClaim, TypeOK
  <1>14. CASE CallReturns
    <2>0. call \in Call
      BY <1>14 DEF CallReturns, TypeOK
    <2>1. \A r \in Results : Count(r) \in Nat
      <3> SUFFICES ASSUME NEW r \in Results PROVE Count(r) \in Nat
        OBVIOUS
      <3>1. {c \in DOMAIN call.results : call.results[c] = r} \subseteq Claims
        BY <2>0 DEF Call
      <3> QED
        BY <3>1, ClaimsAssumption, FS_Subset, FS_CardinalityType DEF Count
    <2>2. answers' \in Tally
      BY <1>14, <2>0, <2>1 DEF CallReturns, TypeOK, Tally, Call
    <2> QED
      BY <1>14, <2>2 DEF CallReturns, TypeOK
  <1> QED
    BY <1>1, <1>3, <1>4, <1>7, <1>8, <1>9, <1>10, <1>11, <1>12, <1>13, <1>14
       DEF Next, CallProgress

\* Every variable of the process keeps its type.
THEOREM TypeCorrect == Spec => []TypeOK
  BY InitType, TypeStep, PTL DEF Spec

-----------------------------------------------------------------------------
\* The end of a process.

\* Nothing runs before the first start.
LEMMA EndInit == Init => DriverInv /\ SignalInv /\ ServerInv
BY DEF Init, DriverInv, SignalInv, ServerInv, Starting, Ending

\* The helper and the loop.
LEMMA DriverInvStep == TypeOK /\ DriverInv /\ [Next]_plugin => DriverInv'
  <1> SUFFICES ASSUME TypeOK, DriverInv, [Next]_plugin PROVE DriverInv'
    OBVIOUS
  <1> USE DEF server, calls, context, plugin, Starting, Ending
  <1>0. failed \in BOOLEAN
    BY TypeParts DEF FlagsType
  <1>1. CASE UNCHANGED <<pc, helper, loop, failed, call>>
    BY <1>1 DEF DriverInv
  <1>2. ASSUME NEW how, Gone(how) PROVE DriverInv'
    BY <1>2 DEF Gone, DriverInv
  <1>3. CASE Begin \/ MakeDirectories \/ NotifyContext \/ StartServer \/ StartServerFails
             \/ NewDeviceState
    BY <1>3 DEF Begin, MakeDirectories, NotifyContext, StartServer, StartServerFails,
       NewDeviceState, DriverInv
  <1>4. CASE StartHelper \/ PublishFirst \/ NewDriverFails
    BY <1>0, <1>4 DEF StartHelper, PublishFirst, NewDriverFails, DriverInv
  <1>5. CASE ContextDone \/ Shutdown
    BY <1>0, <1>5 DEF ContextDone, Shutdown, DriverInv
  <1>6. CASE HelperStopped \/ StopServer \/ Drained \/ DrainTimeout \/ Join
    BY <1>0, <1>6 DEF HelperStopped, StopServer, Drained, DrainTimeout, Join, DriverInv
  <1>7. CASE Signal
    BY <1>1, <1>2, <1>7 DEF Signal
  <1>8. CASE LoopEnds
    BY <1>8 DEF LoopEnds, DriverInv
  <1>9. ASSUME NEW op, NEW claims, CallBegin(op, claims) PROVE DriverInv'
    BY <1>9 DEF CallBegin, DriverInv
  <1>10. ASSUME call # NoCall, NEW c, NEW r, HandleClaim(c, r) PROVE DriverInv'
    BY <1>10 DEF HandleClaim, DriverInv
  <1>11. CASE CallReturns
    BY <1>11 DEF CallReturns, DriverInv
  <1>12. CASE HandleError \/ Serve \/ ServeReturns \/ ResetMetrics
    BY <1>1, <1>12 DEF HandleError, Serve, ServeReturns, ResetMetrics
  <1>13. ASSUME NEW s \in Scrapers, Scrape(s) \/ ScrapeEnds(s) PROVE DriverInv'
    BY <1>1, <1>13 DEF Scrape, ScrapeEnds
  <1> QED
    BY <1>1, <1>2, <1>3, <1>4, <1>5, <1>6, <1>7, <1>8, <1>9, <1>10, <1>11, <1>12, <1>13
       DEF Next, RunPluginNext, CallProgress, DirectoriesFail, Return

\* Signals are given back only when the context is done.
LEMMA SignalStep == TypeOK /\ SignalInv /\ [Next]_plugin => SignalInv'
  <1> SUFFICES ASSUME TypeOK, SignalInv, [Next]_plugin PROVE SignalInv'
    OBVIOUS
  <1> USE DEF server, calls, context, plugin
  <1>1. CASE /\ UNCHANGED <<caught, ctxDone>>
             /\ pc' \in {"off", "directories", "notify"} \/ pc \notin {"off", "directories", "notify"}
    BY <1>1 DEF SignalInv
  <1>2. ASSUME NEW how, Gone(how) PROVE SignalInv'
    BY <1>2 DEF Gone, SignalInv
  <1>3. CASE NotifyContext \/ ContextDone
    BY <1>3 DEF NotifyContext, ContextDone, SignalInv
  <1>4. CASE HandleError
    BY <1>4 DEF HandleError, SignalInv
  <1>5. CASE Signal
    <2>1. CASE ~caught
      BY <1>2, <1>5, <2>1 DEF Signal
    <2>2. CASE caught
      BY <1>5, <2>2 DEF Signal, SignalInv
    <2> QED
      BY <2>1, <2>2
  <1>6. CASE Begin \/ MakeDirectories \/ StartServer \/ StartServerFails \/ NewDeviceState
             \/ StartHelper \/ PublishFirst \/ NewDriverFails
    BY <1>1, <1>6 DEF Begin, MakeDirectories, StartServer, StartServerFails, NewDeviceState,
       StartHelper, PublishFirst, NewDriverFails
  <1>7. CASE Shutdown \/ HelperStopped \/ StopServer \/ Drained \/ DrainTimeout \/ Join
    BY <1>1, <1>7 DEF Shutdown, HelperStopped, StopServer, Drained, DrainTimeout, Join
  <1>8. CASE UNCHANGED <<pc, caught, ctxDone>>
    BY <1>8 DEF SignalInv
  <1>9. CASE LoopEnds \/ Serve \/ ServeReturns \/ ResetMetrics \/ CallReturns
    BY <1>8, <1>9 DEF LoopEnds, Serve, ServeReturns, ResetMetrics, CallReturns
  <1>10. ASSUME NEW s \in Scrapers, Scrape(s) \/ ScrapeEnds(s) PROVE SignalInv'
    BY <1>8, <1>10 DEF Scrape, ScrapeEnds
  <1>11. ASSUME NEW op, NEW claims, CallBegin(op, claims) PROVE SignalInv'
    BY <1>8, <1>11 DEF CallBegin
  <1>12. ASSUME NEW c, NEW r, HandleClaim(c, r) PROVE SignalInv'
    BY <1>8, <1>12 DEF HandleClaim
  <1> QED
    BY <1>2, <1>3, <1>4, <1>5, <1>6, <1>7, <1>8, <1>9, <1>10, <1>11, <1>12
       DEF Next, RunPluginNext, CallProgress, DirectoriesFail, Return

\* Stop against the goroutine and the scrapes.
LEMMA ServerStep == TypeOK /\ ServerInv /\ [Next]_plugin => ServerInv'
  <1> SUFFICES ASSUME TypeOK, ServerInv, [Next]_plugin PROVE ServerInv'
    OBVIOUS
  <1> USE DEF server, calls, context, plugin
  <1>0. /\ listening \in BOOLEAN /\ inShutdown \in BOOLEAN /\ stopError \in BOOLEAN
        /\ serve \in {"none", "starting", "serving", "done"}
    BY TypeParts DEF FlagsType, ControlType
  <1>1. CASE UNCHANGED <<pc, server>>
    BY <1>1 DEF ServerInv
  <1>2. ASSUME NEW how, Gone(how) PROVE ServerInv'
    BY <1>2 DEF Gone, ServerInv
  <1>3. CASE Begin \/ MakeDirectories \/ NotifyContext \/ StartServerFails \/ NewDeviceState
             \/ StartHelper \/ PublishFirst \/ NewDriverFails
    BY <1>0, <1>3 DEF Begin, MakeDirectories, NotifyContext, StartServerFails, NewDeviceState,
       StartHelper, PublishFirst, NewDriverFails, ServerInv
  <1>4. CASE StartServer
    BY <1>0, <1>4 DEF StartServer, ServerInv
  <1>5. CASE ContextDone \/ Shutdown \/ HelperStopped
    BY <1>0, <1>5 DEF ContextDone, Shutdown, HelperStopped, ServerInv
  <1>6. CASE StopServer
    BY <1>0, <1>6 DEF StopServer, ServerInv
  <1>7. CASE Drained \/ DrainTimeout \/ Join
    BY <1>0, <1>7 DEF Drained, DrainTimeout, Join, ServerInv
  <1>8. CASE Serve
    BY <1>0, <1>8 DEF Serve, ServerInv
  <1>9. CASE ServeReturns
    BY <1>0, <1>9 DEF ServeReturns, ServerInv
  <1>10. ASSUME NEW s \in Scrapers, Scrape(s) PROVE ServerInv'
    BY <1>0, <1>10 DEF Scrape, ServerInv
  <1>11. ASSUME NEW s \in Scrapers, ScrapeEnds(s) PROVE ServerInv'
    BY <1>0, <1>11 DEF ScrapeEnds, ServerInv
  <1>12. CASE Signal
    BY <1>1, <1>2, <1>12 DEF Signal
  <1>13. CASE LoopEnds \/ HandleError \/ ResetMetrics \/ CallReturns
    BY <1>1, <1>13 DEF LoopEnds, HandleError, ResetMetrics, CallReturns
  <1>14. ASSUME NEW op, NEW claims, CallBegin(op, claims) PROVE ServerInv'
    BY <1>1, <1>14 DEF CallBegin
  <1>15. ASSUME NEW c, NEW r, HandleClaim(c, r) PROVE ServerInv'
    BY <1>1, <1>15 DEF HandleClaim
  <1> QED
    BY <1>1, <1>2, <1>3, <1>4, <1>5, <1>6, <1>7, <1>8, <1>9, <1>10, <1>11, <1>12, <1>13, <1>14,
       <1>15 DEF Next, RunPluginNext, CallProgress, DirectoriesFail, Return

\* Stop of the metrics server leaves no goroutine, no open port and no scrape.
THEOREM ServerStopped == Spec => []StopLeavesNoServer
  <1>1. ServerInv => StopLeavesNoServer
    BY DEF ServerInv, StopLeavesNoServer
  <1> QED
    BY <1>1, TypeCorrect, EndInit, ServerStep, PTL DEF Spec

\* RunPlugin returns nil only after the loop and the calls have ended.
THEOREM DriverDrained == Spec => []ReturnsDrained
  <1>1. DriverInv => ReturnsDrained
    BY DEF DriverInv, ReturnsDrained, Ending
  <1> QED
    BY <1>1, TypeCorrect, EndInit, DriverInvStep, PTL DEF Spec

\* The deferred Stop of the metrics server comes after Shutdown.
THEOREM MetricsLast == Spec => []MetricsOutliveCalls
  <1>1. DriverInv /\ ServerInv => MetricsOutliveCalls
    BY DEF DriverInv, ServerInv, MetricsOutliveCalls, Ending
  <1> QED
    BY <1>1, TypeCorrect, EndInit, DriverInvStep, ServerStep, PTL DEF Spec

\* No signal kills a plugin that serves the kubelet and has not been told to
\* stop.
THEOREM SignalsCaught == Spec => FirstSignalIsGraceful
  <1>1. DriverInv /\ SignalInv /\ [Next]_plugin =>
           [exit # "killed" /\ exit' = "killed" => ctxDone \/ helper = "off"]_plugin
    <2> SUFFICES ASSUME DriverInv, SignalInv, [Next]_plugin, exit # "killed", exit' = "killed"
                 PROVE  ctxDone \/ helper = "off"
      OBVIOUS
    <2> USE DEF plugin
    <2>1. CASE Signal
      <3>1. ~caught
        BY <2>1 DEF Signal
      <3> QED
        BY <3>1 DEF SignalInv, DriverInv, Starting
    <2>2. CASE DirectoriesFail \/ Return
      BY <2>2 DEF DirectoriesFail, Return, Gone
    <2>3. CASE exit' = exit \/ exit' = "none"
      BY <2>3
    <2> QED
      BY <2>1, <2>2, <2>3 DEF Next, RunPluginNext, CallProgress, Begin, MakeDirectories,
         NotifyContext, StartServer, StartServerFails, NewDeviceState, StartHelper, PublishFirst,
         NewDriverFails, ContextDone, Shutdown, HelperStopped, StopServer, Drained, DrainTimeout,
         Join, HandleError, LoopEnds, Serve, ServeReturns, Scrape, ScrapeEnds, ResetMetrics,
         CallBegin, HandleClaim, CallReturns
  <1> QED
    BY <1>1, TypeCorrect, EndInit, DriverInvStep, SignalStep, PTL DEF Spec, FirstSignalIsGraceful

-----------------------------------------------------------------------------
\* The counters.

\* The claims of a call that have a result are finitely many.
LEMMA ResultsFinite ==
    ASSUME NEW k \in Call, NEW r
    PROVE  IsFiniteSet({c \in DOMAIN k.results : k.results[c] = r})
  <1>1. {c \in DOMAIN k.results : k.results[c] = r} \subseteq Claims
    BY DEF Call
  <1> QED
    BY <1>1, ClaimsAssumption, FS_Subset

\* Handling a claim adds one to the count of its result and to no other.
LEMMA CountStep ==
    ASSUME TypeOK, call # NoCall, NEW c \in call.claims \ DOMAIN call.results,
           NEW r \in Results, HandleClaim(c, r), NEW q \in Results
    PROVE  Count(q)' = IF q = r THEN Count(q) + 1 ELSE Count(q)
  <1> DEFINE With(k) == {d \in DOMAIN k.results : k.results[d] = q}
  <1>1. call \in Call
    BY DEF TypeOK
  <1>2. call'.results = [d \in DOMAIN call.results \cup {c} |->
                            IF d = c THEN r ELSE call.results[d]]
    BY <1>1 DEF HandleClaim, Call
  <1>3. IsFiniteSet(With(call)) /\ c \notin With(call)
    BY <1>1, ResultsFinite
  <1>4. CASE q = r
    <2>1. With(call') = With(call) \cup {c}
      BY <1>2, <1>4
    <2>2. Cardinality(With(call) \cup {c}) = Cardinality(With(call)) + 1
      BY <1>3, FS_AddElement
    <2> QED
      BY <1>4, <2>1, <2>2 DEF Count
  <1>5. CASE q # r
    <2>1. With(call') = With(call)
      BY <1>2, <1>5
    <2> QED
      BY <1>5, <2>1 DEF Count
  <1> QED
    BY <1>4, <1>5

\* No step counts a claim twice, not at all or under another result.
LEMMA CountersStep == TypeOK /\ CountersMatchAnswers /\ [Next]_plugin => CountersMatchAnswers'
  <1> SUFFICES ASSUME TypeOK, CountersMatchAnswers, [Next]_plugin,
                      NEW o \in Operations, NEW r \in Results
               PROVE  (counters.claims[o][r] + cleared[o][r]
                         = answers[o][r] + (IF call.op = o THEN Count(r) ELSE 0))'
    BY DEF CountersMatchAnswers
  <1> USE DEF server, calls, context, plugin
  <1>0. /\ counters \in [claims: Tally, fatal: Nat] /\ answers \in Tally /\ cleared \in Tally
        /\ call = NoCall \/ call \in Call
        /\ NoCall.op # o
    BY TypeParts DEF CallsType, NoCall, Operations
  <1>1. counters.claims[o][r] + cleared[o][r]
           = answers[o][r] + (IF call.op = o THEN Count(r) ELSE 0)
    BY DEF CountersMatchAnswers
  <1>2. CASE UNCHANGED <<call, answers, cleared, counters.claims>>
    BY <1>1, <1>2 DEF Count
  <1>3. CASE call' = NoCall /\ counters'.claims = Zero /\ answers' = Zero /\ cleared' = Zero
    BY <1>0, <1>3 DEF Zero
  <1>4. ASSUME NEW how, Gone(how) PROVE call' = NoCall /\ counters'.claims = Zero
                                        /\ answers' = Zero /\ cleared' = Zero
    BY <1>4 DEF Gone
  <1>5. CASE HandleError
    <2>1. counters'.claims = counters.claims
      BY <1>0, <1>5 DEF HandleError
    <2> QED
      BY <1>2, <1>5, <2>1 DEF HandleError
  <1>6. CASE ResetMetrics
    <2>1. counters'.claims[o][r] = 0
      BY <1>0, <1>6 DEF ResetMetrics, Zero
    <2>2. cleared'[o][r] = cleared[o][r] + counters.claims[o][r]
      BY <1>6 DEF ResetMetrics
    <2>3. UNCHANGED <<call, answers>>
      BY <1>6 DEF ResetMetrics
    <2>4. cleared[o][r] \in Nat /\ counters.claims[o][r] \in Nat
      BY <1>0 DEF Tally
    <2> QED
      BY <1>1, <2>1, <2>2, <2>3, <2>4 DEF Count
  <1>7. ASSUME NEW op, NEW claims, CallBegin(op, claims)
        PROVE  (counters.claims[o][r] + cleared[o][r]
                  = answers[o][r] + (IF call.op = o THEN Count(r) ELSE 0))'
    <2>1. call = NoCall /\ UNCHANGED <<counters, answers, cleared>>
      BY <1>7 DEF CallBegin
    <2>2. {c \in DOMAIN call'.results : call'.results[c] = r} = {}
      BY <1>7 DEF CallBegin
    <2>3. Count(r)' = 0
      BY <2>2, FS_EmptySet DEF Count
    <2> QED
      BY <1>0, <1>1, <2>1, <2>3
  <1>8. ASSUME call # NoCall, NEW c \in call.claims \ DOMAIN call.results, NEW q \in Results,
               HandleClaim(c, q)
        PROVE  (counters.claims[o][r] + cleared[o][r]
                  = answers[o][r] + (IF call.op = o THEN Count(r) ELSE 0))'
    <2>1. Count(r)' = IF r = q THEN Count(r) + 1 ELSE Count(r)
      BY <1>8, CountStep
    <2>2. call \in Call /\ call'.op = call.op /\ call.op \in Operations
          /\ UNCHANGED <<answers, cleared>>
      BY <1>0, <1>8 DEF HandleClaim, Call
    <2>3. counters'.claims[o][r] =
             IF call.op = o /\ r = q THEN counters.claims[o][r] + 1 ELSE counters.claims[o][r]
      BY <1>0, <1>8, <2>2 DEF HandleClaim, Observe, Tally
    <2>4. answers[o][r] \in Nat /\ cleared[o][r] \in Nat /\ counters.claims[o][r] \in Nat
      BY <1>0 DEF Tally
    <2>5. Count(r) \in Nat
      BY <2>2, ResultsFinite, FS_CardinalityType DEF Count
    <2> HIDE DEF Count
    <2>6. CASE call.op = o /\ r = q
      <3>1. /\ Count(r)' = Count(r) + 1 /\ call'.op = o
            /\ counters'.claims[o][r] = counters.claims[o][r] + 1
            /\ answers'[o][r] = answers[o][r] /\ cleared'[o][r] = cleared[o][r]
        BY <2>1, <2>2, <2>3, <2>6
      <3>2. counters.claims[o][r] + cleared[o][r] = answers[o][r] + Count(r)
        BY <1>1, <2>6
      <3>3. counters'.claims[o][r] + cleared'[o][r] = answers'[o][r] + Count(r)'
        BY <2>4, <2>5, <3>1, <3>2
      <3> QED
        BY <3>1, <3>3
    <2>7. CASE ~(call.op = o /\ r = q)
      BY <1>1, <2>1, <2>2, <2>3, <2>7
    <2> QED
      BY <2>6, <2>7
  <1>9. CASE CallReturns
    <2>1. call \in Call /\ call' = NoCall /\ UNCHANGED <<counters, cleared>>
      BY <1>0, <1>9 DEF CallReturns
    <2>2. Count(r) \in Nat
      BY <2>1, ResultsFinite, FS_CardinalityType DEF Count
    <2>3. answers'[o][r] = IF call.op = o THEN answers[o][r] + Count(r) ELSE answers[o][r]
      BY <1>0, <1>9, <2>1 DEF CallReturns, Tally, Call
    <2>4. answers[o][r] \in Nat
      BY <1>0 DEF Tally
    <2> HIDE DEF Count
    <2> QED
      BY <1>0, <1>1, <2>1, <2>2, <2>3, <2>4
  <1>10. CASE UNCHANGED calls
    BY <1>2, <1>10
  <1>11. CASE Begin \/ MakeDirectories \/ NotifyContext \/ StartServer \/ StartServerFails
              \/ NewDeviceState \/ StartHelper \/ PublishFirst \/ NewDriverFails
    BY <1>10, <1>11 DEF Begin, MakeDirectories, NotifyContext, StartServer, StartServerFails,
       NewDeviceState, StartHelper, PublishFirst, NewDriverFails
  <1>12. CASE ContextDone \/ Shutdown \/ HelperStopped \/ StopServer \/ Drained \/ DrainTimeout
              \/ Join \/ LoopEnds \/ Serve \/ ServeReturns
    BY <1>10, <1>12 DEF ContextDone, Shutdown, HelperStopped, StopServer, Drained, DrainTimeout,
       Join, LoopEnds, Serve, ServeReturns
  <1>13. CASE DirectoriesFail \/ Return \/ Signal
    BY <1>3, <1>4, <1>10, <1>13 DEF DirectoriesFail, Return, Signal
  <1>14. ASSUME NEW s \in Scrapers, Scrape(s) \/ ScrapeEnds(s) PROVE UNCHANGED calls
    BY <1>14 DEF Scrape, ScrapeEnds
  <1>15. CASE UNCHANGED plugin
    BY <1>10, <1>15
  <1> QED
    BY <1>5, <1>6, <1>7, <1>8, <1>9, <1>10, <1>11, <1>12, <1>13, <1>14, <1>15
       DEF Next, RunPluginNext, CallProgress

\* PrepareResourceClaims and UnprepareResourceClaims count every claim once and
\* under its own result.
THEOREM CountersExact == Spec => []CountersMatchAnswers
  <1>1. Init => CountersMatchAnswers
    BY DEF Init, CountersMatchAnswers, Zero, NoCall, Operations
  <1> QED
    BY <1>1, TypeCorrect, CountersStep, PTL DEF Spec

=============================================================================
