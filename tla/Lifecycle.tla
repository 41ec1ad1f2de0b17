------------------------------ MODULE Lifecycle ------------------------------
(***************************************************************************)
(* The life of the gateway process (libmain/main.go, with the readiness    *)
(* and instrumentation servers of pkg/util): Main starts the parts one     *)
(* after the other and stops them in the opposite order; the signal        *)
(* handler's Loop and the server's Serve run in goroutines of their own.   *)
(*                                                                         *)
(* dskit's server (external): New opens the listener, Run starts Loop and  *)
(* Serve and returns what the first of them to end puts into a channel of  *)
(* capacity one, Shutdown closes the listener and waits for the requests   *)
(* in flight, up to a time limit. A SIGTERM while Loop has not subscribed  *)
(* to it, or not any more, ends the process at once.                       *)
(***************************************************************************)
EXTENDS Integers, Sequences, SequencesExt, FiniteSets

CONSTANTS
    Delay,          \* shutdownDelay
    MaxInflight,    \* bound: requests in flight
    OptionalParts   \* the parts that may be configured: "health", "readiness"

ASSUME LifecycleAssumption ==
    Delay \in Nat /\ MaxInflight \in Nat /\ OptionalParts \subseteq {"health", "readiness"}

VARIABLES
    configured,     \* the optional parts that are configured
    main,           \* Main: "starting", "running", "shutting", "stopping", or ended
    step,           \* the next of Main's start-up steps
    defers,         \* its deferred calls, the latest last
    up,             \* the parts that are up: started, and not stopped by Main
    fallen,         \* the parts whose own Serve has ended
    listener,       \* the server's listener is open
    routes,         \* the routes are registered
    serve,          \* the Serve goroutine
    loop,           \* the signal handler's Loop
    ready,          \* serverSignalHandler.ready
    sigs,           \* a signal waits in Loop's channel
    slept,          \* how long Loop has slept
    errChan,        \* the channel Run waits for
    inflight        \* requests in flight

vars == <<configured, main, step, defers, up, fallen, listener, routes, serve, loop, ready,
          sigs, slept, errChan, inflight>>

\* Main's steps that may fail, in their order.
Steps == <<"backend", "tracing", "server", "auth", "api", "health",
           "instrumentation", "routes", "readiness">>

\* The steps that leave something to stop: the parts of Main's defers.
Deferred == {"tracing", "health", "instrumentation", "readiness"}

\* The parts that are HTTP servers, each with a goroutine that only logs its end.
SideServers == {"instrumentation", "readiness"}

Ended == {"exit 0", "exit 1", "killed"}

TypeOK ==
    /\ configured \subseteq OptionalParts
    /\ main \in {"starting", "running", "shutting", "stopping"} \cup Ended
    /\ step \in 1 .. Len(Steps) + 1
    /\ defers \in Seq(Deferred) /\ up = ToSet(defers)
    /\ fallen \subseteq SideServers
    /\ listener \in BOOLEAN /\ routes \in BOOLEAN
    /\ serve \in {"off", "serving", "failed", "closed"}
    /\ loop \in {"off", "ready", "subscribed", "sleeping", "done"}
    /\ ready \in BOOLEAN /\ sigs \in BOOLEAN
    /\ slept \in 0 .. Delay
    /\ errChan \in {"empty", "nil", "error"}
    /\ inflight \in 0 .. MaxInflight
    /\ main = "running" => routes /\ "instrumentation" \in up

Init ==
    /\ configured \in SUBSET OptionalParts
    /\ main = "starting" /\ step = 1
    /\ defers = <<>> /\ up = {} /\ fallen = {}
    /\ listener = FALSE /\ routes = FALSE
    /\ serve = "off" /\ loop = "off"
    /\ ready = FALSE /\ sigs = FALSE /\ slept = 0
    /\ errChan = "empty" /\ inflight = 0

-----------------------------------------------------------------------------
(* Main *)

\* A part is not brought up when it is not configured.
BringsUp(s) == s \in Deferred /\ (s \in {"health", "readiness"} => s \in configured)

StartStep ==
    /\ main = "starting" /\ step <= Len(Steps)
    /\ LET s == Steps[step]
       IN  /\ listener' = (listener \/ s = "server")
           /\ routes' = (routes \/ s = "routes")
           /\ defers' = IF BringsUp(s) THEN Append(defers, s) ELSE defers
           /\ up' = IF BringsUp(s) THEN up \cup {s} ELSE up
    /\ step' = step + 1
    /\ UNCHANGED <<configured, main, fallen, serve, loop, ready, sigs, slept, errChan, inflight>>

\* The process ends: nothing of it is left.
End(how) ==
    /\ main' = how
    /\ defers' = <<>> /\ up' = {} /\ fallen' = {}
    /\ listener' = FALSE /\ ready' = FALSE /\ inflight' = 0
    /\ UNCHANGED <<configured, step, routes, serve, loop, sigs, slept, errChan>>

\* Mutant: the error is logged and Main goes on.
FatalLogged ==
    /\ step' = step + 1
    /\ UNCHANGED <<configured, main, defers, up, fallen, listener, routes, serve, loop, ready,
                   sigs, slept, errChan, inflight>>

\* exitOnError: os.Exit(1), without the deferred calls.
Fatal == End("exit 1")

\* A start-up step fails.
StartFails ==
    /\ main = "starting" /\ step <= Len(Steps)
    /\ Fatal

\* server.Run starts its goroutines.
Run ==
    /\ main = "starting" /\ step = Len(Steps) + 1
    /\ main' = "running"
    /\ UNCHANGED <<configured, step, defers, up, fallen, listener, routes, serve, loop, ready,
                   sigs, slept, errChan, inflight>>

\* Mutant: Main forgets to shut the server down.
AfterRunStopping == "stopping"

\* What follows server.Run: server.Shutdown.
AfterRun == "shutting"

RunReturns ==
    /\ main = "running" /\ errChan = "nil"
    /\ main' = AfterRun
    /\ UNCHANGED <<configured, step, defers, up, fallen, listener, routes, serve, loop, ready,
                   sigs, slept, errChan, inflight>>

RunFails ==
    /\ main = "running" /\ errChan = "error"
    /\ Fatal

\* Shutdown closes the listener, and Serve returns.
ShutdownCloses ==
    /\ main = "shutting" /\ serve # "closed"
    /\ listener' = FALSE
    /\ serve' = "closed"
    /\ UNCHANGED <<configured, main, step, defers, up, fallen, routes, loop, ready, sigs, slept,
                   errChan, inflight>>

\* Shutdown returns: the requests are done, or the time is up.
ShutdownReturns ==
    /\ main = "shutting" /\ serve = "closed"
    /\ main' = "stopping"
    /\ UNCHANGED <<configured, step, defers, up, fallen, listener, routes, serve, loop, ready,
                   sigs, slept, errChan, inflight>>

\* A deferred call, the latest first; the health checker is given five seconds.
StopPart ==
    /\ main = "stopping" /\ defers # <<>>
    /\ up' = up \ {Last(defers)}
    /\ defers' = Front(defers)
    /\ UNCHANGED <<configured, main, step, fallen, listener, routes, serve, loop, ready, sigs,
                   slept, errChan, inflight>>

MainReturns ==
    /\ main = "stopping" /\ defers = <<>>
    /\ End("exit 0")

-----------------------------------------------------------------------------
(* The goroutines of server.Run *)

Alive == main \notin Ended

Running == Alive /\ main # "starting"

\* Mutant: Run is not told.
ReportNothing(what) == UNCHANGED errChan

\* Whoever ends first fills the channel.
Report(what) == errChan' = IF errChan = "empty" THEN what ELSE errChan

ServeStarts ==
    /\ Running /\ serve = "off"
    /\ serve' = "serving"
    /\ UNCHANGED <<configured, main, step, defers, up, fallen, listener, routes, loop, ready,
                   sigs, slept, errChan, inflight>>

\* Accepting connections fails.
ServeFails ==
    /\ Running /\ serve = "serving"
    /\ serve' = "failed"
    /\ listener' = FALSE
    /\ Report("error")
    /\ UNCHANGED <<configured, main, step, defers, up, fallen, routes, loop, ready, sigs, slept,
                   inflight>>

\* Accepting connections fails for the metrics or the readiness server: a line in
\* the log, and the gateway goes on without it.
SideServerEnds ==
    /\ Alive
    /\ \E s \in SideServers \cap up : fallen' = fallen \cup {s}
    /\ UNCHANGED <<configured, main, step, defers, up, listener, routes, serve, loop, ready,
                   sigs, slept, errChan, inflight>>

LoopStarts ==
    /\ Running /\ loop = "off"
    /\ loop' = "ready"
    /\ ready' = TRUE
    /\ UNCHANGED <<configured, main, step, defers, up, fallen, listener, routes, serve, sigs,
                   slept, errChan, inflight>>

\* signal.Notify
Subscribe ==
    /\ Running /\ loop = "ready"
    /\ loop' = "subscribed"
    /\ UNCHANGED <<configured, main, step, defers, up, fallen, listener, routes, serve, ready,
                   sigs, slept, errChan, inflight>>

\* Mutant: the gateway stays ready.
NotReadyForgotten == UNCHANGED ready

NotReady == ready' = FALSE

\* Loop receives the signal.
Signalled ==
    /\ Running /\ loop = "subscribed" /\ sigs
    /\ loop' = "sleeping"
    /\ sigs' = FALSE
    /\ NotReady
    /\ UNCHANGED <<configured, main, step, defers, up, fallen, listener, routes, serve, slept,
                   errChan, inflight>>

Sleep ==
    /\ Running /\ loop = "sleeping" /\ slept < Delay
    /\ slept' = slept + 1
    /\ UNCHANGED <<configured, main, step, defers, up, fallen, listener, routes, serve, loop,
                   ready, sigs, errChan, inflight>>

\* Mutant: Loop does not wait.
SleptNothing == TRUE

SleptEnough == slept = Delay

LoopReturns ==
    /\ Running /\ loop = "sleeping" /\ SleptEnough
    /\ loop' = "done"
    /\ sigs' = FALSE
    /\ Report("nil")
    /\ UNCHANGED <<configured, main, step, defers, up, fallen, listener, routes, serve, ready,
                   slept, inflight>>

-----------------------------------------------------------------------------
(* The world outside *)

\* SIGTERM: kept for Loop while it is subscribed, else the end of the process.
Signal ==
    /\ Alive
    /\ \/ /\ loop \in {"subscribed", "sleeping"}
          /\ sigs' = TRUE
          /\ UNCHANGED <<configured, main, step, defers, up, fallen, listener, routes, serve,
                         loop, ready, slept, errChan, inflight>>
       \/ /\ loop \notin {"subscribed", "sleeping"}
          /\ End("killed")

RequestStarts ==
    /\ Running /\ serve = "serving" /\ listener /\ inflight < MaxInflight
    /\ inflight' = inflight + 1
    /\ UNCHANGED <<configured, main, step, defers, up, fallen, listener, routes, serve, loop,
                   ready, sigs, slept, errChan>>

RequestEnds ==
    /\ Running /\ inflight > 0
    /\ inflight' = inflight - 1
    /\ UNCHANGED <<configured, main, step, defers, up, fallen, listener, routes, serve, loop,
                   ready, sigs, slept, errChan>>

MainSteps == StartStep \/ Run \/ RunReturns \/ RunFails \/ ShutdownCloses
             \/ ShutdownReturns \/ StopPart \/ MainReturns

LoopSteps == LoopStarts \/ Subscribe \/ Signalled \/ Sleep \/ LoopReturns

Next ==
    \/ MainSteps \/ StartFails
    \/ ServeStarts \/ ServeFails \/ SideServerEnds \/ LoopSteps
    \/ Signal \/ RequestStarts \/ RequestEnds

\* The goroutines run; Shutdown and the wait for the health checker have time
\* limits, so that Main goes on whatever its requests and checks do.
Fairness == WF_vars(MainSteps) /\ WF_vars(LoopSteps) /\ WF_vars(ServeStarts)

Spec == Init /\ [][Next]_vars /\ Fairness

-----------------------------------------------------------------------------
(* Properties *)

\* A gateway that reports ready accepts connections and has its routes, through
\* start-up and shutdown, unless accepting has failed.
ReadyMeansServing == ready => routes /\ (listener \/ serve = "failed")

\* The gateway stops accepting on purpose only after it has reported not-ready
\* for the whole shutdown delay.
DrainsFirst ==
    [][listener /\ serve # "closed" /\ serve' = "closed" => ~ready /\ slept = Delay]_vars

\* Metrics can be scraped: the instrumentation server is up and serves.
Scrapable == "instrumentation" \in up \ fallen

\* Main never takes the metrics of a gateway that serves: while requests are
\* accepted, through start-up, shutdown and a signal at any time, metrics can be
\* scraped, unless the instrumentation server has ended by itself.
MetricsWhileServing ==
    serve = "serving" /\ Alive /\ "instrumentation" \notin fallen => Scrapable

\* A SIGTERM that Loop has subscribed to ends the process.
SignalEnds == (loop = "subscribed" /\ sigs) ~> ~Alive
==============================================================================
