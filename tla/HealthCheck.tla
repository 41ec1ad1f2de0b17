----------------------------- MODULE HealthCheck -----------------------------
(***************************************************************************)
(* The health checker (gateway/healthcheck): a timer service runs an       *)
(* iteration at every tick of the shortest interval; the iteration checks, *)
(* concurrently, the endpoints whose own interval has elapsed and waits    *)
(* for all of the checks; the checks record success or failure.            *)
(*                                                                         *)
(* Time is counted in units, per endpoint and since its last check. An     *)
(* iteration that is due starts, and a check ends, before more time passes *)
(* than the code allows: time does not advance past an urgent step. The    *)
(* timer service (dskit, external) drops a tick that finds one waiting,    *)
(* and after a stop it may still take a waiting tick before it ends.       *)
(***************************************************************************)
EXTENDS Integers, FiniteSets, FiniteSetsExt

CONSTANTS
    Endpoints,      \* the endpoints the gateway configures, by name
    Config,         \* their enabled, url, interval, timeout and retries
    Hour,           \* findMinInterval's upper limit
    AgeCap,         \* bound: older checks are not told apart
    FailureCap      \* bound: more failures are not told apart

\* NewChecker: endpoints without a URL or a positive interval are left out.
Checked == {e \in Endpoints : Config[e].enabled /\ Config[e].url /\ Config[e].interval > 0}

\* findMinInterval
MinInterval == Min({Hour} \cup {Config[e].interval : e \in Checked})

MaxTimeout == Max({Config[e].timeout : e \in Checked})

ASSUME CheckerAssumption ==
    /\ Checked # {}
    /\ Hour \in Nat \ {0} /\ AgeCap \in Nat /\ FailureCap \in Nat
    /\ \A e \in Checked :
          /\ Config[e].interval \in Nat /\ Config[e].timeout \in 0 .. AgeCap
          /\ Config[e].retries \in Nat /\ Config[e].retries < FailureCap
          /\ Config[e].interval + MinInterval + MaxTimeout < AgeCap

VARIABLES
    mode,           \* of the timer service
    phase,          \* time to the ticker's next tick
    tick,           \* a tick waits in the ticker's channel
    age,            \* time since lastChecked; AgeCap for never
    checks,         \* the checks running, and for how long
    failureCounts,
    healthStatus,
    metric,         \* the Health gauge, "none" until set
    serves,         \* environment: the endpoint answers 2xx in time
    missed          \* ghost: checks failed in a row

vars == <<mode, phase, tick, age, checks, failureCounts, healthStatus, metric, serves, missed>>

\* checks[e] is how long the check of e has been running; here none runs.
Idle == DOMAIN checks = {}

TypeOK ==
    /\ mode \in {"running", "stopping", "terminated"}
    /\ phase \in 1 .. MinInterval
    /\ tick \in BOOLEAN
    /\ age \in [Checked -> 0 .. AgeCap]
    /\ DOMAIN checks \subseteq Checked
    /\ \A e \in DOMAIN checks : checks[e] \in 0 .. Config[e].timeout
    /\ failureCounts \in [Checked -> 0 .. FailureCap]
    /\ healthStatus \in [Checked -> BOOLEAN]
    /\ metric \in [Checked -> {"none", "0", "1"}]
    /\ serves \in [Checked -> BOOLEAN]
    /\ missed \in [Checked -> 0 .. FailureCap]

Init ==
    /\ mode = "running"
    /\ phase = MinInterval
    /\ tick = FALSE
    /\ age = [e \in Checked |-> AgeCap]
    /\ checks = [e \in {} |-> 0]
    /\ failureCounts = [e \in Checked |-> 0]
    /\ healthStatus = [e \in Checked |-> TRUE]
    /\ metric = [e \in Checked |-> "none"]
    /\ serves \in [Checked -> BOOLEAN]
    /\ missed = [e \in Checked |-> 0]

-----------------------------------------------------------------------------

AtMost(n, cap) == IF n > cap THEN cap ELSE n

Due(e) == age[e] >= Config[e].interval

\* Mutant: the iteration does not wait for its checks.
IterationOverAtOnce == TRUE

\* wg.Wait: the previous iteration's checks are all done.
IterationOver == Idle

\* iteration: every endpoint that is due is marked and its check started.
Iterate ==
    /\ mode # "terminated" /\ tick /\ IterationOver
    /\ tick' = FALSE
    /\ age' = [e \in Checked |-> IF Due(e) THEN 0 ELSE age[e]]
    /\ checks' = [e \in {d \in Checked : Due(d)} |-> 0]
    /\ UNCHANGED <<mode, phase, failureCounts, healthStatus, metric, serves, missed>>

\* Mutant: a check that gets no good answer forgets to leave the wait group.
CheckDoneOnSuccess(e) ==
    checks' = IF serves[e] THEN [d \in DOMAIN checks \ {e} |-> checks[d]] ELSE checks

CheckDone(e) == checks' = [d \in DOMAIN checks \ {e} |-> checks[d]]

\* Mutant: a success leaves the failures counted before it.
RecordSuccessNoReset(e) ==
    /\ healthStatus' = [healthStatus EXCEPT ![e] = TRUE]
    /\ metric' = [metric EXCEPT ![e] = "1"]
    /\ UNCHANGED failureCounts

\* Mutant: an unhealthy endpoint stays so.
RecordSuccessStatusKept(e) ==
    /\ failureCounts' = [failureCounts EXCEPT ![e] = 0]
    /\ metric' = [metric EXCEPT ![e] = "1"]
    /\ UNCHANGED healthStatus

RecordSuccess(e) ==
    /\ failureCounts' = [failureCounts EXCEPT ![e] = 0]
    /\ healthStatus' = [healthStatus EXCEPT ![e] = TRUE]
    /\ metric' = [metric EXCEPT ![e] = "1"]

RecordFailure(e) ==
    /\ failureCounts' = [failureCounts EXCEPT ![e] = AtMost(@ + 1, FailureCap)]
    /\ \/ /\ failureCounts'[e] > Config[e].retries /\ healthStatus[e]
          /\ healthStatus' = [healthStatus EXCEPT ![e] = FALSE]
          /\ metric' = [metric EXCEPT ![e] = "0"]
       \/ /\ ~(failureCounts'[e] > Config[e].retries /\ healthStatus[e])
          /\ UNCHANGED <<healthStatus, metric>>

\* checkEndpoint ends with a 2xx answer.
CheckSucceeds(e) ==
    /\ e \in DOMAIN checks /\ serves[e]
    /\ RecordSuccess(e)
    /\ missed' = [missed EXCEPT ![e] = 0]
    /\ CheckDone(e)
    /\ UNCHANGED <<mode, phase, tick, age, serves>>

\* checkEndpoint ends with an error, a timeout or another status.
CheckFails(e) ==
    /\ e \in DOMAIN checks /\ ~serves[e]
    /\ RecordFailure(e)
    /\ missed' = [missed EXCEPT ![e] = AtMost(@ + 1, FailureCap)]
    /\ CheckDone(e)
    /\ UNCHANGED <<mode, phase, tick, age, serves>>

\* checkEndpoint's request fails because the service is stopping: no record.
CheckCancelled(e) ==
    /\ e \in DOMAIN checks /\ mode = "stopping"
    /\ CheckDone(e)
    /\ UNCHANGED <<mode, phase, tick, age, failureCounts, healthStatus, metric, serves, missed>>

-----------------------------------------------------------------------------
(* The timer service, time and the endpoints *)

\* Mutant: time passes while a check has used up its timeout.
InTimeAlways == TRUE

\* context.WithTimeout: no check outlasts its endpoint's timeout.
InTime == \A e \in DOMAIN checks : checks[e] < Config[e].timeout

\* A unit of time passes; the ticker drops a tick that finds one waiting.
Tick ==
    /\ mode # "terminated"
    /\ ~(tick /\ Idle) /\ InTime
    /\ age' = [e \in Checked |-> AtMost(age[e] + 1, AgeCap)]
    /\ checks' = [e \in DOMAIN checks |-> checks[e] + 1]
    /\ \/ phase = 1 /\ phase' = MinInterval /\ tick' = TRUE
       \/ phase > 1 /\ phase' = phase - 1 /\ UNCHANGED tick
    /\ UNCHANGED <<mode, failureCounts, healthStatus, metric, serves, missed>>

Stop ==
    /\ mode = "running"
    /\ mode' = "stopping"
    /\ UNCHANGED <<phase, tick, age, checks, failureCounts, healthStatus, metric, serves, missed>>

Terminate ==
    /\ mode = "stopping" /\ Idle
    /\ mode' = "terminated"
    /\ UNCHANGED <<phase, tick, age, checks, failureCounts, healthStatus, metric, serves, missed>>

\* The endpoint goes down or comes back.
Flip(e) ==
    /\ serves' = [serves EXCEPT ![e] = ~@]
    /\ UNCHANGED <<mode, phase, tick, age, checks, failureCounts, healthStatus, metric, missed>>

CheckEnds(e) == CheckSucceeds(e) \/ CheckFails(e) \/ CheckCancelled(e)

Next ==
    \/ Iterate \/ Tick \/ Stop \/ Terminate
    \/ \E e \in Checked : CheckEnds(e) \/ Flip(e)

\* The clock and the goroutines go on; nothing makes the gateway stop. Between
\* a tick and the cancelled context, select chooses at random, so that it does
\* not pass over the context for ever.
Fairness ==
    /\ WF_vars(Tick) /\ WF_vars(Iterate)
    /\ \A e \in Checked : WF_vars(CheckEnds(e))
    /\ SF_vars(Terminate)

Spec == Init /\ [][Next]_vars /\ Fairness

-----------------------------------------------------------------------------
(* Properties *)

\* IsHealthy: endpoints that are not checked count as healthy.
IsHealthy(e) == e \in Checked => healthStatus[e]

\* What is reported is what the checks found, whatever ran beside them or was
\* cut short by a stop: an endpoint is not marked before as many failures in a
\* row as Retries says, and at least one; it is after one more; a success clears
\* it; and the gauge says the same once it is set. Nothing is said of
\* exactly Retries failures: the code leaves the endpoint healthy then (line
\* 263), where config.go:24 and the flag's help say that they suffice.
HealthFollowsChecks ==
    \A e \in Checked :
        /\ missed[e] = 0 \/ missed[e] < Config[e].retries => IsHealthy(e)
        /\ missed[e] > Config[e].retries => ~IsHealthy(e)
        /\ metric[e] # "none" => (metric[e] = "1") = IsHealthy(e)

\* A slow endpoint delays the checks of the others by its timeout or a tick at
\* most, the longer of the two: no endpoint goes unchecked for longer once it
\* has been checked.
CheckedInTime ==
    \A e \in Checked :
        age[e] # AgeCap => age[e] < Config[e].interval + Max({MinInterval, MaxTimeout})

\* An endpoint that is down for good is reported so for good, while the checker
\* runs, and one that is up for good is reported up.
ChangesFound ==
    \A e \in Checked :
        /\ <>[](mode = "running" /\ ~serves[e]) => <>[](~IsHealthy(e))
        /\ <>[](mode = "running" /\ serves[e]) => <>[]IsHealthy(e)

\* A stopped checker ends: it waits for no check for ever.
StopsAtLast == (mode = "stopping") ~> (mode = "terminated")
==============================================================================
