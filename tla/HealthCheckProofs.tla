-------------------------- MODULE HealthCheckProofs --------------------------
(* Proofs that what the health checker reports follows its checks, and that  *)
(* no endpoint waits too long for its next check, for any set of endpoints.  *)
EXTENDS HealthCheck, WellFoundedInduction, TLAPS

\* The longest that an iteration is late.
Lateness == Max({MinInterval, MaxTimeout})

\* The checker's count is the number of failures in a row, and status and
\* gauge follow it.
Recorded ==
    \A e \in Checked :
        /\ failureCounts[e] = missed[e]
        /\ healthStatus[e] <=> failureCounts[e] <= Config[e].retries
        /\ metric[e] = "1" => healthStatus[e]
        /\ metric[e] = "0" => ~healthStatus[e]

\* An endpoint that was not due at the last iteration has been waiting for no
\* longer than that iteration's checks run; without a waiting tick the last
\* iteration is less than a period of the ticker ago.
Punctual ==
    \A e \in Checked : age[e] # AgeCap =>
        /\ \A d \in DOMAIN checks : age[e] < Config[e].interval + checks[d]
        /\ ~tick => age[e] + phase < Config[e].interval + MinInterval
        /\ age[e] < Config[e].interval + Lateness

IInv == TypeOK /\ Recorded /\ Punctual

-----------------------------------------------------------------------------
(* The shortest interval and the longest timeout *)

\* A set of natural numbers that is not empty has a least element.
LEMMA LeastElement ==
    ASSUME NEW S, S \subseteq Nat, S # {}
    PROVE  \E x \in S : \A y \in S : x <= y
<1> DEFINE R == OpToRel(<, Nat)
<1>1. IsWellFoundedOn(R, Nat)
  BY NatLessThanWellFounded
<1>2. PICK x \in S : \A y \in S : ~ (<<y, x>> \in R)
  <2> HIDE DEF R
  <2> QED
    BY <1>1, WFMin
<1>3. ASSUME NEW y \in S PROVE x <= y
  <2>1. x \in Nat /\ y \in Nat
    OBVIOUS
  <2>2. <<y, x>> \in R <=> y < x
    BY <2>1 DEF OpToRel
  <2> HIDE DEF R
  <2>3. QED
    BY <1>2, <2>1, <2>2
<1>4. QED
  BY <1>3

\* Min is the least element of a set of natural numbers.
LEMMA MinIsLeast ==
    ASSUME NEW S, S \subseteq Nat, S # {}
    PROVE  Min(S) \in S /\ \A y \in S : Min(S) <= y
BY LeastElement DEF Min

\* Max is the greatest element of a bounded set of natural numbers.
LEMMA MaxIsGreatest ==
    ASSUME NEW S, NEW b \in Nat, S \subseteq 0 .. b, S # {}
    PROVE  Max(S) \in S /\ \A y \in S : y <= Max(S)
<1> DEFINE T == {b - x : x \in S}
<1>1. T \subseteq Nat /\ T # {}
  <2>1. \A x \in S : b - x \in Nat
    OBVIOUS
  <2>2. PICK x \in S : TRUE
    OBVIOUS
  <2>3. b - x \in T
    OBVIOUS
  <2>4. QED
    BY <2>1, <2>3
<1>2. PICK t \in T : \A u \in T : t <= u
  <2> HIDE DEF T
  <2> QED
    BY <1>1, LeastElement
<1>3. PICK x \in S : t = b - x
  OBVIOUS
<1>4. \A y \in S : x >= y
  <2> SUFFICES ASSUME NEW y \in S PROVE x >= y
    OBVIOUS
  <2>1. b - x <= b - y
    BY <1>2, <1>3
  <2>2. QED
    BY <2>1
<1>5. Max(S) \in S /\ \A y \in S : Max(S) >= y
  BY <1>4 DEF Max
<1>6. QED
  BY <1>5

\* findMinInterval returns a positive duration; every timeout is within the
\* greatest, and an iteration's delay is at least both.
LEMMA Durations ==
    /\ MinInterval \in Nat \ {0} /\ MaxTimeout \in Nat /\ Lateness \in Nat
    /\ MinInterval <= Lateness /\ MaxTimeout <= Lateness
    /\ AgeCap \in Nat /\ FailureCap \in Nat
    /\ \A e \in Checked :
          /\ Config[e].interval \in Nat \ {0} /\ Config[e].timeout \in Nat
          /\ Config[e].timeout <= MaxTimeout
          /\ Config[e].retries \in Nat /\ Config[e].retries < FailureCap
          /\ Config[e].interval < AgeCap
<1> USE CheckerAssumption
<1>1. \A e \in Checked : Config[e].interval \in Nat \ {0}
  BY DEF Checked
<1>2. MinInterval \in Nat \ {0}
  <2> DEFINE S == {Hour} \cup {Config[e].interval : e \in Checked}
  <2>1. S \subseteq Nat \ {0} /\ S # {}
    BY <1>1
  <2>2. Min(S) \in S
    <3> HIDE DEF S
    <3> QED
      BY <2>1, MinIsLeast
  <2>3. QED
    BY <2>1, <2>2 DEF MinInterval
<1>3. MaxTimeout \in Nat /\ \A e \in Checked : Config[e].timeout <= MaxTimeout
  <2> DEFINE S == {Config[e].timeout : e \in Checked}
  <2>1. S \subseteq 0 .. AgeCap /\ S # {} /\ AgeCap \in Nat
    OBVIOUS
  <2>2. Max(S) \in S /\ \A y \in S : y <= Max(S)
    <3> HIDE DEF S
    <3> QED
      BY <2>1, MaxIsGreatest
  <2>3. QED
    BY <2>1, <2>2 DEF MaxTimeout
<1>4. Lateness \in Nat /\ MinInterval <= Lateness /\ MaxTimeout <= Lateness
  <2> DEFINE S == {MinInterval, MaxTimeout}
  <2>1. S \subseteq 0 .. MinInterval + MaxTimeout /\ S # {} /\ MinInterval + MaxTimeout \in Nat
    BY <1>2, <1>3
  <2>2. Max(S) \in S /\ \A y \in S : y <= Max(S)
    <3> HIDE DEF S
    <3> QED
      BY <2>1, MaxIsGreatest
  <2>3. QED
    BY <1>2, <1>3, <2>2 DEF Lateness
<1>5. \A e \in Checked : Config[e].interval < AgeCap
  BY <1>1, <1>2, <1>3
<1>6. QED
  BY <1>1, <1>2, <1>3, <1>4, <1>5

-----------------------------------------------------------------------------
(* Initial states and steps *)

\* The invariant holds in a new checker.
LEMMA InitIInv == Init => IInv
<1> SUFFICES ASSUME Init PROVE IInv
  OBVIOUS
<1>1. TypeOK
  <2>1. phase \in 1 .. MinInterval /\ age \in [Checked -> 0 .. AgeCap]
    BY Durations DEF Init
  <2>2. DOMAIN checks \subseteq Checked /\ \A e \in DOMAIN checks : checks[e] \in 0 .. Config[e].timeout
    BY DEF Init
  <2>3. failureCounts \in [Checked -> 0 .. FailureCap] /\ missed \in [Checked -> 0 .. FailureCap]
    BY Durations DEF Init
  <2>4. tick \in BOOLEAN /\ healthStatus \in [Checked -> BOOLEAN]
    BY Zenon DEF Init
  <2>5. QED
    BY <2>1, <2>2, <2>3, <2>4 DEF Init, TypeOK
<1>2. Recorded
  BY Durations DEF Init, Recorded
<1>3. Punctual
  <2>1. \A e \in Checked : age[e] = AgeCap
    BY DEF Init
  <2>2. QED
    BY <2>1 DEF Punctual
<1>4. QED
  BY <1>1, <1>2, <1>3 DEF IInv

\* A check ends: it leaves the set of checks.
LEMMA CheckLeaves ==
    ASSUME TypeOK, NEW e, CheckDone(e)
    PROVE  /\ DOMAIN checks' \subseteq DOMAIN checks
           /\ \A d \in DOMAIN checks' : checks'[d] = checks[d]
BY DEF CheckDone

\* A failure is counted up to the bound.
LEMMA CountFailure ==
    ASSUME NEW n \in 0 .. FailureCap
    PROVE  /\ AtMost(n + 1, FailureCap) \in 0 .. FailureCap
           /\ AtMost(n + 1, FailureCap) >= n
           /\ n < FailureCap => AtMost(n + 1, FailureCap) = n + 1
BY Durations DEF AtMost

\* Each step keeps the types.
LEMMA TypeNext == TypeOK /\ [Next]_vars => TypeOK'
<1> SUFFICES ASSUME TypeOK, [Next]_vars PROVE TypeOK'
  OBVIOUS
<1>1. CASE Iterate
  <2>1. age' \in [Checked -> 0 .. AgeCap]
    BY <1>1, Durations DEF Iterate, TypeOK
  <2>2. DOMAIN checks' \subseteq Checked /\ \A e \in DOMAIN checks' : checks'[e] \in 0 .. Config[e].timeout
    BY <1>1, Durations DEF Iterate
  <2>3. tick' \in BOOLEAN
    BY <1>1, Zenon DEF Iterate
  <2>4. QED
    BY <1>1, <2>1, <2>2, <2>3 DEF Iterate, TypeOK
<1>2. CASE Tick
  <2>1. age' \in [Checked -> 0 .. AgeCap]
    BY <1>2, Durations DEF Tick, TypeOK, AtMost
  <2>2. DOMAIN checks' \subseteq Checked /\ \A e \in DOMAIN checks' : checks'[e] \in 0 .. Config[e].timeout
    BY <1>2, Durations DEF Tick, TypeOK, InTime
  <2>3. phase' \in 1 .. MinInterval
    BY <1>2, Durations DEF Tick, TypeOK
  <2>4. tick' \in BOOLEAN
    BY <1>2, Zenon DEF Tick, TypeOK
  <2>5. QED
    BY <1>2, <2>1, <2>2, <2>3, <2>4 DEF Tick, TypeOK
<1>3. CASE Stop
  BY <1>3 DEF Stop, TypeOK
<1>4. CASE Terminate
  BY <1>4 DEF Terminate, TypeOK
<1>5. ASSUME NEW e \in Checked, CheckSucceeds(e) PROVE TypeOK'
  BY <1>5, CheckLeaves, Durations DEF CheckSucceeds, RecordSuccess, TypeOK
<1>6. ASSUME NEW e \in Checked, CheckFails(e) PROVE TypeOK'
  <2>1. /\ failureCounts' = [failureCounts EXCEPT ![e] = AtMost(failureCounts[e] + 1, FailureCap)]
        /\ missed' = [missed EXCEPT ![e] = AtMost(missed[e] + 1, FailureCap)]
    BY <1>6 DEF CheckFails, RecordFailure
  <2>2. failureCounts' \in [Checked -> 0 .. FailureCap] /\ missed' \in [Checked -> 0 .. FailureCap]
    BY <2>1, CountFailure DEF TypeOK
  <2>3. healthStatus' \in [Checked -> BOOLEAN] /\ metric' \in [Checked -> {"none", "0", "1"}]
    BY <1>6 DEF CheckFails, RecordFailure, TypeOK
  <2>4. QED
    BY <1>6, <2>2, <2>3, CheckLeaves DEF CheckFails, TypeOK
<1>7. ASSUME NEW e \in Checked, CheckCancelled(e) PROVE TypeOK'
  BY <1>7, CheckLeaves DEF CheckCancelled, TypeOK
<1>8. ASSUME NEW e \in Checked, Flip(e) PROVE TypeOK'
  BY <1>8 DEF Flip, TypeOK
<1>9. CASE UNCHANGED vars
  BY <1>9 DEF vars, TypeOK
<1>10. QED
  BY <1>1, <1>2, <1>3, <1>4, <1>5, <1>6, <1>7, <1>8, <1>9 DEF Next, CheckEnds

\* Each check keeps count, status and gauge together: a failure beyond the
\* retries is the one that turns the status, and one success turns it back.
LEMMA RecordedNext == TypeOK /\ Recorded /\ [Next]_vars => Recorded'
<1> SUFFICES ASSUME TypeOK, Recorded, [Next]_vars PROVE Recorded'
  OBVIOUS
<1>u. ASSUME UNCHANGED <<failureCounts, healthStatus, metric, missed>> PROVE Recorded'
  BY <1>u DEF Recorded
<1>1. ASSUME NEW e \in Checked, CheckSucceeds(e) PROVE Recorded'
  <2>1. /\ failureCounts' = [failureCounts EXCEPT ![e] = 0]
        /\ healthStatus' = [healthStatus EXCEPT ![e] = TRUE]
        /\ metric' = [metric EXCEPT ![e] = "1"]
        /\ missed' = [missed EXCEPT ![e] = 0]
    BY <1>1 DEF CheckSucceeds, RecordSuccess
  <2>2. SUFFICES ASSUME NEW d \in Checked
                 PROVE  /\ failureCounts'[d] = missed'[d]
                        /\ healthStatus'[d] <=> failureCounts'[d] <= Config[d].retries
                        /\ metric'[d] = "1" => healthStatus'[d]
                        /\ metric'[d] = "0" => ~healthStatus'[d]
    BY DEF Recorded
  <2>3. CASE d = e
    <3>1. /\ failureCounts'[d] = 0 /\ missed'[d] = 0 /\ healthStatus'[d] = TRUE
          /\ metric'[d] = "1"
      BY <2>1, <2>3 DEF TypeOK
    <3>2. 0 <= Config[d].retries
      BY Durations
    <3>3. QED
      BY <3>1, <3>2
  <2>4. CASE d # e
    <3>1. /\ failureCounts'[d] = failureCounts[d] /\ missed'[d] = missed[d]
          /\ healthStatus'[d] = healthStatus[d] /\ metric'[d] = metric[d]
      BY <2>1, <2>4 DEF TypeOK
    <3>2. QED
      BY <3>1 DEF Recorded
  <2>5. QED
    BY <2>3, <2>4
<1>2. ASSUME NEW e \in Checked, CheckFails(e) PROVE Recorded'
  <2> DEFINE n == AtMost(failureCounts[e] + 1, FailureCap)
  <2>1. /\ failureCounts' = [failureCounts EXCEPT ![e] = n]
        /\ missed' = [missed EXCEPT ![e] = AtMost(missed[e] + 1, FailureCap)]
    BY <1>2 DEF CheckFails, RecordFailure
  <2>2. failureCounts[e] \in 0 .. FailureCap /\ failureCounts[e] = missed[e]
    BY DEF TypeOK, Recorded
  <2>3. failureCounts'[e] = n /\ missed'[e] = n
    BY <2>1, <2>2 DEF TypeOK
  <2>4. /\ n \in 0 .. FailureCap /\ n >= failureCounts[e]
        /\ failureCounts[e] < FailureCap => n = failureCounts[e] + 1
    BY <2>2, CountFailure
  <2>r. Config[e].retries \in Nat /\ Config[e].retries < FailureCap /\ FailureCap \in Nat
    BY Durations
  <2> HIDE DEF n
  <2>5. /\ healthStatus'[e] <=> n <= Config[e].retries
        /\ metric'[e] = "1" => healthStatus'[e]
        /\ metric'[e] = "0" => ~healthStatus'[e]
    <3>1. CASE n > Config[e].retries /\ healthStatus[e]
      <4>1. healthStatus' = [healthStatus EXCEPT ![e] = FALSE] /\ metric' = [metric EXCEPT ![e] = "0"]
        BY <1>2, <2>3, <3>1 DEF CheckFails, RecordFailure
      <4>2. healthStatus'[e] = FALSE /\ metric'[e] = "0"
        BY <4>1 DEF TypeOK
      <4>3. ~(n <= Config[e].retries)
        BY <2>4, <2>r, <3>1
      <4>4. QED
        BY <4>2, <4>3
    <3>2. CASE ~(n > Config[e].retries /\ healthStatus[e])
      <4>1. UNCHANGED <<healthStatus, metric>>
        BY <1>2, <2>3, <3>2 DEF CheckFails, RecordFailure
      <4>2. healthStatus[e] <=> failureCounts[e] <= Config[e].retries
        BY DEF Recorded
      <4>3. (failureCounts[e] <= Config[e].retries) <=> (n <= Config[e].retries)
        <5>1. CASE healthStatus[e]
          <6>1. n <= Config[e].retries
            BY <5>1, <3>2, <2>4, <2>r
          <6>2. QED
            BY <5>1, <6>1, <4>2
        <5>2. CASE ~healthStatus[e]
          <6>1. failureCounts[e] > Config[e].retries
            BY <5>2, <4>2, <2>2, <2>r
          <6>2. QED
            BY <6>1, <2>2, <2>4, <2>r
        <5>3. QED
          BY <5>1, <5>2
      <4>4. QED
        BY <4>1, <4>2, <4>3 DEF Recorded
    <3>3. QED
      BY <3>1, <3>2
  <2>6. ASSUME NEW d \in Checked, d # e
        PROVE  /\ failureCounts'[d] = failureCounts[d] /\ missed'[d] = missed[d]
               /\ healthStatus'[d] = healthStatus[d] /\ metric'[d] = metric[d]
    <3>1. failureCounts'[d] = failureCounts[d] /\ missed'[d] = missed[d]
      BY <2>1, <2>6 DEF TypeOK
    <3>2. healthStatus'[d] = healthStatus[d] /\ metric'[d] = metric[d]
      BY <1>2, <2>6 DEF CheckFails, RecordFailure, TypeOK
    <3>3. QED
      BY <3>1, <3>2
  <2>7. SUFFICES ASSUME NEW d \in Checked
                 PROVE  /\ failureCounts'[d] = missed'[d]
                        /\ healthStatus'[d] <=> failureCounts'[d] <= Config[d].retries
                        /\ metric'[d] = "1" => healthStatus'[d]
                        /\ metric'[d] = "0" => ~healthStatus'[d]
    BY DEF Recorded
  <2>8. CASE d = e
    BY <2>3, <2>5, <2>8
  <2>9. CASE d # e
    BY <2>6, <2>9 DEF Recorded
  <2>10. QED
    BY <2>8, <2>9
<1>3. CASE Iterate
  BY <1>3, <1>u DEF Iterate
<1>4. CASE Tick
  BY <1>4, <1>u DEF Tick
<1>5. CASE Stop \/ Terminate
  BY <1>5, <1>u DEF Stop, Terminate
<1>6. ASSUME NEW e \in Checked, CheckCancelled(e) \/ Flip(e) PROVE Recorded'
  BY <1>6, <1>u DEF CheckCancelled, Flip
<1>7. CASE UNCHANGED vars
  BY <1>7, <1>u DEF vars
<1>8. QED
  BY <1>1, <1>2, <1>3, <1>4, <1>5, <1>6, <1>7 DEF Next, CheckEnds

\* Each step keeps the iterations punctual: time passes only while no
\* iteration is due and no check has used up its timeout.
LEMMA PunctualNext == TypeOK /\ Punctual /\ [Next]_vars => Punctual'
<1> SUFFICES ASSUME TypeOK, Punctual, [Next]_vars PROVE Punctual'
  OBVIOUS
<1>u. ASSUME UNCHANGED <<age, tick, phase>>, DOMAIN checks' \subseteq DOMAIN checks,
             \A d \in DOMAIN checks' : checks'[d] = checks[d]
      PROVE  Punctual'
  BY <1>u DEF Punctual
<1>1. CASE Iterate
  <2>1. SUFFICES ASSUME NEW e \in Checked
                 PROVE  /\ \A d \in DOMAIN checks' : age'[e] < Config[e].interval + checks'[d]
                        /\ age'[e] + phase' < Config[e].interval + MinInterval
                        /\ age'[e] < Config[e].interval + Lateness
    BY DEF Punctual
  <2>2. /\ age'[e] = IF Due(e) THEN 0 ELSE age[e]
        /\ \A d \in DOMAIN checks' : checks'[d] = 0
        /\ phase' = phase
    BY <1>1 DEF Iterate
  <2>3. /\ age[e] \in Nat /\ phase \in Nat /\ phase <= MinInterval
        /\ Config[e].interval \in Nat \ {0} /\ MinInterval \in Nat /\ Lateness \in Nat
    BY Durations DEF TypeOK
  <2>4. age'[e] < Config[e].interval /\ age'[e] \in Nat
    BY <2>2, <2>3 DEF Due
  <2>5. QED
    BY <2>2, <2>3, <2>4
<1>2. CASE Tick
  <2>1. SUFFICES ASSUME NEW e \in Checked, age'[e] # AgeCap
                 PROVE  /\ \A d \in DOMAIN checks' : age'[e] < Config[e].interval + checks'[d]
                        /\ ~tick' => age'[e] + phase' < Config[e].interval + MinInterval
                        /\ age'[e] < Config[e].interval + Lateness
    BY DEF Punctual
  <2>2. /\ age[e] \in Nat /\ age[e] <= AgeCap /\ AgeCap \in Nat
        /\ phase \in Nat \ {0} /\ phase <= MinInterval
        /\ Config[e].interval \in Nat \ {0} /\ MinInterval \in Nat /\ Lateness \in Nat
        /\ MinInterval <= Lateness /\ MaxTimeout <= Lateness /\ MaxTimeout \in Nat
    BY Durations DEF TypeOK
  <2>3. age[e] # AgeCap /\ age'[e] = age[e] + 1
    BY <1>2, <2>1, <2>2 DEF Tick, AtMost
  <2>4. /\ DOMAIN checks' = DOMAIN checks
        /\ \A d \in DOMAIN checks : checks'[d] = checks[d] + 1
    BY <1>2 DEF Tick
  <2>5. ASSUME NEW d \in DOMAIN checks
        PROVE  /\ checks[d] \in Nat /\ checks[d] < MaxTimeout
               /\ age[e] < Config[e].interval + checks[d]
    <3>1. /\ checks[d] \in Nat /\ d \in Checked
      BY <2>5 DEF TypeOK
    <3>2. checks[d] < Config[d].timeout
      BY <1>2, <2>5 DEF Tick, InTime
    <3>3. age[e] < Config[e].interval + checks[d]
      BY <2>3, <2>5 DEF Punctual
    <3>4. QED
      BY <3>1, <3>2, <3>3, <2>2, Durations
  <2>6. \A d \in DOMAIN checks' : age'[e] < Config[e].interval + checks'[d]
    BY <2>2, <2>3, <2>4, <2>5
  <2>7. ASSUME ~tick'
        PROVE  age'[e] + phase' < Config[e].interval + MinInterval
    <3>1. ~tick /\ phase' = phase - 1
      BY <1>2, <2>7 DEF Tick
    <3>2. age[e] + phase < Config[e].interval + MinInterval
      BY <3>1, <2>3 DEF Punctual
    <3>3. QED
      BY <3>1, <3>2, <2>2, <2>3
  <2>8. age'[e] < Config[e].interval + Lateness
    <3>1. CASE DOMAIN checks # {}
      BY <3>1, <2>2, <2>3, <2>5
    <3>2. CASE DOMAIN checks = {}
      <4>2. ~tick
        BY <1>2, <3>2 DEF Tick, Idle
      <4>3. age[e] + phase < Config[e].interval + MinInterval
        BY <4>2, <2>3 DEF Punctual
      <4>4. QED
        BY <4>3, <2>2, <2>3
    <3>3. QED
      BY <3>1, <3>2
  <2>9. QED
    BY <2>6, <2>7, <2>8
<1>3. CASE Stop \/ Terminate
  BY <1>3, <1>u DEF Stop, Terminate
<1>4. ASSUME NEW e \in Checked, CheckEnds(e) PROVE Punctual'
  <2>1. UNCHANGED <<age, tick, phase>> /\ CheckDone(e)
    BY <1>4 DEF CheckEnds, CheckSucceeds, CheckFails, CheckCancelled
  <2>2. QED
    BY <2>1, <1>u, CheckLeaves
<1>5. ASSUME NEW e \in Checked, Flip(e) PROVE Punctual'
  BY <1>5, <1>u DEF Flip
<1>6. CASE UNCHANGED vars
  BY <1>6, <1>u DEF vars
<1>7. QED
  BY <1>1, <1>2, <1>3, <1>4, <1>5, <1>6 DEF Next

\* The invariant is inductive.
LEMMA InductiveInvariant == Spec => []IInv
<1>1. IInv /\ [Next]_vars => IInv'
  BY TypeNext, RecordedNext, PunctualNext DEF IInv
<1>2. QED
  BY InitIInv, <1>1, PTL DEF Spec

-----------------------------------------------------------------------------
(* Theorems *)

\* The checker's variables keep their types; no check outlasts its timeout.
THEOREM TypeCorrect == Spec => []TypeOK
BY InductiveInvariant, PTL DEF IInv

\* recordSuccess and recordFailure report an endpoint unhealthy not before
\* Retries checks failed in a row, and certainly after one more, and the gauge
\* agrees.
THEOREM ReportsFollow == Spec => []HealthFollowsChecks
<1>1. IInv => HealthFollowsChecks
  <2> SUFFICES ASSUME IInv, NEW e \in Checked
               PROVE  /\ missed[e] = 0 \/ missed[e] < Config[e].retries => IsHealthy(e)
                      /\ missed[e] > Config[e].retries => ~IsHealthy(e)
                      /\ metric[e] # "none" => (metric[e] = "1") = IsHealthy(e)
    BY DEF HealthFollowsChecks
  <2>1. IsHealthy(e) <=> healthStatus[e]
    BY DEF IsHealthy
  <2>2. healthStatus[e] <=> missed[e] <= Config[e].retries
    BY DEF IInv, Recorded
  <2>3. missed[e] \in Nat /\ Config[e].retries \in Nat
    BY Durations DEF IInv, TypeOK
  <2>4. /\ missed[e] = 0 \/ missed[e] < Config[e].retries => IsHealthy(e)
        /\ missed[e] > Config[e].retries => ~IsHealthy(e)
    BY <2>1, <2>2, <2>3
  <2>5. metric[e] \in {"none", "0", "1"}
    BY DEF IInv, TypeOK
  <2>6. metric[e] # "none" => ((metric[e] = "1") <=> IsHealthy(e))
    BY <2>1, <2>5 DEF IInv, Recorded
  <2>7. IsHealthy(e) \in BOOLEAN
    BY Zenon DEF IsHealthy
  <2>8. QED
    BY <2>4, <2>6, <2>7
<1>2. QED
  BY <1>1, InductiveInvariant, PTL

\* However slow an endpoint, no other waits for its next check for longer than
\* its interval and the longer of the greatest timeout and the ticker's period,
\* although iteration waits for all of its checks and ticks are dropped.
THEOREM ChecksInTime == Spec => []CheckedInTime
<1>1. IInv => CheckedInTime
  BY DEF IInv, Punctual, CheckedInTime, Lateness
<1>2. QED
  BY <1>1, InductiveInvariant, PTL
==============================================================================
