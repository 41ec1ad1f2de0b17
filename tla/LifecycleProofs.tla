--------------------------- MODULE LifecycleProofs ---------------------------
(* Proofs that the gateway's process keeps its order: what is ready serves,  *)
(* metrics outlive requests, and the listener closes after the delay only.   *)
EXTENDS Lifecycle, TLAPS

\* Main defers the stop of a part once, in the order of its steps.
DefersOrdered ==
    /\ \A k \in DOMAIN defers : \E j \in 1 .. step - 1 : defers[k] = Steps[j]
    /\ \A k, l \in DOMAIN defers : k # l => defers[k] # defers[l]

\* What has been done while Main starts.
Started ==
    main = "starting" =>
        /\ serve = "off" /\ loop = "off" /\ errChan = "empty" /\ ~ready
        /\ step > 3 => listener
        /\ step > 7 => "instrumentation" \in up
        /\ step > 8 => routes

\* What is there while Main serves and shuts down.
Served ==
    /\ main \in {"running", "shutting"} => routes /\ "instrumentation" \in up
    /\ main = "running" => listener \/ serve = "failed"
    /\ main = "stopping" => serve = "closed"

\* Main shuts down because Loop has returned, and Loop has slept by then.
Drained ==
    /\ ready => Alive /\ loop \in {"ready", "subscribed"}
    /\ errChan = "nil" => loop = "done"
    /\ loop = "done" => slept = Delay
    /\ main \in {"shutting", "stopping"} => errChan = "nil"

IInv == TypeOK /\ DefersOrdered /\ Started /\ Served /\ Drained

-----------------------------------------------------------------------------
(* Lemmas *)

\* There are nine start-up steps, no two alike.
LEMMA NineSteps ==
    /\ Len(Steps) = 9
    /\ Steps[3] = "server" /\ Steps[7] = "instrumentation" /\ Steps[8] = "routes"
    /\ \A j, k \in 1 .. 9 : j # k => Steps[j] # Steps[k]
BY DEF Steps

\* A deferred stop goes on top of the others.
LEMMA AppendDefer ==
    ASSUME NEW s \in Seq(Deferred), NEW x \in Deferred
    PROVE  /\ Append(s, x) \in Seq(Deferred)
           /\ DOMAIN Append(s, x) = DOMAIN s \cup {Len(s) + 1}
           /\ Append(s, x)[Len(s) + 1] = x
           /\ \A k \in DOMAIN s : Append(s, x)[k] = s[k]
           /\ ToSet(Append(s, x)) = ToSet(s) \cup {x}
<1>1. /\ Append(s, x) \in Seq(Deferred)
      /\ DOMAIN s = 1 .. Len(s) /\ Len(s) \in Nat
      /\ DOMAIN Append(s, x) = 1 .. Len(s) + 1
      /\ Append(s, x)[Len(s) + 1] = x
      /\ \A k \in 1 .. Len(s) : Append(s, x)[k] = s[k]
  OBVIOUS
<1>2. 1 .. Len(s) + 1 = (1 .. Len(s)) \cup {Len(s) + 1}
  BY <1>1
<1>3. QED
  BY <1>1, <1>2 DEF ToSet

\* The latest deferred stop is taken off, and no other is like it.
LEMMA FrontDefers ==
    ASSUME NEW s \in Seq(Deferred), s # <<>>,
           \A k, l \in DOMAIN s : k # l => s[k] # s[l]
    PROVE  /\ Front(s) \in Seq(Deferred)
           /\ DOMAIN Front(s) \subseteq DOMAIN s
           /\ \A k \in DOMAIN Front(s) : Front(s)[k] = s[k]
           /\ ToSet(Front(s)) = ToSet(s) \ {Last(s)}
<1>1. /\ Len(s) \in Nat /\ Len(s) > 0
      /\ DOMAIN s = 1 .. Len(s)
      /\ \A k \in 1 .. Len(s) : s[k] \in Deferred
  OBVIOUS
<1>2. /\ Front(s) \in Seq(Deferred)
      /\ DOMAIN Front(s) = 1 .. Len(s) - 1
      /\ \A k \in 1 .. Len(s) - 1 : Front(s)[k] = s[k]
  BY <1>1 DEF Front
<1>3. Last(s) = s[Len(s)]
  BY DEF Last
<1>4. 1 .. Len(s) = (1 .. Len(s) - 1) \cup {Len(s)} /\ Len(s) \notin 1 .. Len(s) - 1
  BY <1>1
<1>5. QED
  BY <1>1, <1>2, <1>3, <1>4 DEF ToSet

-----------------------------------------------------------------------------
(* The inductive invariant *)

\* At the start no component runs.
LEMMA InitIInv == Init => IInv
<1> SUFFICES ASSUME Init PROVE IInv
  OBVIOUS
<1>1. <<>> \in Seq(Deferred) /\ DOMAIN <<>> = {} /\ ToSet(<<>>) = {}
  BY DEF ToSet
<1>2. TypeOK
  <2>1. configured \subseteq OptionalParts
    BY DEF Init
  <2>2. 1 \in 1 .. Len(Steps) + 1 /\ 0 \in 0 .. Delay /\ 0 \in 0 .. MaxInflight
    BY LifecycleAssumption, NineSteps
  <2>3. QED
    BY <1>1, <2>1, <2>2 DEF Init, TypeOK, Ended
<1>3. DefersOrdered
  BY <1>1 DEF Init, DefersOrdered
<1>4. Started /\ Served /\ Drained
  BY DEF Init, Started, Served, Drained, Alive, Ended
<1>5. QED
  BY <1>2, <1>3, <1>4 DEF IInv

\* The stack of deferred calls stays one: each part once, as up records it.
LEMMA DefersStep ==
    ASSUME IInv, [Next]_vars
    PROVE  /\ step' \in 1 .. Len(Steps) + 1
           /\ defers' \in Seq(Deferred) /\ up' = ToSet(defers')
           /\ DefersOrdered'
<1> USE NineSteps
<1>0. /\ step \in 1 .. 10
      /\ defers \in Seq(Deferred) /\ up = ToSet(defers)
      /\ DefersOrdered
  BY DEF IInv, TypeOK
<1>1. CASE StartStep
  <2>1. step \in 1 .. 9 /\ step' = step + 1
    BY <1>0, <1>1 DEF StartStep
  <2>2. CASE ~BringsUp(Steps[step])
    <3>1. defers' = defers /\ up' = up
      BY <1>1, <2>2 DEF StartStep
    <3>2. QED
      BY <1>0, <2>1, <3>1 DEF DefersOrdered
  <2>3. CASE BringsUp(Steps[step])
    <3> DEFINE x == Steps[step]
    <3>1. x \in Deferred /\ defers' = Append(defers, x) /\ up' = up \cup {x}
      BY <1>1, <2>3 DEF StartStep, BringsUp
    <3>2. /\ Append(defers, x) \in Seq(Deferred)
          /\ DOMAIN Append(defers, x) = DOMAIN defers \cup {Len(defers) + 1}
          /\ Append(defers, x)[Len(defers) + 1] = x
          /\ \A k \in DOMAIN defers : Append(defers, x)[k] = defers[k]
          /\ ToSet(Append(defers, x)) = ToSet(defers) \cup {x}
      BY <1>0, <3>1, AppendDefer
    <3>3. \A k \in DOMAIN defers : defers[k] # x
      BY <1>0, <2>1, SMTT(30) DEF DefersOrdered
    <3> HIDE DEF x
    <3>4. \A k \in DOMAIN defers' : \E j \in 1 .. step' - 1 : defers'[k] = Steps[j]
      <4>1. \A k \in DOMAIN defers : \E j \in 1 .. step' - 1 : defers'[k] = Steps[j]
        BY <1>0, <2>1, <3>1, <3>2, SMTT(30) DEF DefersOrdered
      <4>2. step \in 1 .. step' - 1 /\ defers'[Len(defers) + 1] = Steps[step]
        BY <2>1, <3>1, <3>2 DEF x
      <4>3. QED
        BY <3>1, <3>2, <4>1, <4>2
    <3>5. \A k, l \in DOMAIN defers' : k # l => defers'[k] # defers'[l]
      BY <1>0, <3>1, <3>2, <3>3 DEF DefersOrdered
    <3>6. QED
      BY <1>0, <2>1, <3>1, <3>2, <3>4, <3>5 DEF DefersOrdered
  <2>4. QED
    BY <2>2, <2>3
<1>2. CASE StopPart
  <2>1. defers' = Front(defers) /\ up' = up \ {Last(defers)} /\ defers # <<>> /\ step' = step
    BY <1>2 DEF StopPart
  <2>2. /\ Front(defers) \in Seq(Deferred)
        /\ DOMAIN Front(defers) \subseteq DOMAIN defers
        /\ \A k \in DOMAIN Front(defers) : Front(defers)[k] = defers[k]
        /\ ToSet(Front(defers)) = ToSet(defers) \ {Last(defers)}
    BY <1>0, <2>1, FrontDefers DEF DefersOrdered
  <2>3. QED
    BY <1>0, <2>1, <2>2, SMTT(30) DEF DefersOrdered
<1>3. CASE defers' = <<>> /\ up' = {} /\ step' = step
  BY <1>0, <1>3 DEF DefersOrdered, ToSet
<1>4. CASE defers' = defers /\ up' = up /\ step' = step
  BY <1>0, <1>4 DEF DefersOrdered
<1>5. CASE UNCHANGED vars
  BY <1>4, <1>5 DEF vars
<1>6. CASE StartFails \/ RunFails \/ MainReturns
  BY <1>3, <1>6 DEF StartFails, RunFails, MainReturns, Fatal, End
<1>7. CASE Signal
  BY <1>3, <1>4, <1>7 DEF Signal, End
<1>8. CASE \/ Run \/ RunReturns \/ ShutdownCloses \/ ShutdownReturns \/ ServeStarts \/ ServeFails
           \/ SideServerEnds \/ LoopSteps \/ RequestStarts \/ RequestEnds
  BY <1>4, <1>8 DEF Run, RunReturns, ShutdownCloses, ShutdownReturns, ServeStarts, ServeFails,
     SideServerEnds, LoopSteps, LoopStarts, Subscribe, Signalled, Sleep, LoopReturns, RequestStarts, RequestEnds
<1>9. QED
  BY <1>1, <1>2, <1>5, <1>6, <1>7, <1>8 DEF Next, MainSteps

\* What has been brought up stays up while Main starts, and is needed after.
LEMMA StartedStep == ASSUME IInv, [Next]_vars PROVE Started'
<1> USE NineSteps DEF Started
<1>0. Started /\ step \in 1 .. 10 /\ listener \in BOOLEAN /\ routes \in BOOLEAN
  BY DEF IInv, TypeOK
<1>1. CASE StartStep
  <2>1. /\ step \in 1 .. 9 /\ step' = step + 1 /\ main = "starting"
        /\ UNCHANGED <<serve, loop, errChan, ready>>
    BY <1>0, <1>1 DEF StartStep
  <2>2. step' > 3 => listener'
    <3>1. listener' = (listener \/ Steps[step] = "server")
      BY <1>1 DEF StartStep
    <3>2. step' > 3 => listener \/ step = 3
      BY <1>0, <2>1
    <3>3. QED
      BY <3>1, <3>2
  <2>3. step' > 7 => "instrumentation" \in up'
    BY <1>0, <1>1, <2>1 DEF StartStep, BringsUp, Deferred
  <2>4. step' > 8 => routes'
    <3>1. routes' = (routes \/ Steps[step] = "routes")
      BY <1>1 DEF StartStep
    <3>2. step' > 8 => routes \/ step = 8
      BY <1>0, <2>1
    <3>3. QED
      BY <3>1, <3>2
  <2>5. QED
    BY <1>0, <2>1, <2>2, <2>3, <2>4
<1>2. CASE main' # "starting"
  BY <1>2
<1>3. CASE UNCHANGED vars
  BY <1>0, <1>3 DEF vars
<1>4. CASE Signal
  BY <1>0, <1>2, <1>4 DEF Signal, End
<1>5. CASE \/ StartFails \/ RunFails \/ MainReturns \/ Run \/ RunReturns
           \/ ShutdownCloses \/ ShutdownReturns \/ StopPart
  BY <1>2, <1>5 DEF StartFails, RunFails, MainReturns, Fatal, End, Run, RunReturns, AfterRun,
     ShutdownCloses, ShutdownReturns, StopPart
<1>6. CASE \/ ServeStarts \/ ServeFails \/ LoopSteps \/ RequestStarts \/ RequestEnds
  BY <1>2, <1>6 DEF ServeStarts, ServeFails, LoopSteps, LoopStarts, Subscribe, Signalled, Sleep,
     LoopReturns, RequestStarts, RequestEnds, Running, Alive
<1>7. CASE SideServerEnds
  BY <1>0, <1>7 DEF SideServerEnds
<1>8. QED
  BY <1>1, <1>3, <1>4, <1>5, <1>6, <1>7 DEF Next, MainSteps

\* Routes and metrics are there until the server is shut down.
LEMMA ServedStep == ASSUME IInv, [Next]_vars PROVE Served'
<1> USE NineSteps DEF Served
<1>0. Served /\ Started /\ step \in 1 .. 10
  BY DEF IInv, TypeOK
<1>1. CASE StartStep
  BY <1>1 DEF StartStep
<1>2. CASE Run
  BY <1>0, <1>2 DEF Run, Started
<1>3. CASE RunReturns
  BY <1>0, <1>3 DEF RunReturns, AfterRun
<1>4. CASE ShutdownCloses \/ ShutdownReturns
  BY <1>0, <1>4 DEF ShutdownCloses, ShutdownReturns
<1>5. CASE StopPart
  BY <1>0, <1>5 DEF StopPart
<1>6. CASE StartFails \/ RunFails \/ MainReturns
  BY <1>6 DEF StartFails, RunFails, MainReturns, Fatal, End
<1>7. CASE ServeStarts \/ ServeFails
  BY <1>0, <1>7 DEF ServeStarts, ServeFails
<1>8. CASE SideServerEnds \/ LoopSteps \/ RequestStarts \/ RequestEnds
  BY <1>0, <1>8 DEF SideServerEnds, LoopSteps, LoopStarts, Subscribe, Signalled, Sleep, LoopReturns,
     RequestStarts, RequestEnds
<1>9. CASE Signal
  BY <1>0, <1>9 DEF Signal, End
<1>10. CASE UNCHANGED vars
  BY <1>0, <1>10 DEF vars
<1>11. QED
  BY <1>1, <1>2, <1>3, <1>4, <1>5, <1>6, <1>7, <1>8, <1>9, <1>10 DEF Next, MainSteps

\* Only Loop makes Main shut down, and it reports after its sleep.
LEMMA DrainedStep == ASSUME IInv, [Next]_vars PROVE Drained'
<1> USE DEF Drained, Alive, Ended
<1>0. Drained /\ ready \in BOOLEAN
  BY DEF IInv, TypeOK
<1>1. CASE UNCHANGED <<main, loop, ready, slept, errChan>>
  BY <1>0, <1>1
<1>2. CASE \/ StartStep \/ ShutdownCloses \/ StopPart \/ ServeStarts \/ SideServerEnds
           \/ RequestStarts \/ RequestEnds \/ UNCHANGED vars
  BY <1>1, <1>2 DEF StartStep, ShutdownCloses, StopPart, ServeStarts, SideServerEnds,
     RequestStarts, RequestEnds, vars
<1>3. CASE Run
  BY <1>0, <1>3 DEF Run
<1>4. CASE RunReturns
  BY <1>0, <1>4 DEF RunReturns, AfterRun
<1>5. CASE ShutdownReturns
  BY <1>0, <1>5 DEF ShutdownReturns
<1>6. CASE StartFails \/ RunFails \/ MainReturns
  BY <1>0, <1>6 DEF StartFails, RunFails, MainReturns, Fatal, End
<1>7. CASE ServeFails
  <2>1. errChan' = "nil" <=> errChan = "nil"
    BY <1>7 DEF ServeFails, Report
  <2>2. UNCHANGED <<main, loop, ready, slept>>
    BY <1>7 DEF ServeFails
  <2>3. (ready => Alive /\ loop \in {"ready", "subscribed"})'
    BY <1>0, <2>2
  <2>4. errChan' = "nil" => loop' = "done"
    BY <1>0, <2>1, <2>2
  <2>5. loop' = "done" => slept' = Delay
    BY <1>0, <2>2
  <2>6. main' \in {"shutting", "stopping"} => errChan' = "nil"
    BY <1>0, <2>1, <2>2
  <2>7. QED
    BY <2>3, <2>4, <2>5, <2>6
<1>8. CASE LoopStarts \/ Subscribe
  BY <1>0, <1>8 DEF LoopStarts, Subscribe, Running
<1>9. CASE Signalled \/ Sleep
  <2>1. loop' = "sleeping" /\ UNCHANGED <<main, errChan>>
    BY <1>9 DEF Signalled, Sleep
  <2>2. loop # "done" /\ ~ready'
    <3>1. CASE Signalled
      BY <3>1 DEF Signalled, NotReady
    <3>2. CASE Sleep
      BY <1>0, <3>2 DEF Sleep
    <3>3. QED
      BY <1>9, <3>1, <3>2
  <2>3. errChan # "nil" /\ main \notin {"shutting", "stopping"}
    BY <1>0, <2>2
  <2>4. QED
    BY <2>1, <2>2, <2>3
<1>10. CASE LoopReturns
  BY <1>0, <1>10 DEF LoopReturns, SleptEnough, Report
<1>11. CASE Signal
  <2>1. CASE loop \in {"subscribed", "sleeping"}
    BY <1>1, <1>11, <2>1 DEF Signal
  <2>2. CASE loop \notin {"subscribed", "sleeping"}
    BY <1>0, <1>11, <2>2 DEF Signal, End
  <2>3. QED
    BY <2>1, <2>2
<1>12. QED
  BY <1>2, <1>3, <1>4, <1>5, <1>6, <1>7, <1>8, <1>9, <1>10, <1>11
     DEF Next, MainSteps, LoopSteps

\* The actions of Main, of its goroutines and of the world keep the types.
LEMMA TypeStep == ASSUME IInv, [Next]_vars PROVE TypeOK'
<1> DEFINE Mains  == {"starting", "running", "shutting", "stopping"} \cup Ended
           Texts  == /\ configured \subseteq OptionalParts /\ main \in Mains
                     /\ serve \in {"off", "serving", "failed", "closed"}
                     /\ loop \in {"off", "ready", "subscribed", "sleeping", "done"}
                     /\ errChan \in {"empty", "nil", "error"}
           Side   == fallen \subseteq SideServers
           Truths == /\ listener \in BOOLEAN /\ routes \in BOOLEAN
                     /\ ready \in BOOLEAN /\ sigs \in BOOLEAN
           Counts == slept \in 0 .. Delay /\ inflight \in 0 .. MaxInflight
<1> USE LifecycleAssumption
<1>0. Texts /\ Truths /\ Counts
  BY DEF IInv, TypeOK
<1>1. Texts' /\ Truths' /\ Counts'
  <2>1. CASE StartStep
    <3>1. UNCHANGED <<configured, main, serve, loop, ready, sigs, slept, errChan, inflight>>
      BY <2>1 DEF StartStep
    <3>2. listener' \in BOOLEAN /\ routes' \in BOOLEAN
      BY <2>1 DEF StartStep
    <3>3. QED
      BY <1>0, <3>1, <3>2
  <2>2. CASE End("exit 0") \/ End("exit 1") \/ End("killed")
    <3>1. /\ UNCHANGED <<configured, serve, loop, errChan, routes, sigs, slept>>
          /\ main' \in Ended /\ listener' = FALSE /\ ready' = FALSE /\ inflight' = 0
      BY <2>2 DEF End, Ended
    <3>2. Texts'
      BY <1>0, <3>1
    <3>3. Truths'
      BY <1>0, <3>1
    <3>4. Counts'
      BY <1>0, <3>1
    <3>5. QED
      BY <3>2, <3>3, <3>4
  <2>3. CASE Run \/ RunReturns \/ ShutdownReturns
    <3>1. /\ UNCHANGED <<configured, serve, loop, errChan, listener, routes, ready, sigs, slept,
                         inflight>>
          /\ main' \in {"running", "shutting", "stopping"}
      BY <2>3 DEF Run, RunReturns, AfterRun, ShutdownReturns
    <3>2. Texts'
      BY <1>0, <3>1
    <3>3. Truths'
      BY <1>0, <3>1
    <3>4. Counts'
      BY <1>0, <3>1
    <3>5. QED
      BY <3>2, <3>3, <3>4
  <2>4. CASE ShutdownCloses \/ StopPart
    <3>1. /\ UNCHANGED <<configured, main, loop, errChan, routes, ready, sigs, slept, inflight>>
          /\ listener' \in {listener, FALSE} /\ serve' \in {serve, "closed"}
      BY <2>4 DEF ShutdownCloses, StopPart
    <3>2. Texts'
      BY <1>0, <3>1
    <3>3. Truths'
      BY <1>0, <3>1
    <3>4. Counts'
      BY <1>0, <3>1
    <3>5. QED
      BY <3>2, <3>3, <3>4
  <2>5. CASE ServeStarts \/ ServeFails
    BY <1>0, <2>5 DEF ServeStarts, ServeFails, Report
  <2>6. CASE LoopStarts \/ Subscribe \/ Signalled
    BY <1>0, <2>6 DEF LoopStarts, Subscribe, Signalled, NotReady
  <2>7. CASE Sleep \/ RequestStarts \/ RequestEnds
    <3>1. UNCHANGED <<configured, main, serve, loop, errChan, listener, routes, ready, sigs>>
      BY <2>7 DEF Sleep, RequestStarts, RequestEnds
    <3>2. Texts'
      BY <1>0, <3>1
    <3>3. Truths'
      BY <1>0, <3>1
    <3>4. Counts'
      BY <1>0, <2>7 DEF Sleep, RequestStarts, RequestEnds
    <3>5. QED
      BY <3>2, <3>3, <3>4
  <2>8. CASE LoopReturns
    <3>1. /\ UNCHANGED <<configured, main, serve, listener, routes, ready, slept, inflight>>
          /\ loop' = "done" /\ sigs' = FALSE /\ errChan' \in {errChan, "nil"}
      BY <2>8 DEF LoopReturns, Report
    <3>2. Texts'
      BY <1>0, <3>1
    <3>3. Truths'
      BY <1>0, <3>1
    <3>4. Counts'
      BY <1>0, <3>1
    <3>5. QED
      BY <3>2, <3>3, <3>4
  <2>9. CASE Signal /\ ~End("killed")
    <3>1. /\ UNCHANGED <<configured, main, serve, loop, errChan, listener, routes, ready,
                         slept, inflight>>
          /\ sigs' = TRUE
      BY <2>9 DEF Signal
    <3>2. Texts'
      BY <1>0, <3>1
    <3>3. Truths'
      BY <1>0, <3>1
    <3>4. Counts'
      BY <1>0, <3>1
    <3>5. QED
      BY <3>2, <3>3, <3>4
  <2>10. CASE UNCHANGED vars
    BY <1>0, <2>10 DEF vars
  <2>11. CASE SideServerEnds
    BY <1>0, <2>11 DEF SideServerEnds
  <2>12. QED
    BY <2>1, <2>2, <2>3, <2>4, <2>5, <2>6, <2>7, <2>8, <2>9, <2>10, <2>11
       DEF Next, MainSteps, LoopSteps, StartFails, RunFails, MainReturns, Fatal
<1>2. Side'
  <2>1. Side
    BY DEF IInv, TypeOK
  <2>2. CASE fallen' \in {fallen, {}} \/ UNCHANGED vars
    BY <2>1, <2>2 DEF vars
  <2>3. CASE SideServerEnds
    BY <2>1, <2>3 DEF SideServerEnds
  <2>4. CASE StartStep \/ StartFails \/ MainSteps
    BY <2>2, <2>4 DEF StartStep, StartFails, MainSteps, Run, RunReturns, RunFails, ShutdownCloses,
       ShutdownReturns, StopPart, MainReturns, Fatal, End
  <2>5. CASE ServeStarts \/ ServeFails \/ LoopSteps
    BY <2>2, <2>5 DEF ServeStarts, ServeFails, LoopSteps, LoopStarts, Subscribe, Signalled,
       Sleep, LoopReturns
  <2>6. CASE Signal \/ RequestStarts \/ RequestEnds
    BY <2>2, <2>6 DEF Signal, RequestStarts, RequestEnds, End
  <2>7. QED
    BY <2>2, <2>3, <2>4, <2>5, <2>6 DEF Next
<1>3. main' = "running" => routes' /\ "instrumentation" \in up'
  BY ServedStep DEF Served
<1>4. QED
  BY <1>1, <1>2, <1>3, DefersStep DEF TypeOK

\* The strengthening holds throughout.
LEMMA InductiveInvariant == Spec => []IInv
<1>1. ASSUME IInv, [Next]_vars PROVE IInv'
  BY <1>1, TypeStep, DefersStep, StartedStep, ServedStep, DrainedStep DEF IInv
<1>2. QED
  BY <1>1, InitIInv, PTL DEF Spec

-----------------------------------------------------------------------------
(* Theorems *)

\* The process's state keeps its types; the parts that are up are the ones whose
\* stop Main has deferred, and Main serves with its routes and metrics only.
THEOREM TypeCorrect == Spec => []TypeOK
<1>1. IInv => TypeOK
  BY DEF IInv
<1>2. QED
  BY <1>1, InductiveInvariant, PTL

\* While the readiness handler reports ready, the routes are registered and
\* connections are accepted, unless accepting has failed, for every delay.
THEOREM ReadyServes == Spec => []ReadyMeansServing
<1>1. IInv => ReadyMeansServing
  <2> SUFFICES ASSUME IInv, ready PROVE routes /\ (listener \/ serve = "failed")
    BY DEF ReadyMeansServing
  <2>1. main = "running"
    BY DEF IInv, TypeOK, Started, Drained, Alive
  <2>2. QED
    BY <2>1 DEF IInv, Served
<1>2. QED
  BY <1>1, InductiveInvariant, PTL

\* Metrics can be scraped as long as requests are accepted, unless the
\* instrumentation server has ended by itself: no order of Main's steps, of a
\* signal and of a serving error takes them away before.
THEOREM MetricsOutliveServing == Spec => []MetricsWhileServing
<1>1. IInv => MetricsWhileServing
  <2> SUFFICES ASSUME IInv, serve = "serving", Alive PROVE "instrumentation" \in up
    BY DEF MetricsWhileServing, Scrapable
  <2>1. main \in {"running", "shutting"}
    BY DEF IInv, TypeOK, Started, Served, Alive
  <2>2. QED
    BY <2>1 DEF IInv, Served
<1>2. QED
  BY <1>1, InductiveInvariant, PTL

\* The listener closes on purpose only when the gateway has been not-ready for
\* the whole shutdown delay, whatever the delay is.
THEOREM ListenerClosesLast == Spec => DrainsFirst
<1> DEFINE Step == listener /\ serve # "closed" /\ serve' = "closed" => ~ready /\ slept = Delay
<1>1. ASSUME IInv, [Next]_vars PROVE [Step]_vars
  <2> SUFFICES ASSUME Next, serve # "closed", serve' = "closed" PROVE ~ready /\ slept = Delay
    BY <1>1
  <2>1. ShutdownCloses
    BY DEF Next, MainSteps, LoopSteps, StartStep, Run, RunReturns, RunFails, ShutdownCloses,
       ShutdownReturns, StopPart, MainReturns, StartFails, Fatal, End, ServeStarts, ServeFails,
       SideServerEnds, LoopStarts, Subscribe, Signalled, Sleep, LoopReturns, Signal,
       RequestStarts, RequestEnds
  <2>2. main = "shutting"
    BY <2>1 DEF ShutdownCloses
  <2>3. QED
    BY <1>1, <2>2 DEF IInv, Drained
<1>2. QED
  BY <1>1, InductiveInvariant, PTL DEF Spec, DrainsFirst
==============================================================================
