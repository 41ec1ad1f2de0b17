---------------------------- MODULE LimitsProofs ----------------------------
(* Proofs about the two limiters: the counter of requests in flight is exact *)
(* and the limit is kept, idle connections are forgotten, and a connection   *)
(* in use is told to close, for any number of requests and connections.      *)
EXTENDS Limits, FiniteSetTheorems, TLAPS

\* The requests inside the request limiter, and those that are served.
Inside == {r \in Requests : pc[r] \in {"counted", "serving"}}

Serving == {r \in Requests : pc[r] = "serving"}

\* A request has an address from its arrival on, and holds a state while it
\* judges it; without a maximum TTL no state is looked up.
Places ==
    /\ \A r \in Requests : pc[r] # "new" => conn[r] \in Conns
    /\ \A r \in Requests : pc[r] = "judging" => held[r] \in States
    /\ cfg.maxTTL = 0 =>
          /\ DOMAIN connections = {}
          /\ \A r \in Requests : pc[r] \notin {"arrived", "locking", "judging", "deleting"}

\* What is noted of a connection lies in the past.
Past ==
    /\ \A c \in Conns :
          since[c] <= now /\ lastRequest[c] <= now /\ lastStamp[c] <= lastRequest[c]
    /\ \A r \in Requests : stamp[r] <= now

\* The longer ago a state's latest lookup, the sooner the next sweep.
Swept ==
    \A c \in DOMAIN connections :
        now - lastRequest[c] + phase <= cfg.maxTTL + Frequency

\* A tracked state is at least as old as the use of its address, and so is a
\* state a request has looked up.
Tracked ==
    /\ \A c \in DOMAIN connections :
          /\ connections[c].created <= since[c]
          /\ connections[c].ttl <= cfg.maxTTL
          /\ connections[c].lastSeen = lastStamp[c]
    /\ \A r \in Requests : pc[r] = "judging" =>
          /\ held[r].created <= since[conn[r]]
          /\ held[r].ttl <= cfg.maxTTL

\* An address has no state only if it was told to close, or the time noted of
\* its latest lookup is long past.
Missing == \A c \in Conns \ DOMAIN connections : Restarts(c)

\* The counter is exact; without a limit it is not used.
Counted ==
    /\ cfg.limit > 0 => /\ inFlightRequests = Cardinality(Inside)
                        /\ Cardinality(Serving) <= cfg.limit
    /\ cfg.limit <= 0 => inFlightRequests = 0

ConnInv == Places /\ Past /\ Swept /\ Tracked /\ Missing

IInv == TypeOK /\ ConnInv /\ Counted

-----------------------------------------------------------------------------
(* Lemmas about the operators *)

\* The constructor leaves limits of the TTL that are in order and not negative.
LEMMA AcceptedConfig ==
    ASSUME NEW c \in Accepted
    PROVE  /\ c.minTTL \in Nat /\ c.maxTTL \in Nat /\ c.minTTL <= c.maxTTL
           /\ c.limit \in Int
<1>1. PICK d \in Configs : c = Effective(d)
  BY DEF Accepted
<1>2. d \in [minTTL : Int, maxTTL : Int, limit : Int]
  BY LimitsAssumption
<1>3. c.minTTL <= c.maxTTL
  BY DEF Accepted
<1>4. /\ c.minTTL = Clamp(d.minTTL) /\ c.maxTTL = Clamp(d.maxTTL)
      /\ c.limit = d.limit
  BY <1>1, <1>2 DEF Effective
<1>5. Clamp(d.minTTL) \in Nat /\ Clamp(d.maxTTL) \in Nat
  BY <1>2 DEF Clamp
<1>6. QED
  BY <1>2, <1>3, <1>4, <1>5

\* A remainder lies strictly below the divisor, whatever the sign of the hash.
LEMMA RemainderBound ==
    ASSUME NEW a \in Int, NEW b \in Nat \ {0}
    PROVE  Remainder(a, b) \in Int /\ Remainder(a, b) <= b - 1
<1>1. CASE a >= 0
  <2>1. a % b \in 0 .. b - 1
    BY <1>1
  <2>2. QED
    BY <1>1, <2>1 DEF Remainder
<1>2. CASE a < 0
  <2>1. (-a) % b \in 0 .. b - 1
    BY <1>2
  <2>2. QED
    BY <1>2, <2>1 DEF Remainder
<1>3. QED
  BY <1>1, <1>2

\* The TTL of a connection never exceeds the maximum.
LEMMA TTLBound ==
    ASSUME cfg \in Accepted, NEW c \in Conns
    PROVE  CalculateTTL(c) \in Int /\ CalculateTTL(c) <= cfg.maxTTL
<1>1. cfg.minTTL \in Nat /\ cfg.maxTTL \in Nat /\ cfg.minTTL <= cfg.maxTTL
  BY AcceptedConfig
<1>2. Hash[c] \in Int
  BY LimitsAssumption
<1> DEFINE b == cfg.maxTTL + 1 - cfg.minTTL
<1>3. b \in Nat \ {0}
  BY <1>1
<1>4. Remainder(Hash[c], b) \in Int /\ Remainder(Hash[c], b) <= b - 1
  BY <1>2, <1>3, RemainderBound
<1>5. QED
  BY <1>1, <1>4 DEF CalculateTTL

-----------------------------------------------------------------------------
(* Initial states *)

\* The invariant holds when the limiters are constructed.
LEMMA InitIInv == Init => IInv
<1> SUFFICES ASSUME Init PROVE IInv
  OBVIOUS
<1>1. /\ cfg.minTTL \in Nat /\ cfg.maxTTL \in Nat /\ cfg.limit \in Int
  BY AcceptedConfig DEF Init
<1>2. Cardinality(Requests) \in Nat
  BY LimitsAssumption, FS_CardinalityType
<1>3. TypeOK
  BY <1>2, LimitsAssumption DEF Init, TypeOK, Times
<1>4. ConnInv
  BY <1>1, LimitsAssumption DEF Init, ConnInv, Places, Past, Swept, Tracked, Missing, Restarts
<1>5. Inside = {} /\ Serving = {}
  BY DEF Init, Inside, Serving
<1>6. Counted
  BY <1>1, <1>5, FS_EmptySet DEF Init, Counted
<1>7. QED
  BY <1>3, <1>4, <1>6 DEF IInv
-----------------------------------------------------------------------------
(* Steps *)

\* What the steps need of the types.
LEMMA Basics ==
    ASSUME TypeOK
    PROVE  /\ cfg.minTTL \in Nat /\ cfg.maxTTL \in Nat /\ cfg.limit \in Int
           /\ now \in Nat /\ now <= Horizon /\ Horizon \in Nat
           /\ Frequency \in Nat /\ phase \in Nat /\ phase <= Frequency
           /\ \A c \in Conns :
                 since[c] \in Nat /\ lastRequest[c] \in Nat /\ lastStamp[c] \in Nat
           /\ \A r \in Requests : stamp[r] \in Nat
           /\ \A c \in DOMAIN connections :
                 /\ c \in Conns /\ connections[c] \in States
                 /\ connections[c].created \in Nat /\ connections[c].lastSeen \in Nat
                 /\ connections[c].ttl \in Int
<1>1. cfg.minTTL \in Nat /\ cfg.maxTTL \in Nat /\ cfg.limit \in Int
  BY AcceptedConfig DEF TypeOK
<1>2. QED
  BY <1>1, LimitsAssumption DEF TypeOK, Times, States

\* The state a lookup leaves: the time read before is noted, and the age of a
\* state that was there is kept.
LEMMA LookedUp ==
    ASSUME TypeOK, ConnInv, NEW r \in Requests, ConnectionState(r)
    PROVE  \E s \in States :
              /\ conn[r] \in Conns
              /\ DOMAIN connections' = DOMAIN connections \cup {conn[r]}
              /\ connections'[conn[r]] = s
              /\ \A c \in DOMAIN connections \ {conn[r]} : connections'[c] = connections[c]
              /\ held' = [held EXCEPT ![r] = s]
              /\ s.lastSeen = stamp[r] /\ s.created <= now /\ s.ttl <= cfg.maxTTL
              /\ s.created <= since'[conn[r]]
              /\ since'[conn[r]] \in {since[conn[r]], now}
              /\ \A c \in Conns \ {conn[r]} : since'[c] = since[c]
              /\ since' \in [Conns -> Times]
<1> DEFINE c == conn[r]
           t == stamp[r]
           new == [ttl |-> CalculateTTL(c), created |-> t, lastSeen |-> t]
           s == IF c \in DOMAIN connections THEN Seen(connections[c], t) ELSE new
<1>1. c \in Conns
  BY DEF ConnInv, Places, ConnectionState
<1>2. CalculateTTL(c) \in Int /\ CalculateTTL(c) <= cfg.maxTTL
  BY <1>1, TTLBound DEF TypeOK
<1>0. t \in Times /\ t <= now
  BY DEF TypeOK, ConnInv, Past
<1>3. since' = IF Restarts(c) THEN [since EXCEPT ![c] = now] ELSE since
  BY DEF ConnectionState
<1>4. /\ since' \in [Conns -> Times]
      /\ since'[c] \in {since[c], now}
      /\ \A d \in Conns \ {c} : since'[d] = since[d]
  BY <1>1, <1>3 DEF TypeOK
<1>5. /\ connections' = [d \in DOMAIN connections \cup {c} |->
                              IF d = c THEN s ELSE connections[d]]
      /\ held' = [held EXCEPT ![r] = s]
  BY DEF ConnectionState
<1>6. /\ DOMAIN connections' = DOMAIN connections \cup {c}
      /\ connections'[c] = s
      /\ \A d \in DOMAIN connections \ {c} : connections'[d] = connections[d]
  <2> HIDE DEF s, c
  <2> QED
    BY <1>5
<1>7. CASE c \in DOMAIN connections
  <2>1. s = [connections[c] EXCEPT !.lastSeen = t]
    BY <1>7 DEF Seen
  <2>2. /\ connections[c] \in States
        /\ connections[c].created <= since[c] /\ connections[c].ttl <= cfg.maxTTL
    BY <1>7 DEF TypeOK, ConnInv, Tracked
  <2>3. /\ s \in States /\ s.lastSeen = t
        /\ s.created = connections[c].created /\ s.ttl = connections[c].ttl
    <3> HIDE DEF s, c, t
    <3> QED
      BY <1>0, <2>1, <2>2, Basics DEF States, TypeOK
  <2>4. since[c] <= now /\ since[c] \in Nat /\ now \in Nat
    BY <1>1, Basics DEF ConnInv, Past
  <2>5. s.created <= since'[c] /\ s.created <= now
    <3>1. connections[c].created \in Nat
      BY <1>7, Basics
    <3> HIDE DEF s, c
    <3> QED
      BY <2>2, <2>3, <2>4, <1>4, <3>1
  <2> HIDE DEF s
  <2> QED
    BY <1>1, <1>4, <1>5, <1>6, <2>2, <2>3, <2>5
<1>8. CASE c \notin DOMAIN connections
  <2>1. s = new
    BY <1>8
  <2>2. s \in States /\ s.lastSeen = t /\ s.created = t /\ s.ttl = CalculateTTL(c)
    BY <2>1, <1>0, <1>2 DEF States, TypeOK
  <2>3. Restarts(c)
    BY <1>1, <1>8 DEF ConnInv, Missing
  <2>4. since'[c] = now
    BY <1>1, <1>3, <2>3 DEF TypeOK
  <2>5. s.created <= now /\ s.ttl <= cfg.maxTTL /\ s.created <= since'[c]
    <3>1. now \in Nat /\ t \in Nat
      BY Basics
    <3> HIDE DEF s, c, t
    <3> QED
      BY <1>0, <1>2, <2>2, <2>4, <3>1
  <2> HIDE DEF s
  <2> QED
    BY <1>1, <1>4, <1>5, <1>6, <2>2, <2>5
<1>9. QED
  BY <1>7, <1>8

\* Each step keeps the types, given the exact counter.
LEMMA TypeNext == IInv /\ [Next]_vars => TypeOK'
<1> SUFFICES ASSUME IInv, [Next]_vars PROVE TypeOK'
  OBVIOUS
<1> USE DEF IInv
<1>c. /\ IsFiniteSet(Requests) /\ Cardinality(Requests) \in Nat
  BY LimitsAssumption, FS_CardinalityType
<1>1. ASSUME NEW r \in Requests, Arrive(r) PROVE TypeOK'
  BY <1>1 DEF TypeOK, Arrive, connVars, ghosts
<1>12. ASSUME NEW r \in Requests, ReadClock(r) PROVE TypeOK'
  BY <1>12 DEF TypeOK, ReadClock, ghosts
<1>2. ASSUME NEW r \in Requests, ConnectionState(r) PROVE TypeOK'
  <2>1. PICK s \in States :
              /\ conn[r] \in Conns
              /\ DOMAIN connections' = DOMAIN connections \cup {conn[r]}
              /\ connections'[conn[r]] = s
              /\ \A c \in DOMAIN connections \ {conn[r]} : connections'[c] = connections[c]
              /\ held' = [held EXCEPT ![r] = s]
              /\ s.lastSeen = stamp[r] /\ s.created <= now
              /\ since' \in [Conns -> Times]
    BY <1>2, LookedUp
  <2>2. /\ pc' = [pc EXCEPT ![r] = "judging"]
        /\ stamp' = [stamp EXCEPT ![r] = 0]
        /\ lastRequest' = [lastRequest EXCEPT ![conn[r]] = now]
        /\ lastStamp' = [lastStamp EXCEPT ![conn[r]] = stamp[r]]
        /\ told' = told \ {conn[r]}
        /\ UNCHANGED <<cfg, now, phase, conn, close, inFlightRequests, birth>>
    BY <1>2 DEF ConnectionState
  <2>3. 0 \in Times
    BY LimitsAssumption DEF Times
  <2>4. QED
    BY <2>1, <2>2, <2>3 DEF TypeOK
<1>3. ASSUME NEW r \in Requests, Judge(r) PROVE TypeOK'
  BY <1>3 DEF TypeOK, Judge, ghosts
<1>4. ASSUME NEW r \in Requests, Delete(r) PROVE TypeOK'
  BY <1>4 DEF TypeOK, Delete, ConnInv, Places
<1>5. ASSUME NEW r \in Requests, Count(r) PROVE TypeOK'
  <2>1. CASE cfg.limit <= 0
    BY <1>5, <2>1, Basics DEF TypeOK, Count, connVars, ghosts
  <2>2. CASE cfg.limit > 0
    <3>1. /\ inFlightRequests' = inFlightRequests + 1
          /\ pc' = [pc EXCEPT ![r] = IF inFlightRequests' > cfg.limit
                                     THEN "counted" ELSE "serving"]
          /\ pc[r] = "passed"
          /\ UNCHANGED <<cfg, now, connVars, conn, birth, ghosts>>
      BY <1>5, <2>2, Basics DEF Count
    <3>2. inFlightRequests = Cardinality(Inside)
      BY <2>2 DEF Counted
    <3>3. /\ Inside \cup {r} \subseteq Requests /\ r \notin Inside
      BY <3>1 DEF Inside
    <3>4. /\ IsFiniteSet(Inside)
          /\ Cardinality(Inside \cup {r}) = Cardinality(Inside) + 1
          /\ Cardinality(Inside \cup {r}) <= Cardinality(Requests)
      BY <1>c, <3>3, FS_Subset, FS_AddElement
    <3>5. inFlightRequests' \in 0 .. Cardinality(Requests)
      BY <3>1, <3>2, <3>4, <1>c DEF TypeOK
    <3>6. QED
      BY <3>1, <3>5 DEF TypeOK, connVars, ghosts
  <2>3. QED
    BY <2>1, <2>2, Basics
<1>6. ASSUME NEW r \in Requests, Return(r) PROVE TypeOK'
  <2>1. inFlightRequests' \in 0 .. Cardinality(Requests)
    <3>1. CASE cfg.limit <= 0
      BY <1>6, <3>1 DEF Return, TypeOK
    <3>2. CASE cfg.limit > 0
      <4>1. r \in Inside /\ Inside \subseteq Requests
        BY <1>6 DEF Return, Inside
      <4>2. IsFiniteSet(Inside) /\ Cardinality(Inside) \in Nat
        BY <1>c, <4>1, FS_Subset, FS_CardinalityType
      <4>3. Cardinality(Inside) # 0
        BY <4>1, <4>2, FS_EmptySet
      <4>4. inFlightRequests' = inFlightRequests - 1 /\ inFlightRequests = Cardinality(Inside)
        BY <1>6, <3>2, Basics DEF Return, Release, Counted
      <4>5. QED
        BY <4>2, <4>3, <4>4, <1>c DEF TypeOK
    <3>3. QED
      BY <3>1, <3>2, Basics
  <2>2. QED
    BY <1>6, <2>1 DEF TypeOK, Return, ghosts
<1>7. ASSUME NEW c \in Conns, Reconnect(c) PROVE TypeOK'
  BY <1>7 DEF TypeOK, Reconnect, connVars, ghosts
<1>8. CASE Sweep
  BY <1>8, LimitsAssumption DEF TypeOK, Sweep, ghosts
<1>9. CASE Tick
  BY <1>9, LimitsAssumption, Basics DEF TypeOK, Tick, ghosts, Times
<1>10. CASE UNCHANGED vars
  BY <1>10 DEF TypeOK, vars, connVars, ghosts
<1>11. QED
  BY <1>1, <1>2, <1>3, <1>4, <1>5, <1>6, <1>7, <1>8, <1>9, <1>10, <1>12 DEF Next

\* Each step keeps the counter exact: a request enters the limiter with one
\* increment, and is served only if the limit is not exceeded by it.
LEMMA CountedNext == IInv /\ [Next]_vars => Counted'
<1> SUFFICES ASSUME IInv, [Next]_vars PROVE Counted'
  OBVIOUS
<1> USE DEF IInv
<1>c. /\ IsFiniteSet(Requests) /\ IsFiniteSet(Inside) /\ Cardinality(Inside) \in Nat
      /\ IsFiniteSet(Serving) /\ Cardinality(Serving) \in Nat
      /\ Serving \subseteq Inside /\ Inside \subseteq Requests
  <2>1. Serving \subseteq Inside /\ Inside \subseteq Requests
    BY DEF Inside, Serving
  <2>2. QED
    BY <2>1, LimitsAssumption, FS_CardinalityType, FS_Subset
<1>l. cfg.limit \in Int
  BY Basics
<1>u. ASSUME UNCHANGED <<cfg, inFlightRequests>>, Inside' = Inside, Serving' = Serving
      PROVE  Counted'
  BY <1>u DEF Counted
<1>1. ASSUME NEW r \in Requests, Arrive(r) PROVE Counted'
  BY <1>1, <1>u DEF TypeOK, Arrive, Inside, Serving
<1>12. ASSUME NEW r \in Requests, ReadClock(r) PROVE Counted'
  BY <1>12, <1>u DEF TypeOK, ReadClock, Inside, Serving
<1>2. ASSUME NEW r \in Requests, ConnectionState(r) PROVE Counted'
  <2>1. /\ UNCHANGED <<cfg, inFlightRequests>> /\ pc[r] = "locking"
        /\ pc' = [pc EXCEPT ![r] = "judging"]
    BY <1>2 DEF ConnectionState
  <2>2. QED
    BY <2>1, <1>u DEF TypeOK, Inside, Serving
<1>3. ASSUME NEW r \in Requests, Judge(r) PROVE Counted'
  BY <1>3, <1>u DEF TypeOK, Judge, Inside, Serving
<1>4. ASSUME NEW r \in Requests, Delete(r) PROVE Counted'
  BY <1>4, <1>u DEF TypeOK, Delete, Inside, Serving
<1>5. ASSUME NEW r \in Requests, Count(r) PROVE Counted'
  <2>1. CASE cfg.limit <= 0
    BY <1>5, <2>1, <1>l DEF TypeOK, Count, Counted
  <2>2. CASE cfg.limit > 0
    <3>1. /\ inFlightRequests' = inFlightRequests + 1
          /\ pc' = [pc EXCEPT ![r] = IF inFlightRequests' > cfg.limit
                                     THEN "counted" ELSE "serving"]
          /\ pc[r] = "passed" /\ cfg' = cfg
      BY <1>5, <2>2, <1>l DEF Count
    <3>2. inFlightRequests = Cardinality(Inside) /\ Cardinality(Serving) <= cfg.limit
      BY <2>2 DEF Counted
    <3>3. r \notin Inside /\ Inside' = Inside \cup {r}
      BY <3>1 DEF Inside, TypeOK
    <3>4. Cardinality(Inside') = Cardinality(Inside) + 1 /\ IsFiniteSet(Inside')
      BY <1>c, <3>3, FS_AddElement
    <3>5. Cardinality(Serving') <= cfg.limit
      <4>1. CASE inFlightRequests' > cfg.limit
        <5>1. Serving' = Serving
          BY <3>1, <4>1 DEF Serving, TypeOK
        <5>2. QED
          BY <5>1, <3>2
      <4>2. CASE inFlightRequests' <= cfg.limit
        <5>1. Serving' \subseteq Inside'
          BY DEF Serving, Inside
        <5>2. Cardinality(Serving') <= Cardinality(Inside') /\ Cardinality(Serving') \in Nat
          BY <5>1, <3>4, FS_Subset, FS_CardinalityType
        <5>3. QED
          BY <5>2, <4>2, <3>1, <3>2, <3>4, <1>c, <1>l
      <4>3. QED
        BY <4>1, <4>2, <3>1, <3>2, <1>c, <1>l
    <3>6. QED
      BY <2>2, <3>1, <3>2, <3>4, <3>5, <1>l DEF Counted
  <2>3. QED
    BY <2>1, <2>2, <1>l
<1>6. ASSUME NEW r \in Requests, Return(r) PROVE Counted'
  <2>1. CASE cfg.limit <= 0
    BY <1>6, <2>1, <1>l DEF Return, Counted
  <2>2. CASE cfg.limit > 0
    <3>1. /\ inFlightRequests' = inFlightRequests - 1 /\ cfg' = cfg
          /\ pc[r] \in {"counted", "serving"} /\ pc' = [pc EXCEPT ![r] = "new"]
      BY <1>6, <2>2, <1>l DEF Return, Release
    <3>2. r \in Inside /\ Inside' = Inside \ {r} /\ Serving' \subseteq Serving
      BY <3>1 DEF Inside, Serving, TypeOK
    <3>3. Cardinality(Inside') = Cardinality(Inside) - 1
      BY <3>2, <1>c, FS_RemoveElement
    <3>4. Cardinality(Serving') <= Cardinality(Serving) /\ Cardinality(Serving') \in Nat
      BY <3>2, <1>c, FS_Subset, FS_CardinalityType
    <3>5. QED
      BY <2>2, <3>1, <3>3, <3>4, <1>c, <1>l DEF Counted
  <2>3. QED
    BY <2>1, <2>2, <1>l
<1>7. ASSUME NEW c \in Conns, Reconnect(c) PROVE Counted'
  BY <1>7, <1>u DEF Reconnect, Inside, Serving
<1>8. CASE Sweep
  BY <1>8, <1>u DEF Sweep, Inside, Serving
<1>9. CASE Tick
  BY <1>9, <1>u DEF Tick, Inside, Serving
<1>10. CASE UNCHANGED vars
  BY <1>10, <1>u DEF vars, Inside, Serving
<1>11. QED
  BY <1>1, <1>2, <1>3, <1>4, <1>5, <1>6, <1>7, <1>8, <1>9, <1>10, <1>12 DEF Next

\* A step that does not look up, judge or end a state keeps what is known of
\* the connections.
LEMMA ConnUnchanged ==
    ASSUME ConnInv, UNCHANGED <<cfg, now, connections, phase, held, conn, ghosts>>,
           \A r \in Requests : stamp'[r] <= now,
           \A r \in Requests : pc'[r] = "judging" => pc[r] = "judging",
           \A r \in Requests : pc'[r] # "new" => pc[r] # "new",
           \A r \in Requests : pc'[r] \in {"arrived", "locking", "judging", "deleting"}
               => pc[r] \in {"arrived", "locking", "judging", "deleting"}
    PROVE  ConnInv'
BY DEF ConnInv, Places, Past, Swept, Tracked, Missing, Restarts, ghosts

\* Each step keeps what is known of the connections.
LEMMA ConnNext == IInv /\ [Next]_vars => ConnInv'
<1> SUFFICES ASSUME IInv, [Next]_vars PROVE ConnInv'
  OBVIOUS
<1> USE DEF IInv
<1>1. ASSUME NEW r \in Requests, Arrive(r) PROVE ConnInv'
  <2>1. PICK c \in Conns : conn' = [conn EXCEPT ![r] = c]
    BY <1>1 DEF Arrive
  <2>2. /\ pc[r] = "new"
        /\ pc' = [pc EXCEPT ![r] = IF cfg.maxTTL <= 0 THEN "passed" ELSE "arrived"]
        /\ UNCHANGED <<cfg, now, connections, phase, stamp, held, ghosts>>
    BY <1>1 DEF Arrive, connVars
  <2>3. cfg.maxTTL \in Nat
    BY Basics
  <2>4. Places'
    BY <2>1, <2>2, <2>3 DEF ConnInv, Places, TypeOK
  <2>5. Tracked'
    BY <2>1, <2>2 DEF ConnInv, Tracked, TypeOK, ghosts
  <2>6. Past' /\ Swept' /\ Missing'
    BY <2>2 DEF ConnInv, Past, Swept, Missing, Restarts, ghosts
  <2>7. QED
    BY <2>4, <2>5, <2>6 DEF ConnInv
<1>12. ASSUME NEW r \in Requests, ReadClock(r) PROVE ConnInv'
  <2>1. /\ pc[r] = "arrived" /\ pc' = [pc EXCEPT ![r] = "locking"]
        /\ stamp' = [stamp EXCEPT ![r] = now]
        /\ UNCHANGED <<cfg, now, connections, phase, held, conn, ghosts>>
    BY <1>12 DEF ReadClock
  <2>2. \A q \in Requests : stamp'[q] <= now
    BY <2>1, Basics DEF ConnInv, Past, TypeOK
  <2>3. QED
    BY <2>1, <2>2, ConnUnchanged DEF TypeOK
<1>2. ASSUME NEW r \in Requests, ConnectionState(r) PROVE ConnInv'
  <2>1. PICK s \in States :
              /\ conn[r] \in Conns
              /\ DOMAIN connections' = DOMAIN connections \cup {conn[r]}
              /\ connections'[conn[r]] = s
              /\ \A c \in DOMAIN connections \ {conn[r]} : connections'[c] = connections[c]
              /\ held' = [held EXCEPT ![r] = s]
              /\ s.lastSeen = stamp[r] /\ s.created <= now /\ s.ttl <= cfg.maxTTL
              /\ s.created <= since'[conn[r]]
              /\ since'[conn[r]] \in {since[conn[r]], now}
              /\ \A c \in Conns \ {conn[r]} : since'[c] = since[c]
              /\ since' \in [Conns -> Times]
    BY <1>2, LookedUp
  <2>2. /\ pc[r] = "locking" /\ pc' = [pc EXCEPT ![r] = "judging"]
        /\ stamp' = [stamp EXCEPT ![r] = 0]
        /\ lastRequest' = [lastRequest EXCEPT ![conn[r]] = now]
        /\ lastStamp' = [lastStamp EXCEPT ![conn[r]] = stamp[r]]
        /\ told' = told \ {conn[r]}
        /\ UNCHANGED <<cfg, now, phase, conn>>
    BY <1>2 DEF ConnectionState
  <2>3. /\ cfg.maxTTL \in Nat /\ now \in Nat /\ phase \in Nat /\ Frequency \in Nat
        /\ phase <= Frequency
        /\ \A c \in Conns : since[c] \in Nat /\ lastRequest[c] \in Nat
        /\ stamp[r] \in Nat /\ stamp[r] <= now
    BY Basics DEF ConnInv, Past
  <2>4. \A c \in Conns : since'[c] <= now /\ since[c] <= since'[c] /\ since'[c] \in Nat
    BY <2>1, <2>3 DEF ConnInv, Past
  <2>5. Places'
    BY <2>1, <2>2 DEF ConnInv, Places, TypeOK
  <2>6. Past'
    BY <2>1, <2>2, <2>3, <2>4 DEF ConnInv, Past, TypeOK
  <2>7. Swept'
    BY <2>1, <2>2, <2>3 DEF ConnInv, Swept, TypeOK
  <2>8. Tracked'
    <3>1. ASSUME NEW c \in DOMAIN connections'
          PROVE  /\ connections'[c].created <= since'[c]
                 /\ connections'[c].ttl <= cfg'.maxTTL
                 /\ connections'[c].lastSeen = lastStamp'[c]
      <4>1. CASE c = conn[r]
        BY <4>1, <2>1, <2>2 DEF TypeOK
      <4>2. CASE c # conn[r]
        <5>1. /\ c \in DOMAIN connections /\ c \in Conns /\ connections'[c] = connections[c]
              /\ since'[c] = since[c] /\ lastStamp'[c] = lastStamp[c]
          BY <4>2, <2>1, <2>2 DEF TypeOK
        <5>2. QED
          BY <5>1, <2>2 DEF ConnInv, Tracked
      <4>3. QED
        BY <4>1, <4>2
    <3>2. ASSUME NEW q \in Requests, pc'[q] = "judging"
          PROVE  held'[q].created <= since'[conn'[q]] /\ held'[q].ttl <= cfg'.maxTTL
      <4>1. CASE q = r
        BY <4>1, <2>1, <2>2 DEF TypeOK
      <4>2. CASE q # r
        <5>1. pc[q] = "judging" /\ held'[q] = held[q] /\ conn'[q] = conn[q]
          BY <4>2, <3>2, <2>1, <2>2 DEF TypeOK
        <5>2. /\ held[q].created <= since[conn[q]] /\ held[q].ttl <= cfg.maxTTL
              /\ held[q] \in States /\ conn[q] \in Conns
          BY <5>1 DEF ConnInv, Tracked, Places
        <5>3. held[q].created \in Nat
          BY <5>2, LimitsAssumption DEF States, Times
        <5>4. held[q].created <= since'[conn[q]]
          BY <5>2, <5>3, <2>3, <2>4
        <5>5. QED
          BY <5>1, <5>2, <5>4, <2>2
      <4>3. QED
        BY <4>1, <4>2
    <3>3. QED
      BY <3>1, <3>2 DEF Tracked
  <2>9. Missing'
    BY <2>1, <2>2 DEF ConnInv, Missing, Restarts, TypeOK
  <2>10. QED
    BY <2>5, <2>6, <2>7, <2>8, <2>9 DEF ConnInv
<1>3. ASSUME NEW r \in Requests, Judge(r) PROVE ConnInv'
  <2>1. /\ pc[r] = "judging"
        /\ pc' = [pc EXCEPT ![r] = IF IsExpired(held[r]) THEN "deleting" ELSE "passed"]
        /\ held' = [held EXCEPT ![r] = NoState]
        /\ UNCHANGED <<cfg, now, connections, phase, stamp, conn, ghosts>>
    BY <1>3 DEF Judge
  <2>2. \A q \in Requests : pc'[q] = "judging" => pc[q] = "judging" /\ held'[q] = held[q]
    BY <2>1 DEF TypeOK
  <2>3. Places'
    <3>1. \A q \in Requests : pc'[q] # "new" => conn[q] \in Conns
      BY <2>1 DEF ConnInv, Places, TypeOK
    <3>2. \A q \in Requests : pc'[q] \in {"arrived", "locking", "judging", "deleting"}
                                  => pc[q] \in {"arrived", "locking", "judging", "deleting"}
      BY <2>1 DEF TypeOK
    <3>3. QED
      BY <2>1, <2>2, <3>1, <3>2 DEF ConnInv, Places
  <2>4. Tracked'
    BY <2>1, <2>2 DEF ConnInv, Tracked, ghosts
  <2>5. Past' /\ Swept' /\ Missing'
    BY <2>1 DEF ConnInv, Past, Swept, Missing, Restarts, ghosts
  <2>6. QED
    BY <2>3, <2>4, <2>5 DEF ConnInv
<1>4. ASSUME NEW r \in Requests, Delete(r) PROVE ConnInv'
  <2>1. /\ pc[r] = "deleting" /\ pc' = [pc EXCEPT ![r] = "passed"]
        /\ connections' = [c \in DOMAIN connections \ {conn[r]} |-> connections[c]]
        /\ told' = told \cup {conn[r]}
        /\ UNCHANGED <<cfg, now, phase, stamp, conn, held, lastRequest, lastStamp, since>>
    BY <1>4 DEF Delete
  <2>2. Places'
    BY <2>1 DEF ConnInv, Places, TypeOK
  <2>3. Tracked'
    BY <2>1 DEF ConnInv, Tracked, TypeOK
  <2>4. Past' /\ Swept' /\ Missing'
    BY <2>1 DEF ConnInv, Past, Swept, Missing, Restarts, TypeOK
  <2>5. QED
    BY <2>2, <2>3, <2>4 DEF ConnInv
<1>5. ASSUME NEW r \in Requests, Count(r) PROVE ConnInv'
  <2>1. /\ \E x \in {"counted", "serving"} : pc' = [pc EXCEPT ![r] = x]
        /\ pc[r] = "passed"
        /\ UNCHANGED <<cfg, now, connections, phase, stamp, held, conn, ghosts>>
    BY <1>5 DEF Count, connVars
  <2>2. QED
    BY <2>1, ConnUnchanged DEF TypeOK, ConnInv, Past
<1>6. ASSUME NEW r \in Requests, Return(r) PROVE ConnInv'
  <2>1. /\ pc' = [pc EXCEPT ![r] = "new"] /\ conn' = [conn EXCEPT ![r] = NoConn]
        /\ UNCHANGED <<cfg, now, connections, phase, stamp, held, ghosts>>
    BY <1>6 DEF Return
  <2>2. Places' /\ Tracked'
    BY <2>1 DEF ConnInv, Places, Tracked, TypeOK, ghosts
  <2>3. Past' /\ Swept' /\ Missing'
    BY <2>1 DEF ConnInv, Past, Swept, Missing, Restarts, ghosts
  <2>4. QED
    BY <2>2, <2>3 DEF ConnInv
<1>7. ASSUME NEW c \in Conns, Reconnect(c) PROVE ConnInv'
  BY <1>7, ConnUnchanged DEF Reconnect, connVars, ConnInv, Past
<1>8. CASE Sweep
  <2>1. /\ phase = 0 /\ phase' = Frequency
        /\ DOMAIN connections' = {d \in DOMAIN connections : ~IsIdleExpired(connections[d])}
        /\ \A c \in DOMAIN connections' : connections'[c] = connections[c]
        /\ UNCHANGED <<cfg, now, pc, stamp, conn, held, ghosts>>
    BY <1>8 DEF Sweep
  <2>2. Places' /\ Past' /\ Tracked'
    BY <2>1 DEF ConnInv, Places, Past, Tracked, ghosts
  <2>3. Swept'
    BY <2>1, Basics DEF ConnInv, Past, Tracked, Swept, IsIdleExpired, ghosts
  <2>4. Missing'
    BY <2>1, Basics DEF ConnInv, Missing, Restarts, Tracked, IsIdleExpired, ghosts
  <2>5. QED
    BY <2>2, <2>3, <2>4 DEF ConnInv
<1>9. CASE Tick
  <2>1. /\ now' = now + 1 /\ phase' = IF cfg.maxTTL > 0 THEN phase - 1 ELSE phase
        /\ UNCHANGED <<cfg, connections, pc, stamp, conn, held, ghosts>>
    BY <1>9 DEF Tick
  <2>2. Places' /\ Tracked'
    BY <2>1 DEF ConnInv, Places, Tracked, ghosts
  <2>3. Past' /\ Missing'
    BY <2>1, Basics DEF ConnInv, Past, Missing, Restarts, ghosts
  <2>4. Swept'
    <3>1. SUFFICES ASSUME NEW c \in DOMAIN connections'
                   PROVE  now' - lastRequest'[c] + phase' <= cfg'.maxTTL + Frequency
      BY DEF Swept
    <3>0. c \in DOMAIN connections /\ lastRequest' = lastRequest /\ cfg' = cfg
      BY <2>1 DEF ghosts
    <3>2. cfg.maxTTL # 0 /\ cfg.maxTTL \in Nat
      BY <3>0, Basics DEF ConnInv, Places
    <3>3. now - lastRequest[c] + phase <= cfg.maxTTL + Frequency
      BY <3>0 DEF ConnInv, Swept
    <3>4. /\ now \in Nat /\ phase \in Nat /\ Frequency \in Nat
          /\ lastRequest[c] \in Nat
      BY <3>0, Basics
    <3>5. QED
      BY <2>1, <3>0, <3>2, <3>3, <3>4
  <2>5. QED
    BY <2>2, <2>3, <2>4 DEF ConnInv
<1>10. CASE UNCHANGED vars
  BY <1>10, ConnUnchanged DEF vars, connVars, ConnInv, Past
<1>11. QED
  BY <1>1, <1>2, <1>3, <1>4, <1>5, <1>6, <1>7, <1>8, <1>9, <1>10, <1>12 DEF Next

\* The invariant is inductive.
LEMMA InductiveInvariant == Spec => []IInv
<1>1. IInv /\ [Next]_vars => IInv'
  BY TypeNext, CountedNext, ConnNext DEF IInv
<1>2. QED
  BY InitIInv, <1>1, PTL DEF Spec

-----------------------------------------------------------------------------
(* Theorems *)

\* The limiters' variables keep their types; in particular the counter of
\* requests in flight, which every return decrements, never goes below zero.
THEOREM TypeCorrect == Spec => []TypeOK
BY InductiveInvariant, PTL DEF IInv

\* The counter is exactly the requests inside the limiter, and no more than
\* the limit of them are served, however increments, comparisons and deferred
\* decrements of request_limiter_middleware.go interleave.
THEOREM WithinLimit == Spec => []ServedWithinLimit
<1>1. IInv => ServedWithinLimit
  BY DEF IInv, Counted, Inside, Serving, ServedWithinLimit
<1>2. QED
  BY <1>1, InductiveInvariant, PTL

\* The sweep of connection_limiter_middleware.go forgets every connection at
\* most maxTTL and one period of its ticker after its latest lookup, although
\* lookups note the times they read in another order than they take the lock.
THEOREM NoLeak == Spec => []IdleForgotten
<1>1. IInv => IdleForgotten
  BY Basics DEF IInv, ConnInv, Swept, IdleForgotten
<1>2. QED
  BY <1>1, InductiveInvariant, PTL

\* A connection each of whose lookups comes at most maxTTL after the time the
\* one before it had read is told to close by every request later than maxTTL
\* after the first, although a lookup reads the clock, takes the lock, judges
\* and deletes in four steps.
THEOREM ClosedInTime == Spec => BusyClosed
<1>1. ASSUME IInv, [Next]_vars, NEW r \in Requests, pc[r] = "judging", pc'[r] = "passed"
      PROVE  now - since[conn[r]] <= cfg.maxTTL
  <2>1. Judge(r)
    <3>0. pc \in [Requests -> {"new", "arrived", "locking", "judging", "deleting",
                                "passed", "counted", "serving"}]
      BY <1>1 DEF IInv, TypeOK
    <3>1. ASSUME NEW q \in Requests, q # r \/ ~Judge(r)
          PROVE  /\ ~Arrive(q) /\ ~ReadClock(q) /\ ~ConnectionState(q) /\ ~Judge(q)
                 /\ ~Delete(q) /\ ~Count(q) /\ ~Return(q)
      <4>1. ASSUME Arrive(q) PROVE FALSE
        BY <1>1, <3>0, <4>1 DEF Arrive
      <4>8. ASSUME ReadClock(q) PROVE FALSE
        <5>1. pc' = [pc EXCEPT ![q] = "locking"]
          BY <4>8 DEF ReadClock
        <5>2. QED
          BY <1>1, <3>0, <5>1
      <4>2. ASSUME ConnectionState(q) PROVE FALSE
        <5>1. pc' = [pc EXCEPT ![q] = "judging"]
          BY <4>2 DEF ConnectionState
        <5>2. QED
          BY <1>1, <3>0, <5>1
      <4>3. ASSUME Judge(q) PROVE FALSE
        BY <1>1, <3>0, <3>1, <4>3 DEF Judge
      <4>4. ASSUME Delete(q) PROVE FALSE
        BY <1>1, <3>0, <4>4 DEF Delete
      <4>5. ASSUME Count(q) PROVE FALSE
        BY <1>1, <3>0, <4>5 DEF Count
      <4>6. ASSUME Return(q) PROVE FALSE
        BY <1>1, <3>0, <4>6 DEF Return
      <4>7. QED
        BY <4>1, <4>2, <4>3, <4>4, <4>5, <4>6, <4>8
    <3>2. ~Sweep /\ ~Tick /\ ~UNCHANGED vars /\ \A c \in Conns : ~Reconnect(c)
      BY <1>1 DEF Sweep, Tick, vars, Reconnect
    <3>3. QED
      BY <1>1, <3>1, <3>2 DEF Next
  <2>2. ~IsExpired(held[r])
    BY <1>1, <2>1 DEF Judge, IInv, TypeOK
  <2>3. /\ held[r] \in States /\ conn[r] \in Conns
        /\ held[r].created <= since[conn[r]] /\ held[r].ttl <= cfg.maxTTL
    BY <1>1 DEF IInv, ConnInv, Places, Tracked
  <2>4. /\ held[r].created \in Nat /\ held[r].ttl \in Int
        /\ now \in Nat /\ since[conn[r]] \in Nat /\ cfg.maxTTL \in Nat
    BY <1>1, <2>3, Basics, LimitsAssumption DEF States, Times, IInv
  <2>5. now - held[r].created <= held[r].ttl
    BY <2>2, <2>4 DEF IsExpired
  <2>6. QED
    BY <2>3, <2>4, <2>5
<1>2. IInv /\ [Next]_vars =>
         [\A r \in Requests :
             pc[r] = "judging" /\ pc'[r] = "passed" => now - since[conn[r]] <= cfg.maxTTL]_vars
  BY <1>1
<1>3. QED
  BY <1>2, InductiveInvariant, PTL DEF Spec, BusyClosed
=============================================================================
