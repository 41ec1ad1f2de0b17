------------------------------- MODULE Limits -------------------------------
(***************************************************************************)
(* Two middlewares a request passes one after the other: the limit on the  *)
(* lifetime of connections (connection_limiter_middleware.go), which       *)
(* answers "Connection: close" once a connection is older than its TTL,    *)
(* and the limit on requests in flight (request_limiter_middleware.go).    *)
(*                                                                         *)
(* A connection is known by its remote address only. HTTP/2 carries        *)
(* several requests of one connection at once, and the state of the        *)
(* connection is looked up, judged and deleted in three steps of which     *)
(* only the first and the last hold the lock. The clock is read before the *)
(* lock is taken, so that lookups may note their times out of order. The   *)
(* expiry of the states is judged at the time of the judgement. A sweep    *)
(* that is due runs before more time passes.                               *)
(***************************************************************************)
EXTENDS Integers, FiniteSets, TLC

CONSTANTS
    Requests,       \* requests being served at once
    Conns,          \* remote addresses
    Hash,           \* fnv64 of an address as an int64
    Configs,        \* configured minTTL, maxTTL and request limit
    Frequency,      \* idleConnectionCheckFrequency
    NoConn,         \* no connection
    NoState,        \* no connection state
    Horizon         \* bound: the time looked at

ASSUME LimitsAssumption ==
    /\ IsFiniteSet(Requests) /\ NoConn \notin Conns
    /\ Hash \in [Conns -> Int]
    /\ Configs \subseteq [minTTL : Int, maxTTL : Int, limit : Int]
    /\ Frequency \in Nat \ {0} /\ Horizon \in Nat

VARIABLES
    cfg,            \* minTTL and maxTTL as the constructor leaves them, limit
    now,
    connections,    \* the tracked connections and their states
    phase,          \* time to the next sweep
    pc,             \* where each request is
    conn,           \* its RemoteAddr
    stamp,          \* the time it read before it asked for the lock
    held,           \* the state it looked up
    close,          \* whether its response says Connection: close
    inFlightRequests,
    birth,          \* environment: when the connection of an address was opened
    lastRequest,    \* ghost: when an address was last looked up
    lastStamp,      \* ghost: the time the latest lookup of an address had read
    since,          \* ghost: when its use began, see Restarts
    told            \* ghost: addresses told to close since their latest lookup

connVars == <<connections, phase, stamp, held, close>>
ghosts   == <<lastRequest, lastStamp, since, told>>
vars     == <<cfg, now, connVars, pc, conn, inFlightRequests, birth, ghosts>>

Times == 0 .. Horizon

States == [ttl : Int, created : Times, lastSeen : Times]

\* newConnectionWithTTLMiddleware: negative limits count as zero, and a minimum
\* above the maximum is refused.
Clamp(n) == IF n < 0 THEN 0 ELSE n

Effective(c) == [c EXCEPT !.minTTL = Clamp(@), !.maxTTL = Clamp(@)]

Accepted == {c \in {Effective(d) : d \in Configs} : c.minTTL <= c.maxTTL}

TypeOK ==
    /\ cfg \in Accepted
    /\ now \in Times
    /\ DOMAIN connections \subseteq Conns
    /\ \A c \in DOMAIN connections : connections[c] \in States
    /\ phase \in 0 .. Frequency
    /\ pc \in [Requests -> {"new", "arrived", "locking", "judging", "deleting",
                            "passed", "counted", "serving"}]
    /\ conn \in [Requests -> Conns \cup {NoConn}]
    /\ stamp \in [Requests -> Times]
    /\ held \in [Requests -> States \cup {NoState}]
    /\ close \in [Requests -> BOOLEAN]
    /\ inFlightRequests \in 0 .. Cardinality(Requests)
    /\ birth \in [Conns -> Times]
    /\ lastRequest \in [Conns -> Times] /\ lastStamp \in [Conns -> Times]
    /\ since \in [Conns -> Times]
    /\ told \in SUBSET Conns

Init ==
    /\ cfg \in Accepted
    /\ now = 0
    /\ connections = [c \in {} |-> NoState]
    /\ phase = Frequency
    /\ pc = [r \in Requests |-> "new"]
    /\ conn = [r \in Requests |-> NoConn]
    /\ stamp = [r \in Requests |-> 0]
    /\ held = [r \in Requests |-> NoState]
    /\ close = [r \in Requests |-> FALSE]
    /\ inFlightRequests = 0
    /\ birth = [c \in Conns |-> 0]
    /\ lastRequest = [c \in Conns |-> 0] /\ lastStamp = [c \in Conns |-> 0]
    /\ since = [c \in Conns |-> 0]
    /\ told = Conns

-----------------------------------------------------------------------------
(* The lifetime of connections *)

\* Go's remainder takes the sign of the dividend.
Remainder(a, b) == IF a >= 0 THEN a % b ELSE -((-a) % b)

CalculateTTL(c) == cfg.minTTL + Remainder(Hash[c], cfg.maxTTL + 1 - cfg.minTTL)

IsExpired(s) == now - s.created > s.ttl

\* Mutant: idle connections are never expired.
IsIdleExpiredNever(s) == FALSE

IsIdleExpired(s) == now - s.lastSeen > cfg.maxTTL

\* A request arrives on the connection of an address.
Arrive(r) ==
    /\ pc[r] = "new"
    /\ \E c \in Conns : conn' = [conn EXCEPT ![r] = c]
    /\ pc' = [pc EXCEPT ![r] = IF cfg.maxTTL <= 0 THEN "passed" ELSE "arrived"]
    /\ UNCHANGED <<cfg, now, connVars, inFlightRequests, birth, ghosts>>

\* connectionState, the clock: read before the lock is taken.
ReadClock(r) ==
    /\ pc[r] = "arrived"
    /\ stamp' = [stamp EXCEPT ![r] = now]
    /\ pc' = [pc EXCEPT ![r] = "locking"]
    /\ UNCHANGED <<cfg, now, connections, phase, held, close, conn,
                   inFlightRequests, birth, ghosts>>

\* Mutant: a use is not noted.
SeenIgnored(s, t) == s

Seen(s, t) == [s EXCEPT !.lastSeen = t]

\* An address is no longer in use once it was told to close, or when the time
\* noted of its latest lookup is more than maxTTL ago.
Restarts(c) == c \in told \/ now - lastStamp[c] > cfg.maxTTL

\* connectionState, the locked section: the state of the connection, created
\* at its first use. The times in it are those the request has read before.
ConnectionState(r) ==
    LET c   == conn[r]
        t   == stamp[r]
        new == [ttl |-> CalculateTTL(c), created |-> t, lastSeen |-> t]
        s   == IF c \in DOMAIN connections THEN Seen(connections[c], t) ELSE new
    IN  /\ pc[r] = "locking"
        /\ connections' = [d \in DOMAIN connections \cup {c} |->
                              IF d = c THEN s ELSE connections[d]]
        /\ held' = [held EXCEPT ![r] = s]
        /\ pc' = [pc EXCEPT ![r] = "judging"]
        /\ stamp' = [stamp EXCEPT ![r] = 0]
        /\ lastRequest' = [lastRequest EXCEPT ![c] = now]
        /\ lastStamp' = [lastStamp EXCEPT ![c] = t]
        /\ since' = IF Restarts(c) THEN [since EXCEPT ![c] = now] ELSE since
        /\ told' = told \ {c}
        /\ UNCHANGED <<cfg, now, phase, conn, close, inFlightRequests, birth>>

\* removeExpiredConnection, the test outside the lock.
Judge(r) ==
    /\ pc[r] = "judging"
    /\ pc' = [pc EXCEPT ![r] = IF IsExpired(held[r]) THEN "deleting" ELSE "passed"]
    /\ held' = [held EXCEPT ![r] = NoState]
    /\ UNCHANGED <<cfg, now, connections, phase, stamp, conn, close, inFlightRequests,
                   birth, ghosts>>

\* removeExpiredConnection, the deletion: whatever state the address has now.
Delete(r) ==
    /\ pc[r] = "deleting"
    /\ connections' = [c \in DOMAIN connections \ {conn[r]} |-> connections[c]]
    /\ close' = [close EXCEPT ![r] = TRUE]
    /\ told' = told \cup {conn[r]}
    /\ pc' = [pc EXCEPT ![r] = "passed"]
    /\ UNCHANGED <<cfg, now, phase, stamp, conn, held, inFlightRequests, birth,
                   lastRequest, lastStamp, since>>

\* removeIdleExpiredConnections, at the ticker's pace.
Sweep ==
    /\ phase = 0
    /\ phase' = Frequency
    /\ connections' = [c \in {d \in DOMAIN connections : ~IsIdleExpired(connections[d])}
                          |-> connections[c]]
    /\ UNCHANGED <<cfg, now, pc, stamp, conn, held, close, inFlightRequests, birth, ghosts>>

-----------------------------------------------------------------------------
(* The requests in flight *)

\* The counter is incremented, and compared afterwards.
Count(r) ==
    /\ pc[r] = "passed"
    /\ \/ cfg.limit <= 0 /\ pc' = [pc EXCEPT ![r] = "serving"] /\ UNCHANGED inFlightRequests
       \/ /\ cfg.limit > 0
          /\ inFlightRequests' = inFlightRequests + 1
          /\ pc' = [pc EXCEPT ![r] = IF inFlightRequests' > cfg.limit
                                     THEN "counted" ELSE "serving"]
    /\ UNCHANGED <<cfg, now, connVars, conn, birth, ghosts>>

\* Mutant: a refused request does not give its place back.
ReleaseIfServed(r) ==
    IF pc[r] = "serving" THEN inFlightRequests - 1 ELSE inFlightRequests

\* The deferred decrement.
Release(r) == inFlightRequests - 1

\* The handler returns, after a 503 or after the request was served.
Return(r) ==
    /\ pc[r] \in {"counted", "serving"}
    /\ inFlightRequests' = IF cfg.limit <= 0 THEN inFlightRequests ELSE Release(r)
    /\ pc' = [pc EXCEPT ![r] = "new"]
    /\ conn' = [conn EXCEPT ![r] = NoConn]
    /\ close' = [close EXCEPT ![r] = FALSE]
    /\ UNCHANGED <<cfg, now, connections, phase, stamp, held, birth, ghosts>>

-----------------------------------------------------------------------------

\* The client closes the connection of an address, and a new one has the
\* same address.
Reconnect(c) ==
    /\ birth[c] < now
    /\ \A r \in Requests : conn[r] # c
    /\ birth' = [birth EXCEPT ![c] = now]
    /\ UNCHANGED <<cfg, now, connVars, pc, conn, inFlightRequests, ghosts>>

\* The sweeper runs only when there is a maximum TTL.
Tick ==
    /\ now < Horizon
    /\ cfg.maxTTL > 0 => phase > 0
    /\ now' = now + 1
    /\ phase' = IF cfg.maxTTL > 0 THEN phase - 1 ELSE phase
    /\ UNCHANGED <<cfg, connections, pc, stamp, conn, held, close, inFlightRequests,
                   birth, ghosts>>

Next ==
    \/ \E r \in Requests :
          \/ Arrive(r) \/ ReadClock(r) \/ ConnectionState(r)
          \/ Judge(r) \/ Delete(r) \/ Count(r) \/ Return(r)
    \/ \E c \in Conns : Reconnect(c)
    \/ Sweep \/ Tick

Spec == Init /\ [][Next]_vars

-----------------------------------------------------------------------------
(* Properties *)

\* Tracking does not leak: a connection that is not used any more is forgotten
\* by the first sweep after maxTTL, although nobody reports its end, and
\* although requests that were slow to get the lock set its last use back.
IdleForgotten ==
    \A c \in DOMAIN connections : now - lastRequest[c] <= cfg.maxTTL + Frequency

\* A connection in use is told to close in time: as long as each lookup comes
\* at most maxTTL after the time the one before it had read, no request later
\* than maxTTL after the first goes on without Connection: close, however the
\* requests of the connection race to refresh and to delete its state. (For
\* lookups that are merely at most maxTTL apart the code does not keep this:
\* one that is slow between the clock and the lock sets lastSeen back, and the
\* sweep may drop a connection in use.)
BusyClosed ==
    [][\A r \in Requests :
          pc[r] = "judging" /\ pc'[r] = "passed" => now - since[conn[r]] <= cfg.maxTTL]_vars

\* The counter is exactly the requests inside the limiter, and no more than
\* the limit of them are served at once.
ServedWithinLimit ==
    cfg.limit > 0 =>
        /\ inFlightRequests = Cardinality({r \in Requests : pc[r] \in {"counted", "serving"}})
        /\ Cardinality({r \in Requests : pc[r] = "serving"}) <= cfg.limit

\* No connection is told to close before it is as old as the least TTL.
NotClosedEarly ==
    \A r \in Requests : close[r] => now - birth[conn[r]] >= cfg.minTTL
=============================================================================
