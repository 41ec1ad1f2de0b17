------------------------- MODULE BoundedLoadBalancer -------------------------
(***************************************************************************)
(* The gRPC bounded-load balancer (grpc_bounded_load_balancer.go): a stats *)
(* handler counts the RPCs in flight per backend address, and the pickers  *)
(* skip an address whose count has reached factor * average.               *)
(*                                                                         *)
(* gRPC (external) reports the beginning and end of connections and the    *)
(* headers and end of RPCs from different goroutines, so that a            *)
(* connection's end may be reported before the RPCs it carried. HandleRPC  *)
(* and HandleConn hold s.mx and are one step each. A Pick is one step per  *)
(* connection it tries, each an atomic increment of the picker's           *)
(* round-robin counter and a look at one counter.                          *)
(***************************************************************************)
EXTENDS Integers, Sequences, FiniteSets, FiniteSetsExt

CONSTANTS
    Addrs,          \* backend addresses
    AddrOrder,      \* the addresses as slices.Sort orders them
    RPCs,           \* RPCs in flight at once
    NoAddr,         \* no entry in remoteAddrByRPC
    NoRPC,          \* not an RPC
    FactorNum, FactorDen,   \* overloadedFactor, a fraction
    Word,           \* 2^64, the modulus of the in-flight counters
    IndexWord,      \* 2^32, the modulus of the round-robin counter
    MaxConns,       \* bound: connections open at once, per address
    MaxPickers      \* bound: pickers built

ASSUME BalancerAssumption ==
    /\ IsFiniteSet(RPCs) /\ IsFiniteSet(Addrs)
    /\ NoAddr \notin Addrs /\ NoRPC \notin RPCs
    /\ AddrOrder \in Seq(Addrs) /\ Cardinality(Addrs) <= IndexWord
    /\ FactorNum \in Nat /\ FactorDen \in Nat \ {0}
    /\ Word \in Nat /\ Cardinality(RPCs) < Word
    /\ IndexWord \in Nat \ {0} /\ MaxConns \in [Addrs -> Nat] /\ MaxPickers \in Nat

VARIABLES
    conns,      \* connectionsByRemoteAddr; 0 when absent
    tracked,    \* the keys of inflightRequestsByRemoteAddr
    inflight,   \* its values
    total,      \* inflightRequestsTotal
    rpcAddr,    \* remoteAddrByRPC
    pickers,    \* the pickers built, the last one in use; older Picks keep theirs
    pc,         \* where each RPC is
    pick,       \* the Pick of each RPC: picker, threshold, tries, connection
    stale,      \* ghost: RPCs whose address was not tracked throughout
    damaged,    \* ghost: addresses a stale RPC was subtracted from
    solo        \* ghost: the RPC whose Pick has run without interruption

statsVars == <<conns, tracked, inflight, total, rpcAddr, stale, damaged>>
pickVars  == <<pickers, pc, pick, solo>>
vars      == <<statsVars, pickVars>>

Picked(a) == [picker |-> 0, threshold |-> 0, tries |-> 0, addr |-> a]

NoPick == Picked(NoAddr)

TypeOK ==
    /\ conns \in [Addrs -> Nat] /\ \A a \in Addrs : conns[a] <= MaxConns[a]
    /\ tracked = {a \in Addrs : conns[a] > 0}
    /\ inflight \in [Addrs -> 0 .. Word - 1]
    /\ total \in 0 .. Word - 1
    /\ rpcAddr \in [RPCs -> Addrs \cup {NoAddr}]
    /\ pickers \in Seq([addrs : Seq(Addrs), next : 0 .. IndexWord - 1])
    /\ pc \in [RPCs -> {"idle", "picking", "picked", "stream", "sent"}]
    /\ pick \in [RPCs -> [picker : 0 .. MaxPickers, threshold : 0 .. Word - 1,
                          tries : 0 .. Cardinality(Addrs), addr : Addrs \cup {NoAddr}]]
    /\ stale \in SUBSET RPCs
    /\ damaged \in SUBSET Addrs
    /\ solo \in RPCs \cup {NoRPC}

Init ==
    /\ conns = [a \in Addrs |-> 0]
    /\ tracked = {}
    /\ inflight = [a \in Addrs |-> 0]
    /\ total = 0
    /\ rpcAddr = [r \in RPCs |-> NoAddr]
    /\ pickers = <<>>
    /\ pc = [r \in RPCs |-> "idle"]
    /\ pick = [r \in RPCs |-> NoPick]
    /\ stale = {}
    /\ damaged = {}
    /\ solo = NoRPC

-----------------------------------------------------------------------------
(* stats.Handler: connections *)

Plus(n, m) == (n + m) % Word

Minus(n, m) == (n - m) % Word

\* HandleConn, stats.ConnBegin.
ConnBegin(a) ==
    /\ conns[a] < MaxConns[a]
    /\ conns' = [conns EXCEPT ![a] = @ + 1]
    /\ tracked' = tracked \cup {a}
    /\ inflight' = [inflight EXCEPT ![a] = IF a \in tracked THEN @ ELSE 0]
    /\ solo' = NoRPC
    /\ UNCHANGED <<total, rpcAddr, stale, damaged, pickers, pc, pick>>

\* Mutant: the total keeps the requests of the address that is forgotten.
ForgetKeepsTotal(a) ==
    /\ tracked' = tracked \ {a}
    /\ inflight' = [inflight EXCEPT ![a] = 0]
    /\ UNCHANGED total

\* The last connection to a is gone: its count leaves the total and the map.
Forget(a) ==
    /\ tracked' = tracked \ {a}
    /\ inflight' = [inflight EXCEPT ![a] = 0]
    /\ total' = Minus(total, inflight[a])

\* Mutant: the address is forgotten with its first connection.
LastConnNotChecked(a) == TRUE

LastConn(a) == conns[a] = 1

\* HandleConn, stats.ConnEnd.
ConnEnd(a) ==
    /\ conns[a] > 0
    /\ conns' = [conns EXCEPT ![a] = @ - 1]
    /\ \/ /\ LastConn(a)
          /\ Forget(a)
          /\ stale' = stale \cup {r \in RPCs : rpcAddr[r] = a}
          /\ damaged' = damaged \ {a}
       \/ /\ ~LastConn(a)
          /\ UNCHANGED <<tracked, inflight, total, stale, damaged>>
    /\ solo' = NoRPC
    /\ UNCHANGED <<rpcAddr, pickers, pc, pick>>

-----------------------------------------------------------------------------
(* stats.Handler: RPCs *)

\* gRPC opens a stream on the picked connection, or picks again when the
\* connection has gone meanwhile.
NewStream(r) ==
    /\ pc[r] = "picked"
    /\ \/ /\ conns[pick[r].addr] > 0
          /\ pc' = [pc EXCEPT ![r] = "stream"]
          /\ UNCHANGED pick
       \/ /\ conns[pick[r].addr] = 0
          /\ pc' = [pc EXCEPT ![r] = "idle"]
          /\ pick' = [pick EXCEPT ![r] = NoPick]
    /\ solo' = NoRPC
    /\ UNCHANGED <<statsVars, pickers>>

\* Mutant: a second OutHeader of the same RPC is counted again.
FirstHeaderAlways(r) == TRUE

FirstHeader(r) == rpcAddr[r] = NoAddr

\* HandleRPC, stats.OutHeader: the stream's header is reported; the end of its
\* connection may have been reported before. Only the first header of an RPC counts, and
\* only if its address is tracked.
OutHeader(r) ==
    /\ pc[r] = "stream"
    /\ pc' = [pc EXCEPT ![r] = "sent"]
    /\ pick' = [pick EXCEPT ![r] = NoPick]
    /\ \/ /\ FirstHeader(r)
          /\ rpcAddr' = [rpcAddr EXCEPT ![r] = pick[r].addr]
          /\ \/ /\ pick[r].addr \in tracked
                /\ inflight' = [inflight EXCEPT ![pick[r].addr] = Plus(@, 1)]
                /\ total' = Plus(total, 1)
                /\ UNCHANGED stale
             \/ /\ pick[r].addr \notin tracked
                /\ stale' = stale \cup {r}
                /\ UNCHANGED <<inflight, total>>
       \/ /\ ~FirstHeader(r)
          /\ UNCHANGED <<rpcAddr, inflight, total, stale>>
    /\ solo' = NoRPC
    /\ UNCHANGED <<conns, tracked, damaged, pickers>>

\* gRPC transparently retries the RPC on a new stream: it picks again.
Retry(r) ==
    /\ pc[r] = "sent"
    /\ pc' = [pc EXCEPT ![r] = "idle"]
    /\ solo' = NoRPC
    /\ UNCHANGED <<statsVars, pickers, pick>>

Decrement(a) ==
    /\ inflight' = [inflight EXCEPT ![a] = Minus(@, 1)]
    /\ total' = Minus(total, 1)

\* HandleRPC, stats.End: the address recorded for the RPC is decremented if it
\* is tracked now, whether or not the RPC was counted there.
End(r) ==
    /\ pc[r] \in {"picked", "stream", "sent"} \/ (pc[r] = "idle" /\ rpcAddr[r] # NoAddr)
    /\ pc' = [pc EXCEPT ![r] = "idle"]
    /\ pick' = [pick EXCEPT ![r] = NoPick]
    /\ rpcAddr' = [rpcAddr EXCEPT ![r] = NoAddr]
    /\ stale' = stale \ {r}
    /\ \/ /\ rpcAddr[r] \in tracked
          /\ Decrement(rpcAddr[r])
          /\ damaged' = IF r \in stale THEN damaged \cup {rpcAddr[r]} ELSE damaged
       \/ /\ rpcAddr[r] \notin tracked
          /\ UNCHANGED <<inflight, total, damaged>>
    /\ solo' = NoRPC
    /\ UNCHANGED <<conns, tracked, pickers>>

-----------------------------------------------------------------------------
(* balancer.Builder and balancer.Picker *)

Before(a, b) ==
    \E m, n \in DOMAIN AddrOrder : m < n /\ AddrOrder[m] = a /\ AddrOrder[n] = b

\* slices.Sort: the list of the addresses of S in their order.
Sorted(S) ==
    {s \in [1 .. Cardinality(S) -> S] :
        \A m, n \in 1 .. Cardinality(S) : m < n => Before(s[m], s[n])}

\* rand.Intn of the connections' number; an error picker has no index.
StartIndexes(n) == IF n = 0 THEN {0} ELSE 0 .. n - 1

\* Build: gRPC passes the connections that are ready; the picker starts its
\* round robin at a random index. With none ready, Picks fail until the next.
Build ==
    /\ Len(pickers) < MaxPickers
    /\ \E ready \in Sorted({a \in Addrs : conns[a] > 0}) :
          \E start \in StartIndexes(Len(ready)) :
              pickers' = Append(pickers, [addrs |-> ready, next |-> start])
    /\ solo' = NoRPC
    /\ UNCHANGED <<statsVars, pc, pick>>

Ceil(n, d) == (n + d - 1) \div d

\* getOverloadThreshold. A product beyond the counters' range is converted to
\* uint64 as the platform pleases.
Thresholds ==
    IF FactorNum <= FactorDen \/ total = 0 \/ tracked = {}
    THEN {0}
    ELSE LET t == Ceil(total * FactorNum, Cardinality(tracked) * FactorDen)
         IN  IF t < Word THEN {t} ELSE 0 .. Word - 1

IsOverloaded(a, threshold) == a \in tracked /\ inflight[a] >= threshold

NextIndex(k) == (pickers[k].next + 1) % IndexWord

\* nextRoundRobinConnection of picker k.
NextConn(k) == pickers[k].addrs[(NextIndex(k) % Len(pickers[k].addrs)) + 1]

AdvanceIndex(k) == pickers' = [pickers EXCEPT ![k].next = NextIndex(k)]

\* Pick up to the first connection: with no threshold the next one is taken.
PickStart(r) ==
    /\ pc[r] = "idle"
    /\ pickers # <<>>
    /\ LET k == Len(pickers)
       IN  /\ pickers[k].addrs # <<>>
           /\ \E threshold \in Thresholds :
                 \/ /\ threshold = 0
                    /\ AdvanceIndex(k)
                    /\ pc' = [pc EXCEPT ![r] = "picked"]
                    /\ pick' = [pick EXCEPT ![r] = Picked(NextConn(k))]
                    /\ solo' = NoRPC
                 \/ /\ threshold > 0
                    /\ pc' = [pc EXCEPT ![r] = "picking"]
                    /\ pick' = [pick EXCEPT ![r] = [picker |-> k, threshold |-> threshold,
                                                    tries |-> 0, addr |-> NoAddr]]
                    /\ solo' = r
                    /\ UNCHANGED pickers
    /\ UNCHANGED statsVars

\* Mutant: one connection fewer is tried.
LastTryEarly(r) == pick[r].tries + 2 >= Len(pickers[pick[r].picker].addrs)

\* The loop's bound: as many tries as connections.
LastTry(r) == pick[r].tries + 1 = Len(pickers[pick[r].picker].addrs)

\* One round of Pick's loop: the next connection, taken if it is not overloaded
\* or if it is the last one to try.
PickTry(r) ==
    /\ pc[r] = "picking"
    /\ LET k == pick[r].picker
           a == NextConn(k)
       IN  /\ AdvanceIndex(k)
           /\ \/ /\ LastTry(r) \/ ~IsOverloaded(a, pick[r].threshold)
                 /\ pc' = [pc EXCEPT ![r] = "picked"]
                 /\ pick' = [pick EXCEPT ![r] = Picked(a)]
                 /\ solo' = NoRPC
              \/ /\ ~LastTry(r) /\ IsOverloaded(a, pick[r].threshold)
                 /\ pick' = [pick EXCEPT ![r].tries = @ + 1]
                 /\ solo' = IF solo = r THEN r ELSE NoRPC
                 /\ UNCHANGED pc
    /\ UNCHANGED statsVars

Next ==
    \/ \E a \in Addrs : ConnBegin(a) \/ ConnEnd(a)
    \/ \E r \in RPCs : NewStream(r) \/ OutHeader(r) \/ Retry(r) \/ End(r)
    \/ \E r \in RPCs : PickStart(r) \/ PickTry(r)
    \/ Build

Spec == Init /\ [][Next]_vars

-----------------------------------------------------------------------------
(* Properties *)

\* The total is the sum of the counters of the tracked addresses, through every
\* interleaving of RPCs with the loss of their connections. (In the counters'
\* own arithmetic, modulo Word.)
TotalIsSum == total = MapThenSumSet(LAMBDA a : inflight[a], tracked) % Word

\* A counter is exactly the number of RPCs of its address that were tracked
\* from their header on, until an RPC that outlived the tracking of its address
\* is subtracted from a counter that never counted it.
CountsExact ==
    \A a \in tracked \ damaged :
        inflight[a] = Cardinality({r \in RPCs : rpcAddr[r] = a /\ r \notin stale})

\* A Pick that no other goroutine disturbs, and whose round-robin counter does
\* not wrap, returns an overloaded connection only if all of its picker's
\* connections are overloaded.
PickAvoidsOverload ==
    [][\A r \in RPCs :
          LET k == pick[r].picker
              t == pick[r].threshold
          IN  /\ pc[r] = "picking" /\ pc'[r] = "picked"
              /\ solo = r /\ NextIndex(k) > pick[r].tries
              /\ IsOverloaded(pick'[r].addr, t)
              => \A j \in DOMAIN pickers[k].addrs : IsOverloaded(pickers[k].addrs[j], t)]_vars

\* No address is thought to serve more RPCs than are in flight to it.
InflightBounded ==
    \A a \in tracked : inflight[a] <= Cardinality({r \in RPCs : rpcAddr[r] = a})
===============================================================================
