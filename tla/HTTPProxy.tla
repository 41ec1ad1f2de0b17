------------------------------ MODULE HTTPProxy ------------------------------
(***************************************************************************)
(* The HTTP reverse proxy of one downstream (util/proxy/http.go) with its  *)
(* host providers (util/proxy/dnslb).                                      *)
(*                                                                         *)
(* httputil.ReverseProxy (external) calls Director, sends the request, and *)
(* calls ModifyResponse when the response's header arrives or ErrorHandler *)
(* when there is none; after ModifyResponse it still calls ErrorHandler    *)
(* when a connection upgrade fails. ErrorHandler ends the host of the      *)
(* request it is given: the one Director sent out or, of a request refused *)
(* before it is sent, the client's, whose URL.Host is what the client      *)
(* wrote. DNS discovery (external) adds and removes hosts while requests   *)
(* are in flight. Every operation of a provider holds its lock, or is one  *)
(* atomic increment under a read lock, and is one step.                    *)
(***************************************************************************)
EXTENDS Integers, Sequences, SequencesExt, FiniteSets

CONSTANTS
    Requests,           \* requests being served at once
    Hosts,              \* hosts DNS may return
    DefaultHost,        \* the host of the downstream's URL
    NoHost,             \* no host chosen
    Policies,           \* values of HTTPLoadBalancingPolicy to look at
    IndexWord,          \* 2^32, the modulus of the round-robin counter
    MaxMishaps          \* bound: ends of a host for a request it did not count

ASSUME ProxyAssumption ==
    /\ IsFiniteSet(Requests) /\ IsFiniteSet(Hosts)
    /\ DefaultHost \notin Hosts /\ NoHost \notin Hosts \cup {DefaultHost}
    /\ Policies \subseteq {"", "round_robin", "least_inflight"}
    /\ IndexWord \in Nat \ {0} /\ MaxMishaps \in Nat

Heap == INSTANCE NamedMinHeap

VARIABLES
    policy,     \* HTTPLoadBalancingPolicy, fixed at start
    heap,       \* leastInflightHostProvider.h
    hosts,      \* roundRobinHostProvider.hosts
    hostsSet,   \* roundRobinHostProvider.hostsSet
    count,      \* roundRobinHostProvider.count
    pc,         \* where each request is
    host,       \* its URL.Host
    mishaps,    \* steps so far that end another host than the request's, or end it twice
    stale,      \* ghost: requests whose host was removed while they ran
    drift,      \* ghost: how many ends a host missed, less those it had for no request of its own
    served      \* ghost: round-robin picks since the hosts or the lap changed

providerVars == <<heap, hosts, hostsSet, count>>
ghosts == <<stale, drift, served>>
vars == <<policy, providerVars, pc, host, mishaps, ghosts>>

TypeOK ==
    /\ policy \in Policies
    /\ heap.q \in Seq([name : Hosts, val : Int])
    /\ heap.nameIndex \in [Hosts -> 0 .. Cardinality(Hosts)]
    /\ hosts \in Seq(Hosts) /\ hostsSet \in SUBSET Hosts
    /\ count \in 0 .. IndexWord - 1
    /\ pc \in [Requests -> {"new", "sent", "copying", "upgrading"}]
    /\ host \in [Requests -> Hosts \cup {DefaultHost, NoHost}]
    /\ \A r \in Requests : pc[r] = "new" <=> host[r] = NoHost
    /\ mishaps \in 0 .. MaxMishaps
    /\ stale \in SUBSET Requests /\ drift \in [Hosts -> Int]
    /\ served \in [Hosts -> Nat]

Unserved == [h \in Hosts |-> 0]

Init ==
    /\ policy \in Policies
    /\ heap = Heap!Empty(Hosts)
    /\ hosts = <<>> /\ hostsSet = {} /\ count = 0
    /\ pc = [r \in Requests |-> "new"]
    /\ host = [r \in Requests |-> NoHost]
    /\ mishaps = 0
    /\ stale = {} /\ drift = [h \in Hosts |-> 0] /\ served = Unserved

-----------------------------------------------------------------------------
(* The host providers *)

\* leastInflightHostProvider.StartHost for request r.
StartLeastInflight(r) ==
    /\ policy = "least_inflight"
    /\ \/ /\ heap.q = <<>>
          /\ host' = [host EXCEPT ![r] = DefaultHost]
          /\ UNCHANGED heap
       \/ /\ heap.q # <<>>
          /\ host' = [host EXCEPT ![r] = Heap!MinName(heap)]
          /\ heap' = Heap!Inc(heap, Heap!MinName(heap))
    /\ UNCHANGED <<hosts, hostsSet, count, served>>

\* Mutant: the host after the last one is never taken.
PickIndexShort(i) == IF Len(hosts) = 1 THEN 1 ELSE (i % (Len(hosts) - 1)) + 1

\* hosts[i % len(hosts)]
PickIndex(i) == (i % Len(hosts)) + 1

\* roundRobinHostProvider.StartHost for request r.
StartRoundRobin(r) ==
    /\ policy = "round_robin"
    /\ \/ /\ hosts = <<>>
          /\ host' = [host EXCEPT ![r] = DefaultHost]
          /\ UNCHANGED <<count, served>>
       \/ /\ hosts # <<>>
          /\ count' = (count + 1) % IndexWord
          /\ host' = [host EXCEPT ![r] = hosts[PickIndex(count')]]
          /\ served' = [(IF count' = 0 THEN Unserved ELSE served) EXCEPT ![host'[r]] = @ + 1]
    /\ UNCHANGED <<heap, hosts, hostsSet>>

StartFixed(r) ==
    /\ policy = ""
    /\ host' = [host EXCEPT ![r] = DefaultHost]
    /\ UNCHANGED <<providerVars, served>>

\* EndHost(h): the least-inflight provider counts h down if it still knows it;
\* the round-robin one does nothing. "counted" are the hosts that counted the
\* request: its own, unless it has been removed or was ended before.
EndHost(h, counted) ==
    /\ heap' = IF policy = "least_inflight" /\ h \in Hosts THEN Heap!Dec(heap, h) ELSE heap
    /\ drift' = [g \in Hosts |->
           drift[g] + (IF g \in counted /\ g # h THEN 1 ELSE 0)
                    - (IF g = h /\ g \notin counted /\ heap.nameIndex[g] # 0 THEN 1 ELSE 0)]
    /\ UNCHANGED <<hosts, hostsSet, count, served>>

CountedOn(r) == IF policy = "least_inflight" /\ r \notin stale THEN {host[r]} ELSE {}

\* InstanceAdded, of the provider the policy selects.
InstanceAdded(h) ==
    /\ \/ /\ policy = "least_inflight"
          /\ heap' = Heap!Add(heap, h)
          /\ UNCHANGED <<hosts, hostsSet, served>>
       \/ /\ policy = "round_robin" /\ h \notin hostsSet
          /\ hosts' = Append(hosts, h)
          /\ hostsSet' = hostsSet \cup {h}
          /\ served' = Unserved
          /\ UNCHANGED heap
    /\ UNCHANGED <<policy, count, pc, host, mishaps, stale, drift>>

\* The removed host's place is taken by the last one.
WithoutHost(s, h) ==
    LET i == CHOOSE i \in DOMAIN s : s[i] = h
    IN  Front([s EXCEPT ![i] = Last(s)])

\* InstanceRemoved: the requests of h go on, and are not counted any more.
InstanceRemoved(h) ==
    /\ \/ /\ policy = "least_inflight"
          /\ heap' = Heap!RemoveName(heap, h)
          /\ stale' = stale \cup {r \in Requests : host[r] = h}
          /\ drift' = [drift EXCEPT ![h] = 0]
          /\ UNCHANGED <<hosts, hostsSet, served>>
       \/ /\ policy = "round_robin" /\ h \in hostsSet
          /\ hosts' = WithoutHost(hosts, h)
          /\ hostsSet' = hostsSet \ {h}
          /\ served' = Unserved
          /\ UNCHANGED <<heap, stale, drift>>
    /\ UNCHANGED <<policy, count, pc, host, mishaps>>

-----------------------------------------------------------------------------
(* The reverse proxy *)

Over(r) ==
    /\ pc' = [pc EXCEPT ![r] = "new"]
    /\ host' = [host EXCEPT ![r] = NoHost]
    /\ stale' = stale \ {r}

\* The host the client wrote in the target of its request; none, as a rule.
Written(h) ==
    \/ h = NoHost /\ UNCHANGED mishaps
    \/ h \in Hosts /\ mishaps < MaxMishaps /\ mishaps' = mishaps + 1

\* wrapMaxBytesHandler: too large a Content-Length is answered by the error
\* handler, which ends a host that was never started.
TooLarge(r) ==
    /\ pc[r] = "new"
    /\ \E h \in Hosts \cup {NoHost} : Written(h) /\ EndHost(h, {})
    /\ UNCHANGED <<policy, pc, host, stale>>

\* Director: the host is chosen; ReverseProxy sends the request there.
Director(r) ==
    /\ pc[r] = "new"
    /\ StartLeastInflight(r) \/ StartRoundRobin(r) \/ StartFixed(r)
    /\ pc' = [pc EXCEPT ![r] = "sent"]
    /\ UNCHANGED <<policy, mishaps, stale, drift>>

\* ErrorHandler without a response: the request is over.
RoundTripFails(r) ==
    /\ pc[r] = "sent"
    /\ EndHost(host[r], CountedOn(r))
    /\ Over(r)
    /\ UNCHANGED <<policy, mishaps>>

\* ReverseProxy refuses the value of the client's Upgrade header after Director
\* has started a host, and gives ErrorHandler the client's request.
UpgradeRefused(r) ==
    /\ pc[r] = "sent"
    /\ mishaps < MaxMishaps
    /\ mishaps' = mishaps + 1
    /\ \E h \in Hosts \cup {NoHost} : EndHost(h, CountedOn(r))
    /\ Over(r)
    /\ UNCHANGED policy

\* Mutant: the host is not ended when the response arrives.
ResponseEndsNothing(r) == UNCHANGED <<providerVars, drift, served>>

ResponseEnds(r) == EndHost(host[r], CountedOn(r))

\* ModifyResponse: the host is ended, the body is copied or the connection is
\* upgraded afterwards.
ModifyResponse(r) ==
    /\ pc[r] = "sent"
    /\ ResponseEnds(r)
    /\ \E next \in {"copying", "upgrading"} : pc' = [pc EXCEPT ![r] = next]
    /\ UNCHANGED <<policy, host, mishaps, stale>>

\* handleUpgradeResponse fails after ModifyResponse: ErrorHandler ends the
\* host a second time.
UpgradeFails(r) ==
    /\ pc[r] = "upgrading"
    /\ mishaps < MaxMishaps
    /\ mishaps' = mishaps + 1
    /\ EndHost(host[r], {})
    /\ Over(r)
    /\ UNCHANGED policy

\* The body has been copied, or the upgraded connection is closed.
Copied(r) ==
    /\ pc[r] \in {"copying", "upgrading"}
    /\ Over(r)
    /\ UNCHANGED <<policy, providerVars, mishaps, drift, served>>

Next ==
    \/ \E h \in Hosts : InstanceAdded(h) \/ InstanceRemoved(h)
    \/ \E r \in Requests :
          \/ TooLarge(r) \/ Director(r) \/ RoundTripFails(r)
          \/ UpgradeRefused(r) \/ ModifyResponse(r) \/ UpgradeFails(r) \/ Copied(r)

Spec == Init /\ [][Next]_vars

-----------------------------------------------------------------------------
(* Properties *)

InFlight(h) == {r \in Requests : host[r] = h /\ pc[r] = "sent"}

\* The index of the heap finds every counter, and no name without one, and the
\* counters are in heap order: without it Inc, Dec and Remove would work on
\* another host's counter or outside the slice.
HeapConsistent ==
    /\ \A n \in Hosts : heap.nameIndex[n] # 0 => n \in Heap!Names(heap)
    /\ \A i \in DOMAIN heap.q : heap.nameIndex[heap.q[i].name] = i
    /\ \A i \in 2 .. Len(heap.q) : heap.q[i \div 2].val <= heap.q[i].val

\* The counter of a host is the number of its requests in flight, plus the
\* ends it missed (an upgrade refused before it was sent), less those it had
\* for a request it did not count: one that outlived the removal of the host,
\* whose upgrade failed after its response, or whose target names the host.
\* Nothing else, on any path, makes it inexact.
CountsExact ==
    \A i \in DOMAIN heap.q :
        LET h == heap.q[i].name
        IN  heap.q[i].val = Cardinality(InFlight(h) \ stale) + drift[h]

\* Round robin: the set and the list of hosts agree, and while neither the
\* hosts nor the lap of the counter changes no host is picked twice more often
\* than another.
RoundRobinFair ==
    /\ hostsSet = ToSet(hosts) /\ Len(hosts) = Cardinality(hostsSet)
    /\ \A g, h \in hostsSet : served[g] <= served[h] + 1

\* The heap implements the least-inflight balancer: requests start on a host of
\* least count, whatever the order of the operations on the heap.
Balancer ==
    INSTANCE LeastInflight WITH
        counters <- Heap!Counters(heap),
        host <- [r \in Requests |-> IF policy = "least_inflight" THEN host[r] ELSE NoHost]

HeapImplements == Balancer!LSpec
==============================================================================
