---------------------------- MODULE LeastInflight ----------------------------
(***************************************************************************)
(* What the least-inflight host provider promises (the comments of         *)
(* DNSDiscoveredHostProvider and leastInflightHostProvider): a counter per *)
(* discovered host, a request started on a host of least count, and the    *)
(* default host only while no host is discovered. How the least count is   *)
(* found is left open.                                                     *)
(***************************************************************************)
EXTENDS Integers

CONSTANTS Requests, Hosts, DefaultHost, NoHost

VARIABLES
    counters,   \* discovered host -> requests counted on it
    host        \* the host each request was started on

lvars == <<counters, host>>

LInit ==
    /\ counters = [h \in {} |-> 0]
    /\ host = [r \in Requests |-> NoHost]

Started(r, h) == host' = [host EXCEPT ![r] = h]

StartDefault(r) ==
    /\ DOMAIN counters = {}
    /\ Started(r, DefaultHost)
    /\ UNCHANGED counters

StartLeast(r) ==
    \E h \in DOMAIN counters :
        /\ \A g \in DOMAIN counters : counters[h] <= counters[g]
        /\ Started(r, h)
        /\ counters' = [counters EXCEPT ![h] = @ + 1]

\* A host that is not known any more is not counted down.
EndOn(h) ==
    counters' = IF h \in DOMAIN counters THEN [counters EXCEPT ![h] = @ - 1] ELSE counters

\* The caller ends host h for request r, which is over or goes on. Which host
\* that is, the request's own as a rule, is the caller's affair.
EndFor(r, h) ==
    /\ EndOn(h)
    /\ host' \in {host, [host EXCEPT ![r] = NoHost]}

Appear(h) ==
    /\ h \notin DOMAIN counters
    /\ counters' = [g \in DOMAIN counters \cup {h} |-> IF g = h THEN 0 ELSE counters[g]]
    /\ UNCHANGED host

Disappear(h) ==
    /\ h \in DOMAIN counters
    /\ counters' = [g \in DOMAIN counters \ {h} |-> counters[g]]
    /\ UNCHANGED host

LNext ==
    \/ \E r \in Requests : StartDefault(r) \/ StartLeast(r)
    \/ \E r \in Requests, h \in Hosts \cup {DefaultHost, NoHost} : EndFor(r, h)
    \/ \E h \in Hosts : Appear(h) \/ Disappear(h)

LSpec == LInit /\ [][LNext]_lvars
==============================================================================
