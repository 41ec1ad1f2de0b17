------------------------------- MODULE MCProxy -------------------------------
(* Proxy for TLC: requests and hosts are interchangeable. *)
EXTENDS Proxy

Symmetry == Permutations(Requests) \cup Permutations(Hosts)
==============================================================================
