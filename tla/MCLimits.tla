------------------------------ MODULE MCLimits ------------------------------
(* Limits for TLC. *)
EXTENDS Limits

MCHash == [c \in Conns |-> IF c = "a" THEN 1 ELSE -2]

\* A range of TTLs with a limit; no TTLs; neither limit; one that is refused.
MCConfigs ==
    {[minTTL |-> 1, maxTTL |-> 3, limit |-> 1], [minTTL |-> -1, maxTTL |-> -1, limit |-> 2],
     [minTTL |-> 0, maxTTL |-> 1, limit |-> 0], [minTTL |-> 2, maxTTL |-> 1, limit |-> 1]}

\* A short maximum, so that lookups race over several lifetimes.
MCShortConfigs ==
    {[minTTL |-> 1, maxTTL |-> 2, limit |-> 1], [minTTL |-> -1, maxTTL |-> -1, limit |-> 2],
     [minTTL |-> 0, maxTTL |-> 1, limit |-> 0], [minTTL |-> 2, maxTTL |-> 1, limit |-> 1]}

Symmetry == Permutations(Requests)
=============================================================================
