------------------------ MODULE MCBoundedLoadBalancer ------------------------
\* RPCs are interchangeable; addresses are not, since pickers sort them.
EXTENDS BoundedLoadBalancer, TLC

CONSTANTS a1, a2

MCAddrOrder == <<a1, a2>>

MCMaxConns == (a1 :> 2) @@ (a2 :> 1)

Symmetry == Permutations(RPCs)
===============================================================================
