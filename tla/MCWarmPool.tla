----------------------------- MODULE MCWarmPool -----------------------------
(* TLC instances of WarmPool: every request runs in the replica of manager M1, *)
(* other managers learn of its target through Redis only.                     *)
EXTENDS WarmPool, TLC

CONSTANT M1

OneEach == [a \in Requests |-> M1]

PoolSymmetry == Permutations(Claimers) \cup Permutations(WarmPods)
=============================================================================
