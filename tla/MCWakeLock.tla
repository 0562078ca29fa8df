----------------------------- MODULE MCWakeLock -----------------------------
(* TLC instances of WakeLock.  One tick stands for about 50 seconds: with   *)
(* WakeLockTTL = 5 and PodReadyWait = 3 a budget of 1 fits the slack of the *)
(* defaults (240s and 210s), a budget of 2 does not.                        *)
EXTENDS WakeLock, TLC

CallerSymmetry == Permutations(Callers)
=============================================================================
