------------------------------- MODULE Claims -------------------------------
(***************************************************************************)
(* What a comment of the repository says of a tenant, and the code does    *)
(* not keep: checked in a run that TLC finds violated.                     *)
(***************************************************************************)
EXTENDS Orchestrator

\* The orphan cleanup never deletes the pod of a tenant that is being woken
\* (reconciler.go:437-442, 450-453).  It decides on a list of pods and two queries
\* that another thread's writes come between: a tenant that moves from provisioning to
\* running after the query for running and before the one for provisioning is in neither.
WakingPodSpared ==
    [][\A p \in PassLoops : At(p, "p_delete") /\ pod' # pod /\ pc'[p] = "idle"
                            => pod.grace # "none" \/ holder = NoOne]_vars
=============================================================================
