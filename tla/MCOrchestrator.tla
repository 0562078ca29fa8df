--------------------------- MODULE MCOrchestrator ---------------------------
(* TLC instances of Orchestrator.  A tick of the clock is five minutes: a   *)
(* tenant becomes idle after one, provisioning is stuck after two.          *)
EXTENDS Claims

CONSTANTS R1, R2   \* the replicas

\* Every thread in the one replica that may crash, but a second waker, loop or
\* DELETE request in the other.
CONSTANT OnR2
TwoReplicas == [t \in Threads |-> IF t \in OnR2 THEN R2 ELSE R1]

Limit(wake, touch, fault, loss, fail, slow, time) ==
    [wake |-> wake, touch |-> touch, fault |-> fault, loss |-> loss,
     fail |-> fail, slow |-> slow, time |-> time]

DrainLimits == Limit(1, 1, 1, 0, 1, 0, Unlimited)
StallLimits == Limit(1, 0, 0, 1, 0, 1, Unlimited)
RepairLimits == Limit(1, 0, 1, 1, 0, 1, Unlimited)
SpareClaim == Limit(1, 0, 0, 0, 0, 1, Unlimited)
=============================================================================
