------------------------------ MODULE Delivery ------------------------------
(***************************************************************************)
(* What the router promises of an update it has acknowledged: it is        *)
(* delivered, and then left alone, or given up.  A pod whose answer is     *)
(* lost has taken the update all the same, and may be given it again.      *)
(***************************************************************************)
EXTENDS Integers

CONSTANT Updates

VARIABLES status,   \* of each update
          taken,    \* how often the pod has taken it
          unheard   \* how often the pod's answer was lost

vars == <<status, taken, unheard>>

Init == /\ status = [u \in Updates |-> "pending"]
        /\ taken = [u \in Updates |-> 0] /\ unheard = [u \in Updates |-> 0]

Deliver(u) == /\ status[u] = "pending" /\ status' = [status EXCEPT ![u] = "done"]
              /\ taken' = [taken EXCEPT ![u] = @ + 1]
              /\ UNCHANGED unheard

DeliverUnheard(u) == /\ status[u] = "pending"
                     /\ taken' = [taken EXCEPT ![u] = @ + 1]
                     /\ unheard' = [unheard EXCEPT ![u] = @ + 1]
                     /\ UNCHANGED status

GiveUp(u) == /\ status[u] = "pending" /\ status' = [status EXCEPT ![u] = "dropped"]
             /\ UNCHANGED <<taken, unheard>>

Next == \E u \in Updates : Deliver(u) \/ DeliverUnheard(u) \/ GiveUp(u)

Spec == Init /\ [][Next]_vars
=============================================================================
