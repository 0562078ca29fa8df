----------------------------- MODULE Lifecycle -----------------------------
(***************************************************************************)
(* The idle loop of the elected leader (internal/lifecycle/lifecycle.go).  *)
(* Leader election (module Election) keeps one loop running, or two for a  *)
(* while; a crash of the leader between two steps leaves the rest to the   *)
(* reconciler.                                                             *)
(***************************************************************************)
EXTENDS Tenant

\* An item without idle_timeout_s falls back to five minutes.
IdleFor(r) == IF r.full THEN IdleTimeout ELSE FiveMinutes

\* ListIdleTenants, and the check of the tenant's own timeout.  The deletion of the
\* pod of an item without a namespace is refused on the spot, and the tick goes on
\* with the next tenant: it changes nothing.
ListIdle(l) ==
    /\ At(l, "idle")
    /\ \E r \in Readable :
          r.status = "running" /\ r.age >= FiveMinutes /\ r.age >= IdleFor(r) /\ Deletable(r)
    /\ Goto(l, "l_delete")
    /\ UNCHANGED <<mutexVars, store, transit, budget>>

StopPod(l) ==
    /\ At(l, "l_delete")
    /\ DeletePod("long")
    /\ Goto(l, "l_write")
    /\ UNCHANGED <<mutexVars, rec, cache, transit, budget>>

MarkIdle(l) ==
    /\ At(l, "l_write")
    /\ UpdateStatus("idle", 0)
    /\ Goto(l, "idle")
    /\ UNCHANGED <<mutexVars, pod, cache, queues, budget>>

IdleStep(l) == ListIdle(l) \/ StopPod(l) \/ MarkIdle(l)

\* A failed deletion skips the tenant, a failed write is logged.
IdleCallFails(l) ==
    /\ pc[l] \in {"l_delete", "l_write"} /\ Spend("fault")
    /\ Goto(l, "idle")
    /\ UNCHANGED <<mutexVars, store, transit>>
=============================================================================
