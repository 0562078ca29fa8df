----------------------------- MODULE Reconciler -----------------------------
(***************************************************************************)
(* The reconciler (internal/reconciler/reconciler.go).  An event loop      *)
(* handles one informer event at a time with fresh reads; a full pass      *)
(* lists the pods once and then works through running tenants, those that  *)
(* are provisioning, and orphan pods, on that one list.  Both take the     *)
(* same decisions; they run concurrently, on every replica.                *)
(***************************************************************************)
EXTENDS WakeFlow

\* The stage that follows a decision about a running ("run") or provisioning
\* ("prov") tenant: the end of a handler, the next stage of a pass.
After(t, stage) == IF t \in EventLoops THEN "idle"
                   ELSE IF stage = "run" THEN "p_prov" ELSE "p_orphan"

\* The pod vanished while the tenant was in use (and wake is always set).
ShouldAutoRestart(r) == r.full /\ r.age < IdleTimeout

\* Variant: a changed address is not looked for.
RunningIgnoringDrift(t, r, p) ==
    IF Exists(p) THEN After(t, "run")
    ELSE IF ShouldAutoRestart(r) THEN "run_restart" ELSE "run_reset"

\* What to do about running tenant r whose pod was seen as p.
RunningDecision(t, r, p) ==
    IF Ready(p) THEN IF p.ip # r.ip THEN "run_sync" ELSE After(t, "run")
    ELSE IF Exists(p) THEN After(t, "run")
    ELSE IF ShouldAutoRestart(r) THEN "run_restart" ELSE "run_reset"

\* Variant: provisioning without a pod is never given up.
ProvisioningNeverReset(t, r, p) ==
    IF Ready(p) THEN "prov_promote" ELSE After(t, "prov")

\* What to do about provisioning tenant r whose pod was seen as p.
ProvisioningDecision(t, r, p) ==
    IF Ready(p) THEN "prov_promote"
    ELSE IF ~Exists(p) /\ r.age >= StuckAfter THEN "prov_reset" ELSE After(t, "prov")

Decision(t, r, p) == CASE r.status = "running" -> RunningDecision(t, r, p)
                       [] r.status = "provisioning" -> ProvisioningDecision(t, r, p)
                       [] OTHER -> "idle"

-----------------------------------------------------------------------------
\* handlePodUpdate and handlePodDelete: reconcileTenant reads the record ...
HandleEvent(e) ==
    /\ At(e, "idle") /\ events[e] > 0
    /\ events' = [events EXCEPT ![e] = @ - 1]
    /\ \E r \in Readable :
          Move(e, IF r.status \in {"running", "provisioning"} THEN "e_pod" ELSE "idle", r, 0)
    /\ UNCHANGED <<mutexVars, store, due, copies, budget>>

\* ... and getPodState the pod.  An API error counts as a missing pod.
CheckPod(e, p) == Move(e, Decision(e, seen[e], p), seen[e], p.ip)

GetPodState(e) ==
    /\ At(e, "e_pod")
    /\ \/ CheckPod(e, pod) /\ UNCHANGED budget
       \/ CheckPod(e, NoPod) /\ Spend("fault")
    /\ UNCHANGED <<mutexVars, store, transit>>

-----------------------------------------------------------------------------
\* A full pass: reconcile, run at start-up and by the ticker.
ListTenantPods(p) ==
    /\ At(p, "idle") /\ p \in due
    /\ due' = due \ {p}
    /\ pc' = [pc EXCEPT ![p] = "p_run"]
    /\ view' = [view EXCEPT ![p] = pod]
    /\ UNCHANGED <<mutexVars, store, events, copies, seen, addr, budget>>

SyncRunning(p) ==
    /\ At(p, "p_run")
    /\ \E r \in Readable :
          IF r.status = "running" THEN Move(p, RunningDecision(p, r, view[p]), r, view[p].ip)
                                  ELSE Goto(p, "p_prov")
    /\ UNCHANGED <<mutexVars, store, transit, budget>>

SyncProvisioning(p) ==
    /\ At(p, "p_prov")
    /\ \E r \in Readable :
          IF r.status = "provisioning"
          THEN Move(p, ProvisioningDecision(p, r, view[p]), r, view[p].ip)
          ELSE Goto(p, "p_orphan")
    /\ UNCHANGED <<mutexVars, store, transit, budget>>

\* cleanOrphanPods builds its active set with two queries, running first.
ListRunningForOrphans(p) ==
    /\ At(p, "p_orphan")
    /\ \E r \in Readable :
          Goto(p, IF Exists(view[p]) /\ r.status # "running" THEN "p_orphan2" ELSE "idle")
    /\ UNCHANGED <<mutexVars, store, transit, budget>>

\* Variant: pods of tenants without an item are spared.
OrphansHaveRecords(p) ==
    /\ At(p, "p_orphan2")
    /\ \E r \in Readable :
          Goto(p, IF r.status \notin {"provisioning", "none"} /\ view[p].old
                  THEN "p_delete" ELSE "idle")
    /\ UNCHANGED <<mutexVars, store, transit, budget>>

ListProvisioningForOrphans(p) ==
    /\ At(p, "p_orphan2")
    /\ \E r \in Readable :
          Goto(p, IF r.status # "provisioning" /\ view[p].old THEN "p_delete" ELSE "idle")
    /\ UNCHANGED <<mutexVars, store, transit, budget>>

DeleteOrphan(p) ==
    /\ At(p, "p_delete")
    /\ DeletePod("short")
    /\ Goto(p, "idle")
    /\ UNCHANGED <<mutexVars, rec, cache, transit, budget>>

-----------------------------------------------------------------------------
(* The corrections both loops make.                                        *)

\* The record follows the pod's address, or a provisioning tenant is promoted.
WriteRunning(t) ==
    /\ \/ At(t, "run_sync") /\ Goto(t, "run_cache")
       \/ At(t, "prov_promote") /\ Goto(t, "prov_cache")
    /\ UpdateStatus("running", addr[t])
    /\ UNCHANGED <<mutexVars, pod, cache, queues, budget>>

WriteCache(t) ==
    /\ \/ At(t, "run_cache") /\ Goto(t, After(t, "run"))
       \/ At(t, "prov_cache") /\ Goto(t, After(t, "prov"))
    /\ cache' = addr[t]
    /\ UNCHANGED <<mutexVars, rec, pod, transit, budget>>

\* Auto-restart: forget the cached address, then WakeOrGet.
ClearCacheAndWake(t) ==
    /\ At(t, "run_restart")
    /\ cache' = 0
    /\ Goto(t, "get")
    /\ UNCHANGED <<mutexVars, rec, pod, transit, budget>>

\* Reset to idle: the pod is missing, the restart failed, or provisioning is stuck.
WriteIdle(t) ==
    /\ \/ At(t, "run_reset") /\ Goto(t, "run_uncache")
       \/ At(t, "run_giveup") /\ Goto(t, After(t, "run"))
       \/ At(t, "prov_reset") /\ Goto(t, After(t, "prov"))
    /\ UpdateStatus("idle", 0)
    /\ UNCHANGED <<mutexVars, pod, cache, queues, budget>>

ClearCache(t) ==
    /\ At(t, "run_uncache")
    /\ cache' = 0
    /\ Goto(t, After(t, "run"))
    /\ UNCHANGED <<mutexVars, rec, pod, transit, budget>>

Correct(t) == \/ WriteRunning(t) \/ WriteCache(t) \/ ClearCacheAndWake(t)
              \/ WriteIdle(t) \/ ClearCache(t)

EventStep(e) == HandleEvent(e) \/ GetPodState(e) \/ Correct(e)

PassStep(p) == \/ ListTenantPods(p) \/ SyncRunning(p) \/ SyncProvisioning(p)
               \/ ListRunningForOrphans(p) \/ ListProvisioningForOrphans(p)
               \/ DeleteOrphan(p) \/ Correct(p)

(***************************************************************************)
(* Faults: a remote call of the reconciler fails.  A failed query or       *)
(* deletion ends its stage, a failed write of running skips the cache, and *)
(* a failed write of idle or of the cache is passed over.                  *)
(***************************************************************************)
\* GetTenant or ListTenantPods fails: the event, or the whole pass, is dropped.
ReadFails(t) ==
    /\ At(t, "idle") /\ Spend("fault")
    /\ \/ /\ t \in EventLoops /\ events[t] > 0
          /\ events' = [events EXCEPT ![t] = @ - 1] /\ UNCHANGED <<due, copies>>
       \/ t \in due /\ due' = due \ {t} /\ UNCHANGED <<events, copies>>
    /\ UNCHANGED <<mutexVars, store, locals>>

ReconcileCallFails(t) ==
    /\ Spend("fault")
    /\ \/ pc[t] \in {"p_orphan", "p_orphan2", "p_delete"} /\ Goto(t, "idle")
       \/ At(t, "p_run") /\ Goto(t, "p_prov")
       \/ At(t, "p_prov") /\ Goto(t, "p_orphan")
       \/ pc[t] \in {"run_sync", "run_cache", "run_giveup", "run_uncache"}
          /\ Goto(t, After(t, "run"))
       \/ pc[t] \in {"prov_promote", "prov_cache", "prov_reset"}
          /\ Goto(t, After(t, "prov"))
       \/ At(t, "run_reset") /\ Goto(t, "run_uncache")
       \/ At(t, "run_restart") /\ Goto(t, "get")
    /\ UNCHANGED <<mutexVars, store, transit>>
=============================================================================
