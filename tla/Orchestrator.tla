---------------------------- MODULE Orchestrator ----------------------------
(***************************************************************************)
(* The control plane of one tenant: wake requests, the reconciler loops,   *)
(* the idle loop, the tenant API and the world, interleaved at every       *)
(* remote call (cmd/orchestrator/main.go starts them all in each replica). *)
(***************************************************************************)
EXTENDS Reconciler, Lifecycle, TenantAPI

\* A replica dies and restarts: its goroutines are lost, and with them the
\* events its informer had queued; a lock held by one of them stays in Redis.
\* Pass loops start over, as Run does with a full reconcile.
Crash(r) ==
    LET dead == {t \in Threads : ReplicaOf[t] = r /\ pc[t] \notin {"answered", "touch"}} IN
    /\ Spend("fault")
    /\ pc' = [t \in Threads |-> IF t \in dead THEN "idle" ELSE pc[t]]
    /\ seen' = [t \in Threads |-> IF t \in dead THEN NoRecord ELSE seen[t]]
    /\ view' = [t \in Threads |-> IF t \in dead THEN NoPod ELSE view[t]]
    /\ addr' = [t \in Threads |-> IF t \in dead THEN 0 ELSE addr[t]]
    /\ events' = [e \in EventLoops |-> IF e \in dead THEN 0 ELSE events[e]]
    /\ due' = due \cup (PassLoops \cap dead)
    /\ holder' = IF holder \in dead THEN NoOne ELSE holder
    /\ behind' = [c \in Callers |-> IF c \in dead \/ behind[c] \in dead
                                    THEN NoOne ELSE behind[c]]
    /\ UNCHANGED <<key, store, copies>>

Replicas == {ReplicaOf[t] : t \in Threads}

ThreadStep(t) == \/ t \in Callers /\ WakeStep(t)
                 \/ t \in EventLoops /\ EventStep(t)
                 \/ t \in PassLoops /\ PassStep(t)
                 \/ t \in Idlers /\ IdleStep(t)
                 \/ t \in Deleters /\ DeleteStep(t)

Fault(t) == \/ t \in Callers /\ (WakeCallFails(t) \/ ReleaseFails(t))
            \/ t \in Wakers /\ WakeCancelled(t)
            \/ t \in EventLoops \cup PassLoops /\ (ReadFails(t) \/ ReconcileCallFails(t))
            \/ t \in Idlers /\ IdleCallFails(t)
            \/ t \in Deleters /\ DeleteCallFails(t)

Request == \/ \E w \in Wakers : StartWake(w)
           \/ \E d \in Deleters : StartDelete(d)
           \/ CreateTenant \/ UpdateTenant \/ ReportActivity

Next == \/ Request
        \/ \E t \in Threads : ThreadStep(t) \/ Fault(t)
        \/ \E r \in Replicas : Crash(r)
        \/ World

Spec == TenantInit /\ [][Next]_vars

(***************************************************************************)
(* Fairness: every goroutine that has a step to take takes it (the calls   *)
(* return or fail, and both loops of the reconciler run for ever) and      *)
(* Redis keys expire.  Pods start, deleted pods go and time passes although *)
(* threads are now and then between two calls, hence strong fairness: they *)
(* go on while a thread runs, and are only seen when it pauses.  Requests, *)
(* faults and losses are never obliged to happen.                          *)
(***************************************************************************)
Fairness == /\ \A t \in Threads : WF_vars(ThreadStep(t))
            /\ WF_vars(CacheExpires) /\ WF_vars(KeyLapses) /\ WF_vars(PastFades)
            /\ SF_vars(PodStarts) /\ SF_vars(PodGone)
            /\ SF_vars(GracePasses) /\ SF_vars(Elapse)

FairSpec == Spec /\ Fairness

-----------------------------------------------------------------------------
(***************************************************************************)
(* Safety.                                                                 *)
(***************************************************************************)
Labels == WakeLabels \cup {"idle", "answered", "touch", "e_pod",
    "p_run", "p_prov", "p_orphan", "p_orphan2", "p_delete",
    "run_sync", "run_cache", "run_restart", "run_reset", "run_uncache", "run_giveup",
    "prov_promote", "prov_cache", "prov_reset",
    "l_delete", "l_write", "d_pod", "d_record", "d_cache"}

TypeOK == /\ MutexTypeOK
          /\ rec \in Record /\ pod \in Pod /\ cache \in Addresses \cup {0}
          /\ events \in [EventLoops -> 0..MaxEvents] /\ due \subseteq PassLoops
          /\ past \in Record /\ lags \in 0..MaxLags
          /\ pc \in [Threads -> Labels]
          /\ seen \in [Threads -> Record] /\ view \in [Threads -> Pod]
          /\ addr \in [Threads -> Addresses \cup {0}]
          /\ budget \in [Kinds -> Nat \cup {Unlimited}]

\* The lock is held exactly while a thread is in the slow path of WakeOrGet, so
\* two threads never are: every way out of the slow path, the error returns
\* after CreateTenantPod, WaitPodReady and UpdateStatus included, gives the
\* lock back or leaves it to its TTL (handler.go:373).
HeldInSlowPath == \A c \in Callers : pc[c] \in SlowPath <=> holder = c

\* A tenant is running if and only if its record carries an address, whoever
\* wrote it last: wake, reconciler, idle loop or an update of a deleted item.
\* The fast path, the pollers and DELETE (PodName # "") all rely on it.
RunningHasAddress == rec.status = "running" <=> rec.ip # 0

\* Whoever polls polls for a slow path that runs now and holds the key: a poller
\* whose winner died, was cancelled or failed is not left waiting for it
\* (handler.go:375, 489).
PollersWaitForHolder ==
    /\ WaitersBehindHolder
    /\ \A c \in Callers : behind[c] # NoOne => At(c, "poll") /\ pc[behind[c]] \in SlowPath

\* Some of the budget for events of this kind has been spent.
Happened(kind) == Limits[kind] = Unlimited \/ budget[kind] < Limits[kind]

\* A key nobody holds, which blocks every wake of the tenant until its TTL is over,
\* is the trace of a replica that died, a caller that went away or a DEL that
\* failed: no return of WakeOrGet leaves it behind (handler.go:373).
StrayKeyHasCause ==
    key /\ holder = NoOne => Happened("fault")

\* An item without what CreateTenant puts into it (idle timeout, namespace) is the trace of
\* a DELETE, PATCH or activity report, or of a failed write: no wake, loop or idle loop
\* makes one with its upserts of a status, however old the record that it acts on
\* (registry.go:137, handler.go:377-399).
BareItemHasCause ==
    rec.status # "none" /\ ~(rec.full /\ rec.placed) => Happened("touch") \/ Happened("fault")

\* No call answers, publishes or caches without an address, whatever the record and
\* the pod became since it read them (handler.go:348, 460, 493).
AnswersHaveAddress == \A t \in Threads : pc[t] \in UsesAddress => addr[t] # 0

\* A pod is created, and a tenant becomes provisioning, by the holder of the wake
\* lock only; no reconciler, idle loop or poller does it on its own
\* (handler.go:339).
WakesUnderLock ==
    [][/\ ~Exists(pod) /\ Exists(pod') => \E c \in Callers : holder = c /\ At(c, "create")
       /\ rec.status # "provisioning" /\ rec'.status = "provisioning"
             => \E c \in Callers : holder = c /\ At(c, "mark")]_vars

\* The control plane, its crashes, cancelled requests and failed calls included,
\* uses the wake lock as the abstract lock allows.
ObeysMutex == MutexSpec

(***************************************************************************)
(* Liveness.                                                               *)
(***************************************************************************)
\* Nothing is left of a tenant but its item.
Drained == /\ ~Exists(pod) /\ rec.status \notin {"running", "provisioning"}
           /\ cache = 0 /\ ~key

\* A pod that fails while its tenant is provisioning is neither ready nor missing,
\* so nobody corrects the record, and no orphan, so nobody deletes the pod
\* (reconciler.go:263-281, 437-446).
StuckOnFailure == /\ pod.phase = "Failed" /\ pod.grace = "none"
                  /\ rec.status = "provisioning" /\ cache = 0 /\ ~key

\* A running tenant whose item an upsert made again, after a DELETE or before a
\* registration, has no namespace: the idle loop cannot delete its pod
\* (lifecycle.go:112), and to the reconciler nothing is wrong with it.
StuckUnplaced == /\ rec.status = "running" /\ ~rec.placed
                 /\ Exists(pod) /\ pod.grace = "none" /\ cache = 0 /\ ~key

\* When requests, faults and losses stop, everything a tenant holds is given
\* back in the end: no pod is leaked, no record stays running or provisioning,
\* no address stays cached and the wake lock is free.  The exceptions are a pod
\* that failed while its tenant was provisioning, and an item without a namespace.
QuietTenantDrains == <>[](Drained \/ StuckOnFailure \/ StuckUnplaced)

\* While nobody stops idle tenants, record, pod and cache agree in the end,
\* whatever was lost or interrupted: the full passes repair what events missed.
Agreement == /\ rec.status # "provisioning" /\ (Exists(pod) <=> rec.status = "running")
             /\ Exists(pod) => Ready(pod) /\ pod.grace = "none" /\ pod.ip = rec.ip
             /\ cache \in {0, rec.ip}

RepairedInTheEnd == <>[]Agreement
=============================================================================
