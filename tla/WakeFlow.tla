------------------------------ MODULE WakeFlow ------------------------------
(***************************************************************************)
(* WakeOrGet (internal/api/handler.go:339-482), run by POST /wake requests *)
(* of the router and by the reconciler's auto-restart, and what the router *)
(* does with the address it gets (cmd/router/main.go:225-231).             *)
(*                                                                         *)
(* The warm pool (handler.go:432-442) only chooses a node and is left out. *)
(***************************************************************************)
EXTENDS Tenant

\* Labels of a call that is behind the wake lock.
SlowPath == {"mark", "create", "wait", "publish", "release", "fail"}
WakeLabels == SlowPath \cup {"get", "exists", "lock", "poll"}

\* Where a thread goes when its WakeOrGet returns.
AfterWake(c, ok) == IF c \in Wakers THEN IF ok THEN "answered" ELSE "idle"
                    ELSE IF ~ok THEN "run_giveup"
                    ELSE IF c \in EventLoops THEN "idle" ELSE "p_prov"

\* POST /wake arrives.
StartWake(w) ==
    /\ At(w, "idle") /\ Spend("wake")
    /\ Goto(w, "get")
    /\ UNCHANGED <<mutexVars, store, transit>>

ReadRecord(c) ==
    /\ At(c, "get")
    /\ \E r \in Readable : Move(c, IF HasAddress(r) THEN "exists" ELSE "lock", r, 0)
    /\ UNCHANGED <<mutexVars, store, transit, budget>>

\* PodExists looks for the name only: phase, address and deletion do not matter.
FastPath(c) ==
    /\ At(c, "exists")
    /\ IF Exists(pod) THEN Move(c, AfterWake(c, TRUE), seen[c], seen[c].ip)
                      ELSE Goto(c, "lock")
    /\ UNCHANGED <<mutexVars, store, transit, budget>>

\* Variant: SET instead of SETNX.
TakeLockAnyway(c) ==
    /\ At(c, "lock") /\ key' = TRUE /\ holder' = c
    /\ Goto(c, "mark")
    /\ UNCHANGED <<behind, store, transit, budget>>

TakeLock(c) ==
    /\ At(c, "lock") /\ Acquire(c)
    /\ Goto(c, "mark")
    /\ UNCHANGED <<store, transit, budget>>

\* Variant: a failed SETNX is not told from a successful one.
LoseLockUnnoticed(c) ==
    /\ At(c, "lock") /\ key
    /\ Goto(c, "mark")
    /\ UNCHANGED <<mutexVars, store, transit, budget>>

LoseLock(c) ==
    /\ At(c, "lock") /\ Lose(c)
    /\ Goto(c, "poll")
    /\ UNCHANGED <<store, transit, budget>>

\* Variant: a missing item is left to the upsert of the status.
MarkWithUpsert(c) ==
    /\ At(c, "mark")
    /\ IF seen[c].status = "provisioning" THEN UNCHANGED <<rec, copies>>
                                          ELSE UpdateStatus("provisioning", 0)
    /\ Goto(c, "create")
    /\ UNCHANGED <<mutexVars, pod, cache, queues, budget>>

\* The decision is on the record read before the lock was taken.
MarkProvisioning(c) ==
    /\ At(c, "mark")
    /\ \/ seen[c].status = "none" /\ CreateRecord("provisioning")
       \/ seen[c].status = "provisioning" /\ UNCHANGED <<rec, copies>>
       \/ seen[c].status \notin {"none", "provisioning"} /\ UpdateStatus("provisioning", 0)
    /\ Goto(c, "create")
    /\ UNCHANGED <<mutexVars, pod, cache, queues, budget>>

\* AlreadyExists is success: whatever pod has the name is taken for the new one.
CreatePod(c) ==
    /\ At(c, "create")
    /\ pod' = IF Exists(pod) THEN pod ELSE NewPod
    /\ Goto(c, "wait")
    /\ UNCHANGED <<mutexVars, rec, cache, transit, budget>>

WaitReady(c) ==
    /\ At(c, "wait") /\ Ready(pod)
    /\ Move(c, "publish", seen[c], pod.ip)
    /\ UNCHANGED <<mutexVars, store, transit, budget>>

\* PodReadyWait is over.  A pod that is starting needs a slow start for that;
\* a missing, failed or deleted pod never becomes ready.
WaitTimesOut(c) ==
    /\ At(c, "wait") /\ ~Ready(pod)
    /\ IF pod.phase = "Pending" /\ pod.grace = "none" THEN Spend("slow")
                                                      ELSE UNCHANGED budget
    /\ Goto(c, "fail")
    /\ UNCHANGED <<mutexVars, store, transit>>

Publish(c) ==
    /\ At(c, "publish")
    /\ UpdateStatus("running", addr[c])
    /\ Goto(c, "release")
    /\ UNCHANGED <<mutexVars, pod, cache, queues, budget>>

\* Variant: the lock is released on success only.
ReturnKeepingLock(c) ==
    /\ \/ At(c, "release") /\ Move(c, AfterWake(c, TRUE), seen[c], addr[c]) /\ Release(c)
       \/ /\ At(c, "fail") /\ Move(c, AfterWake(c, FALSE), seen[c], 0)
          /\ UNCHANGED mutexVars
    /\ UNCHANGED <<store, transit, budget>>

\* Variant: on an error the lock is left to its TTL.
ReturnLeavingLock(c) ==
    /\ \/ At(c, "release") /\ Move(c, AfterWake(c, TRUE), seen[c], addr[c]) /\ Release(c)
       \/ At(c, "fail") /\ Move(c, AfterWake(c, FALSE), seen[c], 0) /\ Abandon(c)
    /\ UNCHANGED <<store, transit, budget>>

\* The deferred ReleaseWakeLock, on success and on an error.
ReturnHoldingLock(c) ==
    /\ \/ At(c, "release") /\ Move(c, AfterWake(c, TRUE), seen[c], addr[c])
       \/ At(c, "fail") /\ Move(c, AfterWake(c, FALSE), seen[c], 0)
    /\ Release(c)
    /\ UNCHANGED <<store, transit, budget>>

PollAnswers(c) ==
    /\ At(c, "poll")
    /\ Leave(c)
    /\ \E r \in Readable : HasAddress(r) /\ Move(c, AfterWake(c, TRUE), seen[c], r.ip)
    /\ UNCHANGED <<store, transit, budget>>

\* The deadline of pollUntilRunning comes after the end of the slow path the
\* poller lost to (theorem PollOutlives of WakeLockProofs).  The record may have
\* got its address since the last poll.
PollTimesOut(c) ==
    /\ At(c, "poll") /\ behind[c] = NoOne
    /\ Leave(c)
    /\ Move(c, AfterWake(c, FALSE), seen[c], 0)
    /\ UNCHANGED <<store, transit, budget>>

\* The router caches the address it was given, then reports activity.
RouterCaches(w) ==
    /\ At(w, "answered")
    /\ cache' = addr[w]
    /\ Goto(w, "touch")
    /\ UNCHANGED <<mutexVars, rec, pod, transit, budget>>

RouterTouches(w) ==
    /\ At(w, "touch")
    /\ UpdateActivity
    /\ Goto(w, "idle")
    /\ UNCHANGED <<mutexVars, pod, cache, queues, budget>>

WakeStep(c) ==
    \/ ReadRecord(c) \/ FastPath(c) \/ TakeLock(c) \/ LoseLock(c)
    \/ MarkProvisioning(c) \/ CreatePod(c) \/ WaitReady(c) \/ WaitTimesOut(c)
    \/ Publish(c) \/ ReturnHoldingLock(c) \/ PollAnswers(c) \/ PollTimesOut(c)
    \/ RouterCaches(c) \/ RouterTouches(c)

(***************************************************************************)
(* Faults: a remote call of the wake fails.                                *)
(***************************************************************************)
\* GetTenant and SETNX errors end the call; a failed PodExists is no evidence
\* that the pod is there; failed writes of the record before the pod are only
\* logged; a failed CreateTenantPod or UpdateStatus ends the slow path.  The router
\* passes over a failed write of its cache or activity report.
AfterError == [get |-> "return", lock |-> "return", exists |-> "lock",
               mark |-> "create", create |-> "fail",
               publish |-> "fail", answered |-> "touch", touch |-> "idle"]

WakeCallFails(c) ==
    /\ pc[c] \in DOMAIN AfterError /\ Spend("fault")
    /\ IF AfterError[pc[c]] = "return" THEN Move(c, AfterWake(c, FALSE), seen[c], 0)
                                       ELSE Goto(c, AfterError[pc[c]])
    /\ UNCHANGED <<mutexVars, store, transit>>

\* ReleaseWakeLock fails: WakeOrGet returns all the same, the key stays.
ReleaseFails(c) ==
    /\ Spend("fault")
    /\ \/ At(c, "release") /\ Move(c, AfterWake(c, TRUE), seen[c], addr[c])
       \/ At(c, "fail") /\ Move(c, AfterWake(c, FALSE), seen[c], 0)
    /\ Abandon(c)
    /\ UNCHANGED <<store, transit>>

\* The client of POST /wake goes away: every further call fails on the
\* cancelled context, the DEL of the lock too.
WakeCancelled(w) ==
    /\ pc[w] \in WakeLabels /\ Spend("fault")
    /\ IF holder = w THEN Abandon(w) ELSE Leave(w)
    /\ Goto(w, "idle")
    /\ UNCHANGED <<store, transit>>
=============================================================================
