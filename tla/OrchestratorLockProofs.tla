----------------------- MODULE OrchestratorLockProofs -----------------------
(***************************************************************************)
(* How the control plane uses the wake lock, for any number of wakes,      *)
(* loops and replicas: it keeps to the abstract lock of WakeMutex, crashes *)
(* and failed calls included, and so has what that lock promises; a key    *)
(* nobody holds has a cause; and what the lock protects, the creation of a *)
(* pod and the start of provisioning, is done by its holder only.  And     *)
(* what the upserts that follow make of an item: nothing without a cause.  *)
(***************************************************************************)
EXTENDS OrchestratorProofs

(***************************************************************************)
(* The abstract lock.                                                      *)
(***************************************************************************)
MutexInv == MutexTypeOK /\ WaitersBehindHolder

\* A key exists from the start of a slow path to its end, and the end is the end for
\* everybody who waits for it.
LEMMA MutexKeeps ==
    ASSUME MutexInv, [MutexNext]_mutexVars
    PROVE  MutexInv'
<1>. USE NoOneAssumption DEF MutexInv, MutexTypeOK, WaitersBehindHolder
<1>1. ASSUME NEW c \in Callers, Acquire(c) PROVE MutexInv'
  BY <1>1 DEF Acquire
<1>2. ASSUME NEW c \in Callers, Lose(c) \/ Leave(c) PROVE MutexInv'
  BY <1>2 DEF Lose, Leave
<1>3. ASSUME NEW c \in Callers, Release(c) \/ Abandon(c) PROVE MutexInv'
  <2>1. key' \in BOOLEAN /\ holder' = NoOne
    BY <1>3 DEF Release, Abandon
  <2>2. behind' = [d \in Callers |-> IF behind[d] = c THEN NoOne ELSE behind[d]]
    BY <1>3 DEF Release, Abandon, NobodyBehind
  <2>3. behind' \in [Callers -> Callers \cup {NoOne}]
    BY <2>2
  <2>4. \A d \in Callers : behind'[d] = NoOne
    <3>1. holder = c
      BY <1>3 DEF Release, Abandon
    <3>. QED
      BY <2>2, <3>1
  <2>. QED
    BY <2>1, <2>3, <2>4
<1>4. ASSUME NEW gone \in SUBSET Callers, LeaveTogether(gone) PROVE MutexInv'
  BY <1>4 DEF LeaveTogether
<1>5. CASE Lapse \/ UNCHANGED mutexVars
  BY <1>5 DEF Lapse, mutexVars
<1>. QED
  BY <1>1, <1>2, <1>3, <1>4, <1>5 DEF MutexNext

\* Nobody waits at the start.
LEMMA MutexStarts == MutexInit => MutexInv
BY DEF MutexInit, MutexInv, MutexTypeOK, WaitersBehindHolder

\* What every user of the abstract lock may count on: whoever waits, waits for the
\* slow path that runs now, and that one holds the key.
THEOREM WaitersPromise == MutexSpec => []WaitersBehindHolder
<1>1. MutexInv /\ [MutexNext]_mutexVars => MutexInv'
  BY MutexKeeps
<1>2. MutexInv => WaitersBehindHolder
  BY DEF MutexInv
<1>. QED
  BY <1>1, <1>2, MutexStarts, PTL DEF MutexSpec

(***************************************************************************)
(* Every step of the control plane is a step of the lock.                  *)
(***************************************************************************)
\* What calls do to the lock while nothing fails, and what only a fault does.
Freely == \/ \E c \in Callers : Acquire(c) \/ Lose(c) \/ Leave(c) \/ Release(c)
          \/ Lapse \/ UNCHANGED mutexVars
ByFault == /\ Spend("fault")
           /\ \/ \E c \in Callers : Abandon(c) \/ Leave(c)
              \/ \E gone \in SUBSET Callers : LeaveTogether(gone)

\* Both are within the abstract lock.
LEMMA WithinMutex == Freely \/ ByFault => [MutexNext]_mutexVars
BY DEF Freely, ByFault, MutexNext

\* A wake takes the lock, loses it to another call, stops waiting or returns it.
LEMMA WakeLocks ==
    ASSUME NEW c \in Callers, WakeStep(c)
    PROVE  Freely
<1>1. CASE TakeLock(c) \/ LoseLock(c) \/ ReturnHoldingLock(c) \/ PollAnswers(c) \/ PollTimesOut(c)
  BY <1>1 DEF TakeLock, LoseLock, ReturnHoldingLock, PollAnswers, PollTimesOut, Freely
<1>2. CASE \/ ReadRecord(c) \/ FastPath(c) \/ MarkProvisioning(c) \/ CreatePod(c) \/ WaitReady(c)
           \/ WaitTimesOut(c) \/ Publish(c) \/ RouterCaches(c) \/ RouterTouches(c)
  BY <1>2 DEF ReadRecord, FastPath, MarkProvisioning, CreatePod, WaitReady, WaitTimesOut,
     Publish, RouterCaches, RouterTouches, Freely
<1>. QED
  BY <1>1, <1>2 DEF WakeStep

\* The loops and DELETE leave it alone.
LEMMA LoopsLeaveLock ==
    ASSUME NEW t \in Threads, EventStep(t) \/ PassStep(t) \/ IdleStep(t) \/ DeleteStep(t)
    PROVE  UNCHANGED mutexVars
<1>1. Correct(t) => UNCHANGED mutexVars
  BY DEF Correct, WriteRunning, WriteCache, ClearCacheAndWake, WriteIdle, ClearCache
<1>2. CASE EventStep(t)
  BY <1>1, <1>2 DEF EventStep, HandleEvent, GetPodState
<1>3. CASE PassStep(t)
  BY <1>1, <1>3 DEF PassStep, ListTenantPods, SyncRunning, SyncProvisioning,
     ListRunningForOrphans, ListProvisioningForOrphans, DeleteOrphan
<1>4. CASE IdleStep(t)
  BY <1>4 DEF IdleStep, ListIdle, StopPod, MarkIdle
<1>5. CASE DeleteStep(t)
  BY <1>5 DEF DeleteStep, DeleteTenantPod, DeleteRecord, DeleteCache
<1>. QED
  BY <1>2, <1>3, <1>4, <1>5

\* A failed DEL and a caller that goes away abandon the lock, at the price of a fault.
LEMMA FaultLocks ==
    ASSUME NEW t \in Threads, Fault(t)
    PROVE  Freely \/ ByFault
<1>1. CASE t \in Callers /\ ReleaseFails(t)
  BY <1>1 DEF ReleaseFails, ByFault
<1>2. CASE t \in Wakers /\ WakeCancelled(t)
  BY <1>2, CallersAreThreads DEF WakeCancelled, ByFault
<1>3. CASE \/ WakeCallFails(t) \/ ReadFails(t) \/ ReconcileCallFails(t)
           \/ IdleCallFails(t) \/ DeleteCallFails(t)
  BY <1>3 DEF WakeCallFails, ReadFails, ReconcileCallFails, IdleCallFails, DeleteCallFails, Freely
<1>. QED
  BY <1>1, <1>2, <1>3 DEF Fault

\* A crash abandons the lock when the holder dies, and ends the waits of its replica.
LEMMA CrashLocks ==
    ASSUME MutexInv, NEW r \in Replicas, Crash(r)
    PROVE  ByFault
<1>. DEFINE dead == {t \in Threads : ReplicaOf[t] = r /\ pc[t] \notin {"answered", "touch"}}
<1>1. /\ holder' = IF holder \in dead THEN NoOne ELSE holder
      /\ behind' = [c \in Callers |-> IF c \in dead \/ behind[c] \in dead
                                      THEN NoOne ELSE behind[c]]
      /\ Spend("fault") /\ UNCHANGED key
  BY DEF Crash
<1>. HIDE DEF dead
<1>2. behind \in [Callers -> Callers \cup {NoOne}] /\ \A c \in Callers : behind[c] \in {NoOne, holder}
  BY DEF MutexInv, MutexTypeOK, WaitersBehindHolder
<1>3. CASE holder \in dead /\ holder \in Callers
  BY <1>1, <1>2, <1>3 DEF Abandon, NobodyBehind, ByFault
<1>4. CASE holder \notin dead \/ holder = NoOne
  <2>1. UNCHANGED <<key, holder>>
    BY <1>1, <1>4
  <2>2. behind' = [c \in Callers |-> IF c \in Callers \cap dead THEN NoOne ELSE behind[c]]
    BY <1>1, <1>2, <1>4
  <2>3. LeaveTogether(Callers \cap dead)
    BY <2>1, <2>2 DEF LeaveTogether
  <2>. QED
    BY <1>1, <2>3 DEF ByFault
<1>5. holder \in Callers \cup {NoOne}
  BY DEF MutexInv, MutexTypeOK
<1>. QED
  BY <1>3, <1>4, <1>5

\* All steps.
LEMMA NextLocks ==
    ASSUME MutexInv, [Next]_vars
    PROVE  Freely \/ ByFault
<1>1. ASSUME NEW t \in Threads, ThreadStep(t) PROVE Freely
  BY <1>1, WakeLocks, LoopsLeaveLock DEF ThreadStep, Freely
<1>2. CASE Request
  BY <1>2 DEF Request, StartWake, StartDelete, CreateTenant, UpdateTenant, ReportActivity, Freely
<1>3. CASE World
  BY <1>3 DEF World, PodStarts, PodGone, PodLost, PodFails, CacheExpires, PastFades, KeyLapses,
     GracePasses, Elapse, Freely
<1>4. CASE UNCHANGED vars
  BY <1>4 DEF vars, Freely
<1>. QED
  BY <1>1, <1>2, <1>3, <1>4, FaultLocks, CrashLocks DEF Next

\* The control plane keeps to the abstract lock, and the lock to its promise.
LEMMA LockInvariant == Spec => []MutexInv
<1>1. TenantInit => MutexInv
  BY MutexStarts DEF TenantInit
<1>2. MutexInv /\ [Next]_vars => MutexInv'
  BY NextLocks, WithinMutex, MutexKeeps
<1>. QED
  BY <1>1, <1>2, PTL DEF Spec

\* With Refinement of WakeLockProofs this closes the circle: the timed lock is the
\* abstract one as long as calls fit its slack, and the control plane asks no more of
\* it than the abstract one gives, whatever dies or is cancelled (handler.go:366-373).
THEOREM KeepsToMutex == Spec => ObeysMutex
<1>1. TenantInit => MutexInit
  BY DEF TenantInit
<1>2. MutexInv /\ [Next]_vars => [MutexNext]_mutexVars
  BY NextLocks, WithinMutex
<1>. QED
  BY <1>1, <1>2, LockInvariant, PTL DEF Spec, ObeysMutex, MutexSpec

(***************************************************************************)
(* Pollers.                                                                *)
(***************************************************************************)
WaitersPoll == \A c \in Callers : behind[c] # NoOne => pc[c] = "poll"

\* A thread that is not polling moves, and nobody's wait begins.
LEMMA PollMove ==
    ASSUME PartsOK, WaitersPoll, NEW t \in Threads, NEW label, NEW r, NEW a,
           Move(t, label, r, a), pc[t] # "poll", UNCHANGED behind
    PROVE  WaitersPoll'
BY DEF PartsOK, LocalsOK, WaitersPoll, Move, Threads

\* The same, for a thread that keeps what it has in hand.
LEMMA PollGoto ==
    ASSUME PartsOK, WaitersPoll, NEW t \in Threads, NEW label, Goto(t, label),
           pc[t] # "poll", UNCHANGED behind
    PROVE  WaitersPoll'
BY PollMove DEF Goto

\* A wait ends, wherever the poller goes.
LEMMA PollEnds ==
    ASSUME PartsOK, WaitersPoll, NEW c \in Callers, NEW label, NEW r, NEW a,
           Move(c, label, r, a), Leave(c)
    PROVE  WaitersPoll'
BY NoOneAssumption DEF PartsOK, LocalsOK, MutexTypeOK, WaitersPoll, Move, Leave, Threads

\* A slow path ends, and every wait with it.
LEMMA HolderEnds ==
    ASSUME PartsOK, MutexInv, WaitersPoll, NEW c \in Callers, Release(c) \/ Abandon(c)
    PROVE  WaitersPoll'
<1>1. behind' = [d \in Callers |-> IF behind[d] = c THEN NoOne ELSE behind[d]] /\ holder = c
  BY DEF Release, Abandon, NobodyBehind
<1>2. \A d \in Callers : behind[d] \in {NoOne, c}
  BY <1>1 DEF MutexInv, WaitersBehindHolder
<1>. QED
  BY <1>1, <1>2 DEF WaitersPoll

\* Steps that move no thread.
LEMMA PollAlone ==
    ASSUME WaitersPoll, UNCHANGED <<pc, behind>>
    PROVE  WaitersPoll'
BY DEF WaitersPoll

\* A wake begins to wait when it loses the lock, and leaves "poll" with Leave only.
LEMMA WakePolls ==
    ASSUME PartsOK, MutexInv, WaitersPoll, NEW c \in Callers, WakeStep(c)
    PROVE  WaitersPoll'
<1>. c \in Threads
  BY DEF Threads
<1>1. CASE \/ MarkProvisioning(c) \/ CreatePod(c) \/ WaitTimesOut(c) \/ Publish(c)
           \/ RouterCaches(c) \/ RouterTouches(c)
  BY <1>1, PollGoto DEF MarkProvisioning, CreatePod, WaitTimesOut, Publish, RouterCaches,
     RouterTouches, At, mutexVars
<1>2. CASE ReadRecord(c) \/ WaitReady(c) \/ FastPath(c)
  BY <1>2, PollMove, PollGoto DEF ReadRecord, WaitReady, FastPath, At, mutexVars
<1>3. CASE TakeLock(c)
  BY <1>3, PollGoto DEF TakeLock, Acquire, At
<1>4. CASE LoseLock(c)
  BY <1>4 DEF LoseLock, Lose, Goto, Move, PartsOK, LocalsOK, MutexTypeOK, WaitersPoll, Threads
<1>5. CASE PollAnswers(c) \/ PollTimesOut(c)
  BY <1>5, PollEnds DEF PollAnswers, PollTimesOut
<1>6. CASE ReturnHoldingLock(c)
  BY <1>6, HolderEnds DEF ReturnHoldingLock
<1>. QED
  BY <1>1, <1>2, <1>3, <1>4, <1>5, <1>6 DEF WakeStep

\* The loops and DELETE move threads that do not poll.
LEMMA LoopsPoll ==
    ASSUME PartsOK, WaitersPoll, NEW t \in Threads,
           EventStep(t) \/ PassStep(t) \/ IdleStep(t) \/ DeleteStep(t)
    PROVE  WaitersPoll'
<1>1. UNCHANGED behind
  BY LoopsLeaveLock DEF mutexVars
<1>2. CASE Correct(t)
  BY <1>1, <1>2, PollGoto DEF Correct, WriteRunning, WriteCache, ClearCacheAndWake, WriteIdle,
     ClearCache, At
<1>3. CASE EventStep(t)
  BY <1>1, <1>2, <1>3, PollMove DEF EventStep, HandleEvent, GetPodState, CheckPod, At
<1>4. CASE ListTenantPods(t)
  BY <1>1, <1>4 DEF ListTenantPods, At, PartsOK, LocalsOK, WaitersPoll, Threads
<1>5. CASE PassStep(t)
  BY <1>1, <1>2, <1>4, <1>5, PollMove, PollGoto DEF PassStep, SyncRunning, SyncProvisioning,
     ListRunningForOrphans, ListProvisioningForOrphans, DeleteOrphan, At
<1>6. CASE IdleStep(t)
  BY <1>1, <1>6, PollGoto DEF IdleStep, ListIdle, StopPod, MarkIdle, At
<1>7. CASE DeleteStep(t)
  BY <1>1, <1>7, PollGoto DEF DeleteStep, DeleteTenantPod, DeleteRecord, DeleteCache, At
<1>. QED
  BY <1>3, <1>5, <1>6, <1>7

\* A caller that goes away while it polls leaves; every other failed call is made by a
\* thread that does not poll.
LEMMA FaultPolls ==
    ASSUME PartsOK, MutexInv, WaitersPoll, NEW t \in Threads, Fault(t)
    PROVE  WaitersPoll'
<1>1. CASE t \in Callers /\ WakeCallFails(t)
  <2>1. pc[t] # "poll"
    BY <1>1 DEF WakeCallFails, AfterError
  <2>. QED
    BY <1>1, <2>1, PollMove, PollGoto DEF WakeCallFails, mutexVars
<1>2. CASE t \in Callers /\ ReleaseFails(t)
  BY <1>2, HolderEnds DEF ReleaseFails
<1>3. CASE t \in Wakers /\ WakeCancelled(t)
  BY <1>3, CallersAreThreads, HolderEnds, PollEnds DEF WakeCancelled, Goto
<1>4. CASE ReadFails(t)
  BY <1>4, PollAlone DEF ReadFails, locals, mutexVars
<1>5. CASE ReconcileCallFails(t) \/ IdleCallFails(t) \/ DeleteCallFails(t)
  BY <1>5, PollGoto DEF ReconcileCallFails, IdleCallFails, DeleteCallFails, At, mutexVars
<1>. QED
  BY <1>1, <1>2, <1>3, <1>4, <1>5 DEF Fault

\* All steps.
LEMMA NextPolls ==
    ASSUME PartsOK, MutexInv, WaitersPoll, [Next]_vars
    PROVE  WaitersPoll'
<1>1. ASSUME NEW t \in Threads, ThreadStep(t) PROVE WaitersPoll'
  BY <1>1, WakePolls, LoopsPoll DEF ThreadStep
<1>2. CASE Request
  <2>1. ASSUME NEW w \in Wakers, StartWake(w) PROVE WaitersPoll'
    BY <2>1, PollGoto, CallersAreThreads DEF StartWake, Threads, At, mutexVars
  <2>2. ASSUME NEW d \in Deleters, StartDelete(d) PROVE WaitersPoll'
    BY <2>2, PollGoto DEF StartDelete, Threads, At, mutexVars
  <2>3. CASE CreateTenant \/ UpdateTenant \/ ReportActivity
    BY <2>3, PollAlone DEF CreateTenant, UpdateTenant, ReportActivity, locals, mutexVars
  <2>. QED
    BY <1>2, <2>1, <2>2, <2>3 DEF Request
<1>3. ASSUME NEW r \in Replicas, Crash(r) PROVE WaitersPoll'
  <2>. DEFINE dead == {t \in Threads : ReplicaOf[t] = r /\ pc[t] \notin {"answered", "touch"}}
  <2>1. /\ pc' = [t \in Threads |-> IF t \in dead THEN "idle" ELSE pc[t]]
        /\ behind' = [c \in Callers |-> IF c \in dead \/ behind[c] \in dead
                                        THEN NoOne ELSE behind[c]]
    BY <1>3 DEF Crash
  <2>. HIDE DEF dead
  <2>. QED
    BY <2>1 DEF WaitersPoll, Threads
<1>4. CASE World
  BY <1>4, PollAlone DEF World, PodStarts, PodGone, PodLost, PodFails, CacheExpires, PastFades,
     KeyLapses, GracePasses, Elapse, Lapse, locals, mutexVars
<1>5. CASE UNCHANGED vars
  BY <1>5, PollAlone DEF vars, locals, mutexVars
<1>. QED
  BY <1>1, <1>2, <1>3, <1>4, <1>5, FaultPolls DEF Next

\* The invariant the results about the lock rest on.
LockInv == PartsOK /\ MutexInv /\ HeldInSlowPath /\ WaitersPoll

\* It is inductive.
LEMMA LockInvariance == Spec => []LockInv
<1>1. TenantInit => LockInv
  <2>1. TenantInit => HeldInSlowPath
    BY NoOneAssumption DEF TenantInit, MutexInit, HeldInSlowPath, SlowPath, Threads
  <2>2. TenantInit => WaitersPoll
    BY DEF TenantInit, MutexInit, WaitersPoll
  <2>. QED
    BY <2>1, <2>2, InitTypes, MutexStarts DEF LockInv, TenantInit
<1>2. LockInv /\ [Next]_vars => LockInv'
  BY NextTypes, NextHeld, NextPolls, NextLocks, WithinMutex, MutexKeeps DEF LockInv
<1>. QED
  BY <1>1, <1>2, PTL DEF Spec

\* A poller always waits for a call that is in the slow path now, under the key: it is
\* not left waiting for a winner that died, was cancelled or failed (handler.go:375).
THEOREM PollersWait == Spec => []PollersWaitForHolder
<1>1. LockInv => PollersWaitForHolder
  BY NoOneAssumption DEF LockInv, MutexInv, MutexTypeOK, WaitersBehindHolder, WaitersPoll,
     HeldInSlowPath, PollersWaitForHolder, At
<1>. QED
  BY <1>1, LockInvariance, PTL

(***************************************************************************)
(* Stray keys.                                                             *)
(***************************************************************************)
Bounded == \A kind \in Kinds : Limits[kind] # Unlimited =>
              /\ budget[kind] # Unlimited /\ budget[kind] <= Limits[kind]

\* A budget only shrinks.
LEMMA SpendShrinks ==
    ASSUME BudgetOK, Bounded, NEW kind \in Kinds, Spend(kind)
    PROVE  /\ Bounded' /\ Happened(kind)'
           /\ \A k \in Kinds : Happened(k) => Happened(k)'
<1>1. \A k \in Kinds : /\ budget[k] \in Nat \cup {Unlimited}
                       /\ Limits[k] \in Nat \cup {Unlimited}
  BY LimitsAssumption DEF BudgetOK
<1>2. \A k \in Kinds : budget'[k] = IF k # kind \/ budget[k] = Unlimited
                                    THEN budget[k] ELSE budget[k] - 1
  BY DEF Spend, BudgetOK
<1>3. budget[kind] # 0
  BY DEF Spend
<1>. QED
  BY <1>1, <1>2, <1>3 DEF Bounded, Happened, Unlimited

\* A step spends one kind of its budget, or none.
LEMMA StepsSpend ==
    ASSUME [Next]_vars
    PROVE  UNCHANGED budget \/ \E kind \in Kinds : Spend(kind)
<1>. DEFINE Frugal == UNCHANGED budget \/ \E kind \in Kinds : Spend(kind)
<1>0. {"wake", "touch", "fault", "loss", "fail", "slow", "time"} = Kinds
  BY DEF Kinds
<1>1. ASSUME NEW t \in Threads, ThreadStep(t) PROVE Frugal
  <2>1. WakeStep(t) => Frugal
    BY <1>0 DEF WakeStep, ReadRecord, FastPath, TakeLock, LoseLock, MarkProvisioning, CreatePod,
       WaitReady, WaitTimesOut, Publish, ReturnHoldingLock, PollAnswers, PollTimesOut,
       RouterCaches, RouterTouches
  <2>2. Correct(t) => Frugal
    BY DEF Correct, WriteRunning, WriteCache, ClearCacheAndWake, WriteIdle, ClearCache
  <2>3. EventStep(t) => Frugal
    BY <1>0, <2>2 DEF EventStep, HandleEvent, GetPodState
  <2>4. PassStep(t) => Frugal
    BY <2>2 DEF PassStep, ListTenantPods, SyncRunning, SyncProvisioning,
       ListRunningForOrphans, ListProvisioningForOrphans, DeleteOrphan
  <2>5. IdleStep(t) \/ DeleteStep(t) => Frugal
    BY DEF IdleStep, ListIdle, StopPod, MarkIdle, DeleteStep, DeleteTenantPod, DeleteRecord,
       DeleteCache
  <2>. QED
    BY <1>1, <2>1, <2>3, <2>4, <2>5 DEF ThreadStep
<1>2. ASSUME NEW t \in Threads, Fault(t) PROVE Frugal
  BY <1>0, <1>2 DEF Fault, WakeCallFails, ReleaseFails, WakeCancelled, ReadFails,
     ReconcileCallFails, IdleCallFails, DeleteCallFails
<1>3. CASE Request
  BY <1>0, <1>3 DEF Request, StartWake, StartDelete, CreateTenant, UpdateTenant, ReportActivity
<1>4. CASE World
  BY <1>0, <1>4 DEF World, PodStarts, PodGone, PodLost, PodFails, CacheExpires, PastFades,
     KeyLapses, GracePasses, Elapse, TimeFor
<1>5. CASE (\E r \in Replicas : Crash(r)) \/ UNCHANGED vars
  BY <1>0, <1>5 DEF Crash, vars
<1>. QED
  BY <1>1, <1>2, <1>3, <1>4, <1>5 DEF Next

\* What has happened has happened.
LEMMA HappenedStays ==
    ASSUME PartsOK, Bounded, [Next]_vars
    PROVE  Bounded' /\ \A k \in Kinds : Happened(k) => Happened(k)'
<1>1. CASE UNCHANGED budget
  BY <1>1 DEF Bounded, Happened
<1>2. ASSUME NEW kind \in Kinds, Spend(kind)
      PROVE  Bounded' /\ \A k \in Kinds : Happened(k) => Happened(k)'
  BY <1>2, SpendShrinks DEF PartsOK
<1>. QED
  BY <1>1, <1>2, StepsSpend

\* Nothing has happened at the start.
LEMMA StartsBounded == TenantInit => Bounded
<1>1. \A k \in Kinds : Limits[k] \in Nat \cup {Unlimited}
  BY LimitsAssumption
<1>. QED
  BY <1>1 DEF TenantInit, Bounded, Unlimited

\* A key loses its holder by a fault only.
LEMMA NextStrays ==
    ASSUME LockInv, Bounded, StrayKeyHasCause, [Next]_vars
    PROVE  StrayKeyHasCause'
<1>0. "fault" \in Kinds
  BY DEF Kinds
<1>1. Happened("fault") => Happened("fault")'
  BY <1>0, HappenedStays DEF LockInv
<1>2. key' /\ holder' = NoOne => (key /\ holder = NoOne) \/ Spend("fault")
  <2>1. CASE Freely
    BY <2>1, NoOneAssumption DEF Freely, Acquire, Lose, Leave, Release, Lapse, mutexVars
  <2>2. CASE ByFault
    BY <2>2 DEF ByFault
  <2>. QED
    BY <2>1, <2>2, NextLocks DEF LockInv
<1>3. Spend("fault") => Happened("fault")'
  BY <1>0, SpendShrinks DEF LockInv, PartsOK
<1>. QED
  BY <1>1, <1>2, <1>3 DEF StrayKeyHasCause

\* A key that blocks every wake of a tenant while nobody is in the slow path is the
\* trace of a crash, a cancelled request or a failed DEL, never of a return
\* (handler.go:373).
THEOREM StrayKeysHaveCause == Spec => []StrayKeyHasCause
<1>1. TenantInit => StrayKeyHasCause
  BY DEF TenantInit, MutexInit, StrayKeyHasCause
<1>2. LockInv /\ Bounded /\ StrayKeyHasCause /\ [Next]_vars => (Bounded /\ StrayKeyHasCause)'
  BY NextStrays, HappenedStays DEF LockInv
<1>. QED
  BY <1>1, <1>2, StartsBounded, LockInvariance, PTL DEF Spec

(***************************************************************************)
(* What the lock protects.                                                 *)
(***************************************************************************)
\* Only CreatePod makes a pod.
LEMMA PodsAreCreated ==
    ASSUME [Next]_vars, ~Exists(pod), Exists(pod')
    PROVE  \E c \in Callers : CreatePod(c)
<1>. DEFINE Idle == Exists(pod') => Exists(pod)
<1>1. ASSUME NEW t \in Threads, ThreadStep(t), ~\E c \in Callers : CreatePod(c) PROVE Idle
  <2>1. t \in Callers /\ WakeStep(t) => Idle
    BY <1>1 DEF WakeStep, ReadRecord, FastPath, TakeLock, LoseLock, MarkProvisioning,
       WaitReady, WaitTimesOut, Publish, ReturnHoldingLock, PollAnswers, PollTimesOut,
       RouterCaches, RouterTouches, store
  <2>2. Correct(t) => Idle
    BY DEF Correct, WriteRunning, WriteCache, ClearCacheAndWake, WriteIdle, ClearCache
  <2>3. EventStep(t) => Idle
    BY <2>2 DEF EventStep, HandleEvent, GetPodState, store
  <2>4. DeletePod("short") \/ DeletePod("long") => Idle
    BY DEF DeletePod
  <2>5. PassStep(t) => Idle
    BY <2>2, <2>4 DEF PassStep, ListTenantPods, SyncRunning, SyncProvisioning,
       ListRunningForOrphans, ListProvisioningForOrphans, DeleteOrphan, store
  <2>6. IdleStep(t) \/ DeleteStep(t) => Idle
    BY <2>4 DEF IdleStep, ListIdle, StopPod, MarkIdle, DeleteStep, DeleteTenantPod, DeleteRecord,
       DeleteCache, store
  <2>. QED
    BY <1>1, <2>1, <2>3, <2>5, <2>6 DEF ThreadStep
<1>2. ASSUME NEW t \in Threads, Fault(t) PROVE Idle
  BY <1>2 DEF Fault, WakeCallFails, ReleaseFails, WakeCancelled, ReadFails,
     ReconcileCallFails, IdleCallFails, DeleteCallFails, store
<1>3. CASE Request
  BY <1>3 DEF Request, StartWake, StartDelete, CreateTenant, UpdateTenant, ReportActivity, store
<1>4. CASE World
  BY <1>4 DEF World, PodStarts, PodGone, PodLost, PodFails, CacheExpires, PastFades,
     KeyLapses, GracePasses, Elapse, store, Exists, NoPod, OutOfGrace
<1>5. CASE (\E r \in Replicas : Crash(r)) \/ UNCHANGED vars
  BY <1>5 DEF Crash, vars, store
<1>. QED
  BY <1>1, <1>2, <1>3, <1>4, <1>5 DEF Next

\* A write of another status, or of another attribute, starts no provisioning.
LEMMA OtherWrites ==
    ASSUME PartsOK, rec.status # "provisioning",
           \/ \E ip : UpdateStatus("running", ip) \/ UpdateStatus("idle", ip)
           \/ CreateRecord("idle") \/ UpdateActivity \/ DeleteItem
           \/ \E positive \in BOOLEAN : UpdateIdleTimeout(positive)
    PROVE  rec'.status # "provisioning"
<1>. rec \in Record
  BY DEF PartsOK, StoreOK
<1>1. ASSUME NEW ip, NEW status, status # "provisioning", UpdateStatus(status, ip)
      PROVE  rec'.status # "provisioning"
  BY <1>1 DEF UpdateStatus, Write, Record
<1>2. CASE CreateRecord("idle")
  BY <1>2 DEF CreateRecord, NewRecord, NoRecord, Write, copies
<1>3. CASE UpdateActivity
  BY <1>3 DEF UpdateActivity, Write, Record
<1>4. CASE DeleteItem
  BY <1>4 DEF DeleteItem, Write, NoRecord
<1>5. ASSUME NEW positive \in BOOLEAN, UpdateIdleTimeout(positive)
      PROVE  rec'.status # "provisioning"
  BY <1>5 DEF UpdateIdleTimeout, Write, Record
<1>. QED
  BY <1>1, <1>2, <1>3, <1>4, <1>5

\* Only MarkProvisioning makes a tenant provisioning.
LEMMA ProvisioningIsMarked ==
    ASSUME PartsOK, [Next]_vars, rec.status # "provisioning", rec'.status = "provisioning"
    PROVE  \E c \in Callers : MarkProvisioning(c)
<1>. DEFINE Idle == rec'.status # "provisioning"
<1>1. ASSUME NEW t \in Threads, ThreadStep(t), ~\E c \in Callers : MarkProvisioning(c) PROVE Idle
  <2>1. t \in Callers /\ WakeStep(t) => Idle
    BY <1>1, OtherWrites DEF WakeStep, ReadRecord, FastPath, TakeLock, LoseLock, CreatePod,
       WaitReady, WaitTimesOut, Publish, ReturnHoldingLock, PollAnswers, PollTimesOut,
       RouterCaches, RouterTouches, store
  <2>2. Correct(t) => Idle
    BY OtherWrites DEF Correct, WriteRunning, WriteCache, ClearCacheAndWake, WriteIdle, ClearCache
  <2>3. EventStep(t) => Idle
    BY <2>2 DEF EventStep, HandleEvent, GetPodState, store
  <2>4. PassStep(t) => Idle
    BY <2>2 DEF PassStep, ListTenantPods, SyncRunning, SyncProvisioning,
       ListRunningForOrphans, ListProvisioningForOrphans, DeleteOrphan, store
  <2>5. IdleStep(t) \/ DeleteStep(t) => Idle
    BY OtherWrites DEF IdleStep, ListIdle, StopPod, MarkIdle, DeleteStep, DeleteTenantPod,
       DeleteRecord, DeleteCache, store
  <2>. QED
    BY <1>1, <2>1, <2>3, <2>4, <2>5 DEF ThreadStep
<1>2. ASSUME NEW t \in Threads, Fault(t) PROVE Idle
  BY <1>2 DEF Fault, WakeCallFails, ReleaseFails, WakeCancelled, ReadFails,
     ReconcileCallFails, IdleCallFails, DeleteCallFails, store
<1>3. CASE Request
  BY <1>3, OtherWrites DEF Request, StartWake, StartDelete, CreateTenant, UpdateTenant,
     ReportActivity, store
<1>4. CASE World
  BY <1>4 DEF World, PodStarts, PodGone, PodLost, PodFails, CacheExpires, PastFades,
     KeyLapses, GracePasses, Elapse, store, Older, PartsOK, StoreOK, Record
<1>5. CASE (\E r \in Replicas : Crash(r)) \/ UNCHANGED vars
  BY <1>5 DEF Crash, vars, store
<1>. QED
  BY <1>1, <1>2, <1>3, <1>4, <1>5 DEF Next

\* Pods are created, and provisioning begins, under the wake lock only: no loop,
\* request or poller does either on its own (handler.go:366-452).
THEOREM WakesAreLocked == Spec => WakesUnderLock
<1>. DEFINE UnderLock ==
       /\ ~Exists(pod) /\ Exists(pod') => \E c \in Callers : holder = c /\ At(c, "create")
       /\ rec.status # "provisioning" /\ rec'.status = "provisioning"
             => \E c \in Callers : holder = c /\ At(c, "mark")
<1>1. LockInv /\ [Next]_vars => [UnderLock]_vars
  <2>. SUFFICES ASSUME LockInv, [Next]_vars PROVE UnderLock
    OBVIOUS
  <2>1. ASSUME NEW c \in Callers, CreatePod(c) PROVE holder = c /\ At(c, "create")
    BY <2>1 DEF CreatePod, At, LockInv, HeldInSlowPath, SlowPath
  <2>2. ASSUME NEW c \in Callers, MarkProvisioning(c) PROVE holder = c /\ At(c, "mark")
    BY <2>2 DEF MarkProvisioning, At, LockInv, HeldInSlowPath, SlowPath
  <2>. QED
    BY <2>1, <2>2, PodsAreCreated, ProvisioningIsMarked DEF LockInv
<1>. QED
  BY <1>1, LockInvariance, PTL DEF Spec, WakesUnderLock

\* Whatever became of record and pod since they were read, nobody answers, publishes
\* or caches an empty address (handler.go:348, 460, 493).
THEOREM AnswersCarryAddress == Spec => []AnswersHaveAddress
<1>1. TenantInit => AddressInHand
  BY DEF TenantInit, AddressInHand, UsesAddress
<1>2. PartsOK /\ AddressInHand /\ [Next]_vars => PartsOK' /\ AddressInHand'
  BY NextTypes, NextHand
<1>3. AddressInHand => AnswersHaveAddress
  BY DEF AddressInHand, AnswersHaveAddress
<1>. QED
  BY <1>1, <1>2, <1>3, InitTypes, PTL DEF Spec
(***************************************************************************)
(* Items without attributes.  Until a DELETE, PATCH or activity report has *)
(* come or something has failed, an item that is missing has never been    *)
(* there: nobody has read one, and nobody is where an upsert follows.      *)
(***************************************************************************)
Quiet == ~Happened("touch") /\ ~Happened("fault")

\* Where threads can be that have not seen an item.
Early(t) == {"idle", "p_run", "p_prov", "p_orphan", "p_orphan2", "p_delete"}
               \cup IF t \in Wakers THEN {"get", "lock", "mark", "poll"} ELSE {}

Unborn == /\ past.status = "none"
          /\ \A t \in Threads : seen[t].status = "none" /\ pc[t] \in Early(t)

Whole == /\ \A d \in Deleters : pc[d] = "idle"
         /\ IF rec.status = "none" THEN Unborn ELSE rec.full /\ rec.placed

\* A quiet step is a step of a thread, a new wake or the world's, and it was quiet
\* before it.
LEMMA QuietSteps ==
    ASSUME PartsOK, Bounded, [Next]_vars, Quiet'
    PROVE  /\ Quiet
           /\ \/ \E t \in Threads : ThreadStep(t)
              \/ (\E w \in Wakers : StartWake(w)) \/ World \/ UNCHANGED vars
<1>0. {"touch", "fault"} \subseteq Kinds
  BY DEF Kinds
<1>1. Quiet
  BY <1>0, HappenedStays DEF Quiet
<1>2. ~Spend("touch") /\ ~Spend("fault")
  BY <1>0, SpendShrinks DEF Quiet, PartsOK
<1>3. \A t \in Threads : ~Fault(t)
  BY <1>2 DEF Fault, WakeCallFails, ReleaseFails, WakeCancelled, ReadFails, ReconcileCallFails,
     IdleCallFails, DeleteCallFails
<1>4. \A r \in Replicas : ~Crash(r)
  BY <1>2 DEF Crash
<1>5. Request => \E w \in Wakers : StartWake(w)
  BY <1>2 DEF Request, StartDelete, CreateTenant, UpdateTenant, ReportActivity
<1>. QED
  BY <1>1, <1>3, <1>4, <1>5 DEF Next

\* A step of a thread moves no other thread, and what it reads is its own.
LEMMA OneMoves ==
    ASSUME PartsOK, NEW t \in Threads, ThreadStep(t)
    PROVE  \A u \in Threads : u # t => pc'[u] = pc[u] /\ seen'[u] = seen[u]
<1>. DEFINE Alone == \A u \in Threads : u # t => pc'[u] = pc[u] /\ seen'[u] = seen[u]
<1>1. ASSUME NEW l, NEW r, NEW a, Move(t, l, r, a) PROVE Alone
  BY <1>1 DEF Move, PartsOK, LocalsOK
<1>2. \A l : Goto(t, l) => Alone
  BY <1>1 DEF Goto
<1>. HIDE DEF Alone
<1>3. WakeStep(t) => Alone
  BY <1>1, <1>2 DEF WakeStep, ReadRecord, FastPath, TakeLock, LoseLock, MarkProvisioning,
     CreatePod, WaitReady, WaitTimesOut, Publish, ReturnHoldingLock, PollAnswers, PollTimesOut,
     RouterCaches, RouterTouches
<1>4. Correct(t) => Alone
  BY <1>2 DEF Correct, WriteRunning, WriteCache, ClearCacheAndWake, WriteIdle, ClearCache
<1>5. EventStep(t) => Alone
  BY <1>1, <1>4 DEF EventStep, HandleEvent, GetPodState, CheckPod
<1>6. ListTenantPods(t) => Alone
  BY DEF ListTenantPods, Alone, PartsOK, LocalsOK
<1>7. PassStep(t) => Alone
  BY <1>1, <1>2, <1>4, <1>6 DEF PassStep, SyncRunning, SyncProvisioning, ListRunningForOrphans,
     ListProvisioningForOrphans, DeleteOrphan
<1>8. IdleStep(t) \/ DeleteStep(t) => Alone
  BY <1>2 DEF IdleStep, ListIdle, StopPod, MarkIdle, DeleteStep, DeleteTenantPod, DeleteRecord,
     DeleteCache
<1>. QED
  BY <1>3, <1>5, <1>7, <1>8 DEF ThreadStep, Alone

\* The item as it stays: there, and with its attributes.
There(r) == r.status # "none" /\ r.full /\ r.placed

\* Every write but the deletion leaves a complete item complete.
LEMMA WritesKeep ==
    ASSUME PartsOK, There(rec),
           \/ \E ip : \E s \in {"provisioning", "running", "idle"} : UpdateStatus(s, ip)
           \/ \E s : CreateRecord(s)
           \/ UpdateActivity \/ rec' = rec
    PROVE  There(rec')
<1>. rec \in Record
  BY DEF PartsOK, StoreOK
<1>1. ASSUME NEW ip, NEW s \in {"provisioning", "running", "idle"}, UpdateStatus(s, ip)
      PROVE  There(rec')
  BY <1>1 DEF UpdateStatus, Write, Record, There
<1>2. CASE \E s : CreateRecord(s)
  BY <1>2 DEF CreateRecord, Write, There, copies
<1>3. CASE UpdateActivity
  BY <1>3 DEF UpdateActivity, Write, Record, There
<1>. QED
  BY <1>1, <1>2, <1>3

\* A complete item stays so while nobody deletes it.
LEMMA ItemKept ==
    ASSUME PartsOK, There(rec), NEW t \in Threads, ThreadStep(t), t \notin Deleters
    PROVE  There(rec')
<1>1. WakeStep(t) => There(rec')
  BY WritesKeep DEF WakeStep, ReadRecord, FastPath, TakeLock, LoseLock, MarkProvisioning,
     CreatePod, WaitReady, WaitTimesOut, Publish, ReturnHoldingLock, PollAnswers, PollTimesOut,
     RouterCaches, RouterTouches, store
<1>2. Correct(t) => There(rec')
  BY WritesKeep DEF Correct, WriteRunning, WriteCache, ClearCacheAndWake, WriteIdle, ClearCache
<1>3. EventStep(t) => There(rec')
  BY <1>2 DEF EventStep, HandleEvent, GetPodState, store
<1>4. PassStep(t) => There(rec')
  BY <1>2 DEF PassStep, ListTenantPods, SyncRunning, SyncProvisioning, ListRunningForOrphans,
     ListProvisioningForOrphans, DeleteOrphan, store
<1>5. IdleStep(t) => There(rec')
  BY WritesKeep DEF IdleStep, ListIdle, StopPod, MarkIdle, store
<1>. QED
  BY <1>1, <1>3, <1>4, <1>5 DEF ThreadStep

\* While there has never been an item, a step of a thread makes a complete one, or
\* takes the thread no further than reads of nothing can.
LEMMA BirthIsWhole ==
    ASSUME PartsOK, rec.status = "none", Unborn, NEW t \in Threads, ThreadStep(t), t \notin Deleters
    PROVE  \/ There(rec')
           \/ /\ UNCHANGED <<rec, past>>
              /\ seen'[t].status = "none" /\ pc'[t] \in Early(t)
<1>. DEFINE Nothing == UNCHANGED <<rec, past>> /\ seen'[t].status = "none" /\ pc'[t] \in Early(t)
<1>1. /\ pc[t] \in Early(t) /\ seen[t].status = "none" /\ NoRecord.status = "none"
      /\ \A r \in Readable : r.status = "none"
  BY DEF Unborn, Readable, NoRecord
<1>2. ASSUME NEW l, NEW r, NEW a, Move(t, l, r, a), r.status = "none"
      PROVE  pc'[t] = l /\ seen'[t].status = "none"
  BY <1>1, <1>2 DEF Move, PartsOK, LocalsOK
<1>3. ASSUME NEW l, Goto(t, l)
      PROVE  pc'[t] = l /\ seen'[t].status = "none"
  BY <1>1, <1>2, <1>3 DEF Goto
<1>4. ASSUME t \in Wakers, WakeStep(t) PROVE There(rec') \/ Nothing
  <2>1. CASE ReadRecord(t)
    BY <1>1, <1>2, <1>4, <2>1 DEF ReadRecord, HasAddress, Early, store, transit, copies
  <2>2. CASE TakeLock(t) \/ LoseLock(t)
    BY <1>3, <1>4, <2>2 DEF TakeLock, LoseLock, Early, store, transit, copies
  <2>3. CASE MarkProvisioning(t)
    BY <1>1, <2>3 DEF MarkProvisioning, CreateRecord, NewRecord, NoRecord, Write, There
  <2>4. CASE PollAnswers(t)
    BY <1>1, <2>4 DEF PollAnswers, HasAddress
  <2>5. CASE PollTimesOut(t)
    BY <1>1, <1>2, <1>4, <2>5 DEF PollTimesOut, AfterWake, Early, store, transit, copies
  <2>6. CASE \/ FastPath(t) \/ CreatePod(t) \/ WaitReady(t) \/ WaitTimesOut(t) \/ Publish(t)
             \/ ReturnHoldingLock(t) \/ RouterCaches(t) \/ RouterTouches(t)
    BY <1>1, <2>6 DEF FastPath, CreatePod, WaitReady, WaitTimesOut, Publish, ReturnHoldingLock,
       RouterCaches, RouterTouches, At, Early
  <2>. QED
    BY <1>4, <2>1, <2>2, <2>3, <2>4, <2>5, <2>6 DEF WakeStep
<1>5. t \notin Wakers => ~WakeStep(t)
  BY <1>1 DEF WakeStep, ReadRecord, FastPath, TakeLock, LoseLock, MarkProvisioning, CreatePod,
     WaitReady, WaitTimesOut, Publish, ReturnHoldingLock, PollAnswers, PollTimesOut,
     RouterCaches, RouterTouches, At, Early
<1>6. ~Correct(t)
  BY <1>1 DEF Correct, WriteRunning, WriteCache, ClearCacheAndWake, WriteIdle, ClearCache, At, Early
<1>7. ASSUME EventStep(t) PROVE Nothing
  <2>1. ~GetPodState(t)
    BY <1>1 DEF GetPodState, At, Early
  <2>2. HandleEvent(t)
    BY <1>6, <1>7, <2>1 DEF EventStep
  <2>. QED
    BY <1>1, <1>2, <2>2 DEF HandleEvent, Early, store, copies
<1>8. ASSUME PassStep(t) PROVE Nothing
  <2>1. CASE ListTenantPods(t)
    BY <1>1, <2>1 DEF ListTenantPods, Early, store, copies, PartsOK, LocalsOK
  <2>2. CASE SyncRunning(t) \/ SyncProvisioning(t) \/ ListRunningForOrphans(t)
    BY <1>1, <1>3, <2>2 DEF SyncRunning, SyncProvisioning, ListRunningForOrphans, Early, store,
       transit, copies
  <2>3. CASE ListProvisioningForOrphans(t) \/ DeleteOrphan(t)
    BY <1>3, <2>3 DEF ListProvisioningForOrphans, DeleteOrphan, Early, store, transit, copies
  <2>. QED
    BY <1>6, <1>8, <2>1, <2>2, <2>3 DEF PassStep
<1>9. ~IdleStep(t)
  BY <1>1 DEF IdleStep, ListIdle, StopPod, MarkIdle, At, Early
<1>. QED
  BY <1>4, <1>5, <1>7, <1>8, <1>9 DEF ThreadStep

\* A step of a thread keeps items whole.
LEMMA ThreadsWhole ==
    ASSUME PartsOK, Whole, NEW t \in Threads, ThreadStep(t)
    PROVE  Whole'
<1>1. t \notin Deleters
  <2>1. pc[t] = "idle" => ~DeleteStep(t)
    BY DEF DeleteStep, DeleteTenantPod, DeleteRecord, DeleteCache, At
  <2>2. t \in Deleters => t \notin Callers \cup EventLoops \cup PassLoops \cup Idlers
    BY ThreadsDiffer, CallersAreThreads
  <2>. QED
    BY <2>1, <2>2 DEF ThreadStep, Whole
<1>2. /\ \A u \in Threads : u # t => pc'[u] = pc[u] /\ seen'[u] = seen[u]
      /\ Deleters \subseteq Threads
  BY OneMoves DEF Threads
<1>3. \A d \in Deleters : pc'[d] = "idle"
  BY <1>1, <1>2 DEF Whole
<1>4. CASE rec.status # "none"
  BY <1>1, <1>3, <1>4, ItemKept DEF Whole, There
<1>5. CASE rec.status = "none"
  <2>1. CASE There(rec')
    BY <1>3, <2>1 DEF Whole, There
  <2>2. CASE /\ UNCHANGED <<rec, past>>
             /\ seen'[t].status = "none" /\ pc'[t] \in Early(t)
    BY <1>2, <1>3, <1>5, <2>2 DEF Whole, Unborn, Early
  <2>. QED
    BY <1>1, <1>5, <2>1, <2>2, BirthIsWhole DEF Whole
<1>. QED
  BY <1>4, <1>5

\* So does the world.
LEMMA WorldWhole ==
    ASSUME PartsOK, Whole, World
    PROVE  Whole'
<1>1. CASE UNCHANGED <<rec, past, pc, seen>>
  BY <1>1 DEF Whole, Unborn, Early
<1>2. CASE PastFades
  BY <1>2 DEF PastFades, Whole, Unborn, Early, store, locals
<1>3. CASE Elapse
  <2>1. /\ pc' = pc /\ rec' = Older(rec) /\ past' = Older(past)
        /\ \A t \in Threads : seen'[t] = Older(seen[t])
    BY <1>3 DEF Elapse
  <2>2. \A r \in Record : /\ Older(r).status = r.status
                          /\ Older(r).full = r.full /\ Older(r).placed = r.placed
    BY DEF Older, Record
  <2>3. rec \in Record /\ past \in Record /\ \A t \in Threads : seen[t] \in Record
    BY DEF PartsOK, StoreOK, CopiesOK, LocalsOK
  <2>. QED
    BY <2>1, <2>2, <2>3 DEF Whole, Unborn, Early
<1>4. CASE PodStarts \/ PodGone \/ PodLost \/ PodFails \/ CacheExpires \/ KeyLapses \/ GracePasses
  BY <1>1, <1>4 DEF PodStarts, PodGone, PodLost, PodFails, CacheExpires, KeyLapses, GracePasses,
     Notify, copies, transit, store, locals
<1>. QED
  BY <1>2, <1>3, <1>4 DEF World

\* A quiet step keeps items whole.
LEMMA NextWhole ==
    ASSUME PartsOK, Bounded, Quiet => Whole, [Next]_vars, Quiet'
    PROVE  Whole'
<1>1. Whole
  BY QuietSteps
<1>2. ASSUME NEW w \in Wakers, StartWake(w) PROVE Whole'
  <2>1. /\ w \in Threads /\ w \notin Deleters
        /\ UNCHANGED <<rec, past>> /\ Goto(w, "get")
    BY <1>2, ThreadsDiffer, CallersAreThreads DEF StartWake, Threads, store, transit, copies
  <2>2. /\ pc' = [pc EXCEPT ![w] = "get"]
        /\ seen' = [seen EXCEPT ![w] = NoRecord] /\ NoRecord.status = "none"
    BY <2>1 DEF Goto, Move, UsesRecord, NoRecord
  <2>. QED
    BY <1>1, <2>1, <2>2 DEF PartsOK, LocalsOK, Whole, Unborn, Early
<1>3. CASE UNCHANGED vars
  BY <1>1, <1>3 DEF vars, store, transit, copies, locals, Whole, Unborn, Early
<1>. QED
  BY <1>1, <1>2, <1>3, ThreadsWhole, WorldWhole, QuietSteps

\* No wake, no loop of the reconciler and no idle loop makes an item without its
\* attributes by the upsert of a status, on however old a read; DELETE, PATCH, activity
\* reports and failures may (registry.go:137, handler.go:377-399).
THEOREM BareItemsHaveCause == Spec => []BareItemHasCause
<1>. DEFINE WholeInv == Quiet => Whole
<1>1. TenantInit => WholeInv
  BY DEF TenantInit, NoRecord, Whole, Unborn, Early, Threads
<1>2. PartsOK /\ Bounded /\ WholeInv /\ [Next]_vars => PartsOK' /\ Bounded' /\ WholeInv'
  BY NextTypes, HappenedStays, NextWhole
<1>3. WholeInv => BareItemHasCause
  BY DEF Whole, Quiet, BareItemHasCause
<1>. QED
  BY <1>1, <1>2, <1>3, InitTypes, StartsBounded, PTL DEF Spec
=============================================================================
