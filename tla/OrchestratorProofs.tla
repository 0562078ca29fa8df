------------------------- MODULE OrchestratorProofs -------------------------
(***************************************************************************)
(* Safety of the control plane of one tenant, for any number of wakes,     *)
(* loops, replicas and DELETE requests, any times and any budget of        *)
(* faults: type correctness, the place of the wake lock in WakeOrGet, and  *)
(* the agreement of status and address in the record.                      *)
(***************************************************************************)
EXTENDS Orchestrator, TLAPS

StoreOK == rec \in Record /\ pod \in Pod /\ cache \in Addresses \cup {0}
QueuesOK == events \in [EventLoops -> 0..MaxEvents] /\ due \subseteq PassLoops
CopiesOK == past \in Record /\ lags \in 0..MaxLags
LocalsOK == /\ pc \in [Threads -> Labels]
            /\ seen \in [Threads -> Record] /\ view \in [Threads -> Pod]
            /\ addr \in [Threads -> Addresses \cup {0}]
BudgetOK == budget \in [Kinds -> Nat \cup {Unlimited}]
PartsOK == /\ MutexTypeOK /\ StoreOK /\ QueuesOK /\ CopiesOK /\ LocalsOK /\ BudgetOK

(***************************************************************************)
(* Typing of the operations the actions are built from.                    *)
(***************************************************************************)
\* The values threads and stores start from are typed.
LEMMA Blank == /\ NoRecord \in Record /\ NoPod \in Pod /\ NewPod \in Pod
               /\ 0 \in 0..MaxAge /\ 0 \in 0..MaxEvents
<1>1. StuckAfter \in Nat /\ MaxEvents \in Nat
  BY TimesAreOrdered
<1>2. 0 \in 0..MaxAge /\ 0 \in 0..MaxEvents
  BY <1>1 DEF MaxAge
<1>3. NoRecord \in Record
  BY <1>2 DEF NoRecord, Record, Statuses
<1>4. NoPod \in Pod
  BY DEF NoPod, Pod, Phases
<1>5. NewPod \in Pod
  BY DEF NewPod, NoPod, Pod, Phases
<1>. QED
  BY <1>2, <1>3, <1>4, <1>5

\* Every operation on the wake lock keeps it typed.
LEMMA MutexType ==
    ASSUME MutexTypeOK, NEW c \in Callers,
           Acquire(c) \/ Lose(c) \/ Leave(c) \/ Release(c) \/ Abandon(c) \/ UNCHANGED mutexVars
    PROVE  MutexTypeOK'
BY DEF MutexTypeOK, mutexVars, Acquire, Lose, Leave, Release, Abandon, NobodyBehind

\* ... and so does every step that leaves it alone.
LEMMA MutexAlone ==
    ASSUME MutexTypeOK, UNCHANGED mutexVars
    PROVE  MutexTypeOK'
BY DEF MutexTypeOK, mutexVars

\* A thread that moves to a label with a record and an address stays typed.
LEMMA MoveType ==
    ASSUME LocalsOK, NEW t \in Threads, NEW label \in Labels, NEW r \in Record,
           NEW a \in Addresses \cup {0}, Move(t, label, r, a)
    PROVE  LocalsOK'
BY Blank DEF LocalsOK, Move

\* The same, with the record and address it already has.
LEMMA GotoType ==
    ASSUME LocalsOK, NEW t \in Threads, NEW label \in Labels, Goto(t, label)
    PROVE  LocalsOK'
BY MoveType DEF LocalsOK, Goto

\* The budget stays typed, whatever is spent.
LEMMA SpendType ==
    ASSUME BudgetOK, NEW kind \in Kinds, Spend(kind)
    PROVE  BudgetOK'
BY DEF BudgetOK, Spend, Unlimited

\* ... also when it is spent for a stall.
LEMMA TimeForType ==
    ASSUME BudgetOK, NEW gap, TimeFor(gap)
    PROVE  BudgetOK'
BY SpendType DEF TimeFor, BudgetOK, Kinds

\* A write of a typed item keeps the item typed, and what readers find of it.
LEMMA WriteType ==
    ASSUME CopiesOK, NEW r \in Record, Write(r)
    PROVE  rec' \in Record /\ CopiesOK'
<1>1. MaxLags \in Nat
  BY TimesAreOrdered
<1>. QED
  BY <1>1 DEF Write, CopiesOK

\* The registry's operations write typed items.
LEMMA StatusType ==
    ASSUME rec \in Record, CopiesOK, NEW status \in Statuses, NEW ip \in Addresses \cup {0},
           UpdateStatus(status, ip) \/ CreateRecord(status)
    PROVE  rec' \in Record /\ CopiesOK'
<1>1. ASSUME UpdateStatus(status, ip) PROVE rec' \in Record /\ CopiesOK'
  <2>1. [rec EXCEPT !.status = status, !.ip = ip, !.age = 0] \in Record
    BY Blank DEF Record
  <2>. QED
    BY <1>1, <2>1, WriteType DEF UpdateStatus
<1>2. ASSUME CreateRecord(status) PROVE rec' \in Record /\ CopiesOK'
  <2>1. NewRecord(status) \in Record
    BY Blank DEF Record, NewRecord, NoRecord
  <2>. QED
    BY <1>2, <2>1, WriteType DEF CreateRecord, CopiesOK, copies
<1>. QED
  BY <1>1, <1>2

\* ... and so do the updates of one attribute, which may make an item anew.
LEMMA UpdateType ==
    ASSUME rec \in Record, CopiesOK,
           UpdateActivity \/ DeleteItem \/ \E positive \in BOOLEAN : UpdateIdleTimeout(positive)
    PROVE  rec' \in Record /\ CopiesOK'
<1>1. CASE UpdateActivity
  <2>1. [rec EXCEPT !.status = IF @ = "none" THEN "blank" ELSE @, !.age = 0] \in Record
    BY Blank DEF Record, Statuses
  <2>. QED
    BY <1>1, <2>1, WriteType DEF UpdateActivity
<1>2. CASE DeleteItem
  BY <1>2, Blank, WriteType DEF DeleteItem
<1>3. ASSUME NEW positive \in BOOLEAN, UpdateIdleTimeout(positive)
      PROVE  rec' \in Record /\ CopiesOK'
  <2>1. [rec EXCEPT !.full = positive] \in Record
    BY DEF Record
  <2>. QED
    BY <1>3, <2>1, WriteType DEF UpdateIdleTimeout
<1>. QED
  BY <1>1, <1>2, <1>3

\* Deletion changes the grace period of a pod only.
LEMMA DeletePodType ==
    ASSUME pod \in Pod, NEW grace \in {"long", "short"}, DeletePod(grace)
    PROVE  pod' \in Pod
BY DEF Pod, DeletePod

\* Time changes ages only.
LEMMA AgingType ==
    ASSUME NEW r \in Record, NEW p \in Pod
    PROVE  Older(r) \in Record /\ OutOfGrace(p) \in Pod
<1>1. StuckAfter \in Nat
  BY TimesAreOrdered
<1>2. Older(r) \in Record
  <2>1. CASE r.status # "none" /\ r.age < MaxAge
    <3>1. r.age + 1 \in 0..MaxAge
      BY <1>1, <2>1 DEF Record, MaxAge
    <3>. QED
      BY <2>1, <3>1 DEF Older, Record
  <2>. QED
    BY <2>1 DEF Older
<1>3. OutOfGrace(p) \in Pod
  BY DEF OutOfGrace, Pod
<1>. QED
  BY <1>2, <1>3

\* The informer queues stay within their bound.
LEMMA NotifyType ==
    ASSUME QueuesOK, Notify
    PROVE  QueuesOK'
<1>1. MaxEvents \in Nat
  BY TimesAreOrdered
<1>2. ASSUME NEW e \in EventLoops
      PROVE  (IF events[e] < MaxEvents THEN events[e] + 1 ELSE MaxEvents) \in 0..MaxEvents
  BY <1>1 DEF QueuesOK
<1>. QED
  BY <1>2 DEF Notify, QueuesOK

\* The decisions are labels.
LEMMA AfterType ==
    ASSUME NEW t
    PROVE  /\ After(t, "run") \in Labels /\ After(t, "prov") \in Labels
           /\ AfterWake(t, TRUE) \in Labels /\ AfterWake(t, FALSE) \in Labels
BY DEF After, AfterWake, Labels, WakeLabels, SlowPath

\* What the reconciler decides is a label.
LEMMA DecisionType ==
    ASSUME NEW t, NEW r \in Record, NEW p
    PROVE  /\ RunningDecision(t, r, p) \in Labels
           /\ ProvisioningDecision(t, r, p) \in Labels
           /\ Decision(t, r, p) \in Labels
BY AfterType DEF RunningDecision, ProvisioningDecision, Decision, Labels, WakeLabels, SlowPath

(***************************************************************************)
(* Every step keeps every part typed.                                      *)
(***************************************************************************)
\* The type invariant, in parts.
LEMMA Parts == TypeOK <=> PartsOK
BY DEF TypeOK, PartsOK, StoreOK, QueuesOK, CopiesOK, LocalsOK, BudgetOK

\* Callers are threads, and what they read is typed.
LEMMA Reads ==
    ASSUME PartsOK, NEW t \in Threads
    PROVE  /\ seen[t] \in Record /\ view[t] \in Pod /\ addr[t] \in Addresses \cup {0}
           /\ seen[t].ip \in Addresses \cup {0} /\ rec.ip \in Addresses \cup {0}
           /\ view[t].ip \in Addresses \cup {0} /\ pod.ip \in Addresses \cup {0}
           /\ pod.grace \in {"none", "long", "short"}
           /\ \A r \in Readable : r \in Record /\ r.ip \in Addresses \cup {0}
BY DEF PartsOK, StoreOK, LocalsOK, CopiesOK, Readable, Record, Pod

\* A wake's own steps.
LEMMA WakeTypes ==
    ASSUME PartsOK, NEW c \in Callers, WakeStep(c)
    PROVE  PartsOK'
<1>. c \in Threads
  BY DEF Threads
<1>. USE DEF WakeStep, ReadRecord, FastPath, TakeLock, LoseLock, MarkProvisioning,
             CreatePod, WaitReady, WaitTimesOut, Publish, ReturnHoldingLock, PollAnswers,
             PollTimesOut, RouterCaches, RouterTouches
<1>1. MutexTypeOK'
  BY MutexType DEF PartsOK
<1>2. rec' \in Record /\ CopiesOK'
  BY StatusType, UpdateType, Reads
     DEF PartsOK, StoreOK, store, Statuses, CopiesOK, copies, transit
<1>3. pod' \in Pod
  BY Blank DEF PartsOK, StoreOK, store
<1>4. cache' \in Addresses \cup {0}
  BY Reads DEF PartsOK, StoreOK, store
<1>5. QueuesOK'
  BY DEF PartsOK, QueuesOK, queues, transit
<1>6. LocalsOK'
  <2>1. /\ LocalsOK /\ NoRecord \in Record /\ 0 \in Addresses \cup {0}
        /\ {"get", "exists", "lock", "mark", "create", "wait", "publish", "release",
            "fail", "poll", "answered", "touch", "idle"} \subseteq Labels
        /\ AfterWake(c, TRUE) \in Labels /\ AfterWake(c, FALSE) \in Labels
    BY Blank, AfterType, Reads DEF PartsOK, Labels, WakeLabels, SlowPath
  <2>2. CASE ReadRecord(c)
    BY <2>1, <2>2, MoveType, Reads
  <2>3. CASE FastPath(c)
    BY <2>1, <2>3, MoveType, GotoType, Reads
  <2>4. CASE TakeLock(c) \/ LoseLock(c)
    BY <2>1, <2>4, GotoType
  <2>5. CASE MarkProvisioning(c) \/ CreatePod(c)
    BY <2>1, <2>5, GotoType
  <2>6. CASE WaitReady(c)
    BY <2>1, <2>6, MoveType, Reads
  <2>7. CASE WaitTimesOut(c) \/ Publish(c)
    BY <2>1, <2>7, GotoType
  <2>8. CASE ReturnHoldingLock(c)
    BY <2>1, <2>8, MoveType, Reads
  <2>9. CASE PollAnswers(c) \/ PollTimesOut(c)
    BY <2>1, <2>9, MoveType, Reads
  <2>10. CASE RouterCaches(c) \/ RouterTouches(c)
    BY <2>1, <2>10, GotoType
  <2>. QED
    BY <2>2, <2>3, <2>4, <2>5, <2>6, <2>7, <2>8, <2>9, <2>10
<1>7. BudgetOK'
  BY SpendType DEF PartsOK, BudgetOK, Kinds
<1>. QED
  BY <1>1, <1>2, <1>3, <1>4, <1>5, <1>6, <1>7 DEF PartsOK, StoreOK

\* The corrections both reconciler loops make.
LEMMA CorrectTypes ==
    ASSUME PartsOK, NEW t \in Callers, Correct(t)
    PROVE  PartsOK'
<1>. t \in Threads
  BY DEF Threads
<1>. USE DEF Correct, WriteRunning, WriteCache, ClearCacheAndWake, WriteIdle, ClearCache
<1>1. StoreOK' /\ CopiesOK'
  <2>1. rec' \in Record /\ CopiesOK'
    BY StatusType, Reads DEF PartsOK, StoreOK, Statuses, CopiesOK, copies, transit
  <2>. QED
    BY <2>1, Reads DEF PartsOK, StoreOK
<1>2. LocalsOK'
  BY GotoType, AfterType DEF PartsOK, Labels, WakeLabels
<1>3. MutexTypeOK' /\ QueuesOK' /\ BudgetOK'
  BY MutexAlone DEF PartsOK, QueuesOK, queues, CopiesOK, copies, transit, BudgetOK
<1>. QED
  BY <1>1, <1>2, <1>3 DEF PartsOK

\* An event loop.
LEMMA EventTypes ==
    ASSUME PartsOK, NEW e \in EventLoops, EventStep(e)
    PROVE  PartsOK'
<1>. e \in Callers /\ e \in Threads
  BY CallersAreThreads DEF Threads
<1>1. CASE HandleEvent(e)
  <2>. USE <1>1 DEF HandleEvent
  <2>1. LocalsOK'
    BY MoveType, Reads DEF PartsOK, Labels
  <2>2. QueuesOK' /\ CopiesOK'
    BY TimesAreOrdered DEF PartsOK, QueuesOK, CopiesOK, copies
  <2>. QED
    BY <2>1, <2>2, MutexAlone DEF PartsOK, StoreOK, store, BudgetOK
<1>2. CASE GetPodState(e)
  <2>. USE <1>2 DEF GetPodState, CheckPod
  <2>1. LocalsOK'
    BY MoveType, Reads, DecisionType, Blank DEF PartsOK, NoPod
  <2>2. BudgetOK'
    BY SpendType DEF PartsOK, BudgetOK, Kinds
  <2>. QED
    BY <2>1, <2>2, MutexAlone DEF PartsOK, StoreOK, store, QueuesOK, queues, CopiesOK, copies, transit
<1>. QED
  BY <1>1, <1>2, CorrectTypes DEF EventStep

\* A pass loop.
LEMMA PassTypes ==
    ASSUME PartsOK, NEW p \in PassLoops, PassStep(p)
    PROVE  PartsOK'
<1>. p \in Callers /\ p \in Threads
  BY CallersAreThreads DEF Threads
<1>1. CASE ListTenantPods(p)
  BY <1>1, MutexAlone DEF ListTenantPods, PartsOK, StoreOK, store, QueuesOK, CopiesOK, copies,
     LocalsOK, BudgetOK, Labels
<1>2. CASE SyncRunning(p) \/ SyncProvisioning(p)
  <2>1. LocalsOK'
    BY <1>2, MoveType, GotoType, Reads, DecisionType
       DEF SyncRunning, SyncProvisioning, PartsOK, Labels
  <2>. QED
    BY <1>2, <2>1, MutexType
       DEF SyncRunning, SyncProvisioning, PartsOK, StoreOK, store, QueuesOK, queues, CopiesOK, copies, transit, BudgetOK
<1>3. CASE ListRunningForOrphans(p) \/ ListProvisioningForOrphans(p)
  <2>1. LocalsOK'
    BY <1>3, GotoType DEF ListRunningForOrphans, ListProvisioningForOrphans, PartsOK, Labels
  <2>. QED
    BY <1>3, <2>1, MutexAlone DEF ListRunningForOrphans, ListProvisioningForOrphans,
       PartsOK, StoreOK, store, QueuesOK, queues, CopiesOK, copies, transit, BudgetOK
<1>4. CASE DeleteOrphan(p)
  <2>1. LocalsOK' /\ pod' \in Pod
    BY <1>4, GotoType, DeletePodType DEF DeleteOrphan, PartsOK, StoreOK, Labels
  <2>. QED
    BY <1>4, <2>1, MutexAlone DEF DeleteOrphan, PartsOK, StoreOK, QueuesOK, queues, CopiesOK, copies, transit, BudgetOK
<1>. QED
  BY <1>1, <1>2, <1>3, <1>4, CorrectTypes DEF PassStep

\* The idle loop.
LEMMA IdleTypes ==
    ASSUME PartsOK, NEW l \in Idlers, IdleStep(l)
    PROVE  PartsOK'
<1>. l \in Threads
  BY DEF Threads
<1>. USE DEF IdleStep, ListIdle, StopPod, MarkIdle
<1>1. StoreOK' /\ CopiesOK'
  BY StatusType, DeletePodType
     DEF PartsOK, StoreOK, store, Statuses, CopiesOK, copies, transit
<1>2. LocalsOK'
  BY GotoType DEF PartsOK, Labels
<1>. QED
  BY <1>1, <1>2, MutexAlone DEF PartsOK, QueuesOK, queues, CopiesOK, copies, transit, BudgetOK

\* A DELETE request.
LEMMA DeleteTypes ==
    ASSUME PartsOK, NEW d \in Deleters, DeleteStep(d)
    PROVE  PartsOK'
<1>. d \in Threads
  BY DEF Threads
<1>. USE DEF DeleteStep, DeleteTenantPod, DeleteRecord, DeleteCache
<1>1. StoreOK' /\ CopiesOK'
  BY Blank, UpdateType, DeletePodType DEF PartsOK, StoreOK, CopiesOK, copies, transit
<1>2. LocalsOK'
  BY GotoType DEF PartsOK, Labels
<1>. QED
  BY <1>1, <1>2, MutexAlone DEF PartsOK, QueuesOK, queues, CopiesOK, copies, transit, BudgetOK

\* Failed calls.
LEMMA FaultTypes ==
    ASSUME PartsOK, NEW t \in Threads, Fault(t)
    PROVE  PartsOK'
<1>. USE DEF Fault
<1>1. "fault" \in Kinds
  BY DEF Kinds
<1>2. /\ LocalsOK /\ QueuesOK /\ CopiesOK /\ BudgetOK /\ MutexTypeOK /\ StoreOK
  BY DEF PartsOK
<1>3. CASE t \in Callers /\ WakeCallFails(t)
  <2>1. AfterError[pc[t]] = "return" \/ AfterError[pc[t]] \in Labels
    BY <1>3 DEF WakeCallFails, AfterError, Labels, WakeLabels, SlowPath
  <2>2. LocalsOK'
    BY <1>2, <1>3, <2>1, MoveType, GotoType, Reads, AfterType DEF WakeCallFails
  <2>. QED
    BY <1>1, <1>2, <1>3, <2>2, MutexType, SpendType
       DEF WakeCallFails, PartsOK, StoreOK, store, QueuesOK, queues, CopiesOK, copies, transit
<1>4. CASE t \in Callers /\ ReleaseFails(t)
  <2>1. LocalsOK'
    BY <1>2, <1>4, MoveType, Reads, AfterType DEF ReleaseFails
  <2>. QED
    BY <1>1, <1>2, <1>4, <2>1, MutexType, SpendType
       DEF ReleaseFails, PartsOK, StoreOK, store, QueuesOK, queues, CopiesOK, copies, transit
<1>5. CASE t \in Wakers /\ WakeCancelled(t)
  <2>1. t \in Callers
    BY <1>5, CallersAreThreads
  <2>2. LocalsOK'
    BY <1>2, <1>5, GotoType DEF WakeCancelled, Labels
  <2>. QED
    BY <1>1, <1>2, <1>5, <2>1, <2>2, MutexType, SpendType
       DEF WakeCancelled, PartsOK, StoreOK, store, QueuesOK, queues, CopiesOK, copies, transit
<1>6. CASE t \in EventLoops \cup PassLoops /\ ReadFails(t)
  <2>1. QueuesOK' /\ CopiesOK'
    BY <1>2, <1>6, TimesAreOrdered DEF ReadFails, QueuesOK, CopiesOK, copies
  <2>. QED
    BY <1>1, <1>2, <1>6, <2>1, MutexAlone, SpendType
       DEF ReadFails, PartsOK, StoreOK, store, LocalsOK, locals
<1>7. CASE t \in EventLoops \cup PassLoops /\ ReconcileCallFails(t)
  <2>1. LocalsOK'
    BY <1>2, <1>7, GotoType, AfterType DEF ReconcileCallFails, Labels, WakeLabels
  <2>. QED
    BY <1>1, <1>2, <1>7, <2>1, MutexAlone, SpendType
       DEF ReconcileCallFails, PartsOK, StoreOK, store, QueuesOK, queues, CopiesOK, copies, transit
<1>8. CASE (t \in Idlers /\ IdleCallFails(t)) \/ (t \in Deleters /\ DeleteCallFails(t))
  <2>1. LocalsOK'
    BY <1>2, <1>8, GotoType DEF IdleCallFails, DeleteCallFails, Labels
  <2>. QED
    BY <1>1, <1>2, <1>8, <2>1, MutexAlone, SpendType
       DEF IdleCallFails, DeleteCallFails, PartsOK, StoreOK, store, QueuesOK, queues, CopiesOK, copies, transit
<1>. QED
  BY <1>3, <1>4, <1>5, <1>6, <1>7, <1>8

\* Requests.
LEMMA RequestTypes ==
    ASSUME PartsOK, Request
    PROVE  PartsOK'
<1>1. /\ LocalsOK /\ QueuesOK /\ CopiesOK /\ BudgetOK /\ MutexTypeOK /\ StoreOK
      /\ {"wake", "touch"} \subseteq Kinds
  BY DEF PartsOK, Kinds
<1>2. ASSUME NEW w \in Wakers, StartWake(w) PROVE PartsOK'
  <2>1. LocalsOK'
    BY <1>1, <1>2, GotoType, CallersAreThreads DEF StartWake, Threads, Labels, WakeLabels
  <2>. QED
    BY <1>1, <1>2, <2>1, MutexAlone, SpendType
       DEF StartWake, PartsOK, StoreOK, store, QueuesOK, queues, CopiesOK, copies, transit
<1>3. ASSUME NEW d \in Deleters, StartDelete(d) PROVE PartsOK'
  <2>1. LocalsOK'
    BY <1>1, <1>3, GotoType DEF StartDelete, Threads, Labels
  <2>. QED
    BY <1>1, <1>3, <2>1, MutexAlone, SpendType
       DEF StartDelete, PartsOK, StoreOK, store, QueuesOK, queues, CopiesOK, copies, transit
<1>4. CASE CreateTenant \/ UpdateTenant \/ ReportActivity
  <2>. USE <1>4 DEF CreateTenant, UpdateTenant, ReportActivity
  <2>1. rec' \in Record /\ CopiesOK'
    BY <1>1, StatusType, UpdateType, Reads DEF StoreOK, Statuses
  <2>2. BudgetOK'
    BY <1>1, SpendType
  <2>. QED
    BY <1>1, <2>1, <2>2, MutexAlone
       DEF PartsOK, StoreOK, LocalsOK, locals, QueuesOK, queues
<1>. QED
  BY <1>2, <1>3, <1>4 DEF Request

\* The world.
LEMMA WorldTypes ==
    ASSUME PartsOK, World
    PROVE  PartsOK'
<1>1. /\ LocalsOK /\ QueuesOK /\ CopiesOK /\ BudgetOK /\ MutexTypeOK /\ StoreOK
      /\ {"loss", "fail", "slow", "time"} \subseteq Kinds
  BY DEF PartsOK, Kinds
<1>2. CASE PodStarts \/ PodGone \/ PodLost \/ PodFails
  <2>. USE <1>2 DEF PodStarts, PodGone, PodLost, PodFails
  <2>1. pod' \in Pod
    BY <1>1, Blank DEF StoreOK, Pod, Phases
  <2>2. QueuesOK' /\ CopiesOK'
    BY <1>1, NotifyType DEF Notify, CopiesOK, copies
  <2>3. BudgetOK'
    BY <1>1, SpendType DEF TimeFor, BudgetOK
  <2>. QED
    BY <1>1, <2>1, <2>2, <2>3, MutexAlone DEF PartsOK, StoreOK, LocalsOK, locals
<1>3. CASE CacheExpires \/ PastFades \/ KeyLapses
  BY <1>1, <1>3 DEF CacheExpires, PastFades, KeyLapses, Lapse, PartsOK, StoreOK, store, LocalsOK, locals,
     QueuesOK, queues, CopiesOK, copies, transit, BudgetOK, MutexTypeOK, mutexVars
<1>4. CASE GracePasses
  <2>1. LocalsOK' /\ StoreOK'
    BY <1>1, <1>4, AgingType DEF GracePasses, LocalsOK, StoreOK
  <2>. QED
    BY <1>1, <1>4, <2>1, MutexAlone, TimeForType DEF GracePasses, PartsOK, QueuesOK, queues, CopiesOK, copies, transit
<1>5. CASE Elapse
  <2>1. LocalsOK' /\ StoreOK' /\ CopiesOK'
    BY <1>1, <1>5, AgingType DEF Elapse, LocalsOK, StoreOK, CopiesOK
  <2>2. QueuesOK' /\ BudgetOK'
    BY <1>1, <1>5, SpendType DEF Elapse, QueuesOK
  <2>. QED
    BY <1>1, <1>5, <2>1, <2>2, MutexAlone DEF Elapse, PartsOK
<1>. QED
  BY <1>2, <1>3, <1>4, <1>5 DEF World

\* A replica dies.
LEMMA CrashTypes ==
    ASSUME PartsOK, NEW r \in Replicas, Crash(r)
    PROVE  PartsOK'
<1>1. /\ LocalsOK /\ QueuesOK /\ CopiesOK /\ BudgetOK /\ MutexTypeOK /\ StoreOK
      /\ "fault" \in Kinds
  BY DEF PartsOK, Kinds
<1>2. LocalsOK'
  BY <1>1, Blank DEF Crash, LocalsOK, Labels
<1>3. QueuesOK' /\ CopiesOK' /\ MutexTypeOK'
  BY <1>1, Blank DEF Crash, QueuesOK, CopiesOK, copies, MutexTypeOK
<1>. QED
  BY <1>1, <1>2, <1>3, SpendType DEF Crash, PartsOK, StoreOK, store

\* The initial state is typed.
LEMMA InitTypes == TenantInit => PartsOK
<1>. SUFFICES ASSUME TenantInit PROVE PartsOK
  OBVIOUS
<1>1. MaxLags \in 0..MaxLags
  BY TimesAreOrdered
<1>2. CopiesOK /\ StoreOK /\ QueuesOK
  BY <1>1, Blank DEF TenantInit, CopiesOK, StoreOK, QueuesOK
<1>3. LocalsOK /\ BudgetOK
  BY Blank, LimitsAssumption DEF TenantInit, LocalsOK, BudgetOK, Labels
<1>. QED
  BY <1>2, <1>3 DEF TenantInit, MutexInit, MutexTypeOK, PartsOK

\* Every step keeps the types.
LEMMA NextTypes == PartsOK /\ [Next]_vars => PartsOK'
<1>. SUFFICES ASSUME PartsOK, [Next]_vars PROVE PartsOK'
  OBVIOUS
<1>1. ASSUME NEW t \in Threads, ThreadStep(t) PROVE PartsOK'
  BY <1>1, WakeTypes, EventTypes, PassTypes, IdleTypes, DeleteTypes DEF ThreadStep
<1>2. CASE UNCHANGED vars
  BY <1>2, MutexAlone DEF vars, PartsOK, StoreOK, store, LocalsOK, locals, QueuesOK, queues, CopiesOK, copies, transit,
     BudgetOK
<1>. QED
  BY <1>1, <1>2, FaultTypes, RequestTypes, WorldTypes, CrashTypes DEF Next

\* Records, pods, queues and what threads remember stay within their types,
\* whatever interleaves and fails.
THEOREM TypeCorrect == Spec => []TypeOK
<1>1. Spec => []PartsOK
  BY InitTypes, NextTypes, PTL DEF Spec
<1>. QED
  BY <1>1, Parts, PTL

(***************************************************************************)
(* The wake lock is held exactly in the slow path.                         *)
(***************************************************************************)
\* A thread that stays on its side of the lock, while its holder stays.
LEMMA HeldMove ==
    ASSUME PartsOK, HeldInSlowPath, NEW t \in Threads, NEW label, NEW r, NEW a,
           Move(t, label, r, a), UNCHANGED holder,
           t \in Callers => (pc[t] \in SlowPath <=> label \in SlowPath)
    PROVE  HeldInSlowPath'
BY DEF PartsOK, LocalsOK, HeldInSlowPath, Move, Threads

\* The same, for a thread that keeps what it has in hand.
LEMMA HeldGoto ==
    ASSUME PartsOK, HeldInSlowPath, NEW t \in Threads, NEW label,
           Goto(t, label), UNCHANGED holder,
           t \in Callers => (pc[t] \in SlowPath <=> label \in SlowPath)
    PROVE  HeldInSlowPath'
BY HeldMove DEF Goto

\* The holder leaves the slow path.
LEMMA HeldLeave ==
    ASSUME PartsOK, HeldInSlowPath, NEW c \in Callers, NEW label, NEW r, NEW a,
           Move(c, label, r, a), label \notin SlowPath, holder = c, holder' = NoOne
    PROVE  HeldInSlowPath'
BY NoOneAssumption DEF PartsOK, LocalsOK, HeldInSlowPath, Move, Threads

\* Steps that move no thread and leave the holder.
LEMMA HeldAlone ==
    ASSUME HeldInSlowPath, UNCHANGED <<pc, holder>>
    PROVE  HeldInSlowPath'
BY DEF HeldInSlowPath

\* Where calls return to, and the reconciler's decisions, are outside.
LEMMA Outside ==
    ASSUME NEW t
    PROVE  /\ AfterWake(t, TRUE) \notin SlowPath /\ AfterWake(t, FALSE) \notin SlowPath
           /\ After(t, "run") \notin SlowPath /\ After(t, "prov") \notin SlowPath
BY DEF AfterWake, After, SlowPath

\* What the reconciler decides is outside as well.
LEMMA DecidedOutside ==
    ASSUME NEW t, NEW r, NEW p
    PROVE  /\ RunningDecision(t, r, p) \notin SlowPath
           /\ ProvisioningDecision(t, r, p) \notin SlowPath
           /\ Decision(t, r, p) \notin SlowPath
BY Outside DEF RunningDecision, ProvisioningDecision, Decision, SlowPath

\* A wake enters with TakeLock and leaves with ReturnHoldingLock.
LEMMA WakeHeld ==
    ASSUME PartsOK, HeldInSlowPath, NEW c \in Callers, WakeStep(c)
    PROVE  HeldInSlowPath'
<1>. c \in Threads
  BY DEF Threads
<1>1. CASE ReadRecord(c) \/ FastPath(c)
  BY <1>1, HeldMove, HeldGoto, Outside DEF ReadRecord, FastPath, At, SlowPath, mutexVars
<1>2. CASE TakeLock(c)
  BY <1>2, NoOneAssumption DEF TakeLock, Acquire, Goto, Move, At, PartsOK, LocalsOK,
     HeldInSlowPath, SlowPath, Threads
<1>3. CASE LoseLock(c)
  BY <1>3, HeldGoto DEF LoseLock, Lose, At, SlowPath
<1>4. CASE MarkProvisioning(c) \/ CreatePod(c) \/ WaitTimesOut(c) \/ Publish(c)
  BY <1>4, HeldGoto DEF MarkProvisioning, CreatePod, WaitTimesOut, Publish, At,
     SlowPath, mutexVars
<1>5. CASE WaitReady(c)
  BY <1>5, HeldMove DEF WaitReady, At, SlowPath, mutexVars
<1>6. CASE ReturnHoldingLock(c)
  BY <1>6, HeldLeave, Outside DEF ReturnHoldingLock, Release
<1>7. CASE PollAnswers(c) \/ PollTimesOut(c)
  BY <1>7, HeldMove, Outside DEF PollAnswers, PollTimesOut, Leave, At, SlowPath
<1>8. CASE RouterCaches(c) \/ RouterTouches(c)
  BY <1>8, HeldGoto DEF RouterCaches, RouterTouches, At, SlowPath, mutexVars
<1>. QED
  BY <1>1, <1>2, <1>3, <1>4, <1>5, <1>6, <1>7, <1>8 DEF WakeStep

\* The corrections of the reconciler are made outside.
LEMMA CorrectHeld ==
    ASSUME PartsOK, HeldInSlowPath, NEW t \in Callers, Correct(t)
    PROVE  HeldInSlowPath'
<1>. t \in Threads
  BY DEF Threads
<1>. QED
  BY HeldGoto, Outside DEF Correct, WriteRunning, WriteCache, ClearCacheAndWake, WriteIdle,
     ClearCache, At, SlowPath, mutexVars

\* So are the handlers of informer events ...
LEMMA EventHeld ==
    ASSUME PartsOK, HeldInSlowPath, NEW e \in EventLoops, EventStep(e)
    PROVE  HeldInSlowPath'
<1>. e \in Callers /\ e \in Threads
  BY CallersAreThreads DEF Threads
<1>1. CASE HandleEvent(e)
  BY <1>1, HeldMove DEF HandleEvent, At, SlowPath, mutexVars
<1>2. CASE GetPodState(e)
  <2>1. pc[e] \notin SlowPath /\ UNCHANGED holder
    BY <1>2 DEF GetPodState, At, SlowPath, mutexVars
  <2>2. PICK p : CheckPod(e, p)
    BY <1>2 DEF GetPodState
  <2>. QED
    BY <2>1, <2>2, HeldMove, DecidedOutside DEF CheckPod
<1>. QED
  BY <1>1, <1>2, CorrectHeld DEF EventStep

\* ... and full passes.
LEMMA PassHeld ==
    ASSUME PartsOK, HeldInSlowPath, NEW p \in PassLoops, PassStep(p)
    PROVE  HeldInSlowPath'
<1>. p \in Callers /\ p \in Threads
  BY CallersAreThreads DEF Threads
<1>1. CASE ListTenantPods(p)
  BY <1>1 DEF ListTenantPods, At, SlowPath, mutexVars, PartsOK, LocalsOK, HeldInSlowPath, Threads
<1>2. CASE SyncRunning(p) \/ SyncProvisioning(p)
  <2>1. pc[p] \notin SlowPath /\ UNCHANGED holder
    BY <1>2 DEF SyncRunning, SyncProvisioning, At, SlowPath, mutexVars
  <2>2. "p_prov" \notin SlowPath /\ "p_orphan" \notin SlowPath
    BY DEF SlowPath
  <2>. QED
    BY <1>2, <2>1, <2>2, HeldMove, HeldGoto, DecidedOutside DEF SyncRunning, SyncProvisioning
<1>3. CASE ListRunningForOrphans(p) \/ ListProvisioningForOrphans(p) \/ DeleteOrphan(p)
  BY <1>3, HeldGoto DEF ListRunningForOrphans, ListProvisioningForOrphans, DeleteOrphan, At,
     SlowPath, mutexVars
<1>. QED
  BY <1>1, <1>2, <1>3, CorrectHeld DEF PassStep

\* The idle loop and DELETE are no callers of the lock.
LEMMA OthersHeld ==
    ASSUME PartsOK, HeldInSlowPath, NEW t \in Idlers \cup Deleters,
           IdleStep(t) \/ DeleteStep(t) \/ IdleCallFails(t) \/ DeleteCallFails(t) \/ StartDelete(t)
    PROVE  HeldInSlowPath'
<1>. t \in Threads /\ t \notin Callers
  BY ThreadsDiffer DEF Threads
<1>. QED
  BY HeldGoto DEF IdleStep, ListIdle, StopPod, MarkIdle, DeleteStep, DeleteTenantPod, DeleteRecord,
     DeleteCache, IdleCallFails, DeleteCallFails, StartDelete, mutexVars

\* A failed call keeps its thread inside until the deferred release.
LEMMA FaultHeld ==
    ASSUME PartsOK, HeldInSlowPath, NEW t \in Threads, Fault(t)
    PROVE  HeldInSlowPath'
<1>1. CASE t \in Callers /\ WakeCallFails(t)
  <2>1. UNCHANGED holder
    BY <1>1 DEF WakeCallFails, mutexVars
  <2>2. CASE AfterError[pc[t]] = "return"
    <3>1. pc[t] \notin SlowPath
      BY <1>1, <2>2 DEF WakeCallFails, AfterError, SlowPath
    <3>. QED
      BY <1>1, <2>1, <2>2, <3>1, HeldMove, Outside DEF WakeCallFails
  <2>3. CASE AfterError[pc[t]] # "return"
    <3>1. pc[t] \in SlowPath <=> AfterError[pc[t]] \in SlowPath
      BY <1>1, <2>3 DEF WakeCallFails, AfterError, SlowPath
    <3>. QED
      BY <1>1, <2>1, <2>3, <3>1, HeldGoto DEF WakeCallFails
  <2>. QED
    BY <2>2, <2>3
<1>2. CASE t \in Callers /\ ReleaseFails(t)
  BY <1>2, HeldLeave, Outside DEF ReleaseFails, Abandon
<1>3. CASE t \in Wakers /\ WakeCancelled(t)
  <2>1. t \in Callers /\ "idle" \notin SlowPath
    BY <1>3, CallersAreThreads DEF SlowPath
  <2>2. CASE holder = t
    BY <1>3, <2>1, <2>2, HeldLeave DEF WakeCancelled, Abandon, Goto
  <2>3. CASE holder # t
    BY <1>3, <2>1, <2>3, HeldGoto DEF WakeCancelled, Leave, HeldInSlowPath
  <2>. QED
    BY <2>2, <2>3
<1>4. CASE t \in EventLoops \cup PassLoops /\ ReadFails(t)
  BY <1>4, HeldAlone DEF ReadFails, locals, mutexVars
<1>5. CASE t \in EventLoops \cup PassLoops /\ ReconcileCallFails(t)
  BY <1>5, HeldGoto, Outside DEF ReconcileCallFails, At, SlowPath, mutexVars
<1>. QED
  BY <1>1, <1>2, <1>3, <1>4, <1>5, OthersHeld DEF Fault

\* A crash takes its threads out, and the holder with them.
LEMMA CrashHeld ==
    ASSUME PartsOK, HeldInSlowPath, NEW r \in Replicas, Crash(r)
    PROVE  HeldInSlowPath'
<1>. DEFINE dead == {t \in Threads : ReplicaOf[t] = r /\ pc[t] \notin {"answered", "touch"}}
<1>1. /\ pc' = [t \in Threads |-> IF t \in dead THEN "idle" ELSE pc[t]]
      /\ holder' = IF holder \in dead THEN NoOne ELSE holder
  BY DEF Crash
<1>2. "idle" \notin SlowPath
  BY DEF SlowPath
<1>. HIDE DEF dead
<1>. QED
  BY <1>1, <1>2, NoOneAssumption DEF HeldInSlowPath, Threads

\* No step separates lock and slow path.
LEMMA NextHeld == PartsOK /\ HeldInSlowPath /\ [Next]_vars => HeldInSlowPath'
<1>. SUFFICES ASSUME PartsOK, HeldInSlowPath, [Next]_vars PROVE HeldInSlowPath'
  OBVIOUS
<1>1. ASSUME NEW t \in Threads, ThreadStep(t) PROVE HeldInSlowPath'
  BY <1>1, WakeHeld, EventHeld, PassHeld, OthersHeld DEF ThreadStep
<1>2. CASE Request
  <2>1. ASSUME NEW w \in Wakers, StartWake(w) PROVE HeldInSlowPath'
    BY <2>1, HeldGoto, CallersAreThreads DEF StartWake, Threads, At, SlowPath, mutexVars
  <2>2. CASE CreateTenant \/ UpdateTenant \/ ReportActivity
    BY <2>2, HeldAlone DEF CreateTenant, UpdateTenant, ReportActivity, locals, mutexVars
  <2>. QED
    BY <1>2, <2>1, <2>2, OthersHeld DEF Request
<1>3. CASE World
  BY <1>3, HeldAlone DEF World, PodStarts, PodGone, PodLost, PodFails, CacheExpires, PastFades, KeyLapses,
     GracePasses, Elapse, Lapse, locals, mutexVars
<1>4. CASE UNCHANGED vars
  BY <1>4, HeldAlone DEF vars, locals, mutexVars
<1>. QED
  BY <1>1, <1>2, <1>3, <1>4, FaultHeld, CrashHeld DEF Next

\* Every way out of the slow path of WakeOrGet gives the lock back or loses it, and
\* nobody is in the slow path without it (handler.go:373).
THEOREM LockHeld == Spec => []HeldInSlowPath
<1>1. TenantInit => HeldInSlowPath
  BY NoOneAssumption DEF TenantInit, MutexInit, HeldInSlowPath, SlowPath, Threads
<1>2. TenantInit => PartsOK
  BY InitTypes
<1>3. PartsOK /\ HeldInSlowPath /\ [Next]_vars => PartsOK' /\ HeldInSlowPath'
  BY NextTypes, NextHeld
<1>. QED
  BY <1>1, <1>2, <1>3, PTL DEF Spec

(***************************************************************************)
(* Status and address agree.  Writers of "running" have an address in      *)
(* hand: it comes from a ready pod, or from a record that has one.         *)
(***************************************************************************)
AddressInHand == \A t \in Threads : /\ pc[t] \in UsesAddress => addr[t] # 0
                                    /\ pc[t] = "exists" => seen[t].ip # 0

\* A thread moves on with an address wherever it needs one.
LEMMA HandMove ==
    ASSUME PartsOK, AddressInHand, NEW t \in Threads, NEW label, NEW r, NEW a,
           Move(t, label, r, a), label \in UsesAddress => a # 0, label = "exists" => r.ip # 0
    PROVE  AddressInHand'
<1>1. "exists" \in UsesRecord
  BY DEF UsesRecord
<1>. QED
  BY <1>1 DEF PartsOK, LocalsOK, AddressInHand, Move

\* ... or keeps the one it has.
LEMMA HandGoto ==
    ASSUME PartsOK, AddressInHand, NEW t \in Threads, NEW label, Goto(t, label),
           label \in UsesAddress => pc[t] \in UsesAddress, label # "exists"
    PROVE  AddressInHand'
BY HandMove DEF Goto, AddressInHand

\* Steps that move no thread.
LEMMA HandAlone ==
    ASSUME AddressInHand, UNCHANGED <<pc, seen, addr>>
    PROVE  AddressInHand'
BY DEF AddressInHand

\* Calls that fail and stages that end take no address along, and no decision
\* needs one unless it was taken on a ready pod.
LEMMA NoAddress ==
    ASSUME NEW t
    PROVE  /\ AfterWake(t, TRUE) # "exists"
           /\ AfterWake(t, FALSE) \notin UsesAddress \cup {"exists"}
           /\ After(t, "run") \notin UsesAddress \cup {"exists"}
           /\ After(t, "prov") \notin UsesAddress \cup {"exists"}
BY DEF AfterWake, After, UsesAddress

\* ... a ready pod has an address.
LEMMA DecidedOnAddress ==
    ASSUME NEW t, NEW r, NEW p, NEW label,
           label \in {RunningDecision(t, r, p), ProvisioningDecision(t, r, p), Decision(t, r, p)}
    PROVE  (label \in UsesAddress => p.ip # 0) /\ label # "exists"
<1>1. /\ RunningDecision(t, r, p) \in UsesAddress => p.ip # 0
      /\ RunningDecision(t, r, p) # "exists"
  BY NoAddress DEF RunningDecision, UsesAddress, Ready
<1>2. /\ ProvisioningDecision(t, r, p) \in UsesAddress => p.ip # 0
      /\ ProvisioningDecision(t, r, p) # "exists"
  BY NoAddress DEF ProvisioningDecision, UsesAddress, Ready
<1>. QED
  BY <1>1, <1>2 DEF Decision, UsesAddress

\* A wake takes its address from a record that is running or a pod that is ready.
LEMMA WakeHand ==
    ASSUME PartsOK, AddressInHand, NEW c \in Callers, WakeStep(c)
    PROVE  AddressInHand'
<1>. c \in Threads
  BY DEF Threads
<1>1. CASE ReadRecord(c)
  BY <1>1, HandMove DEF ReadRecord, HasAddress, UsesAddress
<1>2. CASE FastPath(c)
  <2>1. CASE Exists(pod)
    <3>1. seen[c].ip # 0
      BY <1>2 DEF FastPath, At, AddressInHand
    <3>. QED
      BY <1>2, <2>1, <3>1, HandMove, NoAddress DEF FastPath
  <2>2. CASE ~Exists(pod)
    BY <1>2, <2>2, HandGoto DEF FastPath, UsesAddress
  <2>. QED
    BY <2>1, <2>2
<1>3. CASE \/ TakeLock(c) \/ LoseLock(c) \/ MarkProvisioning(c) \/ CreatePod(c)
           \/ WaitTimesOut(c) \/ RouterTouches(c) \/ RouterCaches(c)
  BY <1>3, HandGoto DEF TakeLock, LoseLock, MarkProvisioning, CreatePod, WaitTimesOut,
     RouterTouches, RouterCaches, UsesAddress
<1>4. CASE WaitReady(c)
  BY <1>4, HandMove DEF WaitReady, Ready
<1>5. CASE Publish(c)
  BY <1>5, HandGoto DEF Publish, At, UsesAddress
<1>6. CASE ReturnHoldingLock(c)
  <2>1. CASE At(c, "release") /\ Move(c, AfterWake(c, TRUE), seen[c], addr[c])
    <3>1. addr[c] # 0
      BY <2>1 DEF At, AddressInHand, UsesAddress
    <3>. QED
      BY <2>1, <3>1, HandMove, NoAddress
  <2>2. CASE At(c, "fail") /\ Move(c, AfterWake(c, FALSE), seen[c], 0)
    BY <2>2, HandMove, NoAddress
  <2>. QED
    BY <1>6, <2>1, <2>2 DEF ReturnHoldingLock
<1>7. CASE PollAnswers(c) \/ PollTimesOut(c)
  BY <1>7, HandMove, NoAddress DEF PollAnswers, PollTimesOut, HasAddress
<1>. QED
  BY <1>1, <1>2, <1>3, <1>4, <1>5, <1>6, <1>7 DEF WakeStep

\* Corrections take it from the decision before them.
LEMMA CorrectHand ==
    ASSUME PartsOK, AddressInHand, NEW t \in Callers, Correct(t)
    PROVE  AddressInHand'
<1>. t \in Threads
  BY DEF Threads
<1>. QED
  BY HandGoto, NoAddress DEF Correct, WriteRunning, WriteCache, ClearCacheAndWake, WriteIdle,
     ClearCache, At, UsesAddress

\* Decisions take it from the pod they were made on.
LEMMA LoopHand ==
    ASSUME PartsOK, AddressInHand, NEW t \in Callers, EventStep(t) \/ PassStep(t)
    PROVE  AddressInHand'
<1>. t \in Threads
  BY DEF Threads
<1>1. CASE HandleEvent(t)
  BY <1>1, HandMove DEF HandleEvent, UsesAddress
<1>2. CASE GetPodState(t)
  <2>1. PICK p : CheckPod(t, p)
    BY <1>2 DEF GetPodState
  <2>. QED
    BY <2>1, HandMove, DecidedOnAddress DEF CheckPod
<1>3. CASE ListTenantPods(t)
  BY <1>3 DEF ListTenantPods, PartsOK, LocalsOK, AddressInHand, UsesAddress
<1>4. CASE SyncRunning(t)
  <2>1. ASSUME NEW r \in Readable, Move(t, RunningDecision(t, r, view[t]), r, view[t].ip)
        PROVE  AddressInHand'
    BY <2>1, HandMove, DecidedOnAddress
  <2>2. CASE Goto(t, "p_prov")
    BY <2>2, HandGoto DEF UsesAddress
  <2>. QED
    BY <1>4, <2>1, <2>2 DEF SyncRunning
<1>5. CASE SyncProvisioning(t)
  <2>1. ASSUME NEW r \in Readable,
               Move(t, ProvisioningDecision(t, r, view[t]), r, view[t].ip)
        PROVE  AddressInHand'
    BY <2>1, HandMove, DecidedOnAddress
  <2>2. CASE Goto(t, "p_orphan")
    BY <2>2, HandGoto DEF UsesAddress
  <2>. QED
    BY <1>5, <2>1, <2>2 DEF SyncProvisioning
<1>6. CASE ListRunningForOrphans(t) \/ ListProvisioningForOrphans(t) \/ DeleteOrphan(t)
  BY <1>6, HandGoto DEF ListRunningForOrphans, ListProvisioningForOrphans, DeleteOrphan, UsesAddress
<1>. QED
  BY <1>1, <1>2, <1>3, <1>4, <1>5, <1>6, CorrectHand DEF EventStep, PassStep

\* The idle loop and DELETE need none.
LEMMA OthersHand ==
    ASSUME PartsOK, AddressInHand, NEW t \in Threads,
           IdleStep(t) \/ DeleteStep(t) \/ IdleCallFails(t) \/ DeleteCallFails(t) \/ StartDelete(t)
    PROVE  AddressInHand'
BY HandGoto DEF IdleStep, ListIdle, StopPod, MarkIdle, DeleteStep, DeleteTenantPod, DeleteRecord,
   DeleteCache, IdleCallFails, DeleteCallFails, StartDelete, UsesAddress

\* After a failed call none is needed.
LEMMA FaultHand ==
    ASSUME PartsOK, AddressInHand, NEW t \in Threads, Fault(t)
    PROVE  AddressInHand'
<1>1. CASE WakeCallFails(t)
  <2>1. AfterError[pc[t]] \notin UsesAddress /\ AfterError[pc[t]] # "exists"
    BY <1>1 DEF WakeCallFails, AfterError, UsesAddress
  <2>. QED
    BY <1>1, <2>1, HandMove, HandGoto, NoAddress DEF WakeCallFails
<1>2. CASE ReleaseFails(t)
  <2>1. CASE At(t, "release") /\ Move(t, AfterWake(t, TRUE), seen[t], addr[t])
    <3>1. addr[t] # 0
      BY <2>1 DEF At, AddressInHand, UsesAddress
    <3>. QED
      BY <2>1, <3>1, HandMove, NoAddress
  <2>2. CASE At(t, "fail") /\ Move(t, AfterWake(t, FALSE), seen[t], 0)
    BY <2>2, HandMove, NoAddress
  <2>. QED
    BY <1>2, <2>1, <2>2 DEF ReleaseFails
<1>3. CASE WakeCancelled(t)
  BY <1>3, HandGoto DEF WakeCancelled, UsesAddress
<1>4. CASE ReadFails(t)
  BY <1>4, HandAlone DEF ReadFails, locals
<1>5. CASE ReconcileCallFails(t)
  BY <1>5, HandGoto, NoAddress DEF ReconcileCallFails, UsesAddress
<1>. QED
  BY <1>1, <1>2, <1>3, <1>4, <1>5, OthersHand DEF Fault

\* No step loses an address that is needed.
LEMMA NextHand == PartsOK /\ AddressInHand /\ [Next]_vars => AddressInHand'
<1>. SUFFICES ASSUME PartsOK, AddressInHand, [Next]_vars PROVE AddressInHand'
  OBVIOUS
<1>1. ASSUME NEW t \in Threads, ThreadStep(t) PROVE AddressInHand'
  BY <1>1, CallersAreThreads, WakeHand, LoopHand, OthersHand DEF ThreadStep
<1>2. CASE Request
  <2>1. ASSUME NEW w \in Wakers, StartWake(w) PROVE AddressInHand'
    BY <2>1, HandGoto, CallersAreThreads DEF StartWake, Threads, UsesAddress
  <2>2. ASSUME NEW d \in Deleters, StartDelete(d) PROVE AddressInHand'
    BY <2>2, OthersHand DEF Threads
  <2>3. CASE CreateTenant \/ UpdateTenant \/ ReportActivity
    BY <2>3, HandAlone DEF CreateTenant, UpdateTenant, ReportActivity, locals
  <2>. QED
    BY <1>2, <2>1, <2>2, <2>3 DEF Request
<1>3. ASSUME NEW r \in Replicas, Crash(r) PROVE AddressInHand'
  <2>. DEFINE dead == {t \in Threads : ReplicaOf[t] = r /\ pc[t] \notin {"answered", "touch"}}
  <2>1. /\ pc' = [t \in Threads |-> IF t \in dead THEN "idle" ELSE pc[t]]
        /\ seen' = [t \in Threads |-> IF t \in dead THEN NoRecord ELSE seen[t]]
        /\ addr' = [t \in Threads |-> IF t \in dead THEN 0 ELSE addr[t]]
    BY <1>3 DEF Crash
  <2>. HIDE DEF dead
  <2>. QED
    BY <2>1 DEF AddressInHand, UsesAddress
<1>4. CASE World
  <2>1. CASE Elapse
    <3>1. \A t \in Threads : seen'[t].ip = seen[t].ip
      BY <2>1 DEF Elapse, Older, PartsOK, LocalsOK, Record
    <3>. QED
      BY <2>1, <3>1 DEF Elapse, AddressInHand
  <2>2. CASE ~Elapse
    BY <1>4, <2>2, HandAlone DEF World, PodStarts, PodGone, PodLost, PodFails, CacheExpires,
       PastFades, KeyLapses, GracePasses, locals
  <2>. QED
    BY <2>1, <2>2
<1>5. CASE UNCHANGED vars
  BY <1>5, HandAlone DEF vars, locals
<1>. QED
  BY <1>1, <1>2, <1>3, <1>4, <1>5, FaultHand DEF Next

-----------------------------------------------------------------------------
(* The writers of the item.                                                *)

\* UpdateStatus sets both.
LEMMA AgreeStatus ==
    ASSUME PartsOK, NEW status, NEW ip, UpdateStatus(status, ip), status = "running" <=> ip # 0
    PROVE  RunningHasAddress'
BY DEF PartsOK, StoreOK, Record, Write, UpdateStatus, RunningHasAddress

\* Updates of other attributes change neither, or make an item with neither.
LEMMA AgreeUpdate ==
    ASSUME PartsOK, RunningHasAddress,
           UpdateActivity \/ DeleteItem \/ \E positive \in BOOLEAN : UpdateIdleTimeout(positive)
    PROVE  RunningHasAddress'
<1>. rec \in Record
  BY DEF PartsOK, StoreOK
<1>1. CASE UpdateActivity
  BY <1>1 DEF Record, Write, UpdateActivity, RunningHasAddress
<1>2. CASE DeleteItem
  BY <1>2 DEF Write, DeleteItem, NoRecord, RunningHasAddress
<1>3. ASSUME NEW positive \in BOOLEAN, UpdateIdleTimeout(positive) PROVE RunningHasAddress'
  BY <1>3 DEF Record, Write, UpdateIdleTimeout, RunningHasAddress
<1>. QED
  BY <1>1, <1>2, <1>3

\* A new item is not running.
LEMMA AgreeCreate ==
    ASSUME RunningHasAddress, NEW status, CreateRecord(status), status # "running"
    PROVE  RunningHasAddress'
BY DEF CreateRecord, NewRecord, NoRecord, Write, RunningHasAddress

\* Other steps leave the item alone.
LEMMA AgreeAlone ==
    ASSUME RunningHasAddress, UNCHANGED rec
    PROVE  RunningHasAddress'
BY DEF RunningHasAddress

\* A wake publishes the address in its hand.
LEMMA WakeAgrees ==
    ASSUME PartsOK, AddressInHand, RunningHasAddress, NEW c \in Callers, WakeStep(c)
    PROVE  RunningHasAddress'
<1>1. CASE MarkProvisioning(c)
  BY <1>1, AgreeStatus, AgreeCreate, AgreeAlone DEF MarkProvisioning
<1>2. CASE RouterTouches(c)
  BY <1>2, AgreeUpdate DEF RouterTouches
<1>3. CASE Publish(c)
  <2>1. addr[c] # 0
    BY <1>3 DEF Publish, At, AddressInHand, UsesAddress, Threads
  <2>. QED
    BY <1>3, <2>1, AgreeStatus DEF Publish
<1>4. CASE ~MarkProvisioning(c) /\ ~RouterTouches(c) /\ ~Publish(c)
  BY <1>4, AgreeAlone DEF WakeStep, ReadRecord, FastPath, TakeLock, LoseLock, CreatePod, WaitReady,
     WaitTimesOut, ReturnHoldingLock, PollAnswers, PollTimesOut, RouterCaches, store
<1>. QED
  BY <1>1, <1>2, <1>3, <1>4

\* So do the corrections of the reconciler.
LEMMA CorrectAgrees ==
    ASSUME PartsOK, AddressInHand, RunningHasAddress, NEW t \in Callers, Correct(t)
    PROVE  RunningHasAddress'
<1>1. CASE WriteRunning(t)
  <2>1. addr[t] # 0
    BY <1>1 DEF WriteRunning, At, AddressInHand, UsesAddress, Threads
  <2>. QED
    BY <1>1, <2>1, AgreeStatus DEF WriteRunning
<1>2. CASE WriteIdle(t)
  BY <1>2, AgreeStatus DEF WriteIdle
<1>3. CASE ~WriteRunning(t) /\ ~WriteIdle(t)
  BY <1>3, AgreeAlone DEF Correct, WriteCache, ClearCacheAndWake, ClearCache
<1>. QED
  BY <1>1, <1>2, <1>3

\* No step separates status and address.
LEMMA NextAgrees ==
    PartsOK /\ AddressInHand /\ RunningHasAddress /\ [Next]_vars => RunningHasAddress'
<1>. SUFFICES ASSUME PartsOK, AddressInHand, RunningHasAddress, [Next]_vars
              PROVE  RunningHasAddress'
  OBVIOUS
<1>1. ASSUME NEW t \in Threads, ThreadStep(t) PROVE RunningHasAddress'
  <2>1. CASE t \in EventLoops /\ EventStep(t)
    BY <2>1, CallersAreThreads, CorrectAgrees, AgreeAlone
       DEF EventStep, HandleEvent, GetPodState, store
  <2>2. CASE t \in PassLoops /\ PassStep(t)
    BY <2>2, CallersAreThreads, CorrectAgrees, AgreeAlone
       DEF PassStep, ListTenantPods, SyncRunning, SyncProvisioning, ListRunningForOrphans,
           ListProvisioningForOrphans, DeleteOrphan, store
  <2>3. CASE IdleStep(t)
    BY <2>3, AgreeStatus, AgreeAlone DEF IdleStep, ListIdle, StopPod, MarkIdle, store
  <2>4. CASE DeleteStep(t)
    BY <2>4, AgreeAlone, AgreeUpdate DEF DeleteStep, DeleteTenantPod, DeleteRecord, DeleteCache
  <2>. QED
    BY <1>1, <2>1, <2>2, <2>3, <2>4, WakeAgrees DEF ThreadStep
<1>2. ASSUME NEW t \in Threads, Fault(t) PROVE RunningHasAddress'
  BY <1>2, AgreeAlone DEF Fault, WakeCallFails, ReleaseFails, WakeCancelled, ReadFails,
     ReconcileCallFails, IdleCallFails, DeleteCallFails, store
<1>3. CASE Request
  <2>1. CASE UpdateTenant
    BY <2>1, AgreeUpdate DEF UpdateTenant
  <2>2. CASE CreateTenant \/ ReportActivity
    BY <2>2, AgreeCreate, AgreeUpdate DEF CreateTenant, ReportActivity
  <2>3. CASE ~UpdateTenant /\ ~CreateTenant /\ ~ReportActivity
    BY <1>3, <2>3, AgreeAlone DEF Request, StartWake, StartDelete, store
  <2>. QED
    BY <2>1, <2>2, <2>3
<1>4. CASE World
  <2>1. CASE Elapse
    BY <2>1 DEF Elapse, Older, PartsOK, StoreOK, Record, RunningHasAddress
  <2>2. CASE ~Elapse
    BY <1>4, <2>2, AgreeAlone DEF World, PodStarts, PodGone, PodLost, PodFails, CacheExpires,
       PastFades, KeyLapses, GracePasses, store
  <2>. QED
    BY <2>1, <2>2
<1>5. CASE (\E r \in Replicas : Crash(r)) \/ UNCHANGED vars
  BY <1>5, AgreeAlone DEF Crash, vars, store
<1>. QED
  BY <1>1, <1>2, <1>3, <1>4, <1>5 DEF Next

\* Whoever wrote the item last, and on whatever stale data, it says "running" exactly
\* when it carries an address; the fast path, pollers and DELETE rely on it.
THEOREM AddressAgrees == Spec => []RunningHasAddress
<1>. DEFINE Inv == PartsOK /\ AddressInHand /\ RunningHasAddress
<1>1. TenantInit => Inv
  BY InitTypes DEF TenantInit, AddressInHand, RunningHasAddress, UsesAddress, NoRecord
<1>2. Inv /\ [Next]_vars => Inv'
  BY NextTypes, NextHand, NextAgrees
<1>3. Inv => RunningHasAddress
  OBVIOUS
<1>. QED
  BY <1>1, <1>2, <1>3, PTL DEF Spec
=============================================================================
