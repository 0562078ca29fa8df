--------------------------- MODULE WakeLockProofs ---------------------------
(***************************************************************************)
(* The wake lock for every set of callers and all timing constants: the    *)
(* slow path is exclusive, and the lock implements WakeMutex, whenever the *)
(* other remote calls of a wake fit in the slack between PodReadyWait and  *)
(* WakeLockTTL.                                                            *)
(*                                                                         *)
(* Mutual exclusion alone is not inductive: it has to be known that the    *)
(* key in Redis is the caller's own and that what remains of its life is   *)
(* exactly WakeLockTTL less the time the caller has spent (KeyBudget).     *)
(***************************************************************************)
EXTENDS WakeLock, TLAPS

\* There is a key exactly as long as it has time left.
KeyLife == owner # NoOne <=> ttl > 0

\* A call in the slow path owns the key, and the key's remaining life and the
\* two clocks of the call add up to WakeLockTTL.
KeyBudget ==
    \A c \in Callers : pc[c] \in Critical =>
        /\ owner = c
        /\ ttl + used[c] + waited[c] = WakeLockTTL
        /\ waited[c] <= PodReadyWait
        /\ pc[c] = "calling" => waited[c] = 0

\* A poller entered pollUntilRunning after the slow path it waits for began.
PollBudget ==
    \A c \in Callers : behind[c] # NoOne =>
        /\ pc[c] = "polling"
        /\ pc[behind[c]] \in Critical
        /\ waited[c] <= used[behind[c]] + waited[behind[c]]

LockInv == TypeOK /\ KeyLife /\ KeyBudget /\ PollBudget

USE DEF Labels, Critical

\* The invariant holds at first, when nobody has the key,
LEMMA InitInv == Init => LockInv
BY CallersAssumption, TimesAssumption
   DEF Init, LockInv, TypeOK, KeyLife, KeyBudget, PollBudget

\* While calls fit the slack, no call in the slow path sees its key expire.
LEMMA KeyAlive ==
    ASSUME CallsFitSlack, LockInv, NEW c \in Callers, pc[c] \in Critical
    PROVE  /\ owner = c
           /\ ttl \in Nat /\ ttl >= 1
           /\ used[c] + waited[c] < WakeLockTTL
BY TimesAssumption DEF LockInv, TypeOK, KeyBudget, CallsFitSlack

-----------------------------------------------------------------------------
(* One lemma per step of a call.                                           *)

\* and is kept by a SETNX that wins,
LEMMA AcquireInv ==
    ASSUME LockInv, NEW c \in Callers, Acquire(c)
    PROVE  LockInv'
<1>. USE CallersAssumption, TimesAssumption DEF Acquire
<1>1. \A d \in Callers : pc[d] \notin Critical
  BY DEF LockInv, KeyBudget
<1>2. \A d \in Callers : behind[d] = NoOne
  BY <1>1 DEF LockInv, TypeOK, PollBudget
<1>3. TypeOK'
  BY DEF LockInv, TypeOK
<1>4. KeyLife'
  BY DEF KeyLife
<1>5. KeyBudget'
  BY <1>1 DEF LockInv, TypeOK, KeyBudget
<1>6. PollBudget'
  BY <1>2 DEF PollBudget
<1>. QED
  BY <1>3, <1>4, <1>5, <1>6 DEF LockInv

\* by one that loses,
LEMMA LoseInv ==
    ASSUME LockInv, NEW c \in Callers, Lose(c)
    PROVE  LockInv'
<1>. USE CallersAssumption, TimesAssumption DEF Lose
<1>1. /\ Holder \in Callers \cup {NoOne}
      /\ Holder # NoOne => pc[Holder] \in Critical
  BY DEF Holder, LockInv, TypeOK
<1>2. TypeOK'
  BY <1>1 DEF LockInv, TypeOK
<1>3. KeyLife'
  BY DEF LockInv, KeyLife
<1>4. KeyBudget'
  BY DEF LockInv, TypeOK, KeyBudget
<1>5. ASSUME NEW d \in Callers, behind'[d] # NoOne
      PROVE  /\ pc'[d] = "polling"
             /\ pc'[behind'[d]] \in Critical
             /\ waited'[d] <= used'[behind'[d]] + waited'[behind'[d]]
  <2>1. CASE d = c
    <3>1. behind'[d] = Holder /\ Holder \in Callers /\ Holder # c
      BY <1>1, <1>5, <2>1 DEF LockInv, TypeOK
    <3>2. waited'[d] = 0 /\ used'[Holder] \in Nat /\ waited'[Holder] \in Nat
      BY <3>1, <2>1 DEF LockInv, TypeOK
    <3>. QED
      BY <1>1, <2>1, <3>1, <3>2 DEF LockInv, TypeOK
  <2>2. CASE d # c
    <3>1. behind[d] = behind'[d] /\ behind[d] \in Callers /\ behind[d] # c
      BY <1>5, <2>2 DEF LockInv, TypeOK, PollBudget
    <3>. QED
      BY <1>5, <2>2, <3>1 DEF LockInv, TypeOK, PollBudget
  <2>. QED
    BY <2>1, <2>2
<1>. QED
  BY <1>2, <1>3, <1>4, <1>5 DEF LockInv, PollBudget

\* by the wait for the pod,
LEMMA WaitInv ==
    ASSUME LockInv, NEW c \in Callers, StartWait(c) \/ EndWait(c)
    PROVE  LockInv'
<1>. USE CallersAssumption, TimesAssumption DEF StartWait, EndWait
<1>1. TypeOK'
  BY DEF LockInv, TypeOK
<1>2. KeyLife'
  BY DEF LockInv, KeyLife
<1>3. KeyBudget'
  BY DEF LockInv, TypeOK, KeyBudget
<1>4. PollBudget'
  BY DEF LockInv, TypeOK, PollBudget
<1>. QED
  BY <1>1, <1>2, <1>3, <1>4 DEF LockInv

\* Return and Abandon end the slow path of c: nobody is behind it any more.
LEMMA EndInv ==
    ASSUME LockInv, NEW c \in Callers, pc[c] \in Critical,
           pc' = [pc EXCEPT ![c] = "idle"],
           \/ owner' = NoOne /\ ttl' = 0
           \/ UNCHANGED <<owner, ttl>>,
           NobodyBehind(c), UNCHANGED <<used, waited>>
    PROVE  LockInv'
<1>. USE CallersAssumption, TimesAssumption DEF NobodyBehind
<1>1. \A d \in Callers : pc[d] \in Critical => d = c
  BY DEF LockInv, KeyBudget
<1>2. \A d \in Callers : behind'[d] = NoOne
  BY <1>1 DEF LockInv, TypeOK, PollBudget
<1>3. TypeOK'
  BY DEF LockInv, TypeOK
<1>4. KeyLife'
  BY DEF LockInv, KeyLife
<1>5. KeyBudget'
  BY <1>1 DEF LockInv, TypeOK, KeyBudget
<1>6. PollBudget'
  BY <1>2 DEF PollBudget
<1>. QED
  BY <1>3, <1>4, <1>5, <1>6 DEF LockInv

\* by a poller that ends,
LEMMA PollEndsInv ==
    ASSUME LockInv, NEW c \in Callers, PollEnds(c)
    PROVE  LockInv'
<1>. USE CallersAssumption, TimesAssumption DEF PollEnds
<1>1. TypeOK'
  BY DEF LockInv, TypeOK
<1>2. KeyLife'
  BY DEF LockInv, KeyLife
<1>3. KeyBudget'
  BY DEF LockInv, TypeOK, KeyBudget
<1>4. PollBudget'
  BY DEF LockInv, TypeOK, PollBudget
<1>. QED
  BY <1>1, <1>2, <1>3, <1>4 DEF LockInv

-----------------------------------------------------------------------------
(* Time: the only step at which the slack matters.                         *)

\* by time, if the calls fit the slack,
LEMMA TickInv ==
    ASSUME CallsFitSlack, LockInv, Tick
    PROVE  LockInv'
<1>. USE CallersAssumption, TimesAssumption
<1>1. \A c \in Callers : /\ used[c] \in Nat /\ waited[c] \in Nat
                         /\ used[c] <= CallBudget
  BY DEF LockInv, TypeOK
<1>2. ttl \in Nat /\ ttl <= WakeLockTTL /\ owner \in Callers \cup {NoOne}
  BY DEF LockInv, TypeOK
<1>3. ASSUME NEW c \in Callers, pc[c] \in Critical
      PROVE  owner = c /\ ttl >= 2
  <2>1. \/ used[c] < CallBudget /\ waited[c] <= PodReadyWait
        \/ used[c] <= CallBudget /\ waited[c] < PodReadyWait
    BY <1>1, <1>3 DEF Tick, MayElapse, LockInv, KeyBudget
  <2>. QED
    BY <1>1, <1>2, <1>3, <2>1 DEF LockInv, KeyBudget, CallsFitSlack
<1>4. /\ owner # NoOne => ttl >= 1 /\ ttl' = ttl - 1
      /\ owner = NoOne => ttl' = 0
  BY <1>2 DEF Tick, LockInv, KeyLife
<1>5. TypeOK'
  <2>1. ttl' \in 0..WakeLockTTL
    BY <1>2, <1>4
  <2>2. owner' \in Callers \cup {NoOne}
    BY <1>2 DEF Tick
  <2>3. used' \in [Callers -> 0..CallBudget]
    BY <1>1 DEF Tick, MayElapse
  <2>4. waited' \in [Callers -> Nat]
    BY <1>1 DEF Tick
  <2>. QED
    BY <2>1, <2>2, <2>3, <2>4 DEF Tick, LockInv, TypeOK
<1>6. KeyLife'
  BY <1>2, <1>4 DEF Tick, KeyLife
<1>7. ASSUME NEW c \in Callers, pc'[c] \in Critical
      PROVE  /\ owner' = c
             /\ ttl' + used'[c] + waited'[c] = WakeLockTTL
             /\ waited'[c] <= PodReadyWait
             /\ pc'[c] = "calling" => waited'[c] = 0
  <2>1. pc[c] \in Critical /\ pc'[c] = pc[c]
    BY <1>7 DEF Tick
  <2>2. owner = c /\ owner # NoOne /\ ttl >= 2
    BY <1>3, <2>1
  <2>3. ttl' = ttl - 1 /\ owner' = owner
    BY <1>2, <1>4, <2>2 DEF Tick
  <2>4. used'[c] + waited'[c] = used[c] + waited[c] + 1
    BY <1>1, <2>1 DEF Tick
  <2>5. waited'[c] <= PodReadyWait /\ (pc'[c] = "calling" => waited'[c] = 0)
    BY <1>1, <2>1 DEF Tick, MayElapse, LockInv, KeyBudget
  <2>6. ttl + used[c] + waited[c] = WakeLockTTL
    BY <2>1 DEF LockInv, KeyBudget
  <2>7. used'[c] \in Nat /\ waited'[c] \in Nat
    BY <1>5 DEF TypeOK
  <2>. QED
    BY <1>1, <1>2, <2>2, <2>3, <2>4, <2>5, <2>6, <2>7
<1>8. ASSUME NEW c \in Callers, behind'[c] # NoOne
      PROVE  /\ pc'[c] = "polling"
             /\ pc'[behind'[c]] \in Critical
             /\ waited'[c] <= used'[behind'[c]] + waited'[behind'[c]]
  <2> DEFINE h == behind[c]
  <2>1. behind'[c] = h /\ h \in Callers /\ pc' = pc
    BY <1>8 DEF Tick, LockInv, TypeOK
  <2>2. pc[c] = "polling" /\ pc[h] \in Critical /\ waited[c] <= used[h] + waited[h]
    BY <1>8, <2>1 DEF LockInv, PollBudget
  <2>3. used'[h] + waited'[h] = used[h] + waited[h] + 1
    BY <1>1, <2>1, <2>2 DEF Tick
  <2>4. waited'[c] = waited[c] + 1
    BY <2>2 DEF Tick
  <2>. QED
    BY <1>1, <2>1, <2>2, <2>3, <2>4
<1>. QED
  BY <1>5, <1>6, <1>7, <1>8 DEF LockInv, KeyBudget, PollBudget

\* and so by every step.
LEMMA StepInv ==
    ASSUME CallsFitSlack, LockInv, [Next]_vars
    PROVE  LockInv'
<1>1. ASSUME NEW c \in Callers, Acquire(c) PROVE LockInv'
  BY <1>1, AcquireInv
<1>2. ASSUME NEW c \in Callers, Lose(c) PROVE LockInv'
  BY <1>2, LoseInv
<1>3. ASSUME NEW c \in Callers, StartWait(c) \/ EndWait(c) PROVE LockInv'
  BY <1>3, WaitInv
<1>4. ASSUME NEW c \in Callers, Return(c) \/ Abandon(c) PROVE LockInv'
  BY <1>4, EndInv DEF Return, Abandon
<1>5. ASSUME NEW c \in Callers, PollEnds(c) \/ PollGivesUp(c) PROVE LockInv'
  BY <1>5, PollEndsInv DEF PollGivesUp
<1>6. ASSUME Tick PROVE LockInv'
  BY <1>6, TickInv
<1>7. CASE UNCHANGED vars
  BY <1>7 DEF vars, LockInv, TypeOK, KeyLife, KeyBudget, PollBudget
<1>. QED
  BY <1>1, <1>2, <1>3, <1>4, <1>5, <1>6, <1>7 DEF Next, Step

\* The invariant is inductive.
LEMMA Invariance == CallsFitSlack => (Spec => []LockInv)
<1>1. CallsFitSlack /\ LockInv /\ [Next]_vars => LockInv'
  BY StepInv
<1>2. SUFFICES ASSUME CallsFitSlack PROVE Spec => []LockInv
  OBVIOUS
<1>3. LockInv /\ [Next]_vars => LockInv'
  BY <1>1, <1>2
<1>. QED
  BY InitInv, <1>3, PTL DEF Spec

-----------------------------------------------------------------------------
(***************************************************************************)
(* Results.                                                                *)
(***************************************************************************)
\* Clocks, owner and labels of the lock keep their types: no remaining life of the key
\* is negative or exceeds WakeLockTTL (lock.go:28).
THEOREM LockTypes == CallsFitSlack => (Spec => []TypeOK)
<1>1. LockInv => TypeOK
  BY DEF LockInv
<1>. QED
  BY <1>1, Invariance, PTL

\* The slow path of WakeOrGet is exclusive (lock.go:28) for any number of
\* callers, provided the other calls fit in WakeLockTTL - PodReadyWait.
THEOREM Exclusion == CallsFitSlack => (Spec => []ExclusiveSlowPath)
<1>1. LockInv => ExclusiveSlowPath
  BY DEF LockInv, KeyBudget, ExclusiveSlowPath
<1>. QED
  BY <1>1, Invariance, PTL

\* Under the same condition the unconditional DEL of ReleaseWakeLock never
\* removes a key another call created.
THEOREM Ownership == CallsFitSlack => (Spec => []SlowPathOwnsKey)
<1>1. LockInv => SlowPathOwnsKey
  BY DEF LockInv, KeyBudget, SlowPathOwnsKey
<1>. QED
  BY <1>1, Invariance, PTL

\* pollUntilRunning, whose deadline is WakeLockTTL, never gives up on a slow
\* path that is still in progress.
THEOREM PollOutlives == CallsFitSlack => (Spec => []PollOutlivesSlowPath)
<1>1. CallsFitSlack /\ LockInv => PollOutlivesSlowPath
  <2>. SUFFICES ASSUME CallsFitSlack, LockInv, NEW c \in Callers,
                       waited[c] >= PollDeadline, behind[c] # NoOne
                PROVE  FALSE
    BY DEF PollOutlivesSlowPath
  <2> DEFINE h == behind[c]
  <2>1. h \in Callers /\ pc[h] \in Critical /\ waited[c] <= used[h] + waited[h]
    BY DEF LockInv, TypeOK, PollBudget
  <2>2. used[h] + waited[h] < WakeLockTTL
    BY <2>1, KeyAlive
  <2>3. used[h] \in Nat /\ waited[h] \in Nat /\ waited[c] \in Nat
    BY <2>1 DEF LockInv, TypeOK
  <2>. QED
    BY <2>1, <2>2, <2>3, TimesAssumption DEF PollDeadline
<1>2. SUFFICES ASSUME CallsFitSlack PROVE Spec => []PollOutlivesSlowPath
  OBVIOUS
<1>3. LockInv => PollOutlivesSlowPath
  BY <1>1, <1>2
<1>4. Spec => []LockInv
  BY <1>2, Invariance
<1>. QED
  BY <1>3, <1>4, PTL

\* A step of the timed lock is a step of the abstract lock, or leaves it alone.
LEMMA StepRefines ==
    ASSUME CallsFitSlack, LockInv, [Next]_vars
    PROVE  [Mutex!MutexNext]_(Mutex!mutexVars)
<1>. USE CallersAssumption DEF Mutex!MutexNext, Mutex!mutexVars
<1>0. \A c \in Callers : pc[c] \in Critical => owner = c /\ owner # NoOne /\ Holder = c
  BY DEF LockInv, KeyBudget, Holder
<1>1. owner \in Callers \cup {NoOne} /\ pc \in [Callers -> Labels]
  BY DEF LockInv, TypeOK
<1>2. ASSUME NEW c \in Callers, Acquire(c) PROVE Mutex!Acquire(c)
  BY <1>1, <1>2 DEF Acquire, Mutex!Acquire, Holder
<1>3. ASSUME NEW c \in Callers, Lose(c) PROVE Mutex!Lose(c)
  <2>1. owner' = owner /\ pc' = [pc EXCEPT ![c] = "polling"] /\ owner # NoOne
    BY <1>3 DEF Lose
  <2>2. Holder' = Holder
    BY <1>1, <1>3, <2>1 DEF Lose, Holder
  <2>. QED
    BY <1>3, <2>1, <2>2 DEF Lose, Mutex!Lose
<1>4. ASSUME NEW c \in Callers, StartWait(c) \/ EndWait(c)
      PROVE  UNCHANGED Mutex!mutexVars
  BY <1>1, <1>4 DEF StartWait, EndWait, Holder
<1>5. ASSUME NEW c \in Callers, Return(c) PROVE Mutex!Release(c)
  BY <1>0, <1>1, <1>5
     DEF Return, Mutex!Release, Holder, NobodyBehind, Mutex!NobodyBehind
<1>6. ASSUME NEW c \in Callers, Abandon(c) PROVE Mutex!Abandon(c)
  BY <1>0, <1>1, <1>6
     DEF Abandon, Mutex!Abandon, Holder, NobodyBehind, Mutex!NobodyBehind
<1>7. ASSUME NEW c \in Callers, PollEnds(c) \/ PollGivesUp(c)
      PROVE  Mutex!Leave(c)
  <2>1. PollEnds(c)
    BY <1>7 DEF PollGivesUp
  <2>2. Holder' = Holder
    BY <1>1, <2>1 DEF PollEnds, Holder
  <2>. QED
    BY <2>1, <2>2 DEF PollEnds, Mutex!Leave
<1>8. ASSUME Tick PROVE UNCHANGED Mutex!mutexVars \/ Mutex!Lapse
  <2>1. LockInv'
    BY <1>8, TickInv
  <2>2. CASE Holder # NoOne
    <3>1. Holder = owner /\ owner \in Callers /\ pc[owner] \in Critical /\ pc' = pc
      BY <1>1, <1>8, <2>2 DEF Holder, Tick
    <3>2. owner' = owner
      BY <2>1, <3>1 DEF LockInv, KeyBudget
    <3>. QED
      BY <1>8, <3>1, <3>2 DEF Holder, Tick
  <2>3. CASE Holder = NoOne
    <3>1. pc' = pc /\ owner' \in {owner, NoOne} /\ behind' = behind
      BY <1>8 DEF Tick
    <3>2. Holder' = Holder
      BY <1>1, <2>3, <3>1 DEF Holder
    <3>. QED
      BY <2>3, <3>1, <3>2 DEF Mutex!Lapse
  <2>. QED
    BY <2>2, <2>3
<1>9. CASE UNCHANGED vars
  BY <1>9 DEF vars, Holder
<1>. QED
  BY <1>2, <1>3, <1>4, <1>5, <1>6, <1>7, <1>8, <1>9 DEF Next, Step

\* SETNX with a TTL and an unconditional DEL implement the abstract exclusive
\* lock that the tenant control plane relies on.
THEOREM Refinement == CallsFitSlack => (Spec => ImplementsMutex)
<1>1. SUFFICES ASSUME CallsFitSlack PROVE Spec => ImplementsMutex
  OBVIOUS
<1>2. Init => Mutex!MutexInit
  BY DEF Init, Mutex!MutexInit, Holder
<1>3. LockInv /\ [Next]_vars => [Mutex!MutexNext]_(Mutex!mutexVars)
  BY <1>1, StepRefines
<1>4. Spec => []LockInv
  BY <1>1, Invariance
<1>. QED
  BY <1>2, <1>3, <1>4, PTL DEF Spec, ImplementsMutex, Mutex!MutexSpec
=============================================================================
