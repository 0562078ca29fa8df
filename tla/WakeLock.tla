------------------------------ MODULE WakeLock ------------------------------
(***************************************************************************)
(* The Redis wake lock of one tenant as WakeOrGet uses it                  *)
(* (internal/lock/lock.go, internal/api/handler.go:363-482), with time.    *)
(*                                                                         *)
(* The key carries no owner: its value is always "1", it disappears after  *)
(* WakeLockTTL, and Release deletes whatever key is there.  `owner' is     *)
(* therefore bookkeeping of the model only: the call whose SETNX created   *)
(* the key that exists now.  A call inside the slow path spends its time   *)
(* in WaitPodReady, which the code bounds by PodReadyWait, and in DynamoDB,*)
(* Kubernetes and Redis calls, which it does not bound: CallBudget is the  *)
(* time those take together in the environment considered.                 *)
(*                                                                         *)
(* Time is discrete.  Clocks count ticks since a phase began, so no bound  *)
(* on the length of a behaviour is needed.                                 *)
(***************************************************************************)
EXTENDS Integers

CONSTANTS Callers, NoOne,
          WakeLockTTL,    \* handler.go:48, 240s
          PodReadyWait,   \* handler.go:51, 210s
          CallBudget      \* total time of the other remote calls of one wake

ASSUME CallersAssumption == NoOne \notin Callers
ASSUME TimesAssumption == /\ WakeLockTTL \in Nat \ {0}
                          /\ PodReadyWait \in Nat
                          /\ CallBudget \in Nat

VARIABLES owner,    \* the call whose key is in Redis, NoOne when there is no key
          ttl,      \* what remains of the key's life
          pc,       \* where each call is
          used,     \* time a slow path spent outside WaitPodReady
          waited,   \* time spent in WaitPodReady, or polling
          behind    \* bookkeeping: the slow path a poller lost to, until that ends

vars == <<owner, ttl, pc, used, waited, behind>>

\* "calling": from SETNX to the end of CreateTenantPod; "waiting": in
\* WaitPodReady; "closing": UpdateStatus and the deferred DEL.
Critical == {"calling", "waiting", "closing"}
Labels == Critical \cup {"idle", "polling"}

TypeOK == /\ owner \in Callers \cup {NoOne}
          /\ ttl \in 0..WakeLockTTL
          /\ pc \in [Callers -> Labels]
          /\ used \in [Callers -> 0..CallBudget]
          /\ waited \in [Callers -> Nat]
          /\ behind \in [Callers -> Callers \cup {NoOne}]

Init == /\ owner = NoOne /\ ttl = 0
        /\ pc = [c \in Callers |-> "idle"]
        /\ used = [c \in Callers |-> 0]
        /\ waited = [c \in Callers |-> 0]
        /\ behind = [c \in Callers |-> NoOne]

\* The call inside the slow path on the strength of the key that exists.
Holder == IF owner # NoOne /\ pc[owner] \in Critical THEN owner ELSE NoOne

(***************************************************************************)
(* Steps of a call.                                                        *)
(***************************************************************************)
\* Variant: SET instead of SETNX.
AcquireAnyway(c) == /\ pc[c] = "idle"
                    /\ owner' = c /\ ttl' = WakeLockTTL
                    /\ pc' = [pc EXCEPT ![c] = "calling"]
                    /\ used' = [used EXCEPT ![c] = 0]
                    /\ waited' = [waited EXCEPT ![c] = 0]
                    /\ UNCHANGED behind

\* Variant: the pod's wait is added to the TTL.
AcquireForLong(c) == /\ pc[c] = "idle" /\ owner = NoOne
                     /\ owner' = c /\ ttl' = WakeLockTTL + PodReadyWait
                     /\ pc' = [pc EXCEPT ![c] = "calling"]
                     /\ used' = [used EXCEPT ![c] = 0]
                     /\ waited' = [waited EXCEPT ![c] = 0]
                     /\ UNCHANGED behind

\* SETNX succeeds: AcquireWakeLock returns true.
Acquire(c) == /\ pc[c] = "idle" /\ owner = NoOne
              /\ owner' = c /\ ttl' = WakeLockTTL
              /\ pc' = [pc EXCEPT ![c] = "calling"]
              /\ used' = [used EXCEPT ![c] = 0]
              /\ waited' = [waited EXCEPT ![c] = 0]
              /\ UNCHANGED behind

\* Variant: a failed attempt renews the TTL.
LoseRenewing(c) == /\ pc[c] = "idle" /\ owner # NoOne
                   /\ pc' = [pc EXCEPT ![c] = "polling"]
                   /\ ttl' = WakeLockTTL
                   /\ waited' = [waited EXCEPT ![c] = 0]
                   /\ behind' = [behind EXCEPT ![c] = Holder]
                   /\ UNCHANGED <<owner, used>>

\* SETNX finds a key: the call goes to pollUntilRunning.
Lose(c) == /\ pc[c] = "idle" /\ owner # NoOne
           /\ pc' = [pc EXCEPT ![c] = "polling"]
           /\ waited' = [waited EXCEPT ![c] = 0]
           /\ behind' = [behind EXCEPT ![c] = Holder]
           /\ UNCHANGED <<owner, ttl, used>>

StartWait(c) == /\ pc[c] = "calling"
                /\ pc' = [pc EXCEPT ![c] = "waiting"]
                /\ UNCHANGED <<owner, ttl, used, waited, behind>>

\* The pod is ready, or PodReadyWait is over and WaitPodReady fails.
EndWait(c) == /\ pc[c] = "waiting"
              /\ pc' = [pc EXCEPT ![c] = "closing"]
              /\ UNCHANGED <<owner, ttl, used, waited, behind>>

\* No poller is behind a slow path that has ended.
NobodyBehind(c) == behind' = [d \in Callers |-> IF behind[d] = c THEN NoOne ELSE behind[d]]

\* WakeOrGet returns, on success or on an error of a call: the deferred DEL
\* removes the tenant's key, whoever created it.
Return(c) == /\ pc[c] \in {"calling", "closing"}
             /\ pc' = [pc EXCEPT ![c] = "idle"]
             /\ owner' = NoOne /\ ttl' = 0
             /\ NobodyBehind(c)
             /\ UNCHANGED <<used, waited>>

\* The replica dies, or the caller has gone and DEL fails on the cancelled
\* request context: the call is over and the key stays.
Abandon(c) == /\ pc[c] \in Critical
              /\ pc' = [pc EXCEPT ![c] = "idle"]
              /\ NobodyBehind(c)
              /\ UNCHANGED <<owner, ttl, used, waited>>

\* Variant: the release is deferred before `acquired' is tested.
PollEndsReleasing(c) == /\ pc[c] = "polling"
                        /\ pc' = [pc EXCEPT ![c] = "idle"]
                        /\ behind' = [behind EXCEPT ![c] = NoOne]
                        /\ owner' = NoOne /\ ttl' = 0
                        /\ UNCHANGED <<used, waited>>

\* A poll reads status running with an address, or the poller's own caller goes.
PollEnds(c) == /\ pc[c] = "polling"
               /\ pc' = [pc EXCEPT ![c] = "idle"]
               /\ behind' = [behind EXCEPT ![c] = NoOne]
               /\ UNCHANGED <<owner, ttl, used, waited>>

\* Variant: pollers wait as long as a pod may take.
PollForPodReadyWait == PodReadyWait

\* The deadline of pollUntilRunning: WakeLockTTL after the poll began.
PollDeadline == WakeLockTTL

PollGivesUp(c) == waited[c] >= PollDeadline /\ PollEnds(c)

(***************************************************************************)
(* Time.  A tick cannot overtake a deadline the code keeps (WaitPodReady,  *)
(* pollUntilRunning), nor the CallBudget of the environment.               *)
(***************************************************************************)
MayElapse(c) == /\ pc[c] \in {"calling", "closing"} => used[c] < CallBudget
                /\ pc[c] = "waiting" => waited[c] < PodReadyWait
                /\ pc[c] = "polling" => waited[c] < PollDeadline

Tick == /\ \A c \in Callers : MayElapse(c)
        /\ ttl' = IF owner = NoOne THEN 0 ELSE ttl - 1
        /\ owner' = IF ttl' = 0 THEN NoOne ELSE owner
        /\ used' = [c \in Callers |->
                     used[c] + (IF pc[c] \in {"calling", "closing"} THEN 1 ELSE 0)]
        /\ waited' = [c \in Callers |->
                       waited[c] + (IF pc[c] \in {"waiting", "polling"} THEN 1 ELSE 0)]
        /\ UNCHANGED <<pc, behind>>

\* Variant: pollUntilRunning has no deadline.
StepWithoutDeadline(c) == \/ StartWait(c) \/ EndWait(c) \/ Return(c)

Step(c) == \/ StartWait(c) \/ EndWait(c) \/ Return(c) \/ PollGivesUp(c)

Next == \/ \E c \in Callers : \/ Acquire(c) \/ Lose(c) \/ Step(c)
                              \/ Abandon(c) \/ PollEnds(c)
        \/ Tick

Spec == Init /\ [][Next]_vars

\* Goroutines are scheduled, remote calls return, and time passes.
FairSpec == /\ Spec
            /\ WF_vars(Tick)
            /\ \A c \in Callers : WF_vars(Step(c))

\* The slack the defaults leave (240s - 210s) holds every other call of a wake.
CallsFitSlack == PodReadyWait + CallBudget < WakeLockTTL

-----------------------------------------------------------------------------
(***************************************************************************)
(* Properties.                                                             *)
(***************************************************************************)
\* Two wake calls of a tenant are never in the slow path together
\* (internal/lock/lock.go:28, "acquire an exclusive wake lock").
ExclusiveSlowPath ==
    \A c, d \in Callers : pc[c] \in Critical /\ pc[d] \in Critical => c = d

\* A call in the slow path still has its own key in Redis, so the
\* unconditional DEL of ReleaseWakeLock removes that key and no other.
SlowPathOwnsKey == \A c \in Callers : pc[c] \in Critical => owner = c

\* A poller that reaches its deadline outlived the slow path it lost to: it
\* never reports a timeout while the call it waits for could still succeed.
PollOutlivesSlowPath ==
    \A c \in Callers : pc[c] = "polling" /\ waited[c] >= PollDeadline => behind[c] = NoOne

\* The abstract lock this one implements.
Mutex == INSTANCE WakeMutex WITH key <- owner # NoOne, holder <- Holder

ImplementsMutex == Mutex!MutexSpec

\* Whatever happens to its holder, the key does not stay for ever: a tenant can
\* be woken again (docs/configuration.md:28, "auto-expires on replica crash").
KeyNeverStuck == []<>(owner = NoOne)

\* Every wake call returns: winners within their deadlines, losers at theirs.
EveryCallReturns == \A c \in Callers : pc[c] # "idle" ~> pc[c] = "idle"
=============================================================================
