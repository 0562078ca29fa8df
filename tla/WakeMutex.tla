----------------------------- MODULE WakeMutex -----------------------------
(***************************************************************************)
(* What the wake lock promises its callers (internal/lock/lock.go:28 "an   *)
(* exclusive wake lock", docs/architecture.md "Redis Wake Lock"): at any   *)
(* moment at most one wake call of a tenant is inside the slow path of     *)
(* WakeOrGet, and the key outlives its holder only when the holder was     *)
(* lost before it could delete it.                                         *)
(*                                                                         *)
(* The module is the abstract specification that WakeLock (SETNX with a    *)
(* TTL, and an unconditional DEL) implements as long as remote calls fit   *)
(* in the slack the code leaves; the tenant control plane is built on it.  *)
(***************************************************************************)
CONSTANTS Callers,   \* wake calls: HTTP handlers and reconciler loops
          NoOne      \* nobody

ASSUME NoOneAssumption == NoOne \notin Callers

VARIABLES key,       \* TRUE while tenant:waking:{tenantID} exists in Redis
          holder,    \* the call inside the slow path, or NoOne
          behind     \* the slow path each polling call lost to, until that ends

mutexVars == <<key, holder, behind>>

MutexTypeOK == /\ key \in BOOLEAN
               /\ holder \in Callers \cup {NoOne}
               /\ behind \in [Callers -> Callers \cup {NoOne}]

MutexInit == /\ key = FALSE /\ holder = NoOne
             /\ behind = [c \in Callers |-> NoOne]

\* No poller is behind a slow path that has ended.
NobodyBehind(c) == behind' = [d \in Callers |-> IF behind[d] = c THEN NoOne ELSE behind[d]]

\* The key was absent: SETNX created it and the caller enters the slow path.
Acquire(c) == /\ ~key /\ holder = NoOne
              /\ key' = TRUE /\ holder' = c
              /\ UNCHANGED behind

\* SETNX found the key: the caller polls until whoever holds it has finished.
Lose(c) == /\ key
           /\ behind' = [behind EXCEPT ![c] = holder]
           /\ UNCHANGED <<key, holder>>

\* A poller stops polling.
Leave(c) == /\ behind' = [behind EXCEPT ![c] = NoOne]
            /\ UNCHANGED <<key, holder>>

\* A replica dies, and all the polling calls in it stop.
LeaveTogether(gone) == /\ behind' = [c \in Callers |-> IF c \in gone THEN NoOne ELSE behind[c]]
                       /\ UNCHANGED <<key, holder>>

\* The holder returns: the deferred DEL removes the key.
Release(c) == /\ holder = c
              /\ key' = FALSE /\ holder' = NoOne
              /\ NobodyBehind(c)

\* The holder is lost, or its request context was cancelled: the key stays.
Abandon(c) == /\ holder = c
              /\ holder' = NoOne
              /\ NobodyBehind(c)
              /\ UNCHANGED key

\* Redis drops a key nobody is behind any more.
Lapse == /\ key /\ holder = NoOne
         /\ key' = FALSE /\ UNCHANGED <<holder, behind>>

MutexNext == \/ \E c \in Callers : \/ Acquire(c) \/ Lose(c) \/ Leave(c)
                                   \/ Release(c) \/ Abandon(c)
             \/ \E gone \in SUBSET Callers : LeaveTogether(gone)
             \/ Lapse

MutexSpec == MutexInit /\ [][MutexNext]_mutexVars

\* A slow path runs under the key, and whoever waits for a slow path waits for
\* the one that is running: the key of nobody keeps no poller waiting.
WaitersBehindHolder == /\ holder # NoOne => key
                       /\ \A c \in Callers : behind[c] \in {NoOne, holder}
=============================================================================
