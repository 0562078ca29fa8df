------------------------------- MODULE Tenant -------------------------------
(***************************************************************************)
(* The state the orchestrator keeps about one tenant, the primitive        *)
(* operations on it, and the world it lives in.                            *)
(*                                                                         *)
(* Everything is keyed by the tenant: the DynamoDB item, the pod (its name *)
(* is the tenant's id), the wake lock and the router's cache entry.  Only  *)
(* the warm pool is shared between tenants, so one tenant is enough.       *)
(*                                                                         *)
(* The goroutines that act on it are the threads: wake requests, the       *)
(* reconciler's informer and ticker loops (one of each per replica), the   *)
(* elected idle loop and DELETE requests.  Every remote call is one atomic *)
(* step; a thread keeps what it read in `seen', `view' and `addr' and acts *)
(* on it later, however stale it is by then.                               *)
(***************************************************************************)
EXTENDS Integers, WakeMutex

CONSTANTS Wakers,       \* router goroutines that call POST /wake
          EventLoops,   \* informer goroutines of the reconciler replicas
          PassLoops,    \* full-pass goroutines of the reconciler replicas
          Idlers,       \* the elected idle loop
          Deleters,     \* DELETE /tenants requests
          ReplicaOf,    \* the orchestrator replica each thread runs in
          Addresses,    \* pod addresses, 1..n; 0 is the empty string
          IdleTimeout,  \* idle_timeout_s of a registered tenant, in clock ticks
          StuckAfter,   \* 10 minutes of provisioning without a pod, in ticks
          MaxEvents,    \* bound on an informer's queue (further events coalesce)
          MaxLags,      \* how many writes of the item readers may miss at first
          Limits        \* how often each event of the environment may happen

Threads == Callers \cup Idlers \cup Deleters
Kinds == {"wake", "touch", "fault", "loss", "fail", "slow", "time"}
Unlimited == -1
FiveMinutes == 1   \* a tick of the clock
MaxAge == StuckAfter

ASSUME CallersAreThreads == Callers = Wakers \cup EventLoops \cup PassLoops
ASSUME ThreadsDiffer ==
    /\ Wakers \cap (EventLoops \cup PassLoops) = {} /\ EventLoops \cap PassLoops = {}
    /\ Callers \cap (Idlers \cup Deleters) = {} /\ Idlers \cap Deleters = {}
ASSUME TimesAreOrdered ==
    /\ Addresses \subseteq Nat \ {0}
    /\ {IdleTimeout, StuckAfter, MaxEvents} \subseteq Nat \ {0}
    /\ IdleTimeout <= StuckAfter /\ MaxLags \in Nat
ASSUME LimitsAssumption == Limits \in [Kinds -> Nat \cup {Unlimited}]

VARIABLES
    rec,      \* the DynamoDB item
    pod,      \* the Kubernetes pod named after the tenant
    cache,    \* router:endpoint:{tenantID} in Redis, 0 when absent
    events,   \* informer events each event loop has still to handle
    due,      \* the pass loops whose ticker has fired (or that just started)
    past,     \* the item as an eventually consistent read may still find it
    lags,     \* what is left of MaxLags
    pc,       \* where each thread is
    seen,     \* the record each thread last read
    view,     \* the pod as a full pass found it in its one ListTenantPods
    addr,     \* the address a thread has in hand
    budget    \* what is left of Limits

store == <<rec, pod, cache>>
locals == <<pc, seen, view, addr>>
queues == <<events, due>>
copies == <<past, lags>>
transit == <<queues, copies>>
vars == <<mutexVars, store, transit, locals, budget>>

(***************************************************************************)
(* The registry (internal/registry/registry.go).  "none": there is no item *)
(* and "blank": an item without a status attribute.  pod_name is written   *)
(* with pod_ip, and empty exactly when it is, so `ip' stands for both.     *)
(* `full': the item has a positive idle_timeout_s, and `placed': it has a  *)
(* namespace, as CreateTenant writes both.  An item that an update of      *)
(* another attribute made has neither, and no update adds a namespace.     *)
(***************************************************************************)
Statuses == {"none", "blank", "idle", "provisioning", "running"}
Record == [status : Statuses, ip : Addresses \cup {0}, age : 0..MaxAge,
           full : BOOLEAN, placed : BOOLEAN]
NoRecord == [status |-> "none", ip |-> 0, age |-> 0, full |-> FALSE, placed |-> FALSE]
NewRecord(status) == [NoRecord EXCEPT !.status = status, !.full = TRUE, !.placed = TRUE]

\* GetItem without ConsistentRead, and the queries on the status index, return the
\* item as it is or as it was a moment ago.
Readable == {rec, past}

\* A write reaches every reader at once, or only some of them at first.
Write(r) == /\ rec' = r
            /\ \/ past' = r /\ UNCHANGED lags
               \/ past' = past /\ lags > 0 /\ lags' = lags - 1

\* Variant: the item is put without last_active_at.
CreateRecordUndated(status) ==
    IF rec.status = "none" THEN Write([status |-> status, ip |-> 0, full |-> TRUE, placed |-> TRUE])
                           ELSE UNCHANGED <<rec, copies>>

\* PutItem with attribute_not_exists; the caller treats a failure as it likes.
CreateRecord(status) ==
    IF rec.status = "none" THEN Write(NewRecord(status))
                           ELSE UNCHANGED <<rec, copies>>

\* Variant: empty values are left out of the update.
UpdateStatusKeepingAddress(status, ip) ==
    Write([rec EXCEPT !.status = status, !.ip = IF ip = 0 THEN @ ELSE ip, !.age = 0])

\* UpdateItem without a condition: it creates the item when there is none.
UpdateStatus(status, ip) ==
    Write([rec EXCEPT !.status = status, !.ip = ip, !.age = 0])

UpdateActivity ==
    Write([rec EXCEPT !.status = IF @ = "none" THEN "blank" ELSE @, !.age = 0])

\* ... and with one: the item must exist.
UpdateIdleTimeout(positive) ==
    rec.status # "none" /\ Write([rec EXCEPT !.full = positive])

DeleteItem == Write(NoRecord)

HasAddress(r) == r.status = "running" /\ r.ip # 0

(***************************************************************************)
(* The pod (internal/k8s/client.go).  `grace' is the grace period of its   *)
(* deletion: "none" while nobody has deleted it, "long" for 120 seconds,   *)
(* "short" for the 10 of the orphan cleanup.  `old': it has outlived the   *)
(* grace period of the orphan cleanup (90 seconds).                        *)
(***************************************************************************)
Phases == {"None", "Pending", "Running", "Failed"}
Pod == [phase : Phases, ip : Addresses \cup {0}, old : BOOLEAN,
        grace : {"none", "long", "short"}]
NoPod == [phase |-> "None", ip |-> 0, old |-> FALSE, grace |-> "none"]
NewPod == [NoPod EXCEPT !.phase = "Pending"]

Exists(p) == p.phase # "None"
Ready(p) == p.phase = "Running" /\ p.ip # 0

\* Deletion is by name, of whatever pod has it; NotFound is not an error.  A
\* second deletion may shorten the grace period of the first, never extend it.
DeletePod(grace) ==
    pod' = IF Exists(pod) /\ pod.grace # "short" THEN [pod EXCEPT !.grace = grace] ELSE pod

\* The idle loop and DELETE name the namespace of the item they read.  client-go
\* refuses a deletion by name without one before it sends anything.
Deletable(r) == r.placed

(***************************************************************************)
(* Threads.                                                                *)
(***************************************************************************)
At(t, label) == pc[t] = label

\* Labels at which what was read is still used; elsewhere it is forgotten.
UsesRecord == {"exists", "lock", "mark", "e_pod"}
UsesAddress == {"publish", "release", "answered",
                "run_sync", "run_cache", "prov_promote", "prov_cache"}

\* Thread t goes to label with record r and address a in hand.
Move(t, label, r, a) ==
    /\ pc' = [pc EXCEPT ![t] = label]
    /\ seen' = [seen EXCEPT ![t] = IF label \in UsesRecord THEN r ELSE NoRecord]
    /\ addr' = [addr EXCEPT ![t] = IF label \in UsesAddress THEN a ELSE 0]
    /\ view' = [view EXCEPT ![t] = IF label = "idle" THEN NoPod ELSE @]

Goto(t, label) == Move(t, label, seen[t], addr[t])

Spend(kind) ==
    /\ budget[kind] # 0
    /\ budget' = [budget EXCEPT ![kind] = IF @ = Unlimited THEN @ ELSE @ - 1]

TenantInit ==
    /\ MutexInit
    /\ rec = NoRecord /\ pod = NoPod /\ cache = 0
    /\ events = [e \in EventLoops |-> 0] /\ due = PassLoops
    /\ past = NoRecord /\ lags = MaxLags
    /\ pc = [t \in Threads |-> "idle"]
    /\ seen = [t \in Threads |-> NoRecord]
    /\ view = [t \in Threads |-> NoPod]
    /\ addr = [t \in Threads |-> 0]
    /\ budget = Limits

-----------------------------------------------------------------------------
(***************************************************************************)
(* The world: kubelet, nodes, Redis expiry and the clock.                  *)
(***************************************************************************)
\* Every replica's informer is told of a change of phase or address, or of a
\* deletion (reconciler.go:119-179 ignores every other update).
Notify == /\ events' = [e \in EventLoops |->
                          IF events[e] < MaxEvents THEN events[e] + 1 ELSE MaxEvents]
          /\ UNCHANGED <<due, copies>>

\* A thread is between two of its calls, or a write has not reached every reader of
\* the item; or a thread waits.
Between == past # rec \/ \E t \in Threads : pc[t] \notin {"idle", "wait", "poll"}
Busy == past # rec \/ \E t \in Threads : pc[t] # "idle"

\* Calls take milliseconds, what the world does takes seconds or minutes: when it
\* happens in such a gap that was a stall or a slow start, which "slow" counts.
TimeFor(gap) == IF gap THEN Spend("slow") ELSE UNCHANGED budget

InUse == {rec.ip, cache, pod.ip} \cup {addr[t] : t \in Threads}
         \cup {past.ip} \cup {seen[t].ip : t \in Threads} \cup {view[t].ip : t \in Threads}

\* The containers start: the pod gets an address nobody refers to.
PodStarts ==
    /\ pod.phase = "Pending" /\ pod.grace = "none" /\ TimeFor(Between)
    /\ \E a \in Addresses \ InUse :
          /\ \A b \in Addresses \ InUse : a <= b
          /\ pod' = [pod EXCEPT !.phase = "Running", !.ip = a]
    /\ Notify
    /\ UNCHANGED <<mutexVars, rec, cache, locals>>

\* A deleted pod has run its PreStop hook and is removed.
PodGone ==
    /\ Exists(pod) /\ pod.grace # "none" /\ TimeFor(Between)
    /\ pod' = NoPod
    /\ Notify
    /\ UNCHANGED <<mutexVars, rec, cache, locals>>

\* The pod object disappears: its node is lost, or somebody deletes it.
PodLost ==
    /\ Exists(pod) /\ Spend("loss")
    /\ pod' = NoPod
    /\ Notify
    /\ UNCHANGED <<mutexVars, rec, cache, locals>>

\* The pod is evicted or fails; the object stays, in a terminal phase.
PodFails ==
    /\ pod.phase \in {"Pending", "Running"} /\ Spend("fail")
    /\ pod' = [pod EXCEPT !.phase = "Failed"]
    /\ Notify
    /\ UNCHANGED <<mutexVars, rec, cache, locals>>

CacheExpires ==
    /\ cache # 0 /\ cache' = 0
    /\ UNCHANGED <<mutexVars, rec, pod, transit, locals, budget>>

\* The last write reaches every replica of the item and the index.
PastFades ==
    /\ past # rec /\ past' = rec
    /\ UNCHANGED <<mutexVars, store, queues, lags, locals, budget>>

KeyLapses ==
    /\ Lapse
    /\ UNCHANGED <<store, transit, locals, budget>>

Older(r) == IF r.status # "none" /\ r.age < MaxAge THEN [r EXCEPT !.age = @ + 1] ELSE r
OutOfGrace(p) == IF Exists(p) THEN [p EXCEPT !.old = TRUE] ELSE p

\* Ninety seconds: the pod, and the one a pass has listed, leave the grace period.
GracePasses ==
    /\ Exists(pod) /\ ~pod.old
    /\ TimeFor(Between)
    /\ pod' = OutOfGrace(pod)
    /\ view' = [t \in Threads |-> OutOfGrace(view[t])]
    /\ UNCHANGED <<mutexVars, rec, cache, transit, pc, seen, addr>>

\* Five minutes: records age, and the tickers of the pass loops fire.
Elapse ==
    /\ IF Busy THEN Spend("slow") ELSE Spend("time")
    /\ rec' = Older(rec) /\ past' = Older(past) /\ pod' = OutOfGrace(pod)
    /\ seen' = [t \in Threads |-> Older(seen[t])]
    /\ view' = [t \in Threads |-> OutOfGrace(view[t])]
    /\ due' = PassLoops
    /\ UNCHANGED <<mutexVars, cache, events, lags, pc, addr>>

World == \/ PodStarts \/ PodGone \/ PodLost \/ PodFails
         \/ CacheExpires \/ PastFades \/ KeyLapses \/ GracePasses \/ Elapse
=============================================================================
