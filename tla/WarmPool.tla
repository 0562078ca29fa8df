------------------------------ MODULE WarmPool ------------------------------
(***************************************************************************)
(* The warm pool: the replica count an operator asks for                   *)
(* (internal/warmpool/warmpool.go, internal/api/handler.go:503-535), the   *)
(* Deployment that follows it, and the slow paths of different tenants     *)
(* that claim a warm pod each (internal/k8s/client.go:361-390,             *)
(* internal/api/handler.go:432-445).                                       *)
(*                                                                         *)
(* A pod's resource version is its state: no state recurs while anybody    *)
(* remembers the pod, so an update is refused if and only if it is changed.*)
(***************************************************************************)
EXTENDS Integers, FiniteSets

CONSTANTS Claimers,   \* slow paths of WakeOrGet, each of a tenant of its own
          Managers,   \* the manager loop of each orchestrator replica
          Requests,   \* PUT /config requests
          RunsIn,     \* the replica (the manager's name) a request runs in
          WarmPods,   \* names the Deployment gives its pods
          Default,    \* WARM_POOL_TARGET
          Wanted,     \* the values operators ask for
          IntRange,   \* 2^31: int32 is -IntRange .. IntRange - 1
          None,       \* no pod, no key in Redis, no Deployment
          MaxFaults, MaxPuts, MaxLosses

ASSUME NoneAssumption == None \notin WarmPods \cup Int
ASSUME TargetsAssumption ==
    /\ IntRange \in Nat \ {0} /\ Wanted \subseteq Nat
    /\ Default \in 1..IntRange - 1   \* main.go:127: with 0 there is no manager
    /\ {MaxFaults, MaxPuts, MaxLosses} \subseteq Nat
ASSUME RequestsAssumption == RunsIn \in [Requests -> Managers]

Threads == Managers \cup Requests
Int32 == -IntRange .. IntRange - 1

VARIABLES
    warm,      \* the state of each warm pod
    at,        \* where each claimer is in GetWarmPod
    listed,    \* the pods a claimer has listed and not tried yet
    node,      \* the warm pod whose node a claimer is going to use
    deploy,    \* spec.replicas of the Deployment
    key,       \* config:warm_pool_target in Redis
    target,    \* the atomic target of each manager
    pc,        \* where each manager loop and request is
    got,       \* the target in its hand
    existing,  \* the Deployment a manager has read
    faults, puts, losses   \* what has happened, against its bound

poolVars == <<warm, at, listed, node>>
targetVars == <<deploy, key, target, pc, got, existing>>
bounds == <<faults, puts, losses>>
vars == <<poolVars, targetVars, bounds>>

Fault == faults < MaxFaults /\ faults' = faults + 1 /\ UNCHANGED <<puts, losses>>

-----------------------------------------------------------------------------
(* Claims.  "consuming" pods have lost the label the Deployment selects.    *)
PodStates == {"none", "pending", "running", "dying", "consuming"}
InState(s) == {p \in WarmPods : warm[p] = s}

ListWarmPods(c) ==
    /\ at[c] = "list"
    /\ listed' = [listed EXCEPT ![c] = InState("running")]
    /\ at' = [at EXCEPT ![c] = "claim"]
    /\ UNCHANGED <<warm, node, targetVars, bounds>>

\* Variant: the label is patched, whatever the pod's version.
ClaimUnversioned(c, p) ==
    /\ at[c] = "claim" /\ p \in listed[c]
    /\ warm' = [warm EXCEPT ![p] = "consuming"]
    /\ node' = [node EXCEPT ![c] = p]
    /\ listed' = [listed EXCEPT ![c] = {}]
    /\ at' = [at EXCEPT ![c] = "free"]
    /\ UNCHANGED <<targetVars, bounds>>

\* The update carries the listed resource version, so only one claimer wins.
Claim(c, p) ==
    /\ at[c] = "claim" /\ p \in listed[c]
    /\ IF warm[p] = "running"
       THEN /\ warm' = [warm EXCEPT ![p] = "consuming"]
            /\ node' = [node EXCEPT ![c] = p]
            /\ listed' = [listed EXCEPT ![c] = {}]
            /\ at' = [at EXCEPT ![c] = "free"]
       ELSE /\ listed' = [listed EXCEPT ![c] = @ \ {p}]
            /\ UNCHANGED <<warm, node, at>>
    /\ UNCHANGED <<targetVars, bounds>>

\* A pod that could not be claimed for another reason is passed over as well.
ClaimFails(c, p) ==
    /\ at[c] = "claim" /\ p \in listed[c] /\ Fault
    /\ listed' = [listed EXCEPT ![c] = @ \ {p}]
    /\ UNCHANGED <<warm, at, node, targetVars>>

\* A cold start: no pod could be claimed (or listed).
NoWarmPod(c) ==
    /\ \/ at[c] = "claim" /\ listed[c] = {} /\ UNCHANGED bounds
       \/ at[c] = "list" /\ Fault
    /\ at' = [at EXCEPT ![c] = "create"]
    /\ UNCHANGED <<warm, listed, node, targetVars>>

\* Variant: the claimed pod is left to the cluster.
KeepWarmPod(c) ==
    /\ at[c] = "free"
    /\ at' = [at EXCEPT ![c] = "create"]
    /\ UNCHANGED <<warm, listed, node, targetVars, bounds>>

\* The claimed pod is deleted to make room; an error is ignored.
DeleteWarmPod(c) ==
    /\ at[c] = "free"
    /\ \/ /\ warm' = [warm EXCEPT ![node[c]] = IF @ = "consuming" THEN "none" ELSE @]
          /\ UNCHANGED bounds
       \/ Fault /\ UNCHANGED warm
    /\ at' = [at EXCEPT ![c] = "create"]
    /\ UNCHANGED <<listed, node, targetVars>>

\* CreateTenantPod on the node, and the claimer's next wake.
CreatePinnedPod(c) ==
    /\ at[c] = "create"
    /\ at' = [at EXCEPT ![c] = "list"]
    /\ node' = [node EXCEPT ![c] = None]
    /\ UNCHANGED <<warm, listed, targetVars, bounds>>

\* The slow path ends early: its replica dies or its request is cancelled.
SlowPathLost(c) ==
    /\ at[c] # "list" /\ Fault
    /\ at' = [at EXCEPT ![c] = "list"]
    /\ listed' = [listed EXCEPT ![c] = {}]
    /\ node' = [node EXCEPT ![c] = None]
    /\ UNCHANGED <<warm, targetVars>>

-----------------------------------------------------------------------------
(* The Deployment controller and the nodes (external).                      *)
Owned == InState("pending") \cup InState("running")
Remembered(p) == \E c \in Claimers : node[c] = p \/ p \in listed[c]

SetPod(p, s) == warm' = [warm EXCEPT ![p] = s]

AddReplica(p) ==
    /\ deploy # None /\ Cardinality(Owned) < deploy
    /\ warm[p] = "none" /\ ~Remembered(p) /\ SetPod(p, "pending")
    /\ UNCHANGED <<at, listed, node, targetVars, bounds>>

RemoveReplica(p) ==
    /\ deploy # None /\ Cardinality(Owned) > deploy
    /\ p \in Owned /\ SetPod(p, "dying")
    /\ UNCHANGED <<at, listed, node, targetVars, bounds>>

WarmPodRuns(p) ==
    /\ warm[p] = "pending" /\ SetPod(p, "running")
    /\ UNCHANGED <<at, listed, node, targetVars, bounds>>

WarmPodGone(p) ==
    /\ warm[p] = "dying" /\ SetPod(p, "none")
    /\ UNCHANGED <<at, listed, node, targetVars, bounds>>

\* The node of a warm pod is lost, or a tenant pod preempts it.
WarmPodLost(p) ==
    /\ warm[p] # "none" /\ losses < MaxLosses
    /\ losses' = losses + 1 /\ SetPod(p, "none")
    /\ UNCHANGED <<at, listed, node, targetVars, faults, puts>>

-----------------------------------------------------------------------------
(* The target.  Both the manager loop and PUT /config call Target().        *)
Goto(t, label) == pc' = [pc EXCEPT ![t] = label]
Home(t) == IF t \in Managers THEN t ELSE RunsIn[t]

\* Variant: the configured value is not clamped to int32.
BootUnclamped(m) ==
    /\ pc[m] = "boot"
    /\ target' = [target EXCEPT ![m] = Default + IntRange]
    /\ key' = (IF key = None THEN Default ELSE key)
    /\ Goto(m, "read")
    /\ UNCHANGED <<poolVars, deploy, got, existing, bounds>>

\* Variant: the configured value is put in Redis only.
BootForgetsCopy(m) ==
    /\ pc[m] = "boot"
    /\ \/ key' = (IF key = None THEN Default ELSE key) /\ UNCHANGED bounds
       \/ Fault /\ UNCHANGED key
    /\ Goto(m, "read")
    /\ UNCHANGED <<poolVars, deploy, target, got, existing>>

\* New: SETNX of the configured value; its error is ignored.
Boot(m) ==
    /\ pc[m] = "boot"
    /\ target' = [target EXCEPT ![m] = Default]
    /\ \/ key' = (IF key = None THEN Default ELSE key) /\ UNCHANGED bounds
       \/ Fault /\ UNCHANGED key
    /\ Goto(m, "read")
    /\ UNCHANGED <<poolVars, deploy, got, existing>>

\* Variant: the manager trusts its own copy.
ReadOwnTarget(t) ==
    /\ pc[t] = "read"
    /\ got' = [got EXCEPT ![t] = target[Home(t)]]
    /\ Goto(t, IF t \in Managers THEN "get" ELSE "idle")
    /\ UNCHANGED <<poolVars, deploy, key, target, existing, bounds>>

\* Target() reads Redis; if that fails it falls back to the manager's own copy.
ReadTarget(t) ==
    /\ pc[t] = "read"
    /\ \/ /\ key # None /\ UNCHANGED bounds
          /\ got' = [got EXCEPT ![t] = key]
          /\ Goto(t, "store")
       \/ /\ IF key # None THEN Fault ELSE UNCHANGED bounds
          /\ got' = [got EXCEPT ![t] = target[Home(t)]]
          /\ Goto(t, IF t \in Managers THEN "get" ELSE "idle")
    /\ UNCHANGED <<poolVars, deploy, key, target, existing>>

\* What was read from Redis refreshes the copy.
StoreTarget(t) ==
    /\ pc[t] = "store"
    /\ target' = [target EXCEPT ![Home(t)] = got[t]]
    /\ Goto(t, IF t \in Managers THEN "get" ELSE "idle")
    /\ UNCHANGED <<poolVars, deploy, key, got, existing, bounds>>

\* EnsureWarmPoolDeployment; the API server refuses a negative replica count
\* and an update of a Deployment that is not the one that was read.
GetDeployment(m) ==
    /\ pc[m] = "get"
    /\ existing' = [existing EXCEPT ![m] = deploy]
    /\ Goto(m, "put")
    /\ UNCHANGED <<poolVars, deploy, key, target, got, bounds>>

PutDeployment(m) ==
    /\ pc[m] = "put"
    /\ deploy' = IF got[m] >= 0 /\ existing[m] = deploy THEN got[m] ELSE deploy
    /\ Goto(m, "read")
    /\ UNCHANGED <<poolVars, key, target, got, existing, bounds>>

ManagerCallFails(m) ==
    /\ pc[m] \in {"get", "put"} /\ Fault
    /\ Goto(m, "read")
    /\ UNCHANGED <<poolVars, deploy, key, target, got, existing>>

\* int32(req.WarmPoolTarget)
ToInt32(n) == ((n + IntRange) % (2 * IntRange)) - IntRange

\* PUT /config.  JSON that is negative is refused with 400.
StartUpdateConfig(a, n) ==
    /\ pc[a] = "idle" /\ puts < MaxPuts /\ n >= 0
    /\ pc[RunsIn[a]] # "boot"
    /\ puts' = puts + 1
    /\ got' = [got EXCEPT ![a] = ToInt32(n)]
    /\ Goto(a, "redis")
    /\ UNCHANGED <<poolVars, deploy, key, target, existing, faults, losses>>

\* SetTarget: a failed write to Redis is only logged.
WriteKey(a) ==
    /\ pc[a] = "redis"
    /\ \/ key' = got[a] /\ UNCHANGED bounds
       \/ Fault /\ UNCHANGED key
    /\ Goto(a, "copy")
    /\ UNCHANGED <<poolVars, deploy, target, got, existing>>

WriteCopy(a) ==
    /\ pc[a] = "copy"
    /\ target' = [target EXCEPT ![RunsIn[a]] = got[a]]
    /\ Goto(a, "read")
    /\ UNCHANGED <<poolVars, deploy, key, got, existing, bounds>>

-----------------------------------------------------------------------------
Init == /\ warm = [p \in WarmPods |-> "none"]
        /\ at = [c \in Claimers |-> "list"]
        /\ listed = [c \in Claimers |-> {}] /\ node = [c \in Claimers |-> None]
        /\ deploy = None /\ key = None
        /\ target = [m \in Managers |-> 0]
        /\ pc = [t \in Threads |-> IF t \in Managers THEN "boot" ELSE "idle"]
        /\ got = [t \in Threads |-> 0] /\ existing = [m \in Managers |-> None]
        /\ faults = 0 /\ puts = 0 /\ losses = 0

Claiming(c) == \/ ListWarmPods(c) \/ NoWarmPod(c) \/ DeleteWarmPod(c)
               \/ CreatePinnedPod(c) \/ SlowPathLost(c)
               \/ \E p \in WarmPods : Claim(c, p) \/ ClaimFails(c, p)

Controller(p) == AddReplica(p) \/ RemoveReplica(p) \/ WarmPodRuns(p) \/ WarmPodGone(p)

Managing(m) == \/ Boot(m) \/ ReadTarget(m) \/ StoreTarget(m)
               \/ GetDeployment(m) \/ PutDeployment(m) \/ ManagerCallFails(m)

Updating(a) == WriteKey(a) \/ WriteCopy(a) \/ ReadTarget(a) \/ StoreTarget(a)

Next == \/ \E c \in Claimers : Claiming(c)
        \/ \E p \in WarmPods : Controller(p) \/ WarmPodLost(p)
        \/ \E m \in Managers : Managing(m)
        \/ \E a \in Requests : Updating(a) \/ \E n \in Wanted : StartUpdateConfig(a, n)

Spec == Init /\ [][Next]_vars

(* The loops of the managers run for ever, requests end, the controller     *)
(* does its work; claims are made or not.                                   *)
FairSpec == /\ Spec
            /\ \A m \in Managers : WF_vars(Managing(m))
            /\ \A a \in Requests : WF_vars(Updating(a))
            /\ \A c \in Claimers : WF_vars(at[c] # "list" /\ Claiming(c))
            /\ \A p \in WarmPods : WF_vars(Controller(p))

-----------------------------------------------------------------------------
TypeOK == /\ warm \in [WarmPods -> PodStates]
          /\ at \in [Claimers -> {"list", "claim", "free", "create"}]
          /\ listed \in [Claimers -> SUBSET WarmPods]
          /\ node \in [Claimers -> WarmPods \cup {None}]
          /\ deploy \in Nat \cup {None} /\ key \in Int32 \cup {None}
          /\ target \in [Managers -> Int32] /\ got \in [Threads -> Int32]
          /\ pc \in [Threads -> {"boot", "idle", "read", "store", "get", "put",
                                 "redis", "copy"}]
          /\ existing \in [Managers -> Nat \cup {None}]
          /\ faults \in 0..MaxFaults /\ puts \in 0..MaxPuts /\ losses \in 0..MaxLosses

\* Two tenants never start on the node of the same warm pod, however their
\* GetWarmPod calls interleave (client.go:361-363, "atomically detaches").
ClaimedOnce == \A c, d \in Claimers : node[c] = node[d] /\ node[c] # None => c = d

\* A claimed pod that nobody is going to delete any more is the trace of a fault
\* between the claim and the deletion (handler.go:435-439); without one none is left.
Abandoned == {p \in InState("consuming") :
                 ~ \E c \in Claimers : at[c] = "free" /\ node[c] = p}
LeaksAreFaults == Cardinality(Abandoned) <= faults

\* The Deployment never gets a replica count that is neither the configured one nor one
\* that an operator has asked for by then, whichever calls to Redis fail, before which
\* replica has booted, and however requests and manager loops interleave on the key and
\* the copies (warmpool.go:42-50, 57-71, 76-84, handler.go:527).
Asked == {Default} \cup IF puts = 0 THEN {} ELSE {ToInt32(n) : n \in Wanted}
TargetsAreAskedFor == deploy \in Asked \cup {None}

\* Whatever replica took the last request, and although managers act on targets
\* that are out of date, the Deployment and its pods follow Redis once claims stop
\* (warmpool.go:55-57, 74-75), unless a large target has become a negative one, which
\* the API server refuses (handler.go:515, 527).
Refused == key \in Int32 /\ key < 0
PoolFollowsTarget ==
    <>[](Refused \/ (deploy = key /\ Cardinality(InState("running")) = key))
=============================================================================
