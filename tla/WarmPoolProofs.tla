--------------------------- MODULE WarmPoolProofs ---------------------------
(***************************************************************************)
(* Claims of warm pods, and the replica count their Deployment is given,   *)
(* for any number of tenants, pods, replicas of the orchestrator,          *)
(* requests, faults and losses.                                            *)
(***************************************************************************)
EXTENDS WarmPool, FiniteSetTheorems, TLAPS

\* A claimer has a pod's node in hand exactly when it should.
InHand == \A c \in Claimers : /\ at[c] \in {"list", "claim"} => node[c] = None
                              /\ at[c] = "free" => node[c] \in WarmPods

\* A pod that has been claimed does not come back while its claimer remembers it.
NotBack == \A c \in Claimers : node[c] # None => warm[node[c]] \in {"consuming", "none"}

Leaks == IsFiniteSet(Abandoned) /\ Cardinality(Abandoned) <= faults

PoolInv == TypeOK /\ InHand /\ NotBack /\ ClaimedOnce /\ Leaks

-----------------------------------------------------------------------------
\* int32 of whatever int an operator asks for is an int32.
LEMMA ToInt32Type ==
    ASSUME NEW n \in Nat
    PROVE  ToInt32(n) \in Int32
<1>. DEFINE m == n + IntRange
            k == 2 * IntRange
<1>1. m \in Int /\ k \in Nat \ {0}
  BY TargetsAssumption
<1>. HIDE DEF m, k
<1>2. m % k \in 0..k-1
  BY <1>1
<1>. QED
  BY <1>2, TargetsAssumption DEF ToInt32, Int32, m, k

\* A fault is counted within its bound.
LEMMA FaultType ==
    ASSUME TypeOK, Fault
    PROVE  faults' \in 0..MaxFaults /\ faults' = faults + 1 /\ UNCHANGED <<puts, losses>>
BY TargetsAssumption DEF TypeOK, Fault

\* A thread that moves on stays at a label.
LEMMA GotoType ==
    ASSUME TypeOK, NEW t \in Threads, Goto(t, "boot") \/ Goto(t, "idle") \/ Goto(t, "read")
           \/ Goto(t, "store") \/ Goto(t, "get") \/ Goto(t, "put") \/ Goto(t, "redis")
           \/ Goto(t, "copy")
    PROVE  pc' \in [Threads -> {"boot", "idle", "read", "store", "get", "put",
                                "redis", "copy"}]
BY DEF TypeOK, Goto

\* Every request runs in the replica of some manager.
LEMMA HomeType == \A t \in Threads : Home(t) \in Managers
BY RequestsAssumption DEF Threads, Home

-----------------------------------------------------------------------------
\* Claims and the Deployment's controller leave the targets alone, and stay typed.
LEMMA PoolTypes ==
    ASSUME TypeOK,
           \/ \E c \in Claimers : Claiming(c)
           \/ \E p \in WarmPods : Controller(p) \/ WarmPodLost(p)
    PROVE  TypeOK'
<1>1. ASSUME NEW c \in Claimers, Claiming(c)
      PROVE  TypeOK'
  <2>1. at' \in [Claimers -> {"list", "claim", "free", "create"}]
    BY <1>1 DEF TypeOK, Claiming, ListWarmPods, NoWarmPod, DeleteWarmPod, CreatePinnedPod,
                SlowPathLost, Claim, ClaimFails
  <2>2. warm' \in [WarmPods -> PodStates]
    BY <1>1 DEF TypeOK, PodStates, Claiming, ListWarmPods, NoWarmPod, DeleteWarmPod,
                CreatePinnedPod, SlowPathLost, Claim, ClaimFails
  <2>3. listed' \in [Claimers -> SUBSET WarmPods]
    BY <1>1 DEF TypeOK, InState, Claiming, ListWarmPods, NoWarmPod, DeleteWarmPod,
                CreatePinnedPod, SlowPathLost, Claim, ClaimFails
  <2>4. node' \in [Claimers -> WarmPods \cup {None}]
    BY <1>1 DEF TypeOK, Claiming, ListWarmPods, NoWarmPod, DeleteWarmPod,
                CreatePinnedPod, SlowPathLost, Claim, ClaimFails
  <2>5. UNCHANGED targetVars /\ (Fault \/ UNCHANGED bounds)
    BY <1>1 DEF Claiming, ListWarmPods, NoWarmPod, DeleteWarmPod, CreatePinnedPod,
                SlowPathLost, Claim, ClaimFails
  <2>. QED
    BY <2>1, <2>2, <2>3, <2>4, <2>5, FaultType DEF TypeOK, targetVars, bounds
<1>2. ASSUME NEW p \in WarmPods, Controller(p) \/ WarmPodLost(p)
      PROVE  TypeOK'
  <2>1. warm' \in [WarmPods -> PodStates]
    BY <1>2 DEF TypeOK, PodStates, SetPod, Controller, WarmPodLost, AddReplica, RemoveReplica,
                WarmPodRuns, WarmPodGone
  <2>2. /\ UNCHANGED <<at, listed, node, targetVars, faults, puts>>
        /\ losses' \in 0..MaxLosses
    BY <1>2, TargetsAssumption DEF TypeOK, Controller, WarmPodLost, AddReplica, RemoveReplica,
                WarmPodRuns, WarmPodGone, bounds
  <2>. QED
    BY <2>1, <2>2 DEF TypeOK, targetVars
<1>. QED
  BY <1>1, <1>2

\* Managers and requests leave the pods alone, and stay typed.
LEMMA TargetTypes ==
    ASSUME TypeOK,
           \/ \E m \in Managers : Managing(m)
           \/ \E a \in Requests : Updating(a) \/ \E n \in Wanted : StartUpdateConfig(a, n)
    PROVE  TypeOK'
<1>. USE DEF Threads
<1>1. ASSUME NEW t \in Threads, ReadTarget(t) \/ StoreTarget(t)
      PROVE  TypeOK'
  <2>1. pc' \in [Threads -> {"boot", "idle", "read", "store", "get", "put", "redis", "copy"}]
    BY <1>1, GotoType DEF ReadTarget, StoreTarget
  <2>2. got' \in [Threads -> Int32] /\ target' \in [Managers -> Int32]
    BY <1>1, HomeType, NoneAssumption DEF TypeOK, ReadTarget, StoreTarget
  <2>3. UNCHANGED <<poolVars, deploy, key, existing>> /\ (Fault \/ UNCHANGED bounds)
    BY <1>1 DEF ReadTarget, StoreTarget
  <2>. QED
    BY <2>1, <2>2, <2>3, FaultType DEF TypeOK, poolVars, bounds
<1>2. ASSUME NEW m \in Managers, Boot(m)
      PROVE  TypeOK'
  <2>1. Default \in Int32
    BY TargetsAssumption DEF Int32
  <2>2. pc' \in [Threads -> {"boot", "idle", "read", "store", "get", "put", "redis", "copy"}]
    BY <1>2, GotoType DEF Boot
  <2>. QED
    BY <1>2, <2>1, <2>2, FaultType DEF Boot, TypeOK, poolVars, bounds
<1>3. ASSUME NEW m \in Managers, GetDeployment(m) \/ PutDeployment(m) \/ ManagerCallFails(m)
      PROVE  TypeOK'
  <2>1. pc' \in [Threads -> {"boot", "idle", "read", "store", "get", "put", "redis", "copy"}]
    BY <1>3, GotoType DEF GetDeployment, PutDeployment, ManagerCallFails
  <2>2. /\ deploy' \in Nat \cup {None} /\ existing' \in [Managers -> Nat \cup {None}]
    BY <1>3 DEF TypeOK, Int32, GetDeployment, PutDeployment, ManagerCallFails
  <2>3. UNCHANGED <<poolVars, key, target, got>> /\ (Fault \/ UNCHANGED bounds)
    BY <1>3 DEF GetDeployment, PutDeployment, ManagerCallFails
  <2>. QED
    BY <2>1, <2>2, <2>3, FaultType DEF TypeOK, poolVars, bounds
<1>4. ASSUME NEW a \in Requests, WriteKey(a) \/ WriteCopy(a)
      PROVE  TypeOK'
  <2>1. pc' \in [Threads -> {"boot", "idle", "read", "store", "get", "put", "redis", "copy"}]
    BY <1>4, GotoType DEF WriteKey, WriteCopy
  <2>2. key' \in Int32 \cup {None} /\ target' \in [Managers -> Int32]
    BY <1>4, RequestsAssumption DEF TypeOK, WriteKey, WriteCopy
  <2>3. UNCHANGED <<poolVars, deploy, got, existing>> /\ (Fault \/ UNCHANGED bounds)
    BY <1>4 DEF WriteKey, WriteCopy
  <2>. QED
    BY <2>1, <2>2, <2>3, FaultType DEF TypeOK, poolVars, bounds
<1>5. ASSUME NEW a \in Requests, NEW n \in Wanted, StartUpdateConfig(a, n)
      PROVE  TypeOK'
  <2>1. pc' \in [Threads -> {"boot", "idle", "read", "store", "get", "put", "redis", "copy"}]
    BY <1>5, GotoType DEF StartUpdateConfig
  <2>2. ToInt32(n) \in Int32
    BY ToInt32Type, TargetsAssumption
  <2>3. puts' \in 0..MaxPuts
    BY <1>5, TargetsAssumption DEF StartUpdateConfig, TypeOK
  <2>. QED
    BY <1>5, <2>1, <2>2, <2>3 DEF StartUpdateConfig, TypeOK, poolVars
<1>. QED
  BY <1>1, <1>2, <1>3, <1>4, <1>5 DEF Managing, Updating

-----------------------------------------------------------------------------
\* Steps that touch no pod and no claim change nothing the claims depend on.
LEMMA ClaimsStay ==
    ASSUME PoolInv, UNCHANGED <<warm, at, node>>, faults' \in Nat, faults <= faults', faults \in Nat
    PROVE  InHand' /\ NotBack' /\ ClaimedOnce' /\ Leaks'
<1>1. Abandoned' = Abandoned
  BY DEF Abandoned, InState
<1>2. Cardinality(Abandoned) \in Nat
  BY FS_CardinalityType DEF PoolInv, Leaks
<1>. QED
  BY <1>1, <1>2 DEF PoolInv, InHand, NotBack, ClaimedOnce, Leaks

\* Fewer pods are abandoned, or one more and a fault.
LEMMA LeakStep ==
    ASSUME TypeOK, Leaks, TypeOK',
           \/ Abandoned' \subseteq Abandoned /\ faults' >= faults
           \/ \E p : Abandoned' \subseteq Abandoned \cup {p} /\ faults' = faults + 1
    PROVE  Leaks'
<1>1. Cardinality(Abandoned) \in Nat /\ faults \in Nat /\ faults' \in Nat
  BY FS_CardinalityType, TargetsAssumption DEF TypeOK, Leaks
<1>2. CASE Abandoned' \subseteq Abandoned /\ faults' >= faults
  <2>1. IsFiniteSet(Abandoned') /\ Cardinality(Abandoned') <= Cardinality(Abandoned)
    BY <1>2, FS_Subset DEF Leaks
  <2>2. Cardinality(Abandoned') \in Nat
    BY <2>1, FS_CardinalityType
  <2>. QED
    BY <1>1, <1>2, <2>1, <2>2 DEF Leaks
<1>3. ASSUME NEW p, Abandoned' \subseteq Abandoned \cup {p}, faults' = faults + 1
      PROVE  Leaks'
  <2>1. /\ IsFiniteSet(Abandoned \cup {p})
        /\ Cardinality(Abandoned \cup {p}) <= Cardinality(Abandoned) + 1
        /\ Cardinality(Abandoned \cup {p}) \in Nat
    <3>1. /\ IsFiniteSet(Abandoned \cup {p})
          /\ Cardinality(Abandoned \cup {p})
               = IF p \in Abandoned THEN Cardinality(Abandoned) ELSE Cardinality(Abandoned) + 1
      BY FS_AddElement DEF Leaks
    <3>. QED
      BY <1>1, <3>1
  <2>2. /\ IsFiniteSet(Abandoned')
        /\ Cardinality(Abandoned') <= Cardinality(Abandoned \cup {p})
    <3>. DEFINE S == Abandoned \cup {p}
                T == Abandoned'
    <3>1. IsFiniteSet(S) /\ T \in SUBSET S
      BY <1>3, <2>1
    <3>. HIDE DEF S, T
    <3>2. IsFiniteSet(T) /\ Cardinality(T) <= Cardinality(S)
      BY <3>1, FS_Subset
    <3>. QED
      BY <3>2 DEF S, T
  <2>3. Cardinality(Abandoned') \in Nat
    BY <2>2, FS_CardinalityType
  <2>. QED
    BY <1>1, <1>3, <2>1, <2>2, <2>3 DEF Leaks
<1>. QED
  BY <1>2, <1>3

\* A claim that succeeds takes a pod that runs, so nobody has it yet.
LEMMA ClaimKeeps ==
    ASSUME PoolInv, TypeOK', NEW c \in Claimers, NEW p \in WarmPods, Claim(c, p)
    PROVE  InHand' /\ NotBack' /\ ClaimedOnce' /\ Leaks'
<1>. USE DEF PoolInv
<1>1. faults' = faults /\ faults \in Nat
  BY TargetsAssumption DEF Claim, bounds, TypeOK
<1>2. CASE warm[p] = "running"
  <2>1. /\ warm' = [warm EXCEPT ![p] = "consuming"] /\ node' = [node EXCEPT ![c] = p]
        /\ at' = [at EXCEPT ![c] = "free"]
    BY <1>2 DEF Claim
  <2>2. \A d \in Claimers : node[d] # p
    BY <1>2, NoneAssumption DEF NotBack, TypeOK
  <2>3. InHand'
    BY <2>1 DEF InHand, TypeOK
  <2>4. NotBack'
    BY <2>1 DEF NotBack, TypeOK, PodStates
  <2>5. ClaimedOnce'
    BY <2>1, <2>2 DEF ClaimedOnce, TypeOK
  <2>6. Abandoned' \subseteq Abandoned
    BY <2>1 DEF Abandoned, InState, TypeOK, InHand, Claim
  <2>. QED
    BY <1>1, <2>3, <2>4, <2>5, <2>6, LeakStep
<1>3. CASE warm[p] # "running"
  BY <1>1, <1>3, ClaimsStay DEF Claim
<1>. QED
  BY <1>2, <1>3

\* A claimer that lets go of its pod leaves it behind only by a fault.
LEMMA LetGo ==
    ASSUME PoolInv, TypeOK', NEW c \in Claimers,
           DeleteWarmPod(c) \/ CreatePinnedPod(c) \/ SlowPathLost(c)
    PROVE  InHand' /\ NotBack' /\ ClaimedOnce' /\ Leaks'
<1>. USE DEF PoolInv
<1>1. faults \in Nat
  BY TargetsAssumption DEF TypeOK
<1>2. CASE DeleteWarmPod(c)
  <2>1. /\ at[c] = "free" /\ at' = [at EXCEPT ![c] = "create"] /\ node' = node
        /\ \/ /\ warm' = [warm EXCEPT ![node[c]] = IF @ = "consuming" THEN "none" ELSE @]
              /\ faults' = faults
           \/ faults' = faults + 1 /\ warm' = warm
    BY <1>2 DEF DeleteWarmPod, Fault, bounds
  <2>2. node[c] \in WarmPods
    BY <2>1 DEF InHand
  <2>3. InHand'
    BY <2>1 DEF InHand, TypeOK
  <2>4. NotBack'
    BY <2>1, <2>2, NoneAssumption DEF NotBack, TypeOK, PodStates
  <2>5. ClaimedOnce'
    BY <2>1 DEF ClaimedOnce
  <2>6. CASE faults' = faults
    <3>1. warm' = [warm EXCEPT ![node[c]] = IF @ = "consuming" THEN "none" ELSE @]
      BY <1>1, <2>1, <2>6
    <3>2. Abandoned' \subseteq Abandoned
      BY <2>1, <2>2, <3>1 DEF Abandoned, InState, TypeOK, PodStates
    <3>. QED
      BY <1>1, <2>3, <2>4, <2>5, <2>6, <3>2, LeakStep
  <2>7. CASE faults' = faults + 1
    <3>1. warm' = warm
      BY <1>1, <2>1, <2>7
    <3>2. Abandoned' \subseteq Abandoned \cup {node[c]}
      BY <2>1, <3>1 DEF Abandoned, InState, TypeOK
    <3>. QED
      BY <2>3, <2>4, <2>5, <2>7, <3>2, LeakStep
  <2>. QED
    BY <2>1, <2>6, <2>7
<1>3. CASE CreatePinnedPod(c) \/ SlowPathLost(c)
  <2>1. /\ at' = [at EXCEPT ![c] = "list"] /\ node' = [node EXCEPT ![c] = None]
        /\ warm' = warm
        /\ \/ at[c] = "create" /\ faults' = faults
           \/ faults' = faults + 1
    BY <1>3 DEF CreatePinnedPod, SlowPathLost, Fault, bounds
  <2>2. InHand'
    BY <2>1 DEF InHand, TypeOK
  <2>3. NotBack' /\ ClaimedOnce'
    BY <2>1 DEF NotBack, ClaimedOnce, TypeOK
  <2>4. CASE at[c] = "create" /\ faults' = faults
    <3>1. Abandoned' \subseteq Abandoned
      BY <2>1, <2>4 DEF Abandoned, InState, TypeOK
    <3>. QED
      BY <1>1, <2>2, <2>3, <2>4, <3>1, LeakStep
  <2>5. CASE faults' = faults + 1
    <3>1. Abandoned' \subseteq Abandoned \cup {node[c]}
      BY <2>1 DEF Abandoned, InState, TypeOK
    <3>. QED
      BY <2>2, <2>3, <2>5, <3>1, LeakStep
  <2>. QED
    BY <2>1, <2>4, <2>5
<1>. QED
  BY <1>2, <1>3

\* Listing pods, finding none, and passing one over take none.
LEMMA Looking ==
    ASSUME PoolInv, TypeOK', NEW c \in Claimers,
           ListWarmPods(c) \/ NoWarmPod(c) \/ \E p \in WarmPods : ClaimFails(c, p)
    PROVE  InHand' /\ NotBack' /\ ClaimedOnce' /\ Leaks'
<1>. USE DEF PoolInv
<1>1. /\ at[c] \in {"list", "claim"} /\ at'[c] \in {"claim", "create"}
      /\ \A d \in Claimers : d # c => at'[d] = at[d]
      /\ warm' = warm /\ node' = node /\ faults' \in {faults, faults + 1} /\ faults \in Nat
  BY TargetsAssumption DEF TypeOK, ListWarmPods, NoWarmPod, ClaimFails, Fault, bounds
<1>2. InHand' /\ NotBack' /\ ClaimedOnce'
  BY <1>1 DEF InHand, NotBack, ClaimedOnce
<1>3. Abandoned' \subseteq Abandoned
  BY <1>1 DEF Abandoned, InState
<1>. QED
  BY <1>1, <1>2, <1>3, LeakStep

\* The controller and losses bring no claimed pod back.
LEMMA WorldKeeps ==
    ASSUME PoolInv, TypeOK', NEW p \in WarmPods, Controller(p) \/ WarmPodLost(p)
    PROVE  InHand' /\ NotBack' /\ ClaimedOnce' /\ Leaks'
<1>. USE DEF PoolInv
<1>1. /\ UNCHANGED <<at, node, faults>> /\ faults \in Nat
      /\ \E s \in {"pending", "running", "dying", "none"} : warm' = [warm EXCEPT ![p] = s]
  BY TargetsAssumption DEF TypeOK, Controller, WarmPodLost, AddReplica, RemoveReplica,
     WarmPodRuns, WarmPodGone, SetPod, bounds
<1>2. InHand' /\ ClaimedOnce'
  BY <1>1 DEF InHand, ClaimedOnce
<1>3. Abandoned' \subseteq Abandoned
  BY <1>1 DEF Abandoned, InState, TypeOK
<1>4. NotBack'
  <2>1. CASE AddReplica(p)
    BY <2>1 DEF AddReplica, SetPod, Remembered, NotBack, TypeOK
  <2>2. CASE RemoveReplica(p) \/ WarmPodRuns(p) \/ WarmPodGone(p)
    BY <2>2 DEF RemoveReplica, WarmPodRuns, WarmPodGone, SetPod, Owned, InState, NotBack, TypeOK
  <2>3. CASE WarmPodLost(p)
    BY <2>3 DEF WarmPodLost, SetPod, NotBack, TypeOK
  <2>. QED
    BY <2>1, <2>2, <2>3 DEF Controller
<1>. QED
  BY <1>1, <1>2, <1>3, <1>4, LeakStep

\* The invariant is inductive.
LEMMA PoolInvHolds == Spec => []PoolInv
<1>1. Init => PoolInv
  <2>. SUFFICES ASSUME Init PROVE PoolInv
    OBVIOUS
  <2>1. TypeOK
    BY TargetsAssumption DEF Init, TypeOK, PodStates, Int32, Threads
  <2>2. InHand /\ NotBack /\ ClaimedOnce
    BY DEF Init, InHand, NotBack, ClaimedOnce
  <2>3. Abandoned = {}
    BY DEF Init, Abandoned, InState
  <2>. QED
    BY <2>1, <2>2, <2>3, FS_EmptySet DEF Init, PoolInv, Leaks
<1>2. PoolInv /\ [Next]_vars => PoolInv'
  <2>. SUFFICES ASSUME PoolInv, [Next]_vars
                PROVE  PoolInv'
    OBVIOUS
  <2>1. TypeOK'
    BY PoolTypes, TargetTypes DEF PoolInv, Next, vars, poolVars, targetVars, bounds, TypeOK
  <2>2. ASSUME NEW c \in Claimers, Claiming(c)
        PROVE  InHand' /\ NotBack' /\ ClaimedOnce' /\ Leaks'
    BY <2>1, <2>2, ClaimKeeps, LetGo, Looking DEF Claiming
  <2>3. ASSUME NEW p \in WarmPods, Controller(p) \/ WarmPodLost(p)
        PROVE  InHand' /\ NotBack' /\ ClaimedOnce' /\ Leaks'
    BY <2>1, <2>3, WorldKeeps
  <2>4. CASE \/ \E m \in Managers : Managing(m)
             \/ \E a \in Requests : Updating(a) \/ \E n \in Wanted : StartUpdateConfig(a, n)
             \/ UNCHANGED vars
    <3>1. UNCHANGED poolVars /\ (Fault \/ faults' = faults)
      BY <2>4 DEF Managing, Updating, Boot, ReadTarget, StoreTarget, GetDeployment, PutDeployment,
                  ManagerCallFails, WriteKey, WriteCopy, StartUpdateConfig, vars, bounds
    <3>2. faults \in Nat /\ faults' \in Nat /\ faults <= faults'
      BY <3>1, TargetsAssumption DEF PoolInv, TypeOK, Fault
    <3>. QED
      BY <2>1, <3>1, <3>2, ClaimsStay DEF poolVars, PoolInv
  <2>. QED
    BY <2>1, <2>2, <2>3, <2>4 DEF PoolInv, Next
<1>. QED
  BY <1>1, <1>2, PTL DEF Spec

\* Targets stay int32, whatever int PUT /config is given, and the Deployment's replica
\* count is never negative (handler.go:527, client.go:343).
THEOREM PoolTypesHold == Spec => []TypeOK
<1>1. PoolInv => TypeOK
  BY DEF PoolInv
<1>. QED
  BY <1>1, PoolInvHolds, PTL

\* No warm pod is claimed by two tenants (client.go:361-387).
THEOREM OneClaim == Spec => []ClaimedOnce
<1>1. PoolInv => ClaimedOnce
  BY DEF PoolInv
<1>. QED
  BY <1>1, PoolInvHolds, PTL

\* As many claimed pods are left behind as there were faults, at most (handler.go:435-439).
THEOREM FewLeaks == Spec => []LeaksAreFaults
<1>1. PoolInv => LeaksAreFaults
  BY DEF PoolInv, Leaks, LeaksAreFaults
<1>. QED
  BY <1>1, PoolInvHolds, PTL
-----------------------------------------------------------------------------
(***************************************************************************)
(* Only what was asked for.  What a thread holds between two calls, what a *)
(* replica that has booted keeps, and what Redis has are all counts that   *)
(* somebody has asked for.                                                 *)
(***************************************************************************)
\* Managers boot and loop, requests begin idle and write; a request under way runs in a
\* replica that has booted.
Labels == \A t \in Threads :
             /\ t \in Managers => pc[t] \notin {"idle", "redis", "copy"}
             /\ t \notin Managers => pc[t] # "boot"
             /\ pc[t] \notin {"boot", "idle"} => pc[Home(t)] # "boot"

HandsAsked == \A t \in Threads :
                 pc[t] \in {"store", "get", "put", "redis", "copy"} => got[t] \in Asked
CopiesAsked == \A m \in Managers : pc[m] # "boot" => target[m] \in Asked

AskedInv == /\ Labels /\ HandsAsked /\ CopiesAsked
            /\ key \in Asked \cup {None} /\ deploy \in Asked \cup {None}

\* A step that asks for nothing leaves the counts asked for as they are; none is taken
\* back.
LEMMA AskedStays ==
    ASSUME TypeOK, puts' \in {puts, puts + 1}
    PROVE  Asked \subseteq Asked' /\ (puts' = puts => Asked' = Asked)
<1>1. puts \in Nat
  BY TargetsAssumption DEF TypeOK
<1>. QED
  BY <1>1 DEF Asked

\* No step takes a thread back to "boot", and each moves one thread as its kind does.
LEMMA LabelsStay ==
    ASSUME TypeOK, Labels, NEW t \in Threads, NEW l, pc' = [pc EXCEPT ![t] = l], l # "boot",
           t \in Managers => l \notin {"idle", "redis", "copy"},
           l # "idle" => pc[Home(t)] # "boot" \/ Home(t) = t
    PROVE  Labels'
<1>1. \A u \in Threads : Home(u) \in Threads
  BY HomeType DEF Threads
<1>. QED
  BY <1>1 DEF TypeOK, Labels, Home

\* Target() returns what Redis or the copy has, and refreshes the copy with it.
LEMMA TargetKeeps ==
    ASSUME TypeOK, AskedInv, NEW t \in Threads, ReadTarget(t) \/ StoreTarget(t)
    PROVE  AskedInv'
<1>. USE DEF AskedInv
<1>1. Home(t) \in Managers /\ pc[Home(t)] # "boot" /\ puts' = puts
  BY HomeType DEF Labels, ReadTarget, StoreTarget, Fault, bounds
<1>2. Asked' = Asked
  BY <1>1, AskedStays
<1>3. UNCHANGED <<key, deploy>>
  BY DEF ReadTarget, StoreTarget
<1>4. PICK l \in {"store", "get", "idle"} :
         /\ pc' = [pc EXCEPT ![t] = l]
         /\ t \in Managers => l # "idle"
  BY DEF ReadTarget, StoreTarget, Goto
<1>5. Labels'
  BY <1>1, <1>4, LabelsStay
<1>6. CASE ReadTarget(t)
  <2>1. PICK n \in Asked : got' = [got EXCEPT ![t] = n]
    BY <1>1, <1>6 DEF ReadTarget, CopiesAsked
  <2>2. HandsAsked' /\ CopiesAsked'
    BY <1>2, <1>4, <1>6, <2>1 DEF TypeOK, Threads, ReadTarget, HandsAsked, CopiesAsked
  <2>. QED
    BY <1>2, <1>3, <1>5, <2>2
<1>7. CASE StoreTarget(t)
  <2>1. got[t] \in Asked /\ got' = got /\ target' = [target EXCEPT ![Home(t)] = got[t]]
    BY <1>7 DEF StoreTarget, HandsAsked
  <2>2. HandsAsked' /\ CopiesAsked'
    BY <1>2, <1>4, <1>7, <2>1 DEF TypeOK, Threads, StoreTarget, HandsAsked, CopiesAsked
  <2>. QED
    BY <1>2, <1>3, <1>5, <2>2
<1>. QED
  BY <1>6, <1>7

\* A replica boots with the configured count, and its loop puts what Target() returned.
LEMMA ManagerKeeps ==
    ASSUME TypeOK, AskedInv, NEW m \in Managers,
           Boot(m) \/ GetDeployment(m) \/ PutDeployment(m) \/ ManagerCallFails(m)
    PROVE  AskedInv'
<1>. USE DEF AskedInv
<1>0. m \in Threads /\ Home(m) = m
  BY DEF Threads, Home
<1>1. puts' = puts
  BY DEF Boot, GetDeployment, PutDeployment, ManagerCallFails, Fault, bounds
<1>2. Asked' = Asked /\ Default \in Asked
  BY <1>1, AskedStays DEF Asked
<1>3. PICK l \in {"read", "put"} : /\ pc' = [pc EXCEPT ![m] = l]
                                   /\ l = "put" => pc[m] = "get"
  BY DEF Boot, GetDeployment, PutDeployment, ManagerCallFails, Goto
<1>4. Labels'
  BY <1>0, <1>3, LabelsStay
<1>5. got' = got /\ HandsAsked'
  BY <1>0, <1>2, <1>3 DEF TypeOK, HandsAsked, Boot, GetDeployment, PutDeployment, ManagerCallFails
<1>6. CASE Boot(m)
  <2>1. CopiesAsked'
    BY <1>0, <1>2, <1>3, <1>6 DEF TypeOK, Threads, CopiesAsked, Boot
  <2>. QED
    BY <1>2, <1>4, <1>5, <1>6, <2>1 DEF Boot
<1>7. CASE GetDeployment(m) \/ PutDeployment(m) \/ ManagerCallFails(m)
  <2>1. target' = target /\ key' = key /\ pc[m] \in {"get", "put"}
    BY <1>7 DEF GetDeployment, PutDeployment, ManagerCallFails
  <2>2. CopiesAsked'
    BY <1>0, <1>2, <1>3, <2>1 DEF TypeOK, Threads, CopiesAsked
  <2>3. deploy' \in Asked \cup {None}
    BY <1>0, <1>7, <2>1 DEF HandsAsked, GetDeployment, PutDeployment, ManagerCallFails
  <2>. QED
    BY <1>2, <1>4, <1>5, <2>1, <2>2, <2>3
<1>. QED
  BY <1>6, <1>7

\* PUT /config asks for a count and writes it to Redis and to its replica's copy.
LEMMA RequestKeeps ==
    ASSUME TypeOK, AskedInv, NEW a \in Requests,
           WriteKey(a) \/ WriteCopy(a) \/ \E n \in Wanted : StartUpdateConfig(a, n)
    PROVE  AskedInv'
<1>. USE DEF AskedInv
<1>0. a \in Threads
  BY DEF Threads
<1>1. pc[a] \in {"idle", "redis", "copy"} /\ a \notin Managers /\ Home(a) = RunsIn[a]
  BY <1>0 DEF Labels, Home, WriteKey, WriteCopy, StartUpdateConfig
<1>2. pc[RunsIn[a]] # "boot" /\ RunsIn[a] \in Managers
  BY <1>0, <1>1, HomeType DEF Labels, StartUpdateConfig, WriteKey, WriteCopy
<1>3. PICK l \in {"redis", "copy", "read"} : pc' = [pc EXCEPT ![a] = l]
  BY DEF WriteKey, WriteCopy, StartUpdateConfig, Goto
<1>4. Labels'
  BY <1>0, <1>1, <1>2, <1>3, LabelsStay
<1>5. ASSUME NEW n \in Wanted, StartUpdateConfig(a, n)
      PROVE  AskedInv'
  <2>1. Asked \subseteq Asked' /\ ToInt32(n) \in Asked'
    <3>1. puts' = puts + 1 /\ puts \in Nat
      BY <1>5, TargetsAssumption DEF StartUpdateConfig, TypeOK
    <3>2. puts' # 0
      BY <3>1
    <3>. QED
      BY <3>1, <3>2, AskedStays DEF Asked
  <2>2. UNCHANGED <<deploy, key, target>> /\ got' = [got EXCEPT ![a] = ToInt32(n)]
    BY <1>5 DEF StartUpdateConfig
  <2>3. HandsAsked' /\ CopiesAsked'
    BY <1>0, <1>1, <1>3, <2>1, <2>2 DEF TypeOK, Threads, HandsAsked, CopiesAsked
  <2>. QED
    BY <1>4, <2>1, <2>2, <2>3
<1>6. CASE WriteKey(a) \/ WriteCopy(a)
  <2>1. Asked' = Asked /\ got[a] \in Asked
    BY <1>0, <1>6, AskedStays DEF HandsAsked, WriteKey, WriteCopy, Fault, bounds
  <2>2. got' = got /\ deploy' = deploy /\ key' \in Asked \cup {None}
    BY <1>6, <2>1 DEF WriteKey, WriteCopy
  <2>3. HandsAsked'
    BY <1>0, <1>3, <2>1, <2>2 DEF TypeOK, HandsAsked
  <2>4. CopiesAsked'
    BY <1>0, <1>1, <1>2, <1>3, <1>6, <2>1 DEF TypeOK, Threads, CopiesAsked, WriteKey, WriteCopy
  <2>. QED
    BY <1>4, <2>1, <2>2, <2>3, <2>4
<1>. QED
  BY <1>5, <1>6

\* The Deployment only gets a count that is configured or that an operator has asked
\* for, whatever calls to Redis fail and however replicas, their loops and requests
\* interleave (warmpool.go:42-50, 57-71, 76-84, handler.go:527).
THEOREM OnlyAskedFor == Spec => []TargetsAreAskedFor
<1>1. Init => AskedInv
  <2>. SUFFICES ASSUME Init PROVE AskedInv
    OBVIOUS
  <2>1. Labels
    BY RequestsAssumption DEF Init, Labels, Threads, Home
  <2>2. HandsAsked /\ CopiesAsked
    BY DEF Init, HandsAsked, CopiesAsked, Threads
  <2>. QED
    BY <2>1, <2>2 DEF Init, AskedInv
<1>2. PoolInv /\ AskedInv /\ [Next]_vars => AskedInv'
  <2>. SUFFICES ASSUME PoolInv, AskedInv, [Next]_vars
                PROVE  AskedInv'
    OBVIOUS
  <2>0. TypeOK
    BY DEF PoolInv
  <2>1. ASSUME NEW m \in Managers, Managing(m)
        PROVE  AskedInv'
    BY <2>0, <2>1, TargetKeeps, ManagerKeeps DEF Managing, Threads
  <2>2. ASSUME NEW a \in Requests, Updating(a) \/ \E n \in Wanted : StartUpdateConfig(a, n)
        PROVE  AskedInv'
    BY <2>0, <2>2, TargetKeeps, RequestKeeps DEF Updating, Threads
  <2>3. CASE \/ \E c \in Claimers : Claiming(c)
             \/ \E p \in WarmPods : Controller(p) \/ WarmPodLost(p)
             \/ UNCHANGED vars
    <3>1. UNCHANGED targetVars /\ puts' = puts
      BY <2>3 DEF Claiming, ListWarmPods, NoWarmPod, DeleteWarmPod, CreatePinnedPod, SlowPathLost,
                  Claim, ClaimFails, Controller, AddReplica, RemoveReplica, WarmPodRuns,
                  WarmPodGone, WarmPodLost, Fault, bounds, vars
    <3>2. Asked' = Asked
      BY <2>0, <3>1, AskedStays
    <3>. QED
      BY <3>1, <3>2 DEF targetVars, AskedInv, Labels, HandsAsked, CopiesAsked
  <2>. QED
    BY <2>1, <2>2, <2>3 DEF Next
<1>3. AskedInv => TargetsAreAskedFor
  BY DEF AskedInv, TargetsAreAskedFor
<1>. QED
  BY <1>1, <1>2, <1>3, PoolInvHolds, PTL DEF Spec
=============================================================================
