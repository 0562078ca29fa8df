--------------------------- MODULE ElectionProofs ---------------------------
(***************************************************************************)
(* One elector leads, for any number of replicas, outages and restarts and *)
(* all durations, when a leader's deadline and the delay of an answer fit  *)
(* the duration of the lease.                                              *)
(*                                                                         *)
(* That is not inductive: a candidate becomes leader because of its own    *)
(* clock alone.  Behind relates the clocks: while somebody leads, the      *)
(* lease is its own, and nobody noticed the last write earlier than the    *)
(* leader made its last renewal.                                           *)
(***************************************************************************)
EXTENDS Election, TLAPS

Behind == \A r, s \in Replicas : state[r] = "leading" =>
              lease = r /\ (s # r => seen[s] <= lead[r])

LeaseInv == TypeOK /\ Behind

USE ReplicasAssumption, DurationsAssumption DEF States, Running, Unseen, GiveUpAfter, LeadLimit

\* The initial states satisfy the invariant.
LEMMA InitInv == Init => LeaseInv
<1>. SUFFICES ASSUME Init PROVE LeaseInv
  OBVIOUS
<1>1. TypeOK
  <2>1. lead \in [Replicas -> 0..LeadLimit] /\ seen \in [Replicas -> Unseen..LeaseDuration]
    BY DEF Init
  <2>. QED  BY <2>1 DEF Init, TypeOK
<1>2. Behind
  BY DEF Init, Behind
<1>. QED  BY <1>1, <1>2 DEF LeaseInv

\* A replica whose lease has expired for it faces no leader other than itself.
LEMMA ExpiredAlone ==
    ASSUME LeaseInv, DeadlineFits, NEW r \in Replicas, Expired(r),
           NEW s \in Replicas, state[s] = "leading", s # r
    PROVE  FALSE
<1>1. lease = s /\ seen[r] <= lead[s]
  BY DEF LeaseInv, Behind
<1>2. seen[r] >= LeaseDuration
  BY <1>1 DEF Expired
<1>3. lead[s] \in 0..LeadLimit /\ seen[r] \in Unseen..LeaseDuration
  BY DEF LeaseInv, TypeOK
<1>. QED  BY <1>1, <1>2, <1>3 DEF DeadlineFits

\* The steps of an elector keep the invariant.
LEMMA ElectorInv ==
    ASSUME LeaseInv, DeadlineFits, NEW r \in Replicas, Elector(r) \/ Renew(r)
    PROVE  LeaseInv'
<1>. USE DEF LeaseInv, Become, bounds, clocks
<1>1. CASE Notice(r)
  <2>1. TypeOK'
    BY <1>1 DEF Notice, TypeOK
  <2>2. Behind'
    BY <1>1 DEF Notice, TypeOK, Behind
  <2>. QED  BY <2>1, <2>2
<1>2. CASE Acquire(r)
  <2>1. TypeOK'
    BY <1>2 DEF Acquire, WriteLease, TypeOK
  <2>2. ASSUME NEW p \in Replicas, state'[p] = "leading" PROVE p = r
    BY <1>2, <2>2, ExpiredAlone DEF Acquire, TypeOK
  <2>3. Behind'
    BY <1>2, <2>2 DEF Acquire, WriteLease, TypeOK, Behind
  <2>. QED  BY <2>1, <2>3
<1>3. CASE Renew(r)
  <2>1. TypeOK'
    BY <1>3 DEF Renew, WriteLease, TypeOK
  <2>2. Behind'
    BY <1>3 DEF Renew, WriteLease, TypeOK, Behind
  <2>. QED  BY <2>1, <2>2
<1>4. CASE Release(r)
  <2>1. TypeOK'
    BY <1>4 DEF Release, WriteLease, TypeOK
  <2>2. ASSUME NEW p \in Replicas, state[p] = "leading" PROVE FALSE
    BY <1>4, <2>2 DEF Release, Behind
  <2>3. Behind'
    BY <1>4, <2>2 DEF Release, Behind
  <2>. QED  BY <2>1, <2>3
<1>5. CASE GiveUp(r) \/ StopLoop(r) \/ Exit(r)
  <2>1. TypeOK'
    BY <1>5 DEF GiveUp, StopLoop, Exit, TypeOK
  <2>2. ASSUME NEW p \in Replicas, state'[p] = "leading" PROVE state[p] = "leading"
    BY <1>5, <2>2 DEF GiveUp, StopLoop, Exit, TypeOK
  <2>3. Behind'
    BY <1>5, <2>2 DEF GiveUp, StopLoop, Exit, Behind
  <2>. QED  BY <2>1, <2>3
<1>. QED  BY <1>1, <1>2, <1>3, <1>4, <1>5 DEF Elector

\* So do crashes, deletions, replacements and outages.
LEMMA FateInv ==
    ASSUME LeaseInv, DeadlineFits, NEW r \in Replicas, Fate(r) \/ Start(r) \/ Heal(r)
    PROVE  LeaseInv'
<1>. USE DEF LeaseInv, Become, bounds, clocks
<1>1. CASE Crash(r)
  <2>1. TypeOK'
    BY <1>1 DEF Crash, TypeOK
  <2>2. Behind'
    BY <1>1 DEF Crash, TypeOK, Behind
  <2>. QED  BY <2>1, <2>2
<1>2. CASE Terminate(r)
  <2>1. TypeOK'
    BY <1>2 DEF Terminate, TypeOK
  <2>2. ASSUME NEW p \in Replicas, state'[p] = "leading" PROVE state[p] = "leading"
    BY <1>2, <2>2 DEF Terminate, TypeOK
  <2>3. Behind'
    BY <1>2, <2>2 DEF Terminate, Behind
  <2>. QED  BY <2>1, <2>3
<1>3. CASE Start(r) \/ Heal(r)
  <2>1. TypeOK'
    BY <1>3 DEF Start, Heal, TypeOK
  <2>2. ASSUME NEW p \in Replicas, state'[p] = "leading" PROVE state[p] = "leading"
    BY <1>3, <2>2 DEF Start, Heal, TypeOK
  <2>3. Behind'
    BY <1>3, <2>2 DEF Start, Heal, Behind
  <2>. QED  BY <2>1, <2>3
<1>4. CASE CutOff(r)
  <2>1. outages' \in 0..MaxOutages
    BY <1>4 DEF CutOff, TypeOK
  <2>2. TypeOK'
    BY <1>4, <2>1 DEF CutOff, WriteLease, TypeOK
  <2>3. CASE UNCHANGED <<lease, seen>>
    BY <1>4, <2>2, <2>3 DEF CutOff, Behind
  <2>4. CASE state[r] = "leading" /\ lease = r /\ WriteLease(r)
    BY <1>4, <2>2, <2>4 DEF CutOff, WriteLease, TypeOK, Behind
  <2>5. CASE state[r] = "candidate" /\ Expired(r) /\ WriteLease(r)
    <3>1. ASSUME NEW p \in Replicas, state[p] = "leading" PROVE FALSE
      BY <2>5, <3>1, ExpiredAlone
    <3>. QED  BY <1>4, <2>2, <2>5, <3>1 DEF CutOff, Behind
  <2>. QED  BY <1>4, <2>3, <2>4, <2>5 DEF CutOff
<1>. QED  BY <1>1, <1>2, <1>3, <1>4 DEF Fate

\* Time passes for the clocks of a leader and of those who wait alike.
LEMMA TickInv == ASSUME LeaseInv, Tick PROVE LeaseInv'
<1>1. lead' \in [Replicas -> 0..LeadLimit]
  <2>1. ASSUME NEW r \in Replicas
        PROVE  (IF state[r] = "leading" THEN lead[r] + 1 ELSE lead[r]) \in 0..LeadLimit
    BY DEF LeaseInv, TypeOK, Tick, MayElapse
  <2>. QED  BY <2>1 DEF Tick
<1>2. seen' \in [Replicas -> Unseen..LeaseDuration]
  <2>1. ASSUME NEW r \in Replicas
        PROVE  (IF seen[r] \in 0..LeaseDuration - 1 THEN seen[r] + 1 ELSE seen[r])
                 \in Unseen..LeaseDuration
    BY DEF LeaseInv, TypeOK
  <2>. QED  BY <2>1 DEF Tick
<1>3. TypeOK'
  BY <1>1, <1>2 DEF Tick, LeaseInv, TypeOK, bounds
<1>4. Behind'
  <2>1. ASSUME NEW r \in Replicas, NEW s \in Replicas, state[r] = "leading", s # r
        PROVE  seen'[s] <= lead'[r]
    <3>1. seen[s] <= lead[r] /\ lead'[r] = lead[r] + 1
      BY <2>1 DEF LeaseInv, Behind, Tick
    <3>2. seen'[s] <= seen[s] + 1 /\ seen[s] \in Int /\ lead[r] \in Int
      BY DEF Tick, LeaseInv, TypeOK
    <3>. QED  BY <3>1, <3>2, <1>1, <1>2
  <2>. QED  BY <2>1 DEF LeaseInv, Behind, Tick
<1>. QED  BY <1>3, <1>4 DEF LeaseInv

\* The invariant holds as long as the durations fit.
LEMMA Invariance == ASSUME DeadlineFits PROVE Spec => []LeaseInv
<1>1. LeaseInv /\ [Next]_vars => LeaseInv'
  <2>. SUFFICES ASSUME LeaseInv, [Next]_vars PROVE LeaseInv'
    OBVIOUS
  <2>1. CASE Next
    BY <2>1, ElectorInv, FateInv, TickInv DEF Next
  <2>2. CASE UNCHANGED vars
    BY <2>2 DEF vars, clocks, bounds, LeaseInv, TypeOK, Behind
  <2>. QED  BY <2>1, <2>2
<1>. QED  BY <1>1, InitInv, PTL DEF Spec

\* No two electors lead together, whatever replicas crash, are replaced or are cut
\* off from the API server, also when a write landed whose answer was lost.
THEOREM Leadership == ASSUME DeadlineFits PROVE Spec => []OneLeads
<1>1. LeaseInv => OneLeads
  BY DEF LeaseInv, Behind, OneLeads
<1>. QED  BY <1>1, Invariance, PTL

\* The model's variables keep their types, the clocks their limits.
THEOREM ElectionTypes == ASSUME DeadlineFits PROVE Spec => []TypeOK
<1>1. LeaseInv => TypeOK
  BY DEF LeaseInv
<1>. QED  BY <1>1, Invariance, PTL
=============================================================================
