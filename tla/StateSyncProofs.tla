-------------------------- MODULE StateSyncProofs --------------------------
(***************************************************************************)
(* What a pod's volumes held when its deletion was asked for is in S3, for *)
(* any updates, any number of pods, runs of the script and faults.         *)
(***************************************************************************)
EXTENDS StateSync, TLAPS

\* What the agent had written to d before the deletion was asked for.
Owed(d) == local[d] \ late

\* The hook has read d and is about to put it, or has put it.
HookPutting(d) == at["prestop"] = [state |-> "put_state", work |-> "put_work"][d]
HookPast(d) == at["prestop"] \in [state |-> {"work", "put_work", "done"}, work |-> {"done"}][d]
LoopPutting(d) == at["loop"] = [state |-> "put_state", work |-> "put_work"][d]

\* Before the agent starts, and after the pod has gone, the volumes hold what S3 does.
AtRest == phase \in {"none", "r_state", "r_work"} => \A d \in Dirs : Owed(d) \subseteq s3[d]

\* What the hook has read, and what it has put.
HookSaves == \A d \in Dirs : /\ HookPutting(d) => Owed(d) \subseteq held["prestop"]
                             /\ HookPast(d) => Owed(d) \subseteq s3[d]

\* An upload of the sidecar's loop that is under way once the hook has read a directory
\* takes nothing away: the loop read it after the deletion was asked for.
LoopSaves == \A d \in Dirs : LoopPutting(d) /\ (HookPutting(d) \/ HookPast(d))
                                => Owed(d) \subseteq held["loop"]

Saved == causes = {} => AtRest /\ HookSaves /\ LoopSaves

SyncInv == TypeOK /\ Saved

-----------------------------------------------------------------------------
\* A fault is counted within its bound, and named as one of the causes.
LEMMA BlameType ==
    ASSUME TypeOK, NEW cause \in Causes, Blame(cause)
    PROVE  causes' \subseteq Causes /\ faults' \in 0..MaxFaults /\ late' = late
BY BoundsAssumption DEF TypeOK, Blame

\* The causes the actions name.
LEMMA CauseNames == {"restore", "upload", "cut", "lost", "raced"} \subseteq Causes
BY DEF Causes

\* Every step keeps the types.
LEMMA SyncTypes ==
    ASSUME TypeOK, [Next]_vars
    PROVE  TypeOK'
<1>. USE DEF TypeOK, Dirs, Syncs, Labels
<1>1. CASE CreatePod
  BY <1>1 DEF CreatePod, Empty, syncs
<1>2. CASE NextRound \/ LoopExits
  BY <1>2 DEF NextRound, LoopExits, history
<1>3. ASSUME NEW d \in Dirs, Restore(d) \/ RestoreFails(d)
      PROVE  TypeOK'
  <2>1. phase' \in {"r_work", "up"} /\ (d = "work" => phase' = "up")
    BY <1>3 DEF Restore, RestoreFails, AfterRestore
  <2>2. /\ at' \in [Syncs -> Labels]
        /\ at'["prestop"] = at["prestop"]
        /\ at'["loop"] # "off" => at["loop"] # "off" \/ phase' = "up"
    BY <1>3, <2>1 DEF Restore, RestoreFails, AfterRestore
  <2>3. phase \in {"r_state", "r_work"}
    BY <1>3 DEF Restore, RestoreFails, Restoring
  <2>4. local' \in [Dirs -> SUBSET Updates]
    BY <1>3 DEF Restore, RestoreFails
  <2>5. causes' \subseteq Causes /\ faults' \in 0..MaxFaults /\ late' = late
    BY <1>3, BlameType, CauseNames DEF Restore, RestoreFails, history
  <2>. QED
    BY <1>3, <2>1, <2>2, <2>3, <2>4, <2>5 DEF Restore, RestoreFails, AfterRestore
<1>4. ASSUME NEW u \in Updates, TakeUpdate(u)
      PROVE  TypeOK'
  <2>1. local' \in [Dirs -> SUBSET Updates]
    BY <1>4 DEF TakeUpdate
  <2>. QED
    BY <1>4, <2>1 DEF TakeUpdate, syncs
<1>5. ASSUME NEW p \in Syncs, NEW d \in Dirs, ReadFile(p, d) \/ PutFile(p, d) \/ PutFails(p, d)
      PROVE  TypeOK'
  <2>1. /\ at' \in [Syncs -> Labels]
        /\ at[p] # "off" /\ \A x \in Syncs : x # p => at'[x] = at[x]
    BY <1>5 DEF ReadFile, Reading, PutFile, PutFails, Putting, AfterPut
  <2>2. held' \in [Syncs -> SUBSET Updates]
    BY <1>5 DEF ReadFile, PutFile, PutFails, AfterPut
  <2>3. s3' \in [Dirs -> SUBSET Updates]
    BY <1>5 DEF ReadFile, PutFile, PutFails
  <2>4. causes' \subseteq Causes /\ faults' \in 0..MaxFaults /\ late' = late
    BY <1>5, BlameType, CauseNames DEF ReadFile, PutFile, PutFails, history
  <2>. QED
    BY <1>5, <2>1, <2>2, <2>3, <2>4 DEF ReadFile, PutFile, PutFails
<1>6. ASSUME NEW g \in {"long", "short"}, DeletePod(g)
      PROVE  TypeOK'
  BY <1>6 DEF DeletePod, history
<1>7. CASE DeleteAgain
  BY <1>7 DEF DeleteAgain, syncs, history
<1>8. CASE DeleteEarly \/ GraceEnds \/ GraceCutsHook \/ NodeLost
  <2>1. phase' = "none" /\ at' \in [Syncs -> {"off"}] /\ held' \in [Syncs -> {{}}]
    BY <1>8 DEF DeleteEarly, GraceEnds, GraceCutsHook, NodeLost, End
  <2>2. causes' \subseteq Causes /\ faults' \in 0..MaxFaults /\ late' = late
    BY <1>8, BlameType, CauseNames DEF DeleteEarly, GraceEnds, GraceCutsHook, NodeLost, history
  <2>. QED
    BY <1>8, <2>1, <2>2 DEF DeleteEarly, GraceEnds, GraceCutsHook, NodeLost
<1>9. CASE UNCHANGED vars
  BY <1>9 DEF vars, syncs, history
<1>. QED
  BY <1>1, <1>2, <1>3, <1>4, <1>5, <1>6, <1>7, <1>8, <1>9 DEF Next, SyncStep

\* Causes are only ever added.
LEMMA CausesStay ==
    ASSUME TypeOK, [Next]_vars
    PROVE  causes \subseteq causes'
BY DEF Next, vars, history, CreatePod, NextRound, LoopExits, Restore, RestoreFails, TakeUpdate,
       SyncStep, ReadFile, PutFile, PutFails, DeletePod, DeleteAgain, DeleteEarly, GraceEnds,
       GraceCutsHook, NodeLost, Blame

-----------------------------------------------------------------------------
\* Nothing is lost by a step without a cause.
LEMMA SavedStep ==
    ASSUME TypeOK, TypeOK', Saved, [Next]_vars, causes' = {}
    PROVE  AtRest' /\ HookSaves' /\ LoopSaves'
<1>. USE DEF Dirs, Syncs
<1>0. causes = {} /\ AtRest /\ HookSaves /\ LoopSaves
  BY CausesStay DEF Saved
<1>1. CASE CreatePod
  <2>1. \A d \in Dirs : Owed(d)' = {}
    BY <1>1 DEF CreatePod, Empty, Owed
  <2>. QED
    BY <2>1 DEF AtRest, HookSaves, LoopSaves
<1>2. CASE NextRound \/ LoopExits
  BY <1>0, <1>2 DEF NextRound, LoopExits, history, TypeOK, Owed, AtRest, HookSaves, LoopSaves,
                    HookPutting, HookPast, LoopPutting
<1>3. ASSUME NEW d \in Dirs, Restore(d) \/ RestoreFails(d)
      PROVE  AtRest' /\ HookSaves' /\ LoopSaves'
  <2>1. Restore(d)
    BY <1>3 DEF RestoreFails, Blame
  <2>2. \A x \in Dirs : Owed(x)' \subseteq s3'[x]
    BY <1>0, <2>1 DEF Restore, Restoring, AfterRestore, history, TypeOK, AtRest, Owed
  <2>3. at'["prestop"] = "off"
    BY <2>1 DEF Restore, Restoring, AfterRestore, TypeOK
  <2>. QED
    BY <2>2, <2>3 DEF AtRest, HookSaves, LoopSaves, HookPutting, HookPast
<1>4. ASSUME NEW u \in Updates, TakeUpdate(u)
      PROVE  AtRest' /\ HookSaves' /\ LoopSaves'
  <2>1. UNCHANGED <<s3, phase, at, held>> /\ phase \in {"up", "ending"}
    BY <1>4 DEF TakeUpdate, syncs
  <2>2. CASE phase = "up"
    BY <2>1, <2>2 DEF TypeOK, AtRest, HookSaves, LoopSaves, HookPutting, HookPast
  <2>3. CASE phase = "ending"
    <3>1. \A d \in Dirs : Owed(d)' \subseteq Owed(d)
      BY <1>4, <2>3 DEF TakeUpdate, Owed
    <3>. QED
      BY <1>0, <2>1, <2>3, <3>1
         DEF AtRest, HookSaves, LoopSaves, HookPutting, HookPast, LoopPutting
  <2>. QED
    BY <2>1, <2>2, <2>3
<1>5. ASSUME NEW p \in Syncs, NEW d \in Dirs, ReadFile(p, d)
      PROVE  AtRest' /\ HookSaves' /\ LoopSaves'
  <2>. USE <1>5
  <2>1. UNCHANGED <<s3, local, late, phase>> /\ \A x \in Dirs : Owed(x)' = Owed(x)
    BY DEF ReadFile, Owed
  <2>2. at' = [at EXCEPT ![p] = [state |-> "put_state", work |-> "put_work"][d]] /\ at[p] = d
        /\ held' = [held EXCEPT ![p] = local[d]]
    BY DEF ReadFile, Reading
  <2>3. CASE p = "prestop"
    <3>1. ~Putting("loop", d)
      BY <2>3 DEF ReadFile
    <3>. QED
      BY <1>0, <2>1, <2>2, <2>3, <3>1
         DEF TypeOK, Owed, AtRest, HookSaves, LoopSaves, HookPutting, HookPast, LoopPutting, Putting
  <2>4. CASE p = "loop"
    BY <1>0, <2>1, <2>2, <2>4
       DEF TypeOK, Owed, AtRest, HookSaves, LoopSaves, HookPutting, HookPast, LoopPutting
  <2>. QED
    BY <2>3, <2>4
<1>6. ASSUME NEW p \in Syncs, NEW d \in Dirs, PutFile(p, d) \/ PutFails(p, d)
      PROVE  AtRest' /\ HookSaves' /\ LoopSaves'
  <2>1. PutFile(p, d)
    BY <1>6 DEF PutFails, Blame
  <2>2. UNCHANGED <<local, late, phase>> /\ \A x \in Dirs : Owed(x)' = Owed(x)
    BY <2>1 DEF PutFile, Owed, history
  <2>3. /\ s3' = IF held[p] = {} THEN s3 ELSE [s3 EXCEPT ![d] = held[p]]
        /\ held' = [held EXCEPT ![p] = {}]
        /\ at[p] = [state |-> "put_state", work |-> "put_work"][d]
        /\ at' = [at EXCEPT ![p] = IF d = "state" THEN "work"
                                   ELSE IF p = "loop" THEN "sleep" ELSE "done"]
    BY <2>1 DEF PutFile, Putting, AfterPut
  <2>4. phase \in {"up", "ending"}
    BY <2>3 DEF TypeOK
  <2>5. AtRest'
    BY <2>2, <2>4 DEF AtRest
  <2>6. CASE p = "prestop"
    BY <1>0, <2>2, <2>3, <2>5, <2>6
       DEF TypeOK, HookSaves, LoopSaves, HookPutting, HookPast, LoopPutting
  <2>7. CASE p = "loop"
    BY <1>0, <2>2, <2>3, <2>5, <2>7
       DEF TypeOK, HookSaves, LoopSaves, HookPutting, HookPast, LoopPutting
  <2>. QED
    BY <2>6, <2>7
<1>7. ASSUME NEW g \in {"long", "short"}, DeletePod(g)
      PROVE  AtRest' /\ HookSaves' /\ LoopSaves'
  BY <1>7 DEF DeletePod, TypeOK, AtRest, HookSaves, LoopSaves, HookPutting, HookPast
<1>8. CASE DeleteAgain
  BY <1>0, <1>8 DEF DeleteAgain, syncs, history, Owed, AtRest, HookSaves, LoopSaves,
                    HookPutting, HookPast, LoopPutting
<1>9. CASE DeleteEarly \/ GraceEnds \/ GraceCutsHook \/ NodeLost
  <2>1. DeleteEarly \/ GraceEnds
    BY <1>9 DEF GraceCutsHook, NodeLost, Blame
  <2>2. at'["prestop"] = "off" /\ UNCHANGED <<s3, local, late>>
    BY <2>1 DEF DeleteEarly, GraceEnds, End, history
  <2>3. \A d \in Dirs : Owed(d) \subseteq s3[d]
    BY <1>0, <2>1 DEF DeleteEarly, GraceEnds, AtRest, HookSaves, HookPast
  <2>. QED
    BY <2>2, <2>3 DEF Owed, AtRest, HookSaves, LoopSaves, HookPutting, HookPast
<1>10. CASE UNCHANGED vars
  BY <1>0, <1>10 DEF vars, syncs, history, Owed, AtRest, HookSaves, LoopSaves,
                     HookPutting, HookPast, LoopPutting
<1>. QED
  BY <1>1, <1>2, <1>3, <1>4, <1>5, <1>6, <1>7, <1>8, <1>9, <1>10 DEF Next, SyncStep

\* The invariant is inductive.
LEMMA SyncInvHolds == Spec => []SyncInv
<1>1. Init => SyncInv
  BY BoundsAssumption DEF Init, Empty, SyncInv, TypeOK, Saved, AtRest, HookSaves, LoopSaves,
     Owed, HookPutting, HookPast, Dirs, Syncs, Labels, Causes
<1>2. SyncInv /\ [Next]_vars => SyncInv'
  <2>. SUFFICES ASSUME SyncInv, [Next]_vars
                PROVE  SyncInv'
    OBVIOUS
  <2>1. TypeOK /\ TypeOK' /\ Saved
    BY SyncTypes DEF SyncInv
  <2>. QED
    BY <2>1, SavedStep DEF SyncInv, Saved
<1>. QED
  BY <1>1, <1>2, PTL DEF Spec

\* The variables keep their types; nothing runs in a pod that has gone, and the hook
\* only in one that goes (client.go:150-170).
THEOREM SyncTypesHold == Spec => []TypeOK
<1>1. SyncInv => TypeOK
  BY DEF SyncInv
<1>. QED
  BY <1>1, SyncInvHolds, PTL

\* What the agent wrote before the deletion is in S3 unless a named cause took it,
\* through any number of pods, updates and faults (s3-sync.sh:13-25, client.go:164).
THEOREM NothingLost == Spec => []LossHasCause
<1>1. SyncInv => LossHasCause
  BY DEF SyncInv, Saved, AtRest, Owed, LossHasCause
<1>. QED
  BY <1>1, SyncInvHolds, PTL

-----------------------------------------------------------------------------
(***************************************************************************)
(* S3 never goes back.  What S3 has, but for what came too late, is in the *)
(* volumes once they are restored, and in whatever a run of the script     *)
(* holds to put; and it holds nothing that is not in the volumes.          *)
(***************************************************************************)
\* What S3 has of d that nobody may take away again.
Kept(d) == s3[d] \ late
PutLabel == [state |-> "put_state", work |-> "put_work"]

Restored(d) == phase \in {"up", "ending"} \/ (phase = "r_work" /\ d = "state")
RestoredAll == \A d \in Dirs : Restored(d) => Kept(d) \subseteq local[d]
HeldEnough == \A p \in Syncs, d \in Dirs :
                 at[p] = PutLabel[d] => Kept(d) \subseteq held[p] /\ held[p] \subseteq local[d]

Forward == causes = {} => RestoredAll /\ HeldEnough

\* Steps that leave S3, the volumes and the runs of the script alone.
LEMMA KeptAlone ==
    ASSUME RestoredAll, HeldEnough, UNCHANGED <<s3, local, late, held>>,
           \A d \in Dirs : Restored(d)' => Restored(d),
           \A p \in Syncs, d \in Dirs : at'[p] = PutLabel[d] => at[p] = PutLabel[d]
    PROVE  RestoredAll' /\ HeldEnough'
BY DEF RestoredAll, HeldEnough, Kept

\* A file is put that holds what S3 had, and the other run holds what is put, but for
\* what came too late.
LEMMA PutKeeps ==
    ASSUME TypeOK, HookSaves, LoopSaves, RestoredAll, HeldEnough,
           NEW p \in Syncs, NEW d \in Dirs, PutFile(p, d)
    PROVE  /\ \A x \in Dirs : Kept(x) \subseteq s3'[x]
           /\ RestoredAll' /\ HeldEnough'
<1>. USE DEF Dirs, Syncs
<1>1. UNCHANGED <<local, late, phase>>
  BY DEF PutFile, history
<1>2. /\ s3' = IF held[p] = {} THEN s3 ELSE [s3 EXCEPT ![d] = held[p]]
      /\ held' = [held EXCEPT ![p] = {}]
      /\ at[p] = PutLabel[d]
      /\ at' = [at EXCEPT ![p] = IF d = "state" THEN "work"
                                 ELSE IF p = "loop" THEN "sleep" ELSE "done"]
  BY DEF PutFile, Putting, AfterPut, PutLabel
<1>3. phase \in {"up", "ending"}
  BY <1>2 DEF TypeOK, PutLabel
<1>4. Kept(d) \subseteq held[p] /\ held[p] \subseteq local[d]
  BY <1>2 DEF HeldEnough
<1>5. \A x \in Dirs : Kept(x) \subseteq s3'[x]
  BY <1>2, <1>4 DEF TypeOK, Kept
<1>6. RestoredAll'
  BY <1>1, <1>2, <1>3, <1>4 DEF TypeOK, RestoredAll, Restored, Kept
<1>7. HeldEnough'
  <2>. SUFFICES ASSUME NEW q \in Syncs, NEW x \in Dirs, at'[q] = PutLabel[x]
                PROVE  Kept(x)' \subseteq held'[q] /\ held'[q] \subseteq local'[x]
    BY DEF HeldEnough
  <2>1. q # p
    BY <1>2 DEF TypeOK, PutLabel
  <2>2. at[q] = PutLabel[x] /\ held'[q] = held[q]
    BY <1>2, <2>1 DEF TypeOK
  <2>3. Kept(x) \subseteq held[q] /\ held[q] \subseteq local[x]
    BY <2>2 DEF HeldEnough
  <2>4. CASE x # d \/ held[p] = {}
    BY <1>1, <1>2, <2>2, <2>3, <2>4 DEF Kept, TypeOK
  <2>5. CASE x = d /\ held[p] # {}
    <3>1. Owed(d) \subseteq held[q]
      BY <1>2, <2>1, <2>2, <2>5
         DEF HookSaves, LoopSaves, HookPutting, LoopPutting, HookPast, PutLabel
    <3>2. Kept(d)' \subseteq Owed(d)
      BY <1>1, <1>2, <1>4, <2>5 DEF Kept, Owed, TypeOK
    <3>. QED
      BY <1>1, <2>2, <2>3, <2>5, <3>1, <3>2
  <2>. QED
    BY <2>4, <2>5
<1>. QED
  BY <1>5, <1>6, <1>7

\* Without a cause no step takes anything away from S3, and none makes ready to.
LEMMA ForwardStep ==
    ASSUME TypeOK, TypeOK', Saved, Forward, [Next]_vars, causes' = {}
    PROVE  /\ \A d \in Dirs : Kept(d) \subseteq s3'[d]
           /\ RestoredAll' /\ HeldEnough'
<1>. USE DEF Dirs, Syncs
<1>0. /\ AtRest /\ HookSaves /\ LoopSaves /\ RestoredAll /\ HeldEnough
  BY CausesStay DEF Saved, Forward
<1>1. CASE CreatePod
  <2>1. at' = at /\ s3' = s3 /\ phase = "none" /\ phase' = "r_state"
    BY <1>1 DEF CreatePod, syncs
  <2>2. \A p \in Syncs : at[p] = "off"
    BY <2>1 DEF TypeOK
  <2>. QED
    BY <2>1, <2>2 DEF Kept, RestoredAll, Restored, HeldEnough, PutLabel
<1>2. CASE NextRound \/ LoopExits
  <2>1. UNCHANGED <<s3, local, late, held, phase>>
    BY <1>2 DEF NextRound, LoopExits, history
  <2>2. \A p \in Syncs, d \in Dirs : at'[p] = PutLabel[d] => at[p] = PutLabel[d]
    BY <1>2 DEF NextRound, LoopExits, TypeOK, PutLabel
  <2>. QED
    BY <1>0, <2>1, <2>2, KeptAlone DEF Kept, Restored
<1>3. ASSUME NEW d \in Dirs, Restore(d) \/ RestoreFails(d)
      PROVE  /\ \A x \in Dirs : Kept(x) \subseteq s3'[x]
             /\ RestoredAll' /\ HeldEnough'
  <2>1. Restore(d)
    BY <1>3 DEF RestoreFails, Blame
  <2>2. UNCHANGED <<s3, late, held>> /\ local' = [local EXCEPT ![d] = s3[d]]
    BY <2>1 DEF Restore, AfterRestore, history
  <2>3. \A p \in Syncs : at[p] = "off"
    BY <2>1 DEF Restore, Restoring, TypeOK
  <2>4. \A p \in Syncs : at'[p] \in {"off", "state"}
    BY <2>1, <2>3 DEF Restore, AfterRestore, TypeOK
  <2>5. HeldEnough'
    BY <2>4 DEF HeldEnough, PutLabel
  <2>6. RestoredAll'
    BY <1>0, <2>1, <2>2 DEF Restore, Restoring, AfterRestore, TypeOK, RestoredAll, Restored, Kept
  <2>. QED
    BY <2>2, <2>5, <2>6 DEF Kept
<1>4. ASSUME NEW u \in Updates, TakeUpdate(u)
      PROVE  /\ \A x \in Dirs : Kept(x) \subseteq s3'[x]
             /\ RestoredAll' /\ HeldEnough'
  <2>1. /\ UNCHANGED <<s3, phase, at, held>> /\ late \subseteq late'
        /\ \A d \in Dirs : local[d] \subseteq local'[d]
    BY <1>4 DEF TakeUpdate, syncs
  <2>2. \A d \in Dirs : Kept(d)' \subseteq Kept(d)
    BY <2>1 DEF Kept
  <2>3. HeldEnough'
    BY <1>0, <2>1, <2>2 DEF HeldEnough
  <2>4. RestoredAll'
    BY <1>0, <2>1, <2>2 DEF RestoredAll, Restored
  <2>. QED
    BY <2>1, <2>3, <2>4 DEF Kept
<1>5. ASSUME NEW p \in Syncs, NEW d \in Dirs, ReadFile(p, d)
      PROVE  /\ \A x \in Dirs : Kept(x) \subseteq s3'[x]
             /\ RestoredAll' /\ HeldEnough'
  <2>1. /\ UNCHANGED <<s3, local, late, phase>> /\ at[p] = d
        /\ at' = [at EXCEPT ![p] = PutLabel[d]] /\ held' = [held EXCEPT ![p] = local[d]]
    BY <1>5 DEF ReadFile, Reading, PutLabel
  <2>2. Kept(d) \subseteq local[d]
    <3>1. at[p] # "off"
      BY <2>1
    <3>2. phase \in {"up", "ending"}
      BY <3>1 DEF TypeOK
    <3>. QED
      BY <1>0, <3>2 DEF RestoredAll, Restored
  <2>3. HeldEnough'
    BY <1>0, <2>1, <2>2 DEF HeldEnough, Kept, PutLabel, TypeOK
  <2>. QED
    BY <1>0, <2>1, <2>3 DEF Kept, RestoredAll, Restored
<1>6. ASSUME NEW p \in Syncs, NEW d \in Dirs, PutFile(p, d) \/ PutFails(p, d)
      PROVE  /\ \A x \in Dirs : Kept(x) \subseteq s3'[x]
             /\ RestoredAll' /\ HeldEnough'
  BY <1>0, <1>6, PutKeeps DEF PutFails, Blame
<1>7. CASE DeleteAgain \/ \E g \in {"long", "short"} : DeletePod(g)
  <2>1. /\ UNCHANGED <<s3, local, late, held>> /\ phase \in {"up", "ending"}
        /\ \A p \in Syncs, d \in Dirs : at'[p] = PutLabel[d] => at[p] = PutLabel[d]
    BY <1>7 DEF DeleteAgain, DeletePod, syncs, history, TypeOK, PutLabel
  <2>. QED
    BY <1>0, <2>1, KeptAlone DEF Kept, Restored
<1>8. CASE DeleteEarly \/ GraceEnds \/ GraceCutsHook \/ NodeLost
  <2>1. /\ UNCHANGED <<s3, late>> /\ phase' = "none" /\ \A p \in Syncs : at'[p] = "off"
    BY <1>8 DEF DeleteEarly, GraceEnds, GraceCutsHook, NodeLost, End, history, Blame
  <2>. QED
    BY <2>1 DEF Kept, RestoredAll, Restored, HeldEnough, PutLabel
<1>9. CASE UNCHANGED vars
  BY <1>0, <1>9, KeptAlone DEF vars, syncs, history, Kept, Restored
<1>. QED
  BY <1>1, <1>2, <1>3, <1>4, <1>5, <1>6, <1>7, <1>8, <1>9 DEF Next, SyncStep

\* Whatever has reached S3 stays there for every later pod, unless a named cause takes
\* it: neither a new pod nor the other run of the script puts an older file over it
\* (s3-sync.sh:13-25, client.go:84-95).
THEOREM S3Keeps == Spec => S3NeverGoesBack
<1>1. Init => Forward
  BY DEF Init, Empty, Forward, RestoredAll, Restored, HeldEnough, Kept, PutLabel, Dirs, Syncs
<1>2. SyncInv /\ SyncInv' /\ Forward /\ [Next]_vars => Forward'
  BY ForwardStep DEF SyncInv, Forward
<1>3. SyncInv /\ SyncInv' /\ Forward /\ [Next]_vars
        => [causes' = {} => \A d \in Dirs : s3[d] \ late \subseteq s3'[d]]_vars
  BY ForwardStep DEF SyncInv, Kept
<1>4. Spec => []Forward
  BY <1>1, <1>2, SyncInvHolds, PTL DEF Spec
<1>. QED
  BY <1>3, <1>4, SyncInvHolds, PTL DEF Spec, S3NeverGoesBack
=============================================================================
