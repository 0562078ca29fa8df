----------------------------- MODULE StateSync -----------------------------
(***************************************************************************)
(* What a tenant's pod keeps in S3: the containers CreateTenantPod puts in *)
(* it (internal/k8s/client.go:53-231), the sync script they share          *)
(* (scripts/s3-sync.sh) and the agent (scripts/openclaw-start.sh), through *)
(* one pod after another of the same name.                                 *)
(*                                                                         *)
(* A directory stands for a file in it that the agent rewrites: its        *)
(* content is the set of updates it bears the traces of.  `aws s3 sync'    *)
(* reads a file and puts it, two steps, without --delete.                  *)
(***************************************************************************)
EXTENDS Integers, FiniteSets

CONSTANTS Updates,    \* what the agent is told, one write of its files each
          MaxFaults   \* bound: failed restores and uploads, slow syncs, lost nodes

ASSUME BoundsAssumption == MaxFaults \in Nat

VARIABLES s3,       \* the objects under tenants/{id}/
          local,    \* the pod's emptyDir volumes
          phase,    \* what the pod does
          grace,    \* of its deletion: "long" is 120s, "short" 10s
          at, held, \* where each run of the script is, and what it has read
          taken,    \* updates the agent has taken
          late,     \* history: updates taken after the pod's deletion was asked for
          causes,   \* history: why S3 may lack any other
          faults    \* how much of MaxFaults has happened

syncs == <<at, held>>
history == <<late, causes>>
vars == <<s3, local, phase, grace, syncs, taken, history, faults>>

Dirs == {"state", "work"}
Syncs == {"loop", "prestop"}    \* the sidecar's own loop, and its PreStop hook
Labels == {"off", "state", "put_state", "work", "put_work", "sleep", "done"}
Causes == {"restore", "upload", "cut", "lost", "raced"}

\* Also: nothing runs in a pod that has gone, and the hook only in one that goes.
TypeOK == /\ s3 \in [Dirs -> SUBSET Updates] /\ local \in [Dirs -> SUBSET Updates]
          /\ phase \in {"none", "r_state", "r_work", "up", "ending"}
          /\ grace \in {"none", "long", "short"}
          /\ at \in [Syncs -> Labels] /\ held \in [Syncs -> SUBSET Updates]
          /\ at["prestop"] # "off" => phase = "ending"
          /\ at["loop"] # "off" => phase \in {"up", "ending"}
          /\ late \subseteq taken /\ taken \subseteq Updates /\ causes \subseteq Causes
          /\ faults \in 0..MaxFaults

Empty == [d \in Dirs |-> {}]

Init == /\ s3 = Empty /\ local = Empty
        /\ phase = "none" /\ grace = "none"
        /\ at = [p \in Syncs |-> "off"] /\ held = [p \in Syncs |-> {}]
        /\ taken = {} /\ late = {} /\ causes = {} /\ faults = 0

\* A fault is counted, and named as the cause of what it may lose.
Blame(cause) == /\ faults < MaxFaults /\ faults' = faults + 1
                /\ causes' = causes \cup {cause}
                /\ UNCHANGED late

-----------------------------------------------------------------------------
(***************************************************************************)
(* Start: the init container restores state, then workspace, and ends well *)
(* whatever became of that; agent and sidecar start together.              *)
(***************************************************************************)
CreatePod ==
    /\ phase = "none"
    /\ phase' = "r_state" /\ grace' = "none"
    /\ local' = Empty /\ late' = {}
    /\ UNCHANGED <<s3, syncs, taken, causes, faults>>

Restoring(d) == phase = [state |-> "r_state", work |-> "r_work"][d]

AfterRestore(d) ==
    /\ phase' = [state |-> "r_work", work |-> "up"][d]
    /\ at' = IF d = "work" THEN [at EXCEPT !["loop"] = "state"] ELSE at
    /\ UNCHANGED <<s3, grace, held, taken>>

\* Variant: the workspace is not restored.
RestoreStateOnly(d) ==
    /\ Restoring(d)
    /\ local' = IF d = "state" THEN [local EXCEPT ![d] = s3[d]] ELSE local
    /\ AfterRestore(d)
    /\ UNCHANGED <<history, faults>>

Restore(d) ==
    /\ Restoring(d)
    /\ local' = [local EXCEPT ![d] = s3[d]]
    /\ AfterRestore(d)
    /\ UNCHANGED <<history, faults>>

RestoreFails(d) ==
    /\ Restoring(d) /\ s3[d] # {}
    /\ AfterRestore(d) /\ Blame("restore")
    /\ UNCHANGED local

\* The agent takes updates as long as its container runs: /start.sh is process 1,
\* traps nothing and so outlives SIGTERM until the grace is over.
TakeUpdate(u) ==
    /\ phase \in {"up", "ending"} /\ u \notin taken
    /\ taken' = taken \cup {u}
    /\ late' = IF phase = "ending" THEN late \cup {u} ELSE late
    /\ \E ds \in SUBSET Dirs \ {{}} :
          local' = [d \in Dirs |-> IF d \in ds THEN local[d] \cup {u} ELSE local[d]]
    /\ UNCHANGED <<s3, phase, grace, syncs, causes, faults>>

-----------------------------------------------------------------------------
(***************************************************************************)
(* s3-sync.sh, in either run: state, then workspace.                       *)
(***************************************************************************)
Reading(p, d) == at[p] = d
Putting(p, d) == at[p] = [state |-> "put_state", work |-> "put_work"][d]
AfterPut(p, d) == /\ at' = [at EXCEPT ![p] = IF d = "state" THEN "work"
                                           ELSE IF p = "loop" THEN "sleep" ELSE "done"]
                  /\ held' = [held EXCEPT ![p] = {}]

\* The hook may read while an older upload of the loop is still under way.
ReadFile(p, d) ==
    /\ Reading(p, d)
    /\ at' = [at EXCEPT ![p] = [state |-> "put_state", work |-> "put_work"][d]]
    /\ held' = [held EXCEPT ![p] = local[d]]
    /\ causes' = IF p = "prestop" /\ Putting("loop", d) THEN causes \cup {"raced"} ELSE causes
    /\ UNCHANGED <<s3, local, phase, grace, taken, late, faults>>

\* Without --delete an empty volume uploads nothing.
PutFile(p, d) ==
    /\ Putting(p, d)
    /\ s3' = IF held[p] = {} THEN s3 ELSE [s3 EXCEPT ![d] = held[p]]
    /\ AfterPut(p, d)
    /\ UNCHANGED <<local, phase, grace, taken, history, faults>>

\* A failed upload is logged, and the script goes on.
PutFails(p, d) ==
    /\ Putting(p, d)
    /\ AfterPut(p, d)
    /\ Blame("upload")
    /\ UNCHANGED <<s3, local, phase, grace, taken>>

\* Variant: the sidecar syncs once, and sleeps.
NextRoundNever == FALSE /\ UNCHANGED vars

\* Sixty seconds later.  SIGTERM, which follows the hook, ends the sleep and the loop.
NextRound ==
    /\ at["loop"] = "sleep" /\ at["prestop"] # "done"
    /\ at' = [at EXCEPT !["loop"] = "state"]
    /\ UNCHANGED <<s3, local, phase, grace, held, taken, history, faults>>

LoopExits ==
    /\ at["loop"] = "sleep" /\ at["prestop"] = "done"
    /\ at' = [at EXCEPT !["loop"] = "off"]
    /\ UNCHANGED <<s3, local, phase, grace, held, taken, history, faults>>

-----------------------------------------------------------------------------
(***************************************************************************)
(* Deletion.  The idle loop and DELETE give 120 seconds, the orphan        *)
(* cleanup 10, also to a pod that is going already.                        *)
(***************************************************************************)
\* Variant: the sidecar has no PreStop hook.
DeletePodUnhooked(g) ==
    /\ phase = "up"
    /\ phase' = "ending" /\ grace' = g
    /\ at' = [at EXCEPT !["prestop"] = "done"]
    /\ UNCHANGED <<s3, local, held, taken, history, faults>>

DeletePod(g) ==
    /\ phase = "up"
    /\ phase' = "ending" /\ grace' = g
    /\ at' = [at EXCEPT !["prestop"] = "state"]
    /\ UNCHANGED <<s3, local, held, taken, history, faults>>

DeleteAgain ==
    /\ phase = "ending" /\ grace = "long" /\ grace' = "short"
    /\ UNCHANGED <<s3, local, phase, syncs, taken, history, faults>>

\* Variant: the sidecar outlives the pod.
EndLoopLives == phase' = "none" /\ at' = [at EXCEPT !["prestop"] = "off"] /\ UNCHANGED held

End == phase' = "none" /\ at' = [p \in Syncs |-> "off"] /\ held' = [p \in Syncs |-> {}]

\* Deleted before its agent had started.
DeleteEarly ==
    /\ phase \in {"r_state", "r_work"}
    /\ End
    /\ UNCHANGED <<s3, local, grace, taken, history, faults>>

\* The grace is over, and what still runs is killed.
GraceEnds ==
    /\ phase = "ending" /\ at["prestop"] = "done"
    /\ End
    /\ UNCHANGED <<s3, local, grace, taken, history, faults>>

\* Ten seconds may not do for the hook; a hundred and twenty only if S3 is slow.
GraceCutsHook ==
    /\ phase = "ending" /\ at["prestop"] # "done"
    /\ End
    /\ IF grace = "short" THEN causes' = causes \cup {"cut"} /\ UNCHANGED <<late, faults>>
                          ELSE Blame("cut")
    /\ UNCHANGED <<s3, local, grace, taken>>

NodeLost ==
    /\ phase # "none"
    /\ End /\ Blame("lost")
    /\ UNCHANGED <<s3, local, grace, taken>>

SyncStep(p) == \E d \in Dirs : ReadFile(p, d) \/ PutFile(p, d)

Next == \/ CreatePod \/ NextRound \/ LoopExits
        \/ \E d \in Dirs : Restore(d) \/ RestoreFails(d)
        \/ \E u \in Updates : TakeUpdate(u)
        \/ \E p \in Syncs : SyncStep(p) \/ \E d \in Dirs : PutFails(p, d)
        \/ \E g \in {"long", "short"} : DeletePod(g)
        \/ DeleteAgain \/ DeleteEarly \/ GraceEnds \/ GraceCutsHook \/ NodeLost

Spec == Init /\ [][Next]_vars

\* The containers of a pod run, its script's calls return, a deletion ends.
FairSpec == /\ Spec
            /\ WF_vars(NextRound) /\ WF_vars(LoopExits) /\ WF_vars(GraceEnds)
            /\ WF_vars(\E d \in Dirs : Restore(d))
            /\ \A p \in Syncs : WF_vars(SyncStep(p))

-----------------------------------------------------------------------------
(***************************************************************************)
(* Properties.                                                             *)
(***************************************************************************)
\* What the agent wrote before its pod's deletion was asked for is in S3 for the next
\* pod, unless a restore or an upload failed, the hook was cut, the node was lost, or
\* the hook ran into an upload of the sidecar's loop.  So README.md:58's "guarantees
\* final S3 state sync" is short of those, and of what the agent, which outlives
\* SIGTERM, takes on while and after the hook runs.
LossHasCause ==
    phase = "none" /\ causes = {} => \A d \in Dirs : local[d] \ late \subseteq s3[d]

\* What has reached S3 stays there, for this pod and for every later one, unless one of
\* the same causes took it: no upload, of a new pod or of the other run of the script,
\* puts an older file over a newer one, but for what came after the deletion was
\* asked for (s3-sync.sh:13-25, client.go:84-95).
S3NeverGoesBack == [][causes' = {} => \A d \in Dirs : s3[d] \ late \subseteq s3'[d]]_vars

\* While a pod stays up whatever its agent writes reaches S3, failed uploads
\* notwithstanding (docs/architecture.md:289, "every 60 s").
WritesReachS3 ==
    \A d \in Dirs, u \in Updates :
        phase = "up" /\ u \in local[d] ~> u \in s3[d] \/ phase # "up"
=============================================================================
