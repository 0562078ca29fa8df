------------------------------ MODULE Election ------------------------------
(***************************************************************************)
(* Which replica of the orchestrator runs the idle loop                    *)
(* (internal/lifecycle/lifecycle.go:45-94, cmd/orchestrator/main.go:132-134, *)
(* 187-191).  The lease is client-go's: its elector reads and writes the   *)
(* Lease "orchestrator-leader" through the API server, each write made     *)
(* only on what was read before, and judges a lease expired by its own     *)
(* clock, from the moment it noticed the last write.                       *)
(*                                                                         *)
(* What is the repository's own: the three durations, ReleaseOnCancel, one *)
(* identity per pod, and an elector that is started once and not again.    *)
(* Time is discrete, clocks run at one speed.                              *)
(***************************************************************************)
EXTENDS Integers, FiniteSets

CONSTANTS Replicas, NoOne,   \* names of pods; a replaced pod's successor has another
          Wanted,            \* replicas of the Deployment
          LeaseDuration,     \* lifecycle.go:60, 15s
          RenewDeadline,     \* lifecycle.go:61, 10s
          RetryPeriod,       \* lifecycle.go:62, 2s
          CallBudget,        \* how long a write may be under way after it landed
          MaxOutages,        \* bound: replicas that lose the API server
          MaxEnds            \* bound: crashes of a container and deletions of a pod

ASSUME ReplicasAssumption == NoOne \notin Replicas
ASSUME DurationsAssumption ==
    {Wanted, LeaseDuration, RenewDeadline, RetryPeriod, CallBudget, MaxOutages, MaxEnds} \subseteq Nat

VARIABLES lease,   \* holderIdentity of the Lease, NoOne when released or absent
          state,   \* what each pod's elector and idle loop do
          lead,    \* time since a leader's last renewal it knows of
          seen,    \* time since a replica noticed the last write, or Unseen
          cut,     \* replicas that do not reach the API server
          outages, ends

clocks == <<lead, seen>>
bounds == <<outages, ends>>
vars == <<lease, state, clocks, cut, bounds>>

\* "new": not yet created.  "leading": the elector renews and the loop runs.
\* "stopping": the elector has given up and releases the lease, the loop goes on
\* until it returns.  "leaving": SIGTERM has cancelled elector and loop together.
\* "stopped": RunOrDie has returned, the process serves on.
States == {"new", "candidate", "leading", "stopping", "leaving", "stopped", "gone"}
Running == {"candidate", "leading", "stopping", "leaving", "stopped"}
Unseen == -1
GiveUpAfter == RetryPeriod + RenewDeadline
LeadLimit == GiveUpAfter + CallBudget

TypeOK == /\ lease \in Replicas \cup {NoOne}
          /\ state \in [Replicas -> States]
          /\ lead \in [Replicas -> 0..LeadLimit]
          /\ seen \in [Replicas -> Unseen..LeaseDuration]
          /\ cut \subseteq Replicas
          /\ outages \in 0..MaxOutages /\ ends \in 0..MaxEnds

Init == /\ lease = NoOne
        /\ state \in [Replicas -> {"new", "candidate"}]
        /\ Cardinality({r \in Replicas : state[r] = "candidate"}) = Wanted
        /\ lead = [r \in Replicas |-> 0]
        /\ seen = [r \in Replicas |-> Unseen]
        /\ cut = {} /\ outages = 0 /\ ends = 0

Become(r, s) == state' = [state EXCEPT ![r] = s]

-----------------------------------------------------------------------------
(***************************************************************************)
(* The elector.                                                            *)
(***************************************************************************)
\* A candidate reads a record it has not seen.
Notice(r) ==
    /\ state[r] = "candidate" /\ r \notin cut
    /\ lease \notin {NoOne, r} /\ seen[r] = Unseen
    /\ seen' = [seen EXCEPT ![r] = 0]
    /\ UNCHANGED <<lease, state, lead, cut, bounds>>

\* Variant: a lease is taken once it has not been renewed for RenewDeadline.
ExpiredEarly(r) == lease \in {NoOne, r} \/ seen[r] >= RenewDeadline

\* Variant: a lease is free only once it has been released.
ReleasedOnly(r) == lease \in {NoOne, r}

\* The lease is free, the replica's own (its container was restarted, or it never
\* heard the answer), or has not changed for LeaseDuration of the replica's clock.
Expired(r) == lease \in {NoOne, r} \/ seen[r] >= LeaseDuration

\* A write of the lease: whatever others had noticed is no longer the last.
WriteLease(holder) ==
    /\ lease' = holder
    /\ seen' = [r \in Replicas |-> Unseen]

Acquire(r) ==
    /\ state[r] = "candidate" /\ r \notin cut /\ Expired(r)
    /\ WriteLease(r)
    /\ Become(r, "leading")
    /\ lead' = [lead EXCEPT ![r] = 0]
    /\ UNCHANGED <<cut, bounds>>

Renew(r) ==
    /\ state[r] = "leading" /\ r \notin cut /\ lease = r
    /\ WriteLease(r)
    /\ lead' = [lead EXCEPT ![r] = 0]
    /\ UNCHANGED <<state, cut, bounds>>

\* RenewDeadline passes without a renewal.
GiveUp(r) ==
    /\ state[r] = "leading" /\ lead[r] >= GiveUpAfter
    /\ Become(r, "stopping")
    /\ UNCHANGED <<lease, clocks, cut, bounds>>

\* ReleaseOnCancel: the elector that gives up, or is cancelled, frees the lease.
\* Nothing waits for the idle loop.
Release(r) ==
    /\ state[r] \in {"stopping", "leaving"} /\ r \notin cut /\ lease = r
    /\ WriteLease(NoOne)
    /\ UNCHANGED <<state, lead, cut, bounds>>

\* The release has been tried; the loop's context is cancelled, it returns, and so
\* does RunOrDie.  `go lc.Run(ctx)' is not repeated.
StopLoop(r) ==
    /\ state[r] = "stopping" /\ (lease = r => r \in cut)
    /\ Become(r, "stopped")
    /\ UNCHANGED <<lease, clocks, cut, bounds>>

-----------------------------------------------------------------------------
(***************************************************************************)
(* Containers, pods, the network, time.                                    *)
(***************************************************************************)
\* A container dies and is restarted in its pod, under the same name.
Crash(r) ==
    /\ state[r] \in Running \ {"leaving"} /\ ends < MaxEnds /\ ends' = ends + 1
    /\ Become(r, "candidate")
    /\ seen' = [seen EXCEPT ![r] = Unseen]
    /\ UNCHANGED <<lease, lead, cut, outages>>

\* SIGTERM cancels the process's context (main.go:55); a leader's loop may have a
\* call under way.
Terminate(r) ==
    /\ state[r] \in Running \ {"leaving"} /\ ends < MaxEnds /\ ends' = ends + 1
    /\ Become(r, IF state[r] \in {"leading", "stopping"} THEN "leaving" ELSE "gone")
    /\ UNCHANGED <<lease, clocks, cut, outages>>

\* main returns after Shutdown of the server; nothing waits for elector or loop.
Exit(r) ==
    /\ state[r] = "leaving"
    /\ Become(r, "gone")
    /\ UNCHANGED <<lease, clocks, cut, bounds>>

\* The Deployment replaces a pod that has gone.
Start(r) ==
    /\ state[r] = "new"
    /\ Cardinality({s \in Replicas : state[s] \in Running \ {"leaving"}}) < Wanted
    /\ Become(r, "candidate")
    /\ UNCHANGED <<lease, clocks, cut, bounds>>

\* A replica loses the API server, possibly after a write of its own landed.
CutOff(r) ==
    /\ state[r] \in Running /\ r \notin cut /\ outages < MaxOutages
    /\ outages' = outages + 1 /\ cut' = cut \cup {r}
    /\ \/ UNCHANGED <<lease, seen>>
       \/ /\ \/ state[r] = "leading" /\ lease = r
             \/ state[r] = "candidate" /\ Expired(r)
          /\ WriteLease(r)
    /\ UNCHANGED <<state, lead, ends>>

Heal(r) ==
    /\ r \in cut
    /\ cut' = cut \ {r}
    /\ UNCHANGED <<lease, state, clocks, bounds>>

\* Variant: RenewDeadline binds only a leader whose calls return.
MayElapseCut(r) ==
    state[r] = "leading" => r \in cut \/ lead[r] # RetryPeriod + CallBudget

\* A leader that reaches the API server renews when it is due; one that does not
\* gives up at its deadline.
MayElapse(r) ==
    state[r] = "leading" => /\ lead[r] < LeadLimit
                            /\ r \in cut \/ lead[r] # RetryPeriod + CallBudget

Tick ==
    /\ \A r \in Replicas : MayElapse(r)
    /\ lead' = [r \in Replicas |-> IF state[r] = "leading" THEN lead[r] + 1 ELSE lead[r]]
    /\ seen' = [r \in Replicas |-> IF seen[r] \in 0..LeaseDuration - 1 THEN seen[r] + 1
                                                                       ELSE seen[r]]
    /\ UNCHANGED <<lease, state, cut, bounds>>

Elector(r) == Notice(r) \/ Acquire(r) \/ GiveUp(r) \/ Release(r) \/ StopLoop(r) \/ Exit(r)
Fate(r) == Crash(r) \/ Terminate(r) \/ CutOff(r)

Next == \/ \E r \in Replicas : Elector(r) \/ Renew(r) \/ Fate(r) \/ Start(r) \/ Heal(r)
        \/ Tick

Spec == Init /\ [][Next]_vars

\* Electors and processes run, the Deployment replaces its pods, outages end and
\* time passes; nothing obliges a replica to fail.
FairSpec == /\ Spec
            /\ WF_vars(Tick)
            /\ \A r \in Replicas : /\ WF_vars(Elector(r)) /\ WF_vars(Renew(r))
                                   /\ WF_vars(Start(r)) /\ WF_vars(Heal(r))

\* The slack the durations leave (15s against 2s + 10s) holds an answer's delay.
DeadlineFits == LeadLimit < LeaseDuration

-----------------------------------------------------------------------------
(***************************************************************************)
(* Properties.                                                             *)
(***************************************************************************)
\* No two electors lead together, although a leader knows of its own renewals and
\* a candidate of what it read only, each by its own clock (lifecycle.go:45).
OneLeads == \A r, s \in Replicas : state[r] = "leading" /\ state[s] = "leading" => r = s

\* Some replica comes to run the idle loop again, after crashes, a pod's deletion
\* and outages (deploy/01-orchestrator.yaml:10, "HA: 2 replicas, leader election
\* handles idle timeout").  It holds while fewer replicas are cut off than there are.
LoopRunsAgain == []<>(\E r \in Replicas : state[r] = "leading")
=============================================================================
