# Verification of the multi-tenant orchestrator

TLA+ models, TLC runs and TLAPS proofs for OpenClaw on EKS: the orchestrator
(`cmd/orchestrator`, `internal/`) that creates, wakes, stops and repairs one pod
per tenant, the router (`cmd/router`) that turns Telegram updates into wakes and
deliveries, the start and the sync of a tenant's pod (`internal/k8s/client.go`,
`scripts/`), and what Telegram is told of the tenants' bots. The modules are
translated from the code. File names below without a path are those of
`internal/*/`.

## 1. Inventory

| Part | Code | State it keeps | Operations | Made correct by |
|---|---|---|---|---|
| Wake lock | `lock.go` | Redis key `tenant:waking:{id}`, value "1", TTL 240 s | `AcquireWakeLock` (SETNX), `ReleaseWakeLock` (unconditional DEL) | one slow path at a time; the DEL hits the caller's own key; the key never stays |
| Registry | `registry.go` | one DynamoDB item per tenant: status, `pod_name`, `pod_ip`, `last_active_at`, timeout, tokens | conditional put; unconditional updates, but for PATCH; eventually consistent reads and queries by status | status and address agree |
| Kubernetes client | `client.go` | pods named after tenants, the warm Deployment | create (AlreadyExists is success), wait, delete, list, claim a warm pod | a warm pod is claimed once |
| Wake flow | `handler.go` `WakeOrGet`, `pollUntilRunning` | its own reads | record → fast path → lock → mark → create → wait → publish → unlock | lock given back on every path |
| Tenant API | `handler.go` | none | POST, PATCH, DELETE, activity report, GET | DELETE leaves nothing for ever |
| Reconciler | `reconciler.go` | informer queue, ticker, what a pass has listed | handlers per pod event; full passes: running, provisioning, orphans | record, pod and cache converge |
| Lifecycle | `lifecycle.go` | the lease `orchestrator-leader` | election; idle loop: query, delete pod, write idle | one leader; a leader again after failures; a quiet tenant is stopped |
| Warm pool | `warmpool.go` | target in Redis and one copy per replica, Deployment | `New`, `Target`, `SetTarget`, `Run`; PUT /config | Deployment follows Redis |
| Router | `cmd/router/main.go` | `router:endpoint:{id}` in Redis (TTL 5 min), a goroutine per update | cache, wake, gateway wait, post, attempts | an update is delivered once, or dropped for a cause |
| Telegram client | `telegram/webhook.go` | each bot's webhook, at Telegram | setWebhook, deleteWebhook, by POST, PATCH, DELETE and by each agent that starts | the tenant's bot has its webhook; no other bot leads to the tenant |
| Tenant pod | `client.go:53-231`, `scripts/s3-sync.sh`, `scripts/openclaw-start.sh` | emptyDir volumes, objects in S3 | restore, sync loop, PreStop hook, agent | what the agent wrote is there for the next pod |
| Process | `cmd/orchestrator/main.go` | – | starts the loops in each replica | a crash loses nothing for ever |
| Not modelled | `internal/cli`, `cmd/otm`, `registry/mock.go`, `deploy/` | | see section 8 | |

The router calls `POST /wake`, `GET /tenants/{id}` and the activity report of
the orchestrator, over HTTP. Everything else meets in shared stores: DynamoDB,
the Kubernetes API, Redis, S3, Telegram. Nothing is transactional over two
stores, two replicas of each process run, and every goroutine acts on what it
read some calls ago, which may have been old then already. That, and that locks,
leases and caches expire, is what is hard here; section "hazards" of
`PROJECT.json` lists the places.

## 2. Modules

| Module | Models | Extends |
|---|---|---|
| `WakeMutex` | what the wake lock promises: an abstract lock with a key that outlives a lost holder, and pollers that remember whom they lost to | – |
| `WakeLock` | the lock as written: TTL, unconditional DEL, `PodReadyWait`, the pollers' deadline, clocks | instance of `WakeMutex` |
| `Tenant` | one tenant's item, pod, cache entry; registry and pod operations; threads; the world (kubelet, nodes, expiry, time) | `WakeMutex` |
| `WakeFlow` | `WakeOrGet`, and the router's use of its answer | `Tenant` |
| `Reconciler` | event loops and full passes | `WakeFlow` (auto-restart calls it) |
| `Lifecycle` | the idle loop | `Tenant` |
| `TenantAPI` | POST, PATCH, DELETE, activity | `Tenant` |
| `Orchestrator` | all of them interleaved, crashes, fairness, properties | the three above |
| `Claims` | what a comment says and the code does not keep | `Orchestrator` |
| `Election` | which replica runs the idle loop: lease, deadlines, outages, restarts | – |
| `WarmPool` | target, Deployment, claims | – |
| `Delivery` | what the router promises of an update | – |
| `Router` | delivery of updates | instance of `Delivery` |
| `StateSync` | what successive pods of a tenant keep in S3 | – |
| `Webhooks` | which bots lead to a tenant | – |
| `...Proofs` (7) | theorems about `WakeLock`, `Orchestrator`, `Election`, `WarmPool`, `Router`, `StateSync`, `Webhooks` | their module |
| `OrchestratorLockProofs` | theorems about how the control plane uses the lock, and what its upserts make | `OrchestratorProofs` |
| `MC...` (4) | instances for TLC | |

**Correspondence: the control plane.** It is modelled for one tenant: every store
is keyed by tenant and every decision reads that tenant's entries; only the warm
pool is shared, and it has its own module. Every remote call is one atomic step,
and a thread's program counter names the call it makes next (`pc[t] = "mark"`:
about to write `provisioning`, `handler.go:377-399`). What a thread read and
will use again is in `seen` (record), `view` (the pod list of a pass) and `addr`.
A thread's local branching belongs to the step before it.

`status` is "none" when there is no item and "blank" when an activity report or a
status update created one. `pod_name` is empty exactly when `pod_ip` is, so `ip`
stands for both. `placed` says that the item has a namespace, which only its creation
writes, and on which a deletion of the pod by the idle loop or by DELETE depends
(`Deletable`). No read of the registry is strongly consistent: it returns
`rec` or `past`, the item before the last write (`Readable`). A write reaches all
readers at once or, `MaxLags` times, only when `PastFades`.

| Action | Code |
|---|---|
| `ReadRecord`, `FastPath`, `TakeLock`/`LoseLock`, `MarkProvisioning`, `CreatePod`, `WaitReady`/`WaitTimesOut`, `Publish`, `ReturnHoldingLock` | `handler.go:344-461`, in order |
| `PollAnswers`, `PollTimesOut` | `handler.go:465-482` |
| `RouterCaches`, `RouterTouches` | `cmd/router/main.go:225-231, 354` |
| `HandleEvent`, `GetPodState` | `reconciler.go:117-206, 293-304` |
| `ListTenantPods`, `SyncRunning`, `SyncProvisioning`, `ListRunningForOrphans`, `ListProvisioningForOrphans`, `DeleteOrphan` | `reconciler.go:311-489` |
| `WriteRunning`, `WriteCache`, `ClearCacheAndWake`, `WriteIdle`, `ClearCache` | the corrections in `reconciler.go:209-286, 329-435` |
| `ListIdle`, `StopPod`, `MarkIdle` | `lifecycle.go:96-120` |
| `CreateTenant`, `UpdateTenant`, `ReportActivity`, `StartDelete`, `DeleteTenantPod`, `DeleteRecord`, `DeleteCache` | `handler.go:90-319` |
| `...CallFails`, `ReadFails`, `ReleaseFails`, `WakeCancelled`, `Crash` | the error returns of those calls; `cmd/orchestrator/main.go` |

The wake lock appears in the control plane as `WakeMutex`, which `WakeLock` is
proved to implement; that is why `TakeLock` needs no clock and why
`PollTimesOut` may demand that the slow path it lost to has ended
(`PollOutlives`). That the control plane in turn asks nothing of the lock that
`WakeMutex` does not allow is `ObeysMutex`, checked and proved. Both facts about
the timed lock rest on one condition, `CallsFitSlack`: the remote calls
of a wake other than `WaitPodReady` take less than `WakeLockTTL - PodReadyWait`
(30 s by default). Without it neither holds (section 7).

**Correspondence: the other modules.**

- `Election`: the elector is client-go's (external), with the identity, the three
  durations, `ReleaseOnCancel` and the callbacks of `lifecycle.go:45-94`, started
  once by `cmd/orchestrator/main.go:132-134`. `state` follows each pod from its
  creation to its end, `lead` is a leader's clock since its last renewal, `seen` a
  candidate's since the write it noticed. `CutOff` may lose an answer after the
  write has landed. `StopLoop` is the return of `RunOrDie`; no action leads back
  from "stopped" but a restart of the container.
- `StateSync`: the init container (`Restore`, `client.go:72-115`), the sidecar's
  loop and its PreStop hook, which run the same script (`ReadFile`, `PutFile`,
  `scripts/s3-sync.sh`), and the agent (`TakeUpdate`). A directory is the set of
  updates its files bear the traces of; a copy to S3 is a read and a write.
  `history` variables name what may have lost something.
- `Webhooks`: the part of POST, PATCH and DELETE that concerns bot tokens
  (`handler.go:110-145, 228-319`), `telegram/webhook.go`, and the agent, which
  registers the same bot with a secret when it starts
  (`scripts/openclaw-start.sh:26-43`). The wake that has the lock is there for
  what it does to the item and for the pod it gives an old token; a deleted pod
  is gone at once.
- `Router`: one goroutine per update (`cmd/router/main.go:183-275`), on a world of
  addresses where somebody, nobody or a stranger answers. The orchestrator appears
  by the guards that the router's fate depends on, each handler one step: the fast
  path, which looks for a pod of the name and answers the record's address
  (`FastPath`, `handler.go:348-361`), the slow path, which creates a pod or adopts the
  one that has the name (`CreatePod`, `AdoptPod`) or waits in vain for a failed one
  (`WakeFails`), and the corrections of reconciler and idle loop. `pod` is the object
  of the tenant's name and `record` the address that the orchestrator believes in;
  `Init` lets record, pod and cache differ in every way. `Unsigned` are the updates
  that the pod refuses with 401 because a PATCH dropped the secret. `misled` is a
  history variable: whose wake took a failed or moved pod for its own. Every SET and
  DEL of the cache may fail (`Stores`).
- `WarmPool`: `warmpool.go`, PUT /config, the Deployment's controller (external) and
  the claims of `handler.go:432-445` through `client.go:361-390`.

## 3. Runs

| Run | What is in it | What it shows |
|---|---|---|
| `WakeLock` | 3 callers; TTL 5, wait 3, budget 1 (a tick is about 50 s) | exclusion, ownership of the key, pollers outlive the slow path, refinement of `WakeMutex`, the key is never stuck, every call returns |
| `Orchestrator_drain` | a wake, a pass loop, a DELETE, the idle loops of two replicas, one POST, PATCH, DELETE or activity report; one fault, one failing pod, one write that readers miss at first | types; the lock is held exactly in the slow path; status running and an address go together; an item without attributes has a cause; a tenant left alone gives everything back |
| `Orchestrator_stall` | a wake, an informer loop, a pass loop, the idle loop; a lost pod and a stall | the same liveness when the world moves between two calls of a thread |
| `Orchestrator_repair` | a wake, an informer loop, a pass loop on the other replica, no idle loop; a lost pod, a fault or crash, a stall | the control plane keeps to `WakeMutex`; pods and provisioning start under the lock; pollers wait for a slow path that runs; a stray key has a cause; record, pod and cache agree in the end |
| `WarmPool_claims` | 3 claims, 3 pods, a fault and a lost pod | no pod is claimed twice; only a fault leaves a claimed pod behind |
| `WarmPool_target` | 2 managers, a PUT of 0, 2 or a value that int32 makes negative, a fault and a lost pod | the Deployment never gets a count nobody asked for; it and its pods settle on the value in Redis, unless that is negative |
| `Router` | 2 updates, one without the secret, 4 addresses, any answers lost, 1 other mishap; record, pod and cache initially right, stale, failed or missing | duplicates and drops have a cause; an update is taken at most five times; every update ends; refinement of `Delivery` |
| `Election` | 3 pod names for 2 replicas; lease 6, deadline 3, retry 1, late answers 1; one outage, one crash or pod deletion | no two electors lead together; some replica leads again |
| `StateSync` | 2 updates, any number of pods, one fault | what may be lost has a cause; S3 never goes back without one; a running pod's writes reach S3 |
| `Webhooks` | 2 bots, 2 goroutines for at most 3 requests, one fault, any number of wakes and pods | stray and missing webhooks have a cause; pod, item and webhook agree in the end |
| `Claims_orphan`, `Election_outages` | violated on purpose | section 7 |

**Bounds and why they are enough.**

- A fault is one failed remote call, a cancelled request, or a crash of a replica;
  one of them at every point of every interleaving covers each error path, and two
  replicas cover each pair.
- Six addresses are enough that the world never reuses one anybody refers to
  (`InUse`): address reuse is the router's matter and modelled there.
- `MaxEvents` bounds an informer's queue; handlers read afresh, so further events
  would repeat the last. `MaxLags = 1`: two writes that readers miss at once would
  only show an older `past`, and every pair of a write and the read that misses it
  already occurs.
- Ages stop at `StuckAfter`, the largest age the code compares with; a tick of the
  clock is five minutes, which makes a tenant idle after one and stuck after two
  (10 minutes, `reconciler.go:270`). The number of ticks is not bounded.
- "slow" counts how often the world moves between two calls of one thread: calls
  take milliseconds and pods seconds, so this is a stall. It is bounded because an
  unlimited adversary that ages a pod between the two reads of every pass keeps
  each pass on stale data for ever.
- `Router` bounds all its mishaps but lost answers by one counter; with one, every
  single cause meets every interleaving of two updates. Every answer may be lost: a
  goroutine posts so seldom that this needs no bound. Four addresses are the ones
  that record, pod and cache may start from and one for a new pod. `MCInit`
  picks one of the initial states that differ by a renaming of
  addresses or by how far the pod has got; TLC cannot use symmetry with liveness.
- `Orchestrator_repair` has three callers of `WakeOrGet`, the wake and the restarts
  of two loops: a holder, a poller behind it and one that comes after. The crash
  takes the wake and the informer loop, while the other replica goes on.
- `Election`: `RetryPeriod + RenewDeadline + CallBudget` is one tick less than the
  lease, the tightest case of `DeadlineFits` (2 s + 10 s of 15 s in the code). One
  outage (`MaxOutages`) with one crash or deletion (`MaxEnds`) meets a leader and a
  candidate in every state; three names are two replicas and one successor.
- `StateSync`: a restore, an upload, a cut hook and a lost node spend one
  `MaxFaults`; two updates tell a newer upload from an older one. Pods and sync
  runs are not bounded.
- `Webhooks`: three requests are the longest case that matters, an item made,
  changed and deleted while the requests' calls to Telegram are outstanding; two
  goroutines serve them.

**Fairness.** Every goroutine with a step to take takes it (WF on each thread:
calls return or fail, and both reconciler loops and the idle loop run for ever;
handlers of requests end). Redis keys expire and writes reach every reader in the
end (WF of `CacheExpires`, `KeyLapses`, `PastFades`). Pods start, deleted pods go,
the orphan grace passes and the clock ticks under SF: they proceed while threads
run, but the model lets them happen for free only when threads pause between two
calls, which happens again and again. Requests, faults, losses and failures are
never obliged. `WakeLock` needs WF of the clock and of each call; `WarmPool` WF of
managers, requests and of the Deployment controller; `Router` WF of updates and
of the start of the pod, of which there is one at a time; that the reconciler repairs
a record is not assumed. `Election` assumes WF of
each elector, of renewals, of the Deployment, of the clock, and that outages end.
`StateSync` assumes WF of the script's runs and restores and that a deletion ends;
nothing obliges a pod to be created or deleted. `Webhooks` assumes WF of each
handler and of the wake that has the lock, that agents start, and that the idle
loop or the orphan cleanup stops each pod in the end whose item, if any, has a
namespace (`Stoppable`), which is what `QuietTenantDrains` says.

## 4. Properties

Control plane:

- `HeldInSlowPath`: the lock is held exactly while a thread is between `mark` and
  its return, through a dozen error returns, cancellation and crashes.
- `RunningHasAddress`: six writers keep `running <=> address`; the fast path, the
  pollers and DELETE each read one as evidence of the other.
- `QuietTenantDrains` (`<>[]`): no leaked pod, no running or provisioning record,
  no cached address, no lock, after DELETE, crashes, losses and stale reads. It has
  two exceptions by name. `StuckOnFailure`: a pod that failed before it was
  published keeps its tenant provisioning for ever (`reconciler.go:265-286`).
  `StuckUnplaced`: an item that an upsert made has no namespace, so the idle loop's
  deletion is refused and its pod runs for ever (`lifecycle.go:112`). Without either
  exception the drain run is violated; a third would be a violation.
- `RepairedInTheEnd` (`<>[]`): record, pod and cache agree although events were
  lost, passes worked on stale lists and a writer died half-way.
- `ObeysMutex`: every step of the control plane is a step of the abstract lock or
  leaves it alone; `WaitersBehindHolder` is what that lock promises, and
  `PollersWaitForHolder` what becomes of it here: whoever waits for a winner waits
  for a call that is in the slow path now, under the key.
- `StrayKeyHasCause`: a key nobody holds, which blocks every wake for minutes, is the
  trace of a crash, a cancelled request or a failed DEL.
- `WakesUnderLock` (an action property): no pod is created and no tenant becomes
  provisioning but by the holder of the lock. This is what the lock is for.
- `AnswersHaveAddress`: nobody publishes, caches or answers an empty address (proved;
  no run repeats it, `RunningHasAddress` shows its consequence in the record).
- `BareItemHasCause`: every status is written by an upsert, on a record read earlier.
  Even so, an item without what POST puts into it (idle timeout, namespace) appears
  only after a DELETE, PATCH or activity report, or a failure.
- `ExclusiveSlowPath`, `SlowPathOwnsKey`, `PollOutlivesSlowPath`, `ImplementsMutex`,
  `KeyNeverStuck`, `EveryCallReturns`: the lock.
- `OneLeads`: two electors never lead together, although the leader counts from
  the last renewal it heard of and a candidate from the write it noticed, each by
  its own clock. What it does not say is that two idle loops never overlap: the
  lease is released while the old loop may have a call under way, which is why
  `Orchestrator_drain` runs two.
- `LoopRunsAgain`: some replica leads again, as long as fewer replicas have been
  cut off than there are.

Warm pool and router:

- `ClaimedOnce`, `LeaksAreFaults`; `PoolFollowsTarget`, which excepts by name a target
  that has become negative on its way to Redis (`Refused`).
- `TargetsAreAskedFor`: between SETNX, the copies of the replicas, reads that fall
  back and managers that put what they read earlier, no count gets to the Deployment
  that is neither the configured one nor one asked for so far.
- `AtMostFiveCopies`: the bound on duplicates that `DuplicatesHaveCauses` does not give.
- `DropsHaveCauses`: an update is acknowledged before it is delivered, so a drop is a
  loss. Each has a cause: a mishap, an answer that was not heard although the pod has
  the update, the missing secret, or a wake of its own that was misled by the name of
  a failed pod or by a record with another address than the pod's. What other updates
  suffer is no excuse, nor are a cached address where nobody is, a record whose pod is
  gone, or a slow start.
- `DuplicatesHaveCauses`, `UpdatesEnd`, `ImplementsDelivery`.

Tenant pod and Telegram:

- `LossHasCause`: when a pod has gone, what its agent wrote before the deletion
  was asked for is in S3. The causes that excuse a loss are named: a failed restore
  or upload, a hook that was cut, a lost node, a hook that ran into an upload of
  the loop. What the agent writes later is in `late` and is owed nothing.
- `S3NeverGoesBack` (an action property): no upload puts an older file over a newer
  one, of another pod or of the other run of the script; the same causes excuse it.
- `WritesReachS3`: a running pod's writes arrive without any deletion.
- `StrayHasCause`, `BotIsHooked`: between requests, webhooks lead to the tenant from
  its own bot only and from that bot always; the exceptions are four named races
  and failures.
- `PodServesBot` (`<>[]`): pod, item and webhook agree on the bot once requests stop;
  only the pod of an item without a namespace, which nobody stops, may keep another.

The type invariants of `StateSync` and `Webhooks` also say which states
of different variables exclude each other (no sync run in a pod that has gone, no
call to Telegram without a bot). Each property has a variant of one mapped
definition ("Variant:" in the modules) that breaks it, as a plausible bug in that
code would.

## 5. Proofs

All theorems hold for every value of the constants that satisfies the named
assumptions of the modules: any number of callers, tenants' requests, pods,
updates, bots, faults and any times.

`WakeLockProofs`, under the condition `CallsFitSlack`:

- `Exclusion`, `Ownership`, `PollOutlives`, `LockTypes`: the safety invariants of
  the run. Exclusion is not inductive: a caller stays alone only because its key
  lives on. `LockInv` adds `KeyBudget` (the key is the caller's own, and its
  remaining life and the two clocks of the call sum to `WakeLockTTL`) and, for
  pollers, `PollBudget` (a poller has waited no longer than the slow path it lost
  to has run). Only `Tick` uses the condition on the slack.
- `Refinement`: under the same invariant every step of `WakeLock` is a step of
  `WakeMutex` or leaves it alone, with `key <- owner # NoOne` and the holder
  mapped to the owner while it is in the slow path.

`OrchestratorProofs`, for any number of wakes, loops, replicas, idle loops and
DELETE requests, and any budget of faults and lagging writes:

- `TypeCorrect`: the type invariant. One lemma types each operation (`MoveType`,
  `StatusType`, ...), one each group of actions.
- `LockHeld`: `HeldInSlowPath`. Inductive together with the types: `HeldMove` says
  that a thread which stays on its side of the lock disturbs nothing, and only
  `TakeLock`, the two returns, cancellation and a crash cross.
- `AddressAgrees`: `RunningHasAddress`. Not inductive: a writer publishes an
  address it found some calls ago. `AddressInHand` is the strengthening: at every
  label where an address will still be written or answered, it is not empty
  (`WaitReady` and the reconciler's decisions take it from a ready pod, the fast
  path and the pollers from a record, old or new, that they have checked for one).

`OrchestratorLockProofs`, for the same values of the constants:

- `WaitersPromise`: `MutexSpec => []WaitersBehindHolder`, of the abstract lock alone.
- `KeepsToMutex`: `ObeysMutex`. `NextLocks` sorts the steps into those that use the
  lock as calls do (`Freely`) and those that abandon it at the price of a fault
  (`ByFault`); only a crash needs the invariant `MutexInv`, for it ends the waits of
  its replica and, when the holder is in it, everybody's. Together with `Refinement` of
  `WakeLockProofs`: the timed lock is an abstract one, and its users need no more.
- `PollersWait`: `PollersWaitForHolder`, from `LockInv`: types, `MutexInv`,
  `HeldInSlowPath` and `WaitersPoll` (who waits is polling).
- `StrayKeysHaveCause`: by `ByFault` and that a spent budget stays spent
  (`SpendShrinks`, `StepsSpend`).
- `WakesAreLocked`: `WakesUnderLock`. `PodsAreCreated` and `ProvisioningIsMarked` show
  that one action each makes a pod and the status, and `LockInv` who takes it.
- `AnswersCarryAddress`: `AnswersHaveAddress`, by `AddressInHand` of the module above.
- `BareItemsHaveCause`: `BareItemHasCause`. Not inductive: what an upsert makes depends
  on what its thread read before. `Whole` is the strengthening: until something has
  happened (`Quiet`), an item that is missing has never been there (`Unborn`), so no
  thread has read one and none is at a label that an upsert follows (`Early`).

`ElectionProofs`, under `DeadlineFits` (retry period, deadline and delay of an
answer together are less than the lease):

- `Leadership`: `OneLeads`; `ElectionTypes`: the types. The strengthening is
  `Behind`: while a replica leads, the lease names it and no candidate has noticed
  its last write for longer than the leader has counted since its renewal.
  `ExpiredAlone` draws the conclusion: nobody leads when a candidate finds the
  lease expired.

`RouterProofs`:

- `RouterTypes`: the types, the bound on the attempts included.
- `Duplicates`: `DuplicatesHaveCauses`, an equation between what pods took and what
  was unheard that each step keeps.
- `Drops`: `DropsHaveCauses`, from any initial record, pod and cache. Before the first
  mishap (`NoMishap`) a pod that lives is the only one (`OnePod`), steps of the world
  take nothing away from it (`PodsStay`), and an update that is `Innocent` (heard,
  signed, not misled) and has been given an address has that of the pod, which the
  record confirms or which has answered (`Undisturbed`). What ends innocence ends it
  for one update only.
- `BoundedCopies`: `AtMostFiveCopies`, by a bound on the copies at each label
  (`Copies`): none before the first post, one after it, and as many more as attempts
  have been made.
- `Refinement`: the router's steps are steps of `Delivery` or leave it alone.

`WarmPoolProofs`, invariant `PoolInv`:

- `PoolTypesHold`; `OneClaim`: `ClaimedOnce`, by `InHand` (who has a node in hand) and
  `NotBack` (a pod once claimed does not return to the Deployment's label while
  its claimer remembers it, so that a second update is refused by its version).
- `FewLeaks`: `LeaksAreFaults`, by cardinality of the abandoned pods, which the
  invariant keeps finite.
- `OnlyAskedFor`: `TargetsAreAskedFor`. `AskedInv` follows a count on its way: what
  Redis has, what a replica keeps once it has booted and what a thread holds between
  two calls has been asked for, and a request runs only where the manager has booted
  (`Labels`).

`StateSyncProofs`, invariant `SyncInv`:

- `SyncTypesHold`; `NothingLost`: `LossHasCause`. As long as there is no cause
  (`Saved`), the volumes of a pod at rest owe S3 nothing (`AtRest`), the hook has
  in hand or has put what is owed (`HookSaves`), and an upload of the loop that is
  under way beside it takes nothing away (`LoopSaves`).
- `S3Keeps`: `S3NeverGoesBack`, from `SyncInv` and `Forward`: without a cause, volumes
  that have been restored have what S3 has (`RestoredAll`), and so has what either run
  of the script holds to put (`HeldEnough`).

`WebhooksProofs`, invariant `Inv`:

- `WebhookTypes`; `NoStray`: `StrayHasCause`, strengthened to states in which a
  DELETE is about to remove the webhook (`Strays`); `Hooked`: `BotIsHooked`,
  strengthened by a registration that is about to happen (`Hooks`). Both need
  that a missing item has no bot (`NoItemNoBot`).

Liveness under fairness (`QuietTenantDrains`, `RepairedInTheEnd`, `KeyNeverStuck`,
`EveryCallReturns`, `PoolFollowsTarget`, `UpdatesEnd`, `LoopRunsAgain`,
`WritesReachS3`, `PodServesBot`) is out of the prover's reach, as `ENABLED` is, and
is model-checked only. Every safety property of a passing run is proved, action
properties and the refinements of `WakeMutex` and `Delivery` included. No module
declares a RECURSIVE operator.

## 6. Plan

Done: the lock; the control plane with all its loops, requests and stale reads;
leader election; warm pool; router; the pod's data; Telegram; proofs of every
safety property.

Next, in this order:

1. The start of the informer: events between the first full pass and the
   informer's sync reach only the ticker (`reconciler.go:66-98`, resync 0). The
   full passes of the model already do without any event.
2. Two tenants with one warm pool: `WarmPool` claims inside `WakeFlow`.
3. Restart of a container inside its pod, which keeps its volumes, in `StateSync`.
4. Proofs: what DELETE leaves behind when no wake is under way, and who may still
   hold an address of a pod that has gone.

An abstract tenant (absent, asleep, starting, awake) that `Orchestrator` would
refine was considered and left out: every write of a status but the puts of POST
and of a first wake is an unconditional upsert made on an earlier read, so nearly
each of the states can follow each other one, and such a module would forbid next to nothing. What does hold is stated
by `RunningHasAddress` and the two `<>[]` properties.

## 7. Known divergences

With a run that shows each (`expect: violation`):

- `Claims_orphan`: the orphan cleanup asks for running tenants, then for provisioning
  ones. A tenant that its wake publishes in between is in neither answer, and its pod,
  if older than 90 seconds, is deleted while the wake still holds the lock
  (`reconciler.go:454-485`; comment at 450-453).
- `Election_outages`: a replica that has lost the lease never runs for it again
  while its process goes on serving; after both have, no idle loop is left
  (`cmd/orchestrator/main.go:134`; deploy/01-orchestrator.yaml:10).

Seen while modelling, without a run of their own:

- If the calls of a wake take longer than 30 s beside `WaitPodReady`, its key
  expires, a second wake enters and the first one's DEL removes the second's key
  (`lock.go:28`, `handler.go:373`; `WakeLock` with `CallBudget = 2` shows it).
- The fast path answers with the record's address whenever a pod of the name exists,
  failed, being deleted or at another address. The router then waits at an address
  where nobody is and drops the update (`handler.go:354`; `misled` in `Router`).
- A pod that refuses an update (401 without the secret) is taken for one that is still
  loading: the update is posted six times and dropped (`cmd/router/main.go:325`).
- An item that an upsert made has no namespace. The idle loop's deletion of its pod is
  refused on every tick, and the pod runs until somebody deletes tenant or pod
  (`lifecycle.go:112-114`; the other exception of `QuietTenantDrains`).
- A tenant whose pod fails before it is published stays provisioning
  (`reconciler.go:265-286`; one exception of `QuietTenantDrains`).
- An update of a wake under way re-creates the item of a deleted tenant, without
  its tokens (`registry.go:137`); so does an activity report of an unknown tenant.
  PATCH does not: it is conditional.
- The idle loop does not look again between its query and the deletion, so
  activity in between does not keep the pod (`lifecycle.go:112`). Its query is for
  five minutes, so a shorter timeout of a tenant is not honoured (`lifecycle.go:98`).
- With `ReleaseOnCancel` a new leader may start its loop while a call of the old
  one is under way (`lifecycle.go:59`).
- The final sync is not final: the agent's shell ignores SIGTERM and works on
  until the grace is over (`scripts/openclaw-start.sh`; README.md:58), and the
  orphan pass deletes a terminating pod once more, with 10 seconds
  (`reconciler.go:485`).
- A failed restore counts as an empty bucket; the fresh agent's files are uploaded
  over what was not restored (`client.go:92`).
- PATCH of the bot token leaves the old bot's webhook and registers the new one
  without the secret that the agent asks for, so that messages are refused until
  the pod is replaced (`handler.go:245`, `telegram/webhook.go:33-63`). A stray webhook wakes a
  deleted tenant, whose new item has no bot and whose agent exits at once
  (`scripts/openclaw-start.sh:27`).
- PUT /config checks an `int` and stores an `int32`: 2^31 becomes negative, which the
  API server refuses for ever (`handler.go:515, 527`; `WarmPool_target` asks for it).
- The warm Deployment of `deploy/01-orchestrator.yaml:146-164` labels its pods
  `app: warm-pool` only. `EnsureWarmPoolDeployment` changes an existing Deployment's
  count and image, not its labels (`client.go:262-345`), and `GetWarmPod` asks for
  `warm=true` too (`client.go:361-364`): with that manifest no wake ever finds a warm
  pod. `WarmPool` models the Deployment that the code itself creates.
- A failed Redis write of the target is logged, answered with success and undone
  by the next read (`warmpool.go:74-80`).
- A claimed warm pod whose deletion fails is left behind (`handler.go:439`).
- The router caches an address again after an attempt that found nobody there
  (`cmd/router/main.go:258-260`), and makes four attempts where
  docs/configuration.md:52 says ten.

## 8. What is not modelled, and why

- In the control plane, `Webhooks` and `WarmPool`, a remote call that takes effect and
  reports an error all the same: a call that fails has changed nothing there. A crash
  after the call is modelled, and so, in `Election` and `Router`, is an answer that is
  lost.
- The contents of pod specs, rendered configuration and secrets: no step depends on
  them, but for the bot token and the webhook's secret (`Webhooks`).
- The warm pool inside `WakeOrGet`: it chooses a node only. Its manager exists only
  when the configured target is positive (`cmd/orchestrator/main.go:127`).
- Pages of long queries: one tenant's item is on one page.
- `ScaleWarmPool`, `CountWarmPods`, `GetPodIP`, which nothing calls.
- The router's notification of the user, which changes nothing that a later step
  reads, and its own `RegisterWebhook`, which only a test calls.
- `otm` and `internal/cli` send one API call through `kubectl exec` and print the
  answer; `registry/mock.go` is a test double; `deploy/` is configuration, of which
  the models take that two replicas run.
- Graceful shutdown of router and orchestrator: it cancels what a crash loses, and
  is covered by `Crash`, `Terminate` and `Dropped`.
