------------------------------- MODULE Router -------------------------------
(***************************************************************************)
(* The router's delivery of Telegram updates to one tenant's pod           *)
(* (cmd/router/main.go:47-362).  Telegram has its 200 before anything is   *)
(* done; a goroutine per update, on any router replica, then finds the pod *)
(* through the shared Redis cache or POST /wake, waits until its port      *)
(* answers, and posts the update.                                          *)
(*                                                                         *)
(* The orchestrator's handlers are single steps here, with the guards by   *)
(* which the router sees them differ; module Orchestrator has their steps. *)
(***************************************************************************)
EXTENDS Integers

CONSTANTS Updates,     \* the goroutines, one per update of the tenant
          Unsigned,    \* those that Telegram sends without the secret on which the
                       \* pod insists, since a PATCH registered the webhook again
          Addresses,   \* pod addresses, positive; 0 is the empty string
          MaxMishaps   \* failed calls, stalls, dead routers, pods that die and
                       \* addresses given to another workload, together; lost
                       \* answers are bounded by the posts themselves

Attempts == 4          \* len(delays)

ASSUME UnsignedAssumption == Unsigned \subseteq Updates
ASSUME AddressesAssumption == Addresses \subseteq Nat \ {0}
ASSUME BoundsAssumption == MaxMishaps \in Nat

VARIABLES
    cache,     \* router:endpoint:{tenantID}, 0 when absent
    host,      \* what answers at each address
    pod,       \* address of the pod object of the tenant's name, 0 when there is none;
               \* a failed pod is an object with nobody at its address
    record,    \* pod_ip of the tenant as the orchestrator reports it, 0 unless running
    pc,        \* where each goroutine is
    podIP,     \* podIP of forwardUpdate
    probed,    \* podIP of waitForGateway, and the one declared at line 201
    tries,     \* attempts made after the gateway was ready
    taken,     \* history: how often the pod has taken the update
    unheard,   \* history: how often its answer to that was lost
    misled,    \* history: the updates whose wake took a failed or moved pod for the
               \* one it was to find, because of its name
    mishaps    \* how much of MaxMishaps has happened

pods == <<host, pod, record>>
locals == <<pc, podIP, probed, tries>>
counts == <<taken, unheard>>
history == <<counts, misled>>
vars == <<cache, pods, locals, history, mishaps>>

\* "starting" refuses connections, "loading" answers 5xx, "foreign" is another
\* workload, which answers but does not take the update.
Hosts == {"nobody", "starting", "loading", "ready", "foreign"}
Answers(a) == host[a] \in {"loading", "ready", "foreign"}
Lives(a) == host[a] \in {"starting", "loading", "ready"}

Mishap == mishaps < MaxMishaps /\ mishaps' = mishaps + 1
Goto(u, label) == pc' = [pc EXCEPT ![u] = label]

\* The goroutine returns, and its variables are gone.
Ends(u, label) ==
    /\ Goto(u, label)
    /\ podIP' = [podIP EXCEPT ![u] = 0] /\ probed' = [probed EXCEPT ![u] = 0]
    /\ tries' = [tries EXCEPT ![u] = 0]

\* SET or DEL of the cached address; nobody looks whether it failed.
Stores(a) == \/ cache' = a /\ UNCHANGED mishaps
             \/ UNCHANGED cache /\ Mishap

-----------------------------------------------------------------------------
\* The update has been acknowledged; forwardUpdate reads the cache.
GetCachedPodIP(u) ==
    /\ pc[u] = "cached"
    /\ \/ /\ podIP' = [podIP EXCEPT ![u] = cache]
          /\ Goto(u, IF cache = 0 THEN "wake" ELSE "post")
          /\ UNCHANGED mishaps
       \/ Mishap /\ Goto(u, "wake") /\ UNCHANGED podIP
    /\ UNCHANGED <<cache, pods, probed, tries, history>>

\* postToPod is called at three places: with the cached address, with the one the
\* gateway answered at, and in the attempts.  Where it goes on, by its result:
Posting == {"post", "post2", "attempt"}
OnRetry == [post |-> "gateway1", post2 |-> "gateway", attempt |-> "retry"]
OnFatal == [post |-> "forget", post2 |-> "forget2", attempt |-> "forget3"]
Target(u) == IF pc[u] = "post2" THEN probed[u] ELSE podIP[u]
Accepts(u) == host[Target(u)] = "ready" /\ u \notin Unsigned

\* Variant: a 2xx does not end the goroutine.
PostOKGoesOn(u) ==
    /\ pc[u] \in Posting /\ Accepts(u)
    /\ taken' = [taken EXCEPT ![u] = @ + 1]
    /\ Goto(u, OnRetry[pc[u]])
    /\ UNCHANGED <<cache, pods, podIP, probed, tries, unheard, misled, mishaps>>

\* 2xx: delivered.
PostOK(u) ==
    /\ pc[u] \in Posting /\ Accepts(u)
    /\ taken' = [taken EXCEPT ![u] = @ + 1]
    /\ Ends(u, "done")
    /\ UNCHANGED <<cache, pods, unheard, misled, mishaps>>

\* The pod took the update, but not within the five seconds of the request.
PostUnheard(u) ==
    /\ pc[u] \in Posting /\ Accepts(u)
    /\ taken' = [taken EXCEPT ![u] = @ + 1]
    /\ unheard' = [unheard EXCEPT ![u] = @ + 1]
    /\ Goto(u, OnFatal[pc[u]])
    /\ UNCHANGED <<cache, pods, podIP, probed, tries, misled, mishaps>>

\* Any other status: 5xx while the session loads, 404 of somebody else, 401 without
\* the secret.  After line 207 podIP is the outer one again.  That the last attempt
\* finds the session still loading takes a slow start.
PostRetry(u) ==
    /\ pc[u] \in Posting /\ Answers(Target(u)) /\ ~Accepts(u)
    /\ IF pc[u] = "attempt" /\ tries[u] = Attempts - 1 /\ host[Target(u)] = "loading"
       THEN Mishap ELSE UNCHANGED mishaps
    /\ Goto(u, OnRetry[pc[u]])
    /\ probed' = [probed EXCEPT ![u] = 0]
    /\ UNCHANGED <<cache, pods, podIP, tries, history>>

\* No connection, or no answer although there is somebody.
PostFatal(u) ==
    /\ pc[u] \in Posting
    /\ IF Answers(Target(u)) THEN Mishap ELSE UNCHANGED mishaps
    /\ Goto(u, OnFatal[pc[u]])
    /\ UNCHANGED <<cache, pods, podIP, probed, tries, history>>

\* Variant: podIP is not emptied after a connection error.
ForgetWithoutWake(u) ==
    /\ \/ pc[u] \in {"forget", "forget2"} /\ Goto(u, "gateway")
       \/ pc[u] = "forget3" /\ Goto(u, "retry")
    /\ Stores(0)
    /\ probed' = [probed EXCEPT ![u] = 0]
    /\ UNCHANGED <<pods, podIP, tries, history>>

\* postToPod clears the cache before it reports the connection error; the first one
\* empties podIP, and the update goes on as without a cached address.
Forget(u) ==
    /\ \/ pc[u] = "forget" /\ Goto(u, "wake") /\ podIP' = [podIP EXCEPT ![u] = 0]
       \/ pc[u] = "forget2" /\ Goto(u, "gateway") /\ UNCHANGED podIP
       \/ pc[u] = "forget3" /\ Goto(u, "retry") /\ UNCHANGED podIP
    /\ Stores(0)
    /\ probed' = [probed EXCEPT ![u] = 0]
    /\ UNCHANGED <<pods, tries, history>>

-----------------------------------------------------------------------------
\* WakeOrGet in the orchestrator.  The fast path answers with the record's address if
\* there is a pod of the tenant's name, whatever its phase and its address.
FastPath == record # 0 /\ pod # 0
PodAsRecorded == pod = record /\ Lives(pod)

\* The slow path creates a pod, or takes the one that has the name, and publishes
\* its address when it is ready.
Unused == {a \in Addresses : /\ host[a] = "nobody" /\ a \notin {record, pod, cache}
                               /\ \A u \in Updates : a \notin {podIP[u], probed[u]}}
Fresh(a) == a \in Unused /\ \A b \in Unused : a <= b
NewPod(a) == Fresh(a) /\ host' = [host EXCEPT ![a] = "starting"] /\ pod' = a

CreatePod(a) == pod = 0 /\ NewPod(a) /\ record' = a
AdoptPod(a) == a = pod /\ Lives(a) /\ record' = a /\ UNCHANGED <<host, pod>>

WakePod(u) ==
    /\ pc[u] = "wake"
    /\ \E a \in Addresses :
          /\ \/ /\ FastPath /\ a = record /\ UNCHANGED pods
                /\ misled' = IF PodAsRecorded THEN misled ELSE misled \cup {u}
             \/ ~FastPath /\ (CreatePod(a) \/ AdoptPod(a)) /\ UNCHANGED misled
          /\ podIP' = [podIP EXCEPT ![u] = a]
    /\ Goto(u, "set")
    /\ UNCHANGED <<cache, probed, tries, counts, mishaps>>

\* A failed pod that has the name is waited for until PodReadyWait is over: 503.
WakeFails(u) ==
    /\ pc[u] = "wake" /\ ~FastPath /\ pod # 0 /\ ~Lives(pod)
    /\ Ends(u, "dropped") /\ misled' = misled \cup {u}
    /\ UNCHANGED <<cache, pods, counts, mishaps>>

\* The wake fails otherwise, the deadline of the update passes, or its router dies.
Dropped(u) ==
    /\ pc[u] \notin {"done", "dropped"} /\ Mishap
    /\ Ends(u, "dropped")
    /\ UNCHANGED <<cache, pods, history>>

SetCache(u) ==
    /\ pc[u] = "set"
    /\ Stores(podIP[u])
    /\ Goto(u, "gateway")
    /\ UNCHANGED <<pods, podIP, probed, tries, history>>

-----------------------------------------------------------------------------
\* waitForGateway is called at two places; the address that answers replaces podIP
\* at line 237, but at line 201 it is bound to a new variable of the same name.
Waiting == {"gateway1", "gateway"}
Gateway(u) == IF probed[u] = 0 THEN podIP[u] ELSE probed[u]

ProbeOK(u) ==
    /\ pc[u] \in Waiting /\ Answers(Gateway(u))
    /\ IF pc[u] = "gateway1"
       THEN probed' = [probed EXCEPT ![u] = Gateway(u)] /\ Goto(u, "post2") /\ UNCHANGED podIP
       ELSE /\ podIP' = [podIP EXCEPT ![u] = Gateway(u)] /\ Goto(u, "recache")
            /\ probed' = [probed EXCEPT ![u] = 0]
    /\ UNCHANGED <<cache, pods, tries, history, mishaps>>

\* refreshPodIP, every fifteen seconds: GET /tenants/{id}.
Refresh(u) ==
    /\ pc[u] \in Waiting /\ ~Answers(Gateway(u))
    /\ record \notin {0, Gateway(u)}
    /\ probed' = [probed EXCEPT ![u] = record]
    /\ Goto(u, IF pc[u] = "gateway1" THEN "refreshed1" ELSE "refreshed")
    /\ UNCHANGED <<cache, pods, podIP, tries, history, mishaps>>

CacheRefreshed(u) ==
    /\ \/ pc[u] = "refreshed1" /\ Goto(u, "gateway1")
       \/ pc[u] = "refreshed" /\ Goto(u, "gateway")
    /\ Stores(probed[u])
    /\ UNCHANGED <<pods, podIP, probed, tries, history>>

\* Variant: only the first wait has a deadline.
GatewayTimeoutOnce(u) ==
    /\ pc[u] = "gateway1" /\ host[Gateway(u)] = "nobody"
    /\ record \in {0, Gateway(u)}
    /\ Ends(u, "dropped")
    /\ UNCHANGED <<cache, pods, history, mishaps>>

\* The deadline: nobody is at the address and the orchestrator knows of no other.
GatewayTimeout(u) ==
    /\ pc[u] \in Waiting /\ host[Gateway(u)] = "nobody"
    /\ record \in {0, Gateway(u)}
    /\ Ends(u, "dropped")
    /\ UNCHANGED <<cache, pods, history, mishaps>>

-----------------------------------------------------------------------------
\* Variant: one attempt too many.
RecacheOnceMore(u) ==
    /\ \/ pc[u] = "recache" /\ Goto(u, "attempt") /\ UNCHANGED <<podIP, probed, tries>>
       \/ /\ pc[u] = "retry" /\ tries[u] < Attempts /\ Goto(u, "attempt")
          /\ tries' = [tries EXCEPT ![u] = @ + 1] /\ UNCHANGED <<podIP, probed>>
       \/ pc[u] = "retry" /\ tries[u] = Attempts /\ Ends(u, "dropped")
    /\ Stores(podIP[u])
    /\ UNCHANGED <<pods, history>>

\* The gateway is ready: cache the address, then attempt, caching it again after
\* every failure, until the attempts are used up.
Recache(u) ==
    /\ \/ pc[u] = "recache" /\ Goto(u, "attempt") /\ UNCHANGED <<podIP, probed, tries>>
       \/ /\ pc[u] = "retry" /\ tries[u] + 1 < Attempts /\ Goto(u, "attempt")
          /\ tries' = [tries EXCEPT ![u] = @ + 1] /\ UNCHANGED <<podIP, probed>>
       \/ pc[u] = "retry" /\ tries[u] + 1 = Attempts /\ Ends(u, "dropped")
    /\ Stores(podIP[u])
    /\ UNCHANGED <<pods, history>>

ForwardUpdate(u) ==
    \/ GetCachedPodIP(u) \/ PostOK(u) \/ PostUnheard(u) \/ PostRetry(u) \/ PostFatal(u)
    \/ Forget(u) \/ WakePod(u) \/ WakeFails(u) \/ SetCache(u) \/ ProbeOK(u) \/ Refresh(u)
    \/ CacheRefreshed(u) \/ GatewayTimeout(u) \/ Recache(u)

-----------------------------------------------------------------------------
(* The pods, the reconciler and Redis.                                      *)
PodProgresses(a) ==
    /\ \/ host[a] = "starting" /\ host' = [host EXCEPT ![a] = "loading"]
       \/ host[a] = "loading" /\ host' = [host EXCEPT ![a] = "ready"]
    /\ UNCHANGED <<cache, pod, record, locals, history, mishaps>>

\* The pod is gone, its object too or not, or it restarts with another address.
PodDies(a) ==
    /\ Lives(a) /\ Mishap
    /\ \/ host' = [host EXCEPT ![a] = "nobody"] /\ pod' \in {0, a}
       \/ \E b \in Addresses : /\ Fresh(b) /\ pod' = b
                               /\ host' = [host EXCEPT ![a] = "nobody", ![b] = "starting"]
    /\ UNCHANGED <<cache, record, locals, history>>

AddressReused(a) ==
    /\ host[a] = "nobody" /\ Mishap
    /\ host' = [host EXCEPT ![a] = "foreign"]
    /\ UNCHANGED <<cache, pod, record, locals, history>>

\* A failed pod is deleted, by the idle loop, which resets the record, or by others.
PodRemoved ==
    /\ pod # 0 /\ ~Lives(pod) /\ pod' = 0
    /\ record' \in {0, record}
    /\ UNCHANGED <<cache, host, locals, history, mishaps>>

\* The reconciler finds the pod missing: reset to idle, or auto-restart; both clear
\* the cache.
PodMissed ==
    /\ record # 0 /\ pod = 0
    /\ \/ record' = 0 /\ UNCHANGED <<host, pod>>
       \/ \E a \in Addresses : CreatePod(a)
    /\ cache' = 0
    /\ UNCHANGED <<locals, history, mishaps>>

\* ... or finds a pod that runs, and another address or none in the record.
PodSynced ==
    /\ pod # 0 /\ record # pod
    /\ AdoptPod(pod) /\ cache' = pod
    /\ UNCHANGED <<locals, history, mishaps>>

CacheExpires ==
    /\ cache # 0 /\ cache' = 0
    /\ UNCHANGED <<pods, locals, history, mishaps>>

World == \/ \E a \in Addresses : PodProgresses(a) \/ PodDies(a) \/ AddressReused(a)
         \/ PodRemoved \/ PodMissed \/ PodSynced \/ CacheExpires

-----------------------------------------------------------------------------
\* The tenant sleeps or runs; its pod runs, has failed or is gone, and the record and
\* the cache may have its address, an older one, or none.
Init == /\ record \in Addresses \cup {0} /\ pod \in Addresses \cup {0}
        /\ cache \in Addresses \cup {0}
        /\ host \in [Addresses -> {"nobody", "starting", "loading", "ready"}]
        /\ \A a \in Addresses : Lives(a) => pod = a
        /\ pc = [u \in Updates |-> "cached"]
        /\ podIP = [u \in Updates |-> 0] /\ probed = [u \in Updates |-> 0]
        /\ tries = [u \in Updates |-> 0]
        /\ taken = [u \in Updates |-> 0] /\ unheard = [u \in Updates |-> 0]
        /\ misled = {} /\ mishaps = 0

\* Nothing is left to do.
Quiet == /\ \A u \in Updates : pc[u] \in {"done", "dropped"}
         /\ UNCHANGED vars

Next == World \/ Quiet \/ \E u \in Updates : ForwardUpdate(u) \/ Dropped(u)

Spec == Init /\ [][Next]_vars

(* Calls return and the pod, of which there is one at a time, starts.  That *)
(* the reconciler repairs the record, or does so in time, is not assumed.   *)
Fairness == /\ \A u \in Updates : WF_vars(ForwardUpdate(u))
            /\ WF_vars(\E a \in Addresses : PodProgresses(a))

FairSpec == Spec /\ Fairness

-----------------------------------------------------------------------------
Labels == {"cached", "wake", "set", "recache", "retry", "refreshed1", "refreshed",
           "forget", "forget2", "forget3", "done", "dropped"} \cup Posting \cup Waiting

TypeOK == /\ {cache, record, pod} \subseteq Addresses \cup {0}
          /\ host \in [Addresses -> Hosts]
          /\ pc \in [Updates -> Labels]
          /\ podIP \in [Updates -> Addresses \cup {0}]
          /\ probed \in [Updates -> Addresses \cup {0}]
          /\ tries \in [Updates -> 0..Attempts - 1]
          /\ taken \in [Updates -> Nat] /\ unheard \in [Updates -> Nat]
          /\ misled \subseteq Updates /\ mishaps \in 0..MaxMishaps

\* The pod takes an update twice only if its answer to the first copy was lost:
\* no path through the cache, the wake and the retries posts it once more after a
\* 2xx (main.go:194-263).
DuplicatesHaveCauses ==
    \A u \in Updates : taken[u] = unheard[u] + (IF pc[u] = "done" THEN 1 ELSE 0)

\* Although Telegram does not send it again, an update is dropped only after a mishap,
\* or the pod has it all the same and only its answers were lost, or the pod refuses it
\* for want of the secret (main.go:325), or its own wake was answered on the strength
\* of a failed pod's name, or with an address that the pod has no more (handler.go:354).
\* A cached address where nobody is, a record whose pod is gone, a pod that is still
\* starting, and what other updates suffer lose nothing (main.go:183-185).
DropsHaveCauses ==
    \A u \in Updates :
        pc[u] = "dropped" => mishaps > 0 \/ unheard[u] > 0 \/ u \in misled \cup Unsigned

\* However many answers are lost, the pod takes no update more than once for each
\* attempt and once more: the posts with a cached address and with the one the
\* gateway answered at never both reach it (main.go:194-263).
AtMostFiveCopies == \A u \in Updates : taken[u] <= Attempts + 1

\* Every goroutine ends: delivered or dropped.
UpdatesEnd == <>(\A u \in Updates : pc[u] \in {"done", "dropped"})

\* Seen without its addresses, the router delivers each update once and forgets it,
\* or gives it up; a copy is posted again only while no answer to one was heard
\* (module Delivery; main.go:186-275).
Abstract == INSTANCE Delivery WITH
    status <- [u \in Updates |-> IF pc[u] \in {"done", "dropped"} THEN pc[u] ELSE "pending"]

ImplementsDelivery == Abstract!Spec
=============================================================================
