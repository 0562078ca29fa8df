---------------------------- MODULE RouterProofs ----------------------------
(***************************************************************************)
(* The router's delivery, for any number of concurrent updates, addresses  *)
(* and mishaps: types, the count of what the pods took, and that it        *)
(* implements Delivery.                                                    *)
(***************************************************************************)
EXTENDS Router, TLAPS

USE AddressesAssumption, BoundsAssumption, UnsignedAssumption

\* Where a post leads, and the labels of the other steps, are labels.
LEMMA LabelTypes ==
    /\ \A l \in Posting : OnRetry[l] \in Labels /\ OnFatal[l] \in Labels
    /\ \A l \in Posting : OnRetry[l] \notin {"done", "dropped"} /\ OnFatal[l] \notin {"done", "dropped"}
    /\ Posting \cup Waiting \subseteq Labels
    /\ {"cached", "wake", "set", "recache", "retry", "refreshed1", "refreshed",
        "forget", "forget2", "forget3", "done", "dropped", "post", "post2", "attempt",
        "gateway1", "gateway"} \subseteq Labels
BY DEF Posting, Waiting, Labels, OnRetry, OnFatal

\* What a goroutine counts, and what is left alone, stays typed.
LEMMA MishapType ==
    ASSUME TypeOK, Mishap \/ UNCHANGED mishaps
    PROVE  mishaps' \in 0..MaxMishaps
BY DEF TypeOK, Mishap

\* A goroutine that moves on stays at a label.
LEMMA GotoType ==
    ASSUME TypeOK, NEW u \in Updates, NEW l \in Labels, Goto(u, l)
    PROVE  pc' \in [Updates -> Labels]
BY DEF TypeOK, Goto

\* ... and one that returns too, with its variables empty.
LEMMA EndsType ==
    ASSUME TypeOK, NEW u \in Updates, NEW l \in {"done", "dropped"}, Ends(u, l)
    PROVE  /\ pc' \in [Updates -> Labels] /\ tries' \in [Updates -> 0..Attempts - 1]
           /\ podIP' \in [Updates -> Addresses \cup {0}]
           /\ probed' \in [Updates -> Addresses \cup {0}]
BY DEF TypeOK, Ends, Goto, Labels, Attempts

\* A store of an address, or of none, keeps the cache typed, whether it fails or not.
LEMMA StoresType ==
    ASSUME TypeOK, NEW a \in Addresses \cup {0}, Stores(a)
    PROVE  cache' \in Addresses \cup {0} /\ mishaps' \in 0..MaxMishaps
BY MishapType DEF TypeOK, Stores

-----------------------------------------------------------------------------
\* Posts keep the types,
LEMMA TypePost ==
    ASSUME TypeOK, NEW u \in Updates,
           PostOK(u) \/ PostUnheard(u) \/ PostRetry(u) \/ PostFatal(u)
    PROVE  TypeOK'
<1>1. CASE PostOK(u)
  <2>1. taken' \in [Updates -> Nat]
    BY <1>1 DEF PostOK, TypeOK
  <2>. QED
    BY <1>1, <2>1, EndsType DEF PostOK, TypeOK, pods
<1>2. CASE PostUnheard(u) \/ PostRetry(u) \/ PostFatal(u)
  <2>. USE <1>2 DEF PostUnheard, PostRetry, PostFatal
  <2>1. pc' \in [Updates -> Labels]
    BY GotoType, LabelTypes
  <2>2. mishaps' \in 0..MaxMishaps
    BY MishapType
  <2>3. probed' \in [Updates -> Addresses \cup {0}]
    BY DEF TypeOK
  <2>4. taken' \in [Updates -> Nat] /\ unheard' \in [Updates -> Nat] /\ misled' = misled
    BY DEF TypeOK, history, counts
  <2>5. UNCHANGED <<cache, record, host, pod, podIP, tries>>
    BY DEF pods
  <2>. QED
    BY <2>1, <2>2, <2>3, <2>4, <2>5 DEF TypeOK
<1>. QED
  BY <1>1, <1>2

\* so does the rest of forwardUpdate,
LEMMA TypeForward ==
    ASSUME TypeOK, NEW u \in Updates, ForwardUpdate(u)
    PROVE  TypeOK'
<1>1. CASE PostOK(u) \/ PostUnheard(u) \/ PostRetry(u) \/ PostFatal(u)
  BY <1>1, TypePost
<1>2. CASE GetCachedPodIP(u) \/ Forget(u) \/ SetCache(u)
  <2>. USE <1>2 DEF GetCachedPodIP, Forget, SetCache
  <2>1. pc' \in [Updates -> Labels]
    BY GotoType, LabelTypes
  <2>2. mishaps' \in 0..MaxMishaps /\ cache' \in Addresses \cup {0}
    <3>1. podIP[u] \in Addresses \cup {0}
      BY DEF TypeOK
    <3>. QED
      BY <3>1, MishapType, StoresType DEF TypeOK
  <2>3. /\ podIP' \in [Updates -> Addresses \cup {0}]
        /\ probed' \in [Updates -> Addresses \cup {0}]
    BY DEF TypeOK
  <2>. QED
    BY <2>1, <2>2, <2>3 DEF TypeOK, pods, history, counts
<1>3. CASE WakePod(u)
  <2>1. pc' \in [Updates -> Labels]
    BY <1>3, GotoType, LabelTypes DEF WakePod
  <2>2. /\ host' \in [Addresses -> Hosts] /\ record' \in Addresses \cup {0}
        /\ pod' \in Addresses \cup {0} /\ podIP' \in [Updates -> Addresses \cup {0}]
    BY <1>3 DEF WakePod, CreatePod, AdoptPod, NewPod, TypeOK, Hosts, pods
  <2>3. misled' \subseteq Updates
    BY <1>3 DEF WakePod, TypeOK
  <2>. QED
    BY <1>3, <2>1, <2>2, <2>3 DEF WakePod, TypeOK, counts
<1>4. CASE ProbeOK(u) \/ Refresh(u) \/ CacheRefreshed(u)
  <2>. USE <1>4 DEF ProbeOK, Refresh, CacheRefreshed
  <2>1. pc' \in [Updates -> Labels]
    BY GotoType, LabelTypes
  <2>2. Gateway(u) \in Addresses \cup {0} /\ probed[u] \in Addresses \cup {0}
    BY DEF TypeOK, Gateway
  <2>3. cache' \in Addresses \cup {0} /\ mishaps' \in 0..MaxMishaps
    BY <2>2, StoresType DEF TypeOK
  <2>4. /\ podIP' \in [Updates -> Addresses \cup {0}]
        /\ probed' \in [Updates -> Addresses \cup {0}]
    BY <2>2 DEF TypeOK
  <2>. QED
    BY <2>1, <2>3, <2>4 DEF TypeOK, pods, history, counts
<1>5. CASE GatewayTimeout(u) \/ WakeFails(u)
  <2>1. misled' \subseteq Updates
    BY <1>5 DEF GatewayTimeout, WakeFails, TypeOK, history
  <2>. QED
    BY <1>5, <2>1, EndsType DEF GatewayTimeout, WakeFails, TypeOK, pods, history, counts
<1>6. CASE Recache(u)
  <2>1. pc' \in [Updates -> Labels] /\ tries' \in [Updates -> 0..Attempts - 1]
        /\ podIP' \in [Updates -> Addresses \cup {0}]
        /\ probed' \in [Updates -> Addresses \cup {0}]
    <3>1. CASE pc'[u] = "dropped" /\ Ends(u, "dropped")
      BY <3>1, EndsType
    <3>2. CASE Goto(u, "attempt") /\ UNCHANGED <<podIP, probed>>
      <4>1. pc' \in [Updates -> Labels]
        BY <3>2, GotoType, LabelTypes
      <4>2. tries' \in [Updates -> 0..Attempts - 1]
        <5>1. ~Ends(u, "dropped")
          BY <3>2 DEF Goto, Ends, TypeOK
        <5>. QED
          BY <1>6, <5>1 DEF Recache, TypeOK, Attempts
      <4>. QED
        BY <3>2, <4>1, <4>2 DEF TypeOK
    <3>3. Ends(u, "dropped") => pc'[u] = "dropped"
      BY DEF Ends, Goto, TypeOK
    <3>. QED
      BY <1>6, <3>1, <3>2, <3>3 DEF Recache
  <2>2. cache' \in Addresses \cup {0} /\ mishaps' \in 0..MaxMishaps
    <3>1. podIP[u] \in Addresses \cup {0}
      BY DEF TypeOK
    <3>. QED
      BY <1>6, <3>1, StoresType DEF Recache
  <2>. QED
    BY <1>6, <2>1, <2>2 DEF Recache, TypeOK, pods, history, counts
<1>. QED
  BY <1>1, <1>2, <1>3, <1>4, <1>5, <1>6 DEF ForwardUpdate

\* and what happens to pods and cache.
LEMMA TypeWorld ==
    ASSUME TypeOK, World \/ Quiet \/ \E u \in Updates : Dropped(u)
    PROVE  TypeOK'
<1>1. ASSUME NEW a \in Addresses, PodProgresses(a) \/ PodDies(a) \/ AddressReused(a)
      PROVE  TypeOK'
  <2>. USE <1>1 DEF PodProgresses, PodDies, AddressReused
  <2>1. host' \in [Addresses -> Hosts] /\ pod' \in Addresses \cup {0}
    BY DEF TypeOK, Hosts
  <2>2. mishaps' \in 0..MaxMishaps
    BY MishapType
  <2>. QED
    BY <2>1, <2>2 DEF TypeOK, locals, history, counts
<1>2. CASE PodRemoved \/ PodMissed \/ PodSynced
  <2>1. /\ host' \in [Addresses -> Hosts] /\ pod' \in Addresses \cup {0}
        /\ record' \in Addresses \cup {0} /\ cache' \in Addresses \cup {0}
    BY <1>2 DEF PodRemoved, PodMissed, PodSynced, CreatePod, AdoptPod, NewPod, TypeOK, Hosts
  <2>. QED
    BY <1>2, <2>1 DEF PodRemoved, PodMissed, PodSynced, TypeOK, locals, history, counts
<1>3. CASE CacheExpires
  BY <1>3 DEF CacheExpires, TypeOK, pods, locals, history, counts
<1>4. CASE Quiet
  BY <1>4 DEF Quiet, TypeOK, vars, pods, locals, history, counts
<1>5. ASSUME NEW u \in Updates, Dropped(u) PROVE TypeOK'
  <2>1. mishaps' \in 0..MaxMishaps
    BY <1>5, MishapType DEF Dropped
  <2>. QED
    BY <1>5, <2>1, EndsType DEF Dropped, TypeOK, pods, history, counts
<1>. QED
  BY <1>1, <1>2, <1>3, <1>4, <1>5 DEF World

\* The variables keep their types: no goroutine attempts more often than it may.
THEOREM RouterTypes == Spec => []TypeOK
<1>1. Init => TypeOK
  BY LabelTypes DEF Init, TypeOK, Hosts, Attempts
<1>2. TypeOK /\ [Next]_vars => TypeOK'
  <2>. SUFFICES ASSUME TypeOK, [Next]_vars PROVE TypeOK'
    OBVIOUS
  <2>1. CASE UNCHANGED vars
    BY <2>1 DEF TypeOK, vars, pods, locals, history, counts
  <2>. QED
    BY <2>1, TypeForward, TypeWorld DEF Next
<1>. QED
  BY <1>1, <1>2, PTL DEF Spec

-----------------------------------------------------------------------------
\* How Delivery sees a goroutine.
Status(u) == IF pc[u] \in {"done", "dropped"} THEN pc[u] ELSE "pending"

\* A step either posts, or gives up, or changes nothing that Delivery sees.
LEMMA StepKinds ==
    ASSUME TypeOK, [Next]_vars
    PROVE  \/ \E u \in Updates :
                 /\ Status(u) = "pending" /\ pc' = [pc EXCEPT ![u] = "done"]
                 /\ taken' = [taken EXCEPT ![u] = @ + 1] /\ UNCHANGED unheard
           \/ \E u \in Updates, l \in Labels \ {"done", "dropped"} :
                 /\ Status(u) = "pending" /\ pc' = [pc EXCEPT ![u] = l]
                 /\ taken' = [taken EXCEPT ![u] = @ + 1]
                 /\ unheard' = [unheard EXCEPT ![u] = @ + 1]
           \/ \E u \in Updates, l \in Labels \ {"done"} :
                 /\ Status(u) = "pending" /\ pc' = [pc EXCEPT ![u] = l]
                 /\ UNCHANGED <<taken, unheard>>
           \/ UNCHANGED <<pc, taken, unheard>>
<1>1. ASSUME NEW u \in Updates, PostOK(u)
      PROVE  /\ Status(u) = "pending" /\ pc' = [pc EXCEPT ![u] = "done"]
             /\ taken' = [taken EXCEPT ![u] = @ + 1] /\ UNCHANGED unheard
  BY <1>1 DEF PostOK, Ends, Goto, Status, Posting
<1>2. ASSUME NEW u \in Updates, PostUnheard(u)
      PROVE  \E l \in Labels \ {"done", "dropped"} :
                 /\ Status(u) = "pending" /\ pc' = [pc EXCEPT ![u] = l]
                 /\ taken' = [taken EXCEPT ![u] = @ + 1]
                 /\ unheard' = [unheard EXCEPT ![u] = @ + 1]
  <2>1. OnFatal[pc[u]] \in Labels \ {"done", "dropped"}
    BY <1>2, LabelTypes DEF PostUnheard
  <2>. QED
    BY <1>2, <2>1 DEF PostUnheard, Ends, Goto, Status, Posting
<1>3. ASSUME NEW u \in Updates, PostRetry(u) \/ PostFatal(u)
      PROVE  \E l \in Labels \ {"done"} :
                 /\ Status(u) = "pending" /\ pc' = [pc EXCEPT ![u] = l]
                 /\ UNCHANGED <<taken, unheard>>
  <2>1. /\ OnFatal[pc[u]] \in Labels \ {"done"} /\ OnRetry[pc[u]] \in Labels \ {"done"}
        /\ Status(u) = "pending"
    BY <1>3, LabelTypes DEF PostRetry, PostFatal, Status, Posting
  <2>. QED
    BY <1>3, <2>1 DEF PostRetry, PostFatal, Ends, Goto, history, counts
<1>4. ASSUME NEW u \in Updates,
             GetCachedPodIP(u) \/ Forget(u) \/ WakePod(u) \/ WakeFails(u) \/ SetCache(u) \/ ProbeOK(u)
             \/ Refresh(u) \/ CacheRefreshed(u) \/ GatewayTimeout(u) \/ Recache(u) \/ Dropped(u)
      PROVE  \E l \in Labels \ {"done"} :
                 /\ Status(u) = "pending" /\ pc' = [pc EXCEPT ![u] = l]
                 /\ UNCHANGED <<taken, unheard>>
  BY <1>4, LabelTypes
     DEF GetCachedPodIP, Forget, WakePod, WakeFails, SetCache, ProbeOK, Refresh, CacheRefreshed,
         GatewayTimeout, Recache, Dropped, Ends, Goto, Status, Waiting, history, counts
<1>5. CASE World \/ Quiet \/ UNCHANGED vars
  BY <1>5 DEF World, PodProgresses, PodDies, AddressReused, PodRemoved, PodMissed, PodSynced,
     CacheExpires,
              Quiet, vars, locals, history, counts
<1>. QED
  BY <1>1, <1>2, <1>3, <1>4, <1>5 DEF Next, ForwardUpdate

\* The pod takes an update again only when its answer to the last copy was lost.
THEOREM Duplicates == Spec => []DuplicatesHaveCauses
<1>1. Init => DuplicatesHaveCauses
  <2>. SUFFICES ASSUME Init, NEW u \in Updates
                PROVE  taken[u] = unheard[u] + (IF pc[u] = "done" THEN 1 ELSE 0)
    BY DEF DuplicatesHaveCauses
  <2>1. taken[u] = 0 /\ unheard[u] = 0 /\ pc[u] = "cached"
    BY DEF Init
  <2>. QED
    BY <2>1
<1>2. TypeOK /\ DuplicatesHaveCauses /\ [Next]_vars => DuplicatesHaveCauses'
  <2>. SUFFICES ASSUME TypeOK, DuplicatesHaveCauses, [Next]_vars
                PROVE  DuplicatesHaveCauses'
    OBVIOUS
  <2>1. \A u \in Updates : taken[u] \in Nat /\ unheard[u] \in Nat
    BY DEF TypeOK
  <2>2. SUFFICES ASSUME NEW v \in Updates
                 PROVE  taken'[v] = unheard'[v] + (IF pc'[v] = "done" THEN 1 ELSE 0)
    BY DEF DuplicatesHaveCauses
  <2>3. taken[v] = unheard[v] + (IF pc[v] = "done" THEN 1 ELSE 0)
    BY DEF DuplicatesHaveCauses
  <2>. QED
    BY <2>1, <2>3, StepKinds DEF TypeOK, Status
<1>. QED
  BY <1>1, <1>2, RouterTypes, PTL DEF Spec

\* The router implements Delivery.
THEOREM Refinement == Spec => ImplementsDelivery
<1>. USE DEF Status
<1>1. Init => Abstract!Init
  BY DEF Init, Abstract!Init
<1>2. TypeOK /\ [Next]_vars => [Abstract!Next]_(Abstract!vars)
  <2>. SUFFICES ASSUME TypeOK, [Next]_vars PROVE Abstract!Next \/ UNCHANGED Abstract!vars
    OBVIOUS
  <2>1. ASSUME NEW u \in Updates, Status(u) = "pending", pc' = [pc EXCEPT ![u] = "done"],
               taken' = [taken EXCEPT ![u] = @ + 1], UNCHANGED unheard
        PROVE  Abstract!Deliver(u)
    BY <2>1 DEF Abstract!Deliver, TypeOK
  <2>2. ASSUME NEW u \in Updates, NEW l \in Labels \ {"done", "dropped"},
               Status(u) = "pending", pc' = [pc EXCEPT ![u] = l],
               taken' = [taken EXCEPT ![u] = @ + 1], unheard' = [unheard EXCEPT ![u] = @ + 1]
        PROVE  Abstract!DeliverUnheard(u)
    BY <2>2 DEF Abstract!DeliverUnheard, TypeOK
  <2>3. ASSUME NEW u \in Updates, NEW l \in Labels \ {"done"},
               Status(u) = "pending", pc' = [pc EXCEPT ![u] = l], UNCHANGED <<taken, unheard>>
        PROVE  Abstract!GiveUp(u) \/ UNCHANGED Abstract!vars
    BY <2>3 DEF Abstract!GiveUp, Abstract!vars, TypeOK
  <2>4. CASE UNCHANGED <<pc, taken, unheard>>
    BY <2>4 DEF Abstract!vars
  <2>. QED
    BY <2>1, <2>2, <2>3, <2>4, StepKinds DEF Abstract!Next
<1>. QED
  BY <1>1, <1>2, RouterTypes, PTL DEF Spec, ImplementsDelivery, Abstract!Spec

-----------------------------------------------------------------------------
(***************************************************************************)
(* Nothing is dropped while nothing goes wrong, unless for one of the      *)
(* reasons that are counted.  Without mishaps a pod that lives is the only *)
(* one and stays, and a wake that is not misled makes the record its       *)
(* address: nobody who has it has another one to refresh, no attempt is    *)
(* refused, and the last one is answered by a session that is ready.       *)
(***************************************************************************)
\* Labels at which podIP is the pod's, and those where it has answered.
WithPod == {"set", "gateway1", "gateway", "post2", "recache", "attempt", "retry"}
Answered == {"post2", "recache", "attempt", "retry"}
BeforePod == {"cached", "post", "forget", "wake"}

OnePod == /\ 0 \notin Addresses
          /\ \A a \in Addresses : host[a] # "foreign" /\ (Lives(a) => pod = a)

Undisturbed(u) ==
    /\ pc[u] \in BeforePod \cup WithPod \cup {"done"}
    /\ pc[u] \in WithPod \cup {"post"} => podIP[u] \in Addresses
    /\ pc[u] \in WithPod => Lives(podIP[u]) /\ (record = podIP[u] \/ Answers(podIP[u]))
    /\ pc[u] \in Answered => Answers(podIP[u])
    /\ pc[u] = "post2" => probed[u] = podIP[u]
    /\ pc[u] \notin {"post2", "done"} => probed[u] = 0
    /\ pc[u] = "retry" => tries[u] + 1 < Attempts

\* Nothing of its own excuses a drop of u.
Innocent(u) == unheard[u] = 0 /\ u \notin misled \cup Unsigned

NoMishap == mishaps = 0 => OnePod /\ \A u \in Updates : Innocent(u) => Undisturbed(u)

\* The pods stay as they are, or get on, while nothing goes wrong.
PodsStay == /\ \A a \in Addresses : /\ Lives(a) => Lives(a)'
                                    /\ Lives(a) /\ record = a => record' = a
                                    /\ Answers(a) => Answers(a)'
            /\ OnePod'

\* A goroutine that does not move keeps what it relies on.
LEMMA OthersUndisturbed ==
    ASSUME NEW u \in Updates, Undisturbed(u), PodsStay,
           pc'[u] = pc[u], podIP'[u] = podIP[u], probed'[u] = probed[u], tries'[u] = tries[u]
    PROVE  Undisturbed(u)'
BY DEF Undisturbed, PodsStay, WithPod, Answered, BeforePod

\* A new pod is the only one, and one that is adopted stays it.
LEMMA PodsAdopted ==
    ASSUME TypeOK, OnePod, NEW a \in Addresses, CreatePod(a) \/ AdoptPod(a)
    PROVE  PodsStay /\ Lives(a)' /\ record' = a
<1>1. CASE CreatePod(a)
  <2>1. \A b \in Addresses : host[b] = "nobody"
    BY <1>1 DEF CreatePod, OnePod, Lives, TypeOK, Hosts
  <2>. QED
    BY <1>1, <2>1 DEF CreatePod, NewPod, PodsStay, OnePod, Lives, Answers, TypeOK
<1>2. CASE AdoptPod(a)
  BY <1>2 DEF AdoptPod, PodsStay, OnePod, Lives, Answers
<1>. QED
  BY <1>1, <1>2

\* Actions of the environment, without a mishap.
LEMMA WorldUndisturbed ==
    ASSUME TypeOK, OnePod, World \/ Quiet \/ UNCHANGED vars, mishaps = 0, mishaps' = 0
    PROVE  PodsStay /\ UNCHANGED <<locals, history>>
<1>1. ASSUME NEW a \in Addresses PROVE ~PodDies(a) /\ ~AddressReused(a)
  BY DEF PodDies, AddressReused, Mishap
<1>. SUFFICES PodsStay
  BY <1>1 DEF World, PodProgresses, PodRemoved, PodMissed, PodSynced, CacheExpires, Quiet, vars,
     locals, history, counts
<1>2. ASSUME NEW a \in Addresses, PodProgresses(a) PROVE PodsStay
  BY <1>2 DEF PodProgresses, PodsStay, OnePod, Lives, Answers, TypeOK
<1>3. CASE PodRemoved
  <2>1. \A a \in Addresses : ~Lives(a) /\ host[a] = "nobody"
    BY <1>3 DEF PodRemoved, OnePod, TypeOK, Hosts, Lives
  <2>. QED
    BY <1>3, <2>1 DEF PodRemoved, PodsStay, OnePod, Lives, Answers
<1>4. CASE PodMissed
  <2>1. CASE UNCHANGED <<host, pod>>
    <3>1. \A a \in Addresses : ~Lives(a)
      BY <1>4 DEF PodMissed, OnePod
    <3>. QED
      BY <2>1, <3>1 DEF PodsStay, OnePod, Lives, Answers
  <2>. QED
    BY <1>4, <2>1, PodsAdopted DEF PodMissed
<1>5. CASE PodSynced
  <2>1. pod \in Addresses
    BY <1>5 DEF PodSynced, TypeOK
  <2>. QED
    BY <1>5, <2>1, PodsAdopted DEF PodSynced
<1>6. CASE CacheExpires \/ Quiet \/ UNCHANGED vars
  BY <1>6 DEF CacheExpires, Quiet, vars, pods, PodsStay, OnePod, Lives, Answers
<1>. QED
  BY <1>1, <1>2, <1>3, <1>4, <1>5, <1>6 DEF World

\* A step of a goroutine leaves the pods alone, but a wake may start or adopt the only
\* one.
LEMMA ForwardKeepsPods ==
    ASSUME TypeOK, OnePod, NEW u \in Updates, ForwardUpdate(u)
    PROVE  PodsStay
<1>1. CASE UNCHANGED pods
  BY <1>1 DEF pods, PodsStay, OnePod, Lives, Answers
<1>2. CASE WakePod(u)
  BY <1>1, <1>2, PodsAdopted DEF WakePod
<1>. QED
  BY <1>1, <1>2 DEF ForwardUpdate, GetCachedPodIP, PostOK, PostUnheard, PostRetry, PostFatal,
     Forget, WakeFails, SetCache, ProbeOK, Refresh, CacheRefreshed, GatewayTimeout, Recache

\* The goroutine that moves without a mishap, a lost answer or a misled wake goes from
\* the cache, or a wake, to the pod's address, and from there to an end.
LEMMA ForwardUndisturbed ==
    ASSUME TypeOK, OnePod, NEW u \in Updates, Undisturbed(u), ForwardUpdate(u),
           mishaps = 0, mishaps' = 0, ~PostUnheard(u), u \notin misled' \cup Unsigned
    PROVE  Undisturbed(u)'
<1>. USE DEF Goto, WithPod, Answered, BeforePod
<1>1. /\ ~CacheRefreshed(u)
      /\ pc[u] \in {"forget2", "forget3", "refreshed1", "refreshed", "dropped"} => FALSE
  BY DEF Undisturbed, CacheRefreshed
<1>2. CASE GetCachedPodIP(u)
  BY <1>2 DEF GetCachedPodIP, Mishap, Undisturbed, TypeOK
<1>3. CASE PostOK(u)
  BY <1>3 DEF PostOK, Ends, Posting, Undisturbed, TypeOK
<1>4. CASE PostRetry(u) \/ PostFatal(u)
  <2>1. /\ pc[u] \in Posting /\ Target(u) = podIP[u] /\ podIP[u] \in Addresses
        /\ pc[u] \in {"post2", "attempt"} => Answers(podIP[u])
    BY <1>4 DEF PostRetry, PostFatal, Posting, Undisturbed, Target
  <2>2. CASE PostRetry(u)
    <3>1. host[podIP[u]] = "loading" /\ UNCHANGED <<host, podIP, tries>>
      BY <2>1, <2>2 DEF PostRetry, OnePod, pods, Accepts, Answers
    <3>2. /\ Lives(podIP[u])' /\ Answers(podIP[u])' /\ podIP'[u] = podIP[u]
          /\ podIP'[u] \in Addresses /\ probed'[u] = 0
      BY <2>1, <2>2, <3>1 DEF PostRetry, Answers, Lives, TypeOK
    <3>3. pc'[u] = OnRetry[pc[u]]
      BY <2>2 DEF PostRetry, TypeOK
    <3>4. CASE pc[u] \in {"post", "post2"}
      <4>1. pc'[u] \in {"gateway1", "gateway"}
        BY <3>3, <3>4 DEF OnRetry
      <4>. QED
        BY <3>1, <3>2, <4>1 DEF Undisturbed, Answers, Lives
    <3>5. CASE pc[u] = "attempt"
      <4>1. pc'[u] = "retry" /\ tries[u] # Attempts - 1
        BY <2>2, <3>1, <3>3, <3>5, <2>1 DEF PostRetry, OnRetry, Mishap
      <4>2. tries[u] \in 0..Attempts - 1
        BY DEF TypeOK
      <4>. QED
        BY <3>1, <3>2, <4>1, <4>2 DEF Undisturbed, Answers, Lives, Attempts
    <3>. QED
      BY <2>1, <3>4, <3>5 DEF Posting
  <2>3. CASE PostFatal(u)
    <3>1. pc[u] = "post" /\ pc'[u] = "forget" /\ UNCHANGED probed
      BY <2>1, <2>3 DEF PostFatal, Posting, Mishap, OnFatal, TypeOK
    <3>. QED
      BY <3>1 DEF Undisturbed
  <2>. QED
    BY <1>4, <2>2, <2>3
<1>5. CASE Forget(u)
  <2>1. pc'[u] = "wake" /\ probed'[u] = 0
    BY <1>1, <1>5 DEF Forget, TypeOK
  <2>. QED
    BY <2>1 DEF Undisturbed
<1>6. CASE WakePod(u)
  <2>1. PICK a \in Addresses :
           /\ \/ FastPath /\ a = record /\ UNCHANGED pods /\ PodAsRecorded
              \/ CreatePod(a) \/ AdoptPod(a)
           /\ podIP' = [podIP EXCEPT ![u] = a]
    BY <1>6 DEF WakePod, TypeOK
  <2>2. Lives(a)' /\ record' = a
    BY <2>1, PodsAdopted DEF PodAsRecorded, pods, Lives
  <2>3. pc'[u] = "set" /\ podIP'[u] = a /\ probed'[u] = 0
    BY <1>6, <2>1 DEF WakePod, TypeOK, Undisturbed
  <2>. QED
    BY <2>2, <2>3 DEF Undisturbed, Lives
<1>7. CASE WakeFails(u)
  BY <1>7 DEF WakeFails
<1>8. CASE SetCache(u)
  <2>1. /\ pc[u] = "set" /\ pc'[u] = "gateway"
        /\ UNCHANGED <<host, record, podIP, probed>>
    BY <1>8 DEF SetCache, TypeOK, pods
  <2>. QED
    BY <2>1 DEF Undisturbed, Lives, Answers
<1>9. CASE ProbeOK(u) \/ Refresh(u) \/ GatewayTimeout(u)
  <2>1. /\ pc[u] \in Waiting /\ Gateway(u) = podIP[u] /\ podIP[u] \in Addresses
        /\ Lives(podIP[u]) /\ (record = podIP[u] \/ Answers(podIP[u]))
    BY <1>9 DEF ProbeOK, Refresh, GatewayTimeout, Waiting, Gateway, Undisturbed
  <2>2. ProbeOK(u)
    BY <1>9, <2>1 DEF Refresh, GatewayTimeout, Lives
  <2>3. Answers(podIP[u]) /\ UNCHANGED <<host, record, tries>>
    BY <2>1, <2>2 DEF ProbeOK, pods
  <2>4. /\ podIP'[u] = podIP[u]
        /\ \/ pc'[u] = "post2" /\ probed'[u] = podIP[u]
           \/ pc'[u] = "recache" /\ probed'[u] = 0
    BY <2>1, <2>2 DEF ProbeOK, Waiting, TypeOK
  <2>. QED
    BY <2>1, <2>3, <2>4 DEF Undisturbed, Answers, Lives
<1>10. CASE Recache(u)
  <2>1. /\ pc[u] \in {"recache", "retry"} /\ UNCHANGED <<host, record>>
        /\ pc[u] = "retry" => tries[u] + 1 < Attempts
    BY <1>10 DEF Recache, Undisturbed, pods
  <2>2. /\ pc'[u] = "attempt" /\ UNCHANGED <<podIP, probed>>
    BY <1>10, <2>1 DEF Recache, TypeOK, Attempts
  <2>. QED
    BY <2>1, <2>2 DEF Undisturbed, Answers, Lives
<1>. QED
  BY <1>1, <1>2, <1>3, <1>4, <1>5, <1>6, <1>7, <1>8, <1>9, <1>10 DEF ForwardUpdate

\* A goroutine's step leaves the others' state alone.
LEMMA OneMoves ==
    ASSUME TypeOK, NEW u \in Updates, NEW v \in Updates \ {u}, ForwardUpdate(u)
    PROVE  /\ pc'[v] = pc[v] /\ podIP'[v] = podIP[v] /\ probed'[v] = probed[v]
           /\ tries'[v] = tries[v] /\ (Innocent(v)' => Innocent(v))
BY DEF ForwardUpdate, GetCachedPodIP, PostOK, PostUnheard, PostRetry, PostFatal, Forget,
   WakePod, WakeFails, SetCache, ProbeOK, Refresh, CacheRefreshed, GatewayTimeout, Recache, Ends,
   Goto, TypeOK, history, counts, Innocent

\* An update that was heard, signed and not misled is dropped only after a mishap.
THEOREM Drops == Spec => []DropsHaveCauses
<1>1. Init => NoMishap
  <2>. SUFFICES ASSUME Init PROVE NoMishap
    OBVIOUS
  <2>1. OnePod
    BY DEF Init, OnePod
  <2>2. ASSUME NEW u \in Updates PROVE Undisturbed(u)
    BY DEF Init, Undisturbed, BeforePod, WithPod, Answered
  <2>. QED
    BY <2>1, <2>2 DEF NoMishap
<1>2. TypeOK /\ NoMishap /\ [Next]_vars => NoMishap'
  <2>. SUFFICES ASSUME TypeOK, NoMishap, [Next]_vars, mishaps' = 0
                PROVE  OnePod' /\ \A u \in Updates : Innocent(u)' => Undisturbed(u)'
    BY DEF NoMishap
  <2>1. mishaps = 0
    <3>1. mishaps' = mishaps \/ mishaps' = mishaps + 1
      BY DEF Next, ForwardUpdate, GetCachedPodIP, PostOK, PostUnheard, PostRetry, PostFatal,
         Forget, WakePod, WakeFails, SetCache, ProbeOK, Refresh, CacheRefreshed, GatewayTimeout,
         Recache, Dropped, World, PodProgresses, PodDies, AddressReused, PodRemoved, PodMissed,
         PodSynced, CacheExpires, Quiet, vars, Stores, Mishap
    <3>. QED
      BY <3>1 DEF TypeOK
  <2>2. OnePod /\ \A u \in Updates : Innocent(u) => Undisturbed(u)
    BY <2>1 DEF NoMishap
  <2>3. CASE World \/ Quiet \/ UNCHANGED vars
    <3>1. PodsStay /\ UNCHANGED <<locals, history>>
      BY <2>1, <2>2, <2>3, WorldUndisturbed
    <3>. QED
      BY <2>2, <3>1, OthersUndisturbed DEF locals, history, counts, Innocent, PodsStay
  <2>4. ASSUME NEW u \in Updates, ForwardUpdate(u)
        PROVE  OnePod' /\ \A v \in Updates : Innocent(v)' => Undisturbed(v)'
    <3>1. PodsStay
      BY <2>2, <2>4, ForwardKeepsPods
    <3>2. ASSUME Innocent(u)' PROVE Undisturbed(u)'
      <4>1. Innocent(u) /\ ~PostUnheard(u) /\ u \notin misled' \cup Unsigned
        BY <2>4, <3>2 DEF ForwardUpdate, GetCachedPodIP, PostOK, PostUnheard, PostRetry,
           PostFatal, Forget, WakePod, WakeFails, SetCache, ProbeOK, Refresh, CacheRefreshed,
           GatewayTimeout, Recache, TypeOK, history, counts, Innocent
      <4>. QED
        BY <2>1, <2>2, <2>4, <4>1, ForwardUndisturbed
    <3>3. ASSUME NEW v \in Updates \ {u}, Innocent(v)' PROVE Undisturbed(v)'
      <4>1. /\ pc'[v] = pc[v] /\ podIP'[v] = podIP[v] /\ probed'[v] = probed[v]
            /\ tries'[v] = tries[v] /\ Innocent(v)
        BY <2>4, <3>3, OneMoves
      <4>. QED
        BY <2>2, <3>1, <4>1, OthersUndisturbed
    <3>. QED
      BY <3>1, <3>2, <3>3 DEF PodsStay
  <2>5. ASSUME NEW u \in Updates PROVE ~Dropped(u)
    BY <2>1 DEF Dropped, Mishap
  <2>. QED
    BY <2>3, <2>4, <2>5 DEF Next
<1>3. TypeOK /\ NoMishap => DropsHaveCauses
  BY DEF TypeOK, NoMishap, Innocent, Undisturbed, BeforePod, WithPod, DropsHaveCauses
<1>. QED
  BY <1>1, <1>2, <1>3, RouterTypes, PTL DEF Spec

-----------------------------------------------------------------------------
(***************************************************************************)
(* How often a pod can take one update: once before the attempts, on the   *)
(* cached address or on the one the gateway answered at, and once for each *)
(* attempt.                                                                *)
(***************************************************************************)
\* Labels before any post was taken, and those between the first posts and the
\* attempts.
NotTaken == {"cached", "post", "gateway1", "refreshed1", "post2"}
OnceTaken == {"forget", "wake", "set", "forget2", "gateway", "refreshed", "recache"}

Copies(u) == /\ pc[u] \in NotTaken => taken[u] = 0
             /\ pc[u] \in OnceTaken => taken[u] <= 1
             /\ pc[u] = "attempt" => taken[u] <= 1 + tries[u]
             /\ pc[u] \in {"forget3", "retry"} => taken[u] <= 2 + tries[u]
             /\ taken[u] <= Attempts + 1

\* A post is taken once more, and no post follows that the bound does not count.
LEMMA PostCopies ==
    ASSUME TypeOK, NEW u \in Updates, Copies(u),
           PostOK(u) \/ PostUnheard(u) \/ PostRetry(u) \/ PostFatal(u)
    PROVE  Copies(u)'
<1>. USE DEF NotTaken, OnceTaken
<1>1. /\ pc[u] \in {"post", "post2", "attempt"} /\ tries[u] \in 0..3 /\ taken[u] \in Nat
  BY DEF PostOK, PostUnheard, PostRetry, PostFatal, Posting, TypeOK, Attempts
<1>2. taken[u] <= 1 + tries[u] /\ (pc[u] # "attempt" => taken[u] = 0)
  BY <1>1 DEF Copies
<1>3. CASE PostOK(u)
  <2>1. pc'[u] = "done" /\ taken'[u] = taken[u] + 1
    BY <1>3 DEF PostOK, Ends, Goto, TypeOK
  <2>. QED
    BY <1>1, <1>2, <2>1 DEF Copies, Attempts
<1>4. CASE PostUnheard(u)
  <2>1. pc'[u] = OnFatal[pc[u]] /\ taken'[u] = taken[u] + 1 /\ tries'[u] = tries[u]
    BY <1>4 DEF PostUnheard, Ends, Goto, TypeOK
  <2>2. IF pc[u] = "attempt" THEN pc'[u] = "forget3" ELSE pc'[u] \in {"forget", "forget2"}
    BY <1>1, <2>1 DEF OnFatal
  <2>. QED
    BY <1>1, <1>2, <2>1, <2>2 DEF Copies, Attempts
<1>5. CASE PostRetry(u) \/ PostFatal(u)
  <2>1. /\ taken'[u] = taken[u] /\ tries'[u] = tries[u]
        /\ pc'[u] \in {OnRetry[pc[u]], OnFatal[pc[u]]}
    BY <1>5 DEF PostRetry, PostFatal, Ends, Goto, TypeOK, history, counts
  <2>2. IF pc[u] = "attempt" THEN pc'[u] \in {"forget3", "retry"}
                             ELSE pc'[u] \in {"forget", "forget2", "gateway1", "gateway"}
    BY <1>1, <2>1 DEF OnFatal, OnRetry
  <2>. QED
    BY <1>1, <1>2, <2>1, <2>2 DEF Copies, Attempts
<1>. QED
  BY <1>3, <1>4, <1>5

\* Between posts the bound is kept, and an attempt that is used up pays for the next.
LEMMA OtherCopies ==
    ASSUME TypeOK, NEW u \in Updates, Copies(u),
           \/ GetCachedPodIP(u) \/ Forget(u) \/ WakePod(u) \/ WakeFails(u) \/ SetCache(u) \/ ProbeOK(u)
           \/ Refresh(u) \/ CacheRefreshed(u) \/ GatewayTimeout(u) \/ Recache(u) \/ Dropped(u)
    PROVE  Copies(u)'
<1>. USE DEF NotTaken, OnceTaken
<1>1. taken'[u] = taken[u] /\ taken[u] \in Nat /\ tries[u] \in Nat
  BY DEF GetCachedPodIP, Forget, WakePod, WakeFails, SetCache, ProbeOK, Refresh, CacheRefreshed,
         GatewayTimeout, Recache, Dropped, history, counts, TypeOK
<1>2. CASE Ends(u, "dropped")
  BY <1>1, <1>2 DEF Ends, Goto, TypeOK, Copies
<1>3. CASE Recache(u) /\ ~Ends(u, "dropped")
  <2>1. /\ pc'[u] = "attempt" /\ pc[u] \in {"recache", "retry"}
        /\ tries'[u] = IF pc[u] = "retry" THEN tries[u] + 1 ELSE tries[u]
    BY <1>3 DEF Recache, Goto, TypeOK
  <2>. QED
    BY <1>1, <2>1 DEF Copies
<1>4. CASE ~Recache(u) /\ ~Ends(u, "dropped")
  <2>1. tries'[u] = tries[u]
    BY <1>4 DEF GetCachedPodIP, Forget, WakePod, WakeFails, SetCache, ProbeOK, Refresh,
       CacheRefreshed, GatewayTimeout, Dropped
  <2>2. CASE GetCachedPodIP(u) \/ Forget(u)
    BY <1>1, <2>1, <2>2 DEF GetCachedPodIP, Forget, Goto, TypeOK, Copies
  <2>3. CASE WakePod(u) \/ SetCache(u) \/ CacheRefreshed(u)
    BY <1>1, <2>1, <2>3 DEF WakePod, SetCache, CacheRefreshed, Goto, TypeOK, Copies
  <2>4. CASE ProbeOK(u) \/ Refresh(u)
    BY <1>1, <2>1, <2>4 DEF ProbeOK, Refresh, Waiting, Goto, TypeOK, Copies
  <2>. QED
    BY <1>4, <2>2, <2>3, <2>4 DEF Dropped, GatewayTimeout, WakeFails
<1>. QED
  BY <1>2, <1>3, <1>4

\* Every step keeps the bound of every update.
LEMMA NextCopies ==
    ASSUME TypeOK, \A u \in Updates : Copies(u), [Next]_vars
    PROVE  \A u \in Updates : Copies(u)'
<1>1. ASSUME NEW u \in Updates, ForwardUpdate(u) \/ Dropped(u)
      PROVE  \A v \in Updates : Copies(v)'
  <2>1. Copies(u)'
    BY <1>1, PostCopies, OtherCopies DEF ForwardUpdate
  <2>2. \A v \in Updates \ {u} : pc'[v] = pc[v] /\ tries'[v] = tries[v] /\ taken'[v] = taken[v]
    BY <1>1 DEF ForwardUpdate, GetCachedPodIP, PostOK, PostUnheard, PostRetry, PostFatal, Forget,
       WakePod, WakeFails, SetCache, ProbeOK, Refresh, CacheRefreshed, GatewayTimeout, Recache, Dropped,
       Ends, Goto, TypeOK, history, counts
  <2>3. \A v \in Updates \ {u} : Copies(v)'
    BY <2>2 DEF Copies
  <2>. QED
    BY <2>1, <2>3
<1>2. CASE World \/ Quiet \/ UNCHANGED vars
  <2>1. UNCHANGED <<pc, tries, taken>>
    BY <1>2 DEF World, PodProgresses, PodDies, AddressReused, PodRemoved, PodMissed, PodSynced,
     CacheExpires,
                Quiet, vars, locals, history, counts
  <2>. QED
    BY <2>1 DEF Copies
<1>. QED
  BY <1>1, <1>2 DEF Next

\* Lost answers cost at most one copy per attempt and one more, whatever else happens to
\* cache, pods and addresses (main.go:194-263).
THEOREM BoundedCopies == Spec => []AtMostFiveCopies
<1>. DEFINE Bounded == \A u \in Updates : Copies(u)
<1>1. Init => Bounded
  <2>. SUFFICES ASSUME Init, NEW u \in Updates PROVE Copies(u)
    OBVIOUS
  <2>1. pc[u] = "cached" /\ taken[u] = 0
    BY DEF Init
  <2>. QED
    BY <2>1 DEF Copies, NotTaken, OnceTaken, Attempts
<1>2. TypeOK /\ Bounded /\ [Next]_vars => Bounded'
  BY NextCopies
<1>3. Bounded => AtMostFiveCopies
  BY DEF Copies, AtMostFiveCopies
<1>. QED
  BY <1>1, <1>2, <1>3, RouterTypes, PTL DEF Spec
=============================================================================
