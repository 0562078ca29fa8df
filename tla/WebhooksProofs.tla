--------------------------- MODULE WebhooksProofs ---------------------------
(***************************************************************************)
(* Which bots have a webhook that leads to the tenant, for any bots, any   *)
(* number of requests at once, and any number of requests and faults.      *)
(***************************************************************************)
EXTENDS Webhooks, TLAPS

\* A webhook that is not the tenant's bot's has its reason, or DELETE is about to
\* remove it.
Strays == \A b \in Bots : hook[b] # "none"
            => \/ item.bot = b \/ causes[b] # {}
               \/ \E q \in Requests : at[q] = "d_hook" /\ bot[q] = b

\* The tenant's bot has a webhook, or a reason to have none, or a request is about to
\* register one.
Hooks == item.bot # NoBot
            => \/ hook[item.bot] # "none" \/ causes[item.bot] \cap {"late", "failed"} # {}
               \/ \E q \in Requests : at[q] = "register" /\ bot[q] = item.bot

\* What the wake and the deletions write has no bot where there was none.
NoItemNoBot == ~item.there => item.bot = NoBot

Inv == TypeOK /\ Strays /\ Hooks /\ NoItemNoBot

-----------------------------------------------------------------------------
\* A request that moves on, and the reasons it adds, stay typed.
LEMMA GotoType ==
    ASSUME TypeOK, NEW q \in Requests, NEW b \in Tokens,
           NEW label \in {"idle", "register", "d_pod", "d_item", "d_hook"},
           Goto(q, label, b), label \in {"register", "d_hook"} => b # NoBot
    PROVE  /\ at' \in [Requests -> {"idle", "register", "d_pod", "d_item", "d_hook"}]
           /\ bot' \in [Requests -> Tokens]
           /\ \A p \in Requests : at'[p] \in {"register", "d_hook"} => bot'[p] # NoBot
BY DEF TypeOK, Goto

\* A reason that is added is one of the causes.
LEMMA BlameType ==
    ASSUME TypeOK, NEW cause \in Causes, NEW b, Blame(cause, b)
    PROVE  causes' \in [Bots -> SUBSET Causes]
BY DEF TypeOK, Blame

\* Blame adds a reason to one bot and leaves the others theirs.
LEMMA BlameAdds ==
    ASSUME TypeOK, NEW cause, NEW b, Blame(cause, b)
    PROVE  /\ \A x \in Bots : causes[x] \subseteq causes'[x]
           /\ b \in Bots => cause \in causes'[b]
BY DEF TypeOK, Blame

\* Tokens are bots and the empty one.
LEMMA TokenSplit == NoBot \in Tokens /\ \A b \in Tokens : b # NoBot => b \in Bots
BY DEF Tokens

-----------------------------------------------------------------------------
\* Every step keeps the types.
LEMMA TypeStep ==
    ASSUME Inv, [Next]_vars
    PROVE  TypeOK'
<1>. USE BoundsAssumption, NoBotIsNone
<1>1. TypeOK
  BY DEF Inv
<1>2. ASSUME NEW q \in Requests, CreateTenant(q) \/ UpdateTenant(q) \/ StartDelete(q)
      PROVE  TypeOK'
  <2>1. item' \in Item
    BY <1>1, <1>2 DEF CreateTenant, UpdateTenant, StartDelete, TypeOK, Item, NoItem
  <2>2. /\ at' \in [Requests -> {"idle", "register", "d_pod", "d_item", "d_hook"}]
        /\ bot' \in [Requests -> Tokens]
        /\ \A p \in Requests : at'[p] \in {"register", "d_hook"} => bot'[p] # NoBot
    <3>1. CASE CreateTenant(q) \/ UpdateTenant(q)
      BY <1>1, <3>1, GotoType, TokenSplit DEF CreateTenant, UpdateTenant, ThenTell
    <3>2. CASE StartDelete(q)
      BY <1>1, <3>2, GotoType DEF StartDelete, TypeOK, Item
    <3>. QED
      BY <1>2, <3>1, <3>2
  <2>3. causes' \in [Bots -> SUBSET Causes]
    BY <1>1, <1>2, BlameType DEF CreateTenant, UpdateTenant, StartDelete, TypeOK, Causes
  <2>4. requests' \in 0..MaxRequests /\ faults' \in 0..MaxFaults
    <3>1. Arrives(q)
      BY <1>2 DEF CreateTenant, UpdateTenant, StartDelete
    <3>. QED
      BY <1>1, <3>1 DEF Arrives, TypeOK
  <2>. QED
    BY <1>1, <1>2, <2>1, <2>2, <2>3, <2>4
       DEF CreateTenant, UpdateTenant, StartDelete, TypeOK, waking
<1>3. ASSUME NEW q \in Requests, Serve(q) \/ CallFails(q)
      PROVE  TypeOK'
  <2>. USE <1>3 DEF Serve, RegisterWebhook, DeletePod, DeleteItem, DeleteWebhook, CallFails
  <2>1. item' \in Item /\ pod' \in Pod
    <3>1. NoItem \in Item /\ NoPod \in Pod
      BY TokenSplit DEF Item, NoItem, Pod, NoPod
    <3>. QED
      BY <1>1, <3>1 DEF TypeOK
  <2>2. /\ at' \in [Requests -> {"idle", "register", "d_pod", "d_item", "d_hook"}]
        /\ bot' \in [Requests -> Tokens]
        /\ \A p \in Requests : at'[p] \in {"register", "d_hook"} => bot'[p] # NoBot
    <3>1. bot[q] \in Tokens
      BY <1>1 DEF TypeOK
    <3>. QED
      BY <1>1, <3>1, GotoType, TokenSplit DEF ThenTell
  <2>3. causes' \in [Bots -> SUBSET Causes]
    BY <1>1, BlameType DEF TypeOK, Causes
  <2>4. hook' \in [Bots -> {"none", "plain", "secret"}]
    BY <1>1 DEF TypeOK
  <2>5. requests' \in 0..MaxRequests /\ faults' \in 0..MaxFaults
    BY <1>1 DEF TypeOK, bounds, Fault
  <2>. QED
    BY <1>1, <2>1, <2>2, <2>3, <2>4, <2>5 DEF TypeOK, waking
<1>4. CASE ReportActivity \/ WakeStep \/ AgentStarts \/ StopPod
  <2>. USE <1>4 DEF ReportActivity, WakeStep, ReadItem, MarkProvisioning, CreatePod, EndWake, AgentStarts, StopPod
  <2>1. item' \in Item /\ seen' \in Item
    BY <1>1, TokenSplit DEF TypeOK, Item, NoItem, waking
  <2>2. pod' \in Pod
    BY <1>1, TokenSplit DEF TypeOK, Item, Pod, NoPod
  <2>3. hook' \in [Bots -> {"none", "plain", "secret"}]
    BY <1>1 DEF TypeOK
  <2>4. causes' \in [Bots -> SUBSET Causes]
    BY <1>1, BlameType DEF TypeOK, Causes
  <2>5. wake' \in {"idle", "mark", "create", "wait"}
    BY <1>1 DEF TypeOK, waking
  <2>. QED
    BY <1>1, <2>1, <2>2, <2>3, <2>4, <2>5 DEF TypeOK, serving, bounds
<1>5. CASE UNCHANGED vars
  BY <1>1, <1>5 DEF TypeOK, vars, serving, waking, bounds
<1>. QED
  BY <1>2, <1>3, <1>4, <1>5 DEF Next

\* The wake and its pod leave the item's bot alone, and requests too.
LEMMA WakeKeepsBot ==
    ASSUME Inv, ReportActivity \/ WakeStep \/ AgentStarts \/ StopPod
    PROVE  /\ item'.bot = item.bot /\ UNCHANGED serving
           /\ NoItemNoBot'
           /\ \A b \in Bots : causes[b] \subseteq causes'[b]
           /\ \/ UNCHANGED <<hook, causes>>
              \/ \E b \in Bots : /\ hook' = [hook EXCEPT ![b] = "secret"]
                                 /\ item.bot = b \/ causes'[b] # {}
<1>. USE DEF ReportActivity, WakeStep, ReadItem, MarkProvisioning, CreatePod, EndWake, StopPod, Inv
<1>1. CASE ReportActivity \/ WakeStep \/ StopPod
  <2>1. item'.bot = item.bot /\ NoItemNoBot' /\ UNCHANGED <<serving, hook, causes>>
    BY <1>1 DEF TypeOK, Item, NoItem, NoItemNoBot
  <2>. QED
    BY <2>1
<1>2. CASE AgentStarts
  <2>1. pod.bot \in Bots /\ UNCHANGED <<item, serving>>
    BY <1>2, TokenSplit DEF AgentStarts, TypeOK, Pod
  <2>2. /\ \A b \in Bots : causes[b] \subseteq causes'[b]
        /\ item.bot = pod.bot \/ causes'[pod.bot] # {}
    BY <1>2, <2>1, BlameAdds DEF AgentStarts
  <2>. QED
    BY <1>2, <2>1, <2>2 DEF AgentStarts, NoItemNoBot
<1>. QED
  BY <1>1, <1>2

-----------------------------------------------------------------------------
\* Requests keep the reasons that were there, and give one to every webhook that
\* loses its bot and to every bot that loses its webhook.
LEMMA RequestStep ==
    ASSUME Inv, NEW q \in Requests,
           CreateTenant(q) \/ UpdateTenant(q) \/ StartDelete(q) \/ Serve(q) \/ CallFails(q)
    PROVE  Strays' /\ Hooks' /\ NoItemNoBot'
<1>. USE NoBotIsNone
<1>1. /\ TypeOK /\ Strays /\ Hooks /\ NoItemNoBot
      /\ item.bot \in Tokens /\ bot[q] \in Tokens /\ item \in Item
  BY DEF Inv, TypeOK, Item
<1>2. CASE CreateTenant(q)
  <2>1. PICK b \in Tokens : /\ item' = [NoItem EXCEPT !.there = TRUE, !.bot = b, !.placed = TRUE]
                            /\ ThenTell(q, "register", b)
    BY <1>2 DEF CreateTenant
  <2>2. /\ item'.bot = b /\ item'.there /\ item.bot = NoBot /\ at[q] = "idle"
        /\ UNCHANGED <<hook, causes>>
    BY <1>1, <1>2, <2>1 DEF CreateTenant, NoItem, NoItemNoBot, Arrives
  <2>3. /\ \A p \in Requests \ {q} : at'[p] = at[p] /\ bot'[p] = bot[p]
        /\ b # NoBot => at'[q] = "register" /\ bot'[q] = b
    BY <1>1, <2>1 DEF ThenTell, Goto, TypeOK
  <2>. QED
    BY <1>1, <2>2, <2>3 DEF Strays, Hooks, NoItemNoBot
<1>3. CASE UpdateTenant(q)
  <2>1. PICK b \in Tokens : /\ item' = [item EXCEPT !.bot = b]
                            /\ ThenTell(q, "register", b)
                            /\ IF b = item.bot THEN UNCHANGED causes
                                               ELSE Blame("replaced", item.bot)
    BY <1>3 DEF UpdateTenant
  <2>2. /\ item'.bot = b /\ item'.there /\ at[q] = "idle" /\ UNCHANGED hook
    BY <1>1, <1>3, <2>1 DEF UpdateTenant, Item, Arrives
  <2>3. /\ \A p \in Requests \ {q} : at'[p] = at[p] /\ bot'[p] = bot[p]
        /\ b # NoBot => at'[q] = "register" /\ bot'[q] = b
    BY <1>1, <2>1 DEF ThenTell, Goto, TypeOK
  <2>4. /\ \A x \in Bots : causes[x] \subseteq causes'[x]
        /\ b # item.bot /\ item.bot \in Bots => causes'[item.bot] # {}
    BY <1>1, <2>1, BlameAdds
  <2>5. Strays'
    <3>1. SUFFICES ASSUME NEW x \in Bots, hook'[x] # "none"
                   PROVE  \/ item'.bot = x \/ causes'[x] # {}
                          \/ \E p \in Requests : at'[p] = "d_hook" /\ bot'[p] = x
      BY DEF Strays
    <3>2. \/ item.bot = x \/ causes[x] # {}
          \/ \E p \in Requests : at[p] = "d_hook" /\ bot[p] = x
      BY <1>1, <2>2, <3>1 DEF Strays
    <3>. QED
      BY <2>2, <2>3, <2>4, <3>2
  <2>. QED
    BY <2>2, <2>3, <2>5 DEF Hooks, NoItemNoBot
<1>4. CASE StartDelete(q)
  <2>1. UNCHANGED <<item, hook, causes>> /\ at[q] = "idle"
    BY <1>4 DEF StartDelete, Arrives
  <2>2. \A p \in Requests \ {q} : at'[p] = at[p] /\ bot'[p] = bot[p]
    BY <1>1, <1>4 DEF StartDelete, Goto, TypeOK
  <2>. QED
    BY <1>1, <2>1, <2>2 DEF Strays, Hooks, NoItemNoBot
<1>5. CASE RegisterWebhook(q)
  <2>1. /\ UNCHANGED item /\ at[q] = "register" /\ bot[q] \in Bots
        /\ hook' = [hook EXCEPT ![bot[q]] = "plain"]
    BY <1>1, <1>5, TokenSplit DEF RegisterWebhook, TypeOK
  <2>2. \A p \in Requests \ {q} : at'[p] = at[p] /\ bot'[p] = bot[p]
    BY <1>1, <1>5 DEF RegisterWebhook, Goto, TypeOK
  <2>3. /\ \A x \in Bots : causes[x] \subseteq causes'[x]
        /\ item.bot = bot[q] \/ causes'[bot[q]] # {}
    BY <1>1, <1>5, <2>1, BlameAdds DEF RegisterWebhook
  <2>4. hook'[bot[q]] = "plain" /\ \A x \in Bots \ {bot[q]} : hook'[x] = hook[x]
    BY <1>1, <2>1 DEF TypeOK
  <2>. QED
    BY <1>1, <2>1, <2>2, <2>3, <2>4, TokenSplit DEF Strays, Hooks, NoItemNoBot
<1>6. CASE DeletePod(q)
  <2>1. UNCHANGED <<item, hook, causes>> /\ at[q] = "d_pod"
    BY <1>6 DEF DeletePod
  <2>2. \A p \in Requests \ {q} : at'[p] = at[p] /\ bot'[p] = bot[p]
    BY <1>1, <1>6 DEF DeletePod, Goto, TypeOK
  <2>. QED
    BY <1>1, <2>1, <2>2 DEF Strays, Hooks, NoItemNoBot
<1>7. CASE DeleteItem(q)
  <2>1. UNCHANGED hook /\ at[q] = "d_item" /\ item' = NoItem
    BY <1>7 DEF DeleteItem
  <2>2. /\ \A p \in Requests \ {q} : at'[p] = at[p] /\ bot'[p] = bot[p]
        /\ bot[q] # NoBot => at'[q] = "d_hook" /\ bot'[q] = bot[q]
    BY <1>1, <1>7 DEF DeleteItem, ThenTell, Goto, TypeOK
  <2>3. /\ \A x \in Bots : causes[x] \subseteq causes'[x]
        /\ item.bot \in Bots => item.bot = bot[q] \/ causes'[item.bot] # {}
    BY <1>1, <1>7, BlameAdds DEF DeleteItem
  <2>4. Strays'
    <3>1. SUFFICES ASSUME NEW x \in Bots, hook'[x] # "none"
                   PROVE  \/ item'.bot = x \/ causes'[x] # {}
                          \/ \E p \in Requests : at'[p] = "d_hook" /\ bot'[p] = x
      BY DEF Strays
    <3>2. \/ item.bot = x \/ causes[x] # {}
          \/ \E p \in Requests : at[p] = "d_hook" /\ bot[p] = x
      BY <1>1, <2>1, <3>1 DEF Strays
    <3>. QED
      BY <2>1, <2>2, <2>3, <3>2
  <2>. QED
    BY <2>1, <2>4 DEF Hooks, NoItemNoBot, NoItem
<1>8. CASE DeleteWebhook(q)
  <2>1. /\ UNCHANGED item /\ at[q] = "d_hook" /\ bot[q] \in Bots
        /\ hook' = [hook EXCEPT ![bot[q]] = "none"]
    BY <1>1, <1>8, TokenSplit DEF DeleteWebhook, TypeOK
  <2>2. \A p \in Requests \ {q} : at'[p] = at[p] /\ bot'[p] = bot[p]
    BY <1>1, <1>8 DEF DeleteWebhook, Goto, TypeOK
  <2>3. /\ \A x \in Bots : causes[x] \subseteq causes'[x]
        /\ item.bot = bot[q] => "late" \in causes'[bot[q]]
    BY <1>1, <1>8, <2>1, BlameAdds DEF DeleteWebhook
  <2>4. hook'[bot[q]] = "none" /\ \A x \in Bots \ {bot[q]} : hook'[x] = hook[x]
    BY <1>1, <2>1 DEF TypeOK
  <2>. QED
    BY <1>1, <2>1, <2>2, <2>3, <2>4, TokenSplit DEF Strays, Hooks, NoItemNoBot
<1>9. CASE CallFails(q)
  <2>1. UNCHANGED <<item, hook>>
    BY <1>9 DEF CallFails
  <2>2. \A p \in Requests \ {q} : at'[p] = at[p] /\ bot'[p] = bot[p]
    BY <1>1, <1>9 DEF CallFails, Goto, TypeOK
  <2>3. /\ \A x \in Bots : causes[x] \subseteq causes'[x]
        /\ at[q] \in {"register", "d_hook"} => "failed" \in causes'[bot[q]]
    BY <1>1, <1>9, BlameAdds, TokenSplit DEF CallFails, TypeOK
  <2>. QED
    BY <1>1, <2>1, <2>2, <2>3, TokenSplit DEF Strays, Hooks, NoItemNoBot
<1>. QED
  BY <1>2, <1>3, <1>4, <1>5, <1>6, <1>7, <1>8, <1>9 DEF Serve

\* The invariant is inductive.
LEMMA Inductive ==
    ASSUME Inv, [Next]_vars
    PROVE  Inv'
<1>1. TypeOK'
  BY TypeStep
<1>2. ASSUME NEW q \in Requests,
             CreateTenant(q) \/ UpdateTenant(q) \/ StartDelete(q) \/ Serve(q) \/ CallFails(q)
      PROVE  Strays' /\ Hooks' /\ NoItemNoBot'
  BY <1>2, RequestStep
<1>3. CASE ReportActivity \/ WakeStep \/ AgentStarts \/ StopPod
  <2>1. /\ item'.bot = item.bot /\ UNCHANGED serving
        /\ NoItemNoBot'
        /\ \A b \in Bots : causes[b] \subseteq causes'[b]
        /\ \/ UNCHANGED <<hook, causes>>
           \/ \E b \in Bots : /\ hook' = [hook EXCEPT ![b] = "secret"]
                              /\ item.bot = b \/ causes'[b] # {}
    BY <1>3, WakeKeepsBot
  <2>2. \A b \in Bots : \/ hook'[b] = hook[b]
                        \/ hook'[b] = "secret" /\ (item.bot = b \/ causes'[b] # {})
    BY <2>1 DEF Inv, TypeOK
  <2>3. item.bot \in Tokens /\ UNCHANGED <<at, bot>>
    BY <2>1 DEF Inv, TypeOK, Item, serving
  <2>4. Strays'
    BY <2>1, <2>2, <2>3 DEF Inv, Strays
  <2>5. Hooks'
    BY <2>1, <2>2, <2>3, TokenSplit DEF Inv, Hooks
  <2>. QED
    BY <1>1, <2>1, <2>4, <2>5 DEF Inv
<1>4. CASE UNCHANGED vars
  <2>1. UNCHANGED <<item, hook, at, bot, causes>>
    BY <1>4 DEF vars, serving
  <2>. QED
    BY <1>1, <2>1 DEF Inv, Strays, Hooks, NoItemNoBot
<1>. QED
  BY <1>1, <1>2, <1>3, <1>4 DEF Inv, Next

\* The invariant holds in every state of the system.
LEMMA Invariant == Spec => []Inv
<1>1. Init => Inv
  BY BoundsAssumption
     DEF Init, Inv, TypeOK, Strays, Hooks, NoItemNoBot, Item, NoItem, Pod, NoPod, Tokens
<1>. QED
  BY <1>1, Inductive, PTL DEF Spec

-----------------------------------------------------------------------------
\* No webhook leads to the tenant but its own bot's, apart from those left by a
\* replaced or overtaken bot, a late registration or a failed call.
THEOREM NoStray == Spec => []StrayHasCause
<1>1. Inv => StrayHasCause
  BY DEF Inv, Strays, StrayHasCause, Quiet
<1>. QED
  BY <1>1, Invariant, PTL

\* The tenant's bot has its webhook, unless the call to Telegram failed or an old
\* DELETE removed it.
THEOREM Hooked == Spec => []BotIsHooked
<1>1. Inv => BotIsHooked
  BY DEF Inv, Hooks, BotIsHooked, Quiet
<1>. QED
  BY <1>1, Invariant, PTL

\* The variables keep their types.
THEOREM WebhookTypes == Spec => []TypeOK
<1>1. Inv => TypeOK
  BY DEF Inv
<1>. QED
  BY <1>1, Invariant, PTL
=============================================================================
