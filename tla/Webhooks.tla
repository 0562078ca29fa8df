------------------------------ MODULE Webhooks ------------------------------
(***************************************************************************)
(* A tenant's bots at Telegram: which of them have a webhook that leads to *)
(* the tenant (internal/telegram/webhook.go), as POST, PATCH and DELETE of *)
(* the tenant (internal/api/handler.go) and the agent of each new pod      *)
(* leave it.  A request is a few calls that others come between, and a     *)
(* failed call to Telegram is only logged.                                 *)
(***************************************************************************)
EXTENDS Integers

CONSTANTS Bots,         \* bot tokens the tenant is given
          NoBot,        \* the empty token
          Requests,     \* goroutines that serve POST, PATCH and DELETE
          MaxRequests,  \* bound: requests that arrive
          MaxFaults     \* bound: calls that fail, and crashes

ASSUME NoBotIsNone == NoBot \notin Bots
ASSUME BoundsAssumption == MaxRequests \in Nat /\ MaxFaults \in Nat

VARIABLES item,     \* the DynamoDB item: is there one, of which bot, does it name a
                    \* pod, and a namespace (which only its creation writes)
          pod,      \* the tenant's pod, and the bot in its environment
          hook,     \* the webhook of each bot: with or without the tenant's secret
          at, bot,  \* where each request is, and the bot it has in hand
          wake,     \* where the wake that has the lock is
          seen,     \* the item it read
          causes,   \* history: why a bot's webhook may differ from the item
          requests, faults

bounds == <<requests, faults>>
serving == <<at, bot>>
waking == <<wake, seen>>
vars == <<item, pod, hook, serving, waking, causes, bounds>>

Tokens == Bots \cup {NoBot}
Item == [there : BOOLEAN, bot : Tokens, pod : BOOLEAN, placed : BOOLEAN]
NoItem == [there |-> FALSE, bot |-> NoBot, pod |-> FALSE, placed |-> FALSE]
Pod == [phase : {"none", "starting", "up"}, bot : Tokens]
NoPod == [phase |-> "none", bot |-> NoBot]
Causes == {"replaced", "overtaken", "late", "failed"}

\* Also: a request that talks to Telegram has a bot in hand.
TypeOK == /\ item \in Item /\ pod \in Pod
          /\ hook \in [Bots -> {"none", "plain", "secret"}]
          /\ at \in [Requests -> {"idle", "register", "d_pod", "d_item", "d_hook"}]
          /\ bot \in [Requests -> Tokens]
          /\ \A q \in Requests : at[q] \in {"register", "d_hook"} => bot[q] # NoBot
          /\ wake \in {"idle", "mark", "create", "wait"} /\ seen \in Item
          /\ causes \in [Bots -> SUBSET Causes]
          /\ requests \in 0..MaxRequests /\ faults \in 0..MaxFaults

Init == /\ item = NoItem /\ pod = NoPod /\ hook = [b \in Bots |-> "none"]
        /\ at = [q \in Requests |-> "idle"] /\ bot = [q \in Requests |-> NoBot]
        /\ wake = "idle" /\ seen = NoItem
        /\ causes = [b \in Bots |-> {}] /\ requests = 0 /\ faults = 0

Goto(q, label, b) == at' = [at EXCEPT ![q] = label] /\ bot' = [bot EXCEPT ![q] = b]

\* Variant: Telegram is told of the empty token too.
ThenTellAnyway(q, label, b) == Goto(q, label, b)

\* Without a bot there is nobody to tell Telegram of.
ThenTell(q, label, b) == IF b = NoBot THEN Goto(q, "idle", NoBot) ELSE Goto(q, label, b)

\* What happened is a reason for what becomes of bot b, if any.
Blame(cause, b) == causes' = [x \in Bots |-> IF x = b THEN causes[x] \cup {cause} ELSE causes[x]]

Arrives(q) == /\ at[q] = "idle" /\ requests < MaxRequests /\ requests' = requests + 1
              /\ UNCHANGED faults

Fault == faults < MaxFaults /\ faults' = faults + 1 /\ UNCHANGED requests

-----------------------------------------------------------------------------
(***************************************************************************)
(* Requests on the tenant.                                                 *)
(***************************************************************************)
\* POST /tenants: 409 if there is an item.
CreateTenant(q) ==
    /\ Arrives(q) /\ ~item.there
    /\ \E b \in Tokens : /\ item' = [NoItem EXCEPT !.there = TRUE, !.bot = b, !.placed = TRUE]
                         /\ ThenTell(q, "register", b)
    /\ UNCHANGED <<pod, hook, waking, causes>>

\* Variant: the new token is stored, and Telegram is not told.
UpdateTenantOnly(q) ==
    /\ Arrives(q) /\ item.there
    /\ \E b \in Tokens : /\ item' = [item EXCEPT !.bot = b]
                         /\ Goto(q, "idle", NoBot)
                         /\ IF b = item.bot THEN UNCHANGED causes
                                            ELSE Blame("replaced", item.bot)
    /\ UNCHANGED <<pod, hook, waking>>

\* PATCH /tenants/{id} with a bot token: 404 without an item.  The webhook of the
\* token it replaces is left alone, and so is the pod.
UpdateTenant(q) ==
    /\ Arrives(q) /\ item.there
    /\ \E b \in Tokens : /\ item' = [item EXCEPT !.bot = b]
                         /\ ThenTell(q, "register", b)
                         /\ IF b = item.bot THEN UNCHANGED causes
                                            ELSE Blame("replaced", item.bot)
    /\ UNCHANGED <<pod, hook, waking>>

\* setWebhook with the url alone: a secret that was set is dropped.
RegisterWebhook(q) ==
    /\ at[q] = "register"
    /\ hook' = [hook EXCEPT ![bot[q]] = "plain"]
    /\ IF item.bot = bot[q] THEN UNCHANGED causes ELSE Blame("late", bot[q])
    /\ Goto(q, "idle", NoBot)
    /\ UNCHANGED <<item, pod, waking, bounds>>

\* The router's activity report makes an item of its own where there is none.
ReportActivity ==
    /\ ~item.there /\ item' = [NoItem EXCEPT !.there = TRUE]
    /\ UNCHANGED <<pod, hook, serving, waking, causes, bounds>>

\* DELETE /tenants/{id} goes by the item it reads first, and by its namespace.
StartDelete(q) ==
    /\ Arrives(q) /\ item.there
    /\ Goto(q, IF item.pod /\ item.placed THEN "d_pod" ELSE "d_item", item.bot)
    /\ UNCHANGED <<item, pod, hook, waking, causes>>

DeletePod(q) ==
    /\ at[q] = "d_pod"
    /\ pod' = NoPod
    /\ Goto(q, "d_item", bot[q])
    /\ UNCHANGED <<item, hook, waking, causes, bounds>>

\* An item that has got another bot since takes that bot's name with it.
DeleteItem(q) ==
    /\ at[q] = "d_item"
    /\ item' = NoItem
    /\ IF item.bot = bot[q] THEN UNCHANGED causes ELSE Blame("overtaken", item.bot)
    /\ ThenTell(q, "d_hook", bot[q])
    /\ UNCHANGED <<pod, hook, waking, bounds>>

\* Variant: the webhook outlives the tenant.
KeepWebhook(q) ==
    /\ at[q] = "d_hook"
    /\ Goto(q, "idle", NoBot)
    /\ UNCHANGED <<item, pod, hook, waking, causes, bounds>>

\* The bot may be a new tenant's by now.
DeleteWebhook(q) ==
    /\ at[q] = "d_hook"
    /\ hook' = [hook EXCEPT ![bot[q]] = "none"]
    /\ IF item.bot = bot[q] THEN Blame("late", bot[q]) ELSE UNCHANGED causes
    /\ Goto(q, "idle", NoBot)
    /\ UNCHANGED <<item, pod, waking, bounds>>

\* A call fails, or the replica dies.  A failed deletion of the pod is passed over, one
\* of the item ends DELETE, and the call to Telegram is the last of its request.
CallFails(q) ==
    /\ Fault
    /\ \/ at[q] = "d_pod" /\ Goto(q, "d_item", bot[q]) /\ UNCHANGED causes
       \/ at[q] \in {"d_pod", "d_item"} /\ Goto(q, "idle", NoBot) /\ UNCHANGED causes
       \/ at[q] \in {"register", "d_hook"} /\ Goto(q, "idle", NoBot) /\ Blame("failed", bot[q])
    /\ UNCHANGED <<item, pod, hook, waking>>

Serve(q) == \/ RegisterWebhook(q) \/ DeletePod(q) \/ DeleteItem(q) \/ DeleteWebhook(q)

-----------------------------------------------------------------------------
(***************************************************************************)
(* The wake that has the lock, its pod, and the agent in it.               *)
(***************************************************************************)
\* Variant: an item once read is not read again.
ReadItemOnce ==
    /\ wake = "idle" /\ pod.phase = "none"
    /\ wake' = "mark" /\ seen' = IF seen.there THEN seen ELSE item
    /\ UNCHANGED <<item, pod, hook, serving, causes, bounds>>

\* A wake that finds a pod changes nothing here.
ReadItem ==
    /\ wake = "idle" /\ pod.phase = "none"
    /\ wake' = "mark" /\ seen' = item
    /\ UNCHANGED <<item, pod, hook, serving, causes, bounds>>

\* A tenant nobody has registered is created, without a bot, unless there is one by
\* now.  The status update of another forgets the pod's name, or makes an item anew.
\* One that was provisioning is left alone, and a write that fails is passed over.
MarkProvisioning ==
    /\ wake = "mark" /\ wake' = "create"
    /\ \/ /\ ~(item.there /\ ~seen.there)
          /\ item' = [item EXCEPT !.there = TRUE, !.pod = FALSE, !.placed = @ \/ ~seen.there]
       \/ UNCHANGED item
    /\ UNCHANGED <<pod, hook, serving, seen, causes, bounds>>

\* The pod gets the bot of the item as it was read.
CreatePod ==
    /\ wake = "create" /\ wake' = "wait"
    /\ pod' = [phase |-> "starting", bot |-> seen.bot]
    /\ UNCHANGED <<item, hook, serving, seen, causes, bounds>>

\* The agent registers its own webhook, with the secret; without a bot it exits.
AgentStarts ==
    /\ pod.phase = "starting" /\ pod.bot # NoBot
    /\ pod' = [pod EXCEPT !.phase = "up"]
    /\ hook' = [hook EXCEPT ![pod.bot] = "secret"]
    /\ IF item.bot = pod.bot THEN UNCHANGED causes ELSE Blame("late", pod.bot)
    /\ UNCHANGED <<item, serving, waking, bounds>>

\* The wake gives up, or names a pod that runs in the item, whatever has become of it.
EndWake ==
    /\ wake = "wait" /\ wake' = "idle"
    /\ \/ UNCHANGED item
       \/ pod.phase # "none" /\ item' = [item EXCEPT !.there = TRUE, !.pod = TRUE]
    /\ UNCHANGED <<pod, hook, serving, seen, causes, bounds>>

\* The idle loop stops the pod and forgets its name; the orphan cleanup stops a pod
\* whose item does not name it, and a node may be lost.
StopPod ==
    /\ pod.phase # "none"
    /\ pod' = NoPod
    /\ item' = [item EXCEPT !.pod = FALSE]
    /\ UNCHANGED <<hook, serving, waking, causes, bounds>>

\* Nobody is obliged to stop the pod of an item without a namespace: the idle loop's
\* deletion is refused (lifecycle.go:112), and the orphan cleanup spares the pod.
Stoppable == ~item.there \/ item.placed

WakeStep == ReadItem \/ MarkProvisioning \/ CreatePod \/ EndWake

Next == \/ \E q \in Requests : \/ CreateTenant(q) \/ UpdateTenant(q) \/ StartDelete(q)
                               \/ Serve(q) \/ CallFails(q)
        \/ ReportActivity \/ WakeStep \/ AgentStarts \/ StopPod

Spec == Init /\ [][Next]_vars

\* Handlers go on, a wake returns, agents start, and pods that can be stopped are in
\* the end; nothing obliges a request or a message to arrive.
FairSpec == /\ Spec
            /\ \A q \in Requests : WF_vars(Serve(q))
            /\ WF_vars(MarkProvisioning \/ CreatePod \/ EndWake)
            /\ WF_vars(AgentStarts) /\ WF_vars(Stoppable /\ StopPod)

-----------------------------------------------------------------------------
(***************************************************************************)
(* Properties.                                                             *)
(***************************************************************************)
Quiet == \A q \in Requests : at[q] = "idle"

\* When no request is under way a webhook leads to the tenant only from its own bot.
\* The exceptions are bots that a PATCH replaced, or a DELETE overtook, webhooks set
\* for a bot that was the tenant's no more, and failed calls: such a webhook stays,
\* and its messages wake a tenant that may be deleted (handler.go:299).
StrayHasCause == Quiet => \A b \in Bots : hook[b] # "none" => item.bot = b \/ causes[b] # {}

\* ... and the tenant's bot has one, unless a call to Telegram failed or a DELETE
\* removed it after the bot had been given to a new item (handler.go:140, 245).
BotIsHooked ==
    Quiet /\ item.bot # NoBot
        => hook[item.bot] # "none" \/ causes[item.bot] \cap {"late", "failed"} # {}

\* When requests stop, the pod works for the bot the item names in the end, under the
\* webhook it registered itself: a PATCH, which tells Telegram no secret and leaves
\* the pod its old bot, does harm until the next wake only (handler.go:245).  Unless an
\* upsert made the item: its pod is not stopped, and keeps the bot it was given.
PodServesBot == <>[](pod.phase = "up" => \/ pod.bot = item.bot /\ hook[pod.bot] = "secret"
                                         \/ item.there /\ ~item.placed)
=============================================================================
