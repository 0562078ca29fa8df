----------------------------- MODULE TenantAPI -----------------------------
(***************************************************************************)
(* The other requests on a tenant (internal/api/handler.go): POST /tenants,*)
(* PATCH, the activity report, and DELETE, whose calls interleave with     *)
(* everything else.  GET reads only; the bot token of POST and PATCH, and  *)
(* what Telegram is told of it, are in module Webhooks.                    *)
(***************************************************************************)
EXTENDS Tenant

\* POST /tenants: 201, or 409 when there is an item already.
CreateTenant ==
    /\ Spend("touch") /\ rec.status = "none"
    /\ CreateRecord("idle")
    /\ UNCHANGED <<mutexVars, pod, cache, queues, locals>>

\* PATCH /tenants/{id}: a positive idle timeout, or one that is not, which disables
\* it; 404 when there is no item.
UpdateTenant ==
    /\ Spend("touch")
    /\ \E positive \in BOOLEAN : UpdateIdleTimeout(positive)
    /\ UNCHANGED <<mutexVars, pod, cache, queues, locals>>

\* The router's activity report after a message delivered to a cached address.
ReportActivity ==
    /\ Spend("touch") /\ UpdateActivity
    /\ UNCHANGED <<mutexVars, pod, cache, queues, locals>>

\* DELETE /tenants/{id}: a tenant without an item is gone already.  The pod is
\* deleted only if the item read at the start names one, and its namespace: an error
\* is only logged.
StartDelete(d) ==
    /\ At(d, "idle") /\ Spend("touch")
    /\ \E r \in Readable :
          r.status # "none" /\ Goto(d, IF r.ip # 0 /\ Deletable(r) THEN "d_pod" ELSE "d_record")
    /\ UNCHANGED <<mutexVars, store, transit>>

DeleteTenantPod(d) ==
    /\ At(d, "d_pod")
    /\ DeletePod("long")
    /\ Goto(d, "d_record")
    /\ UNCHANGED <<mutexVars, rec, cache, transit, budget>>

DeleteRecord(d) ==
    /\ At(d, "d_record")
    /\ DeleteItem
    /\ Goto(d, "d_cache")
    /\ UNCHANGED <<mutexVars, pod, cache, queues, budget>>

\* ... and 204 is returned.
DeleteCache(d) ==
    /\ At(d, "d_cache")
    /\ cache' = 0
    /\ Goto(d, "idle")
    /\ UNCHANGED <<mutexVars, rec, pod, transit, budget>>

DeleteStep(d) == DeleteTenantPod(d) \/ DeleteRecord(d) \/ DeleteCache(d)

\* A failed deletion of the pod or of the cached address is only logged; a failed
\* deletion of the item ends in 500.
DeleteCallFails(d) ==
    /\ Spend("fault")
    /\ \/ At(d, "d_pod") /\ Goto(d, "d_record")
       \/ pc[d] \in {"d_record", "d_cache"} /\ Goto(d, "idle")
    /\ UNCHANGED <<mutexVars, store, transit>>
=============================================================================
