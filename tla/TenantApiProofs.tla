-------------------------- MODULE TenantApiProofs --------------------------
(***************************************************************************)
(* Theorems about the control plane and its audit export, for any number   *)
(* of tenants, requests and tables, any sizes of the buffer and the batch, *)
(* and any number of failing uploads: the handlers that look a tenant up   *)
(* act on a live one or were raced, the audit trail is true, and the       *)
(* exporter loses no record.                                               *)
(***************************************************************************)
EXTENDS TenantApi, TLAPS

(* Handlers *)

\* The handler goes to a place; nothing else about the requests changes.
MovesTo(r, where) ==
    /\ DOMAIN apiReq' = ApiRequests
    /\ \A q \in ApiRequests : /\ DOMAIN apiReq'[q] = DOMAIN apiReq[q] /\ apiReq'[q].op = apiReq[q].op
                              /\ q # r => apiReq'[q].pc = apiReq[q].pc
    /\ apiReq'[r].pc = where

LEMMA GotoMoves ==
  ASSUME ApiTypes, NEW r \in ApiRequests, NEW where, ApiGoto(r, where)
  PROVE  MovesTo(r, where)
  BY DEF ApiTypes, ApiGoto, MovesTo

\* A step that leaves the tables alone keeps the types.
LEMMA MoveTypes ==
  ASSUME ApiTypes, NEW r \in ApiRequests, NEW where, MovesTo(r, where), apiReq[r].pc # "idle",
         UNCHANGED <<tenants, keys>>
  PROVE  ApiTypes'
  BY DEF ApiTypes, MovesTo

\* A handler that only moves on, after its statement or without one.
LEMMA MoveLive ==
  ASSUME ApiTypes, LiveInv, NEW r \in ApiRequests, NEW where, MovesTo(r, where), where # "act",
         UNCHANGED <<tenants, racing, onDeleted>>
  PROVE  LiveInv'
  <1>1. ASSUME NEW q \in ApiRequests, apiReq'[q].pc = "act", ChecksTenant(apiReq'[q].op.kind)
        PROVE  tenants'[apiReq'[q].op.tenant] = "live" \/ q \in racing'
    <2>1. q # r /\ apiReq[q].pc = "act" /\ apiReq'[q].op = apiReq[q].op
      BY <1>1 DEF MovesTo
    <2> QED BY <1>1, <2>1 DEF LiveInv
  <1> QED BY <1>1 DEF LiveInv, ActsOnLiveTenant

\* A handler that gives up, whatever its place, before it has written a row.
LEMMA FailAudit ==
  ASSUME ApiTypes, AuditInv, NEW r \in ApiRequests, MovesTo(r, "failed"),
         apiReq[r].pc \in {"check", "act"}, UNCHANGED <<keys, applied, auditLog, emitted>>
  PROVE  AuditInv'
  <1>1. \A q \in ApiRequests : q # r => apiReq'[q].pc = apiReq[q].pc /\ apiReq'[q].op = apiReq[q].op
    BY DEF MovesTo
  <1>2. r \notin auditLog \cup emitted
    BY DEF AuditInv
  <1>3. ASSUME NEW k \in keys'
        PROVE  apiReq'[k.id].pc \notin {"idle", "check", "act"}
    BY <1>1 DEF AuditInv, ApiTypes, MovesTo
  <1>4. UNCHANGED auditLog
    OBVIOUS
  <1>5. apiReq'[r].pc = "failed"
    BY DEF MovesTo
  <1> QED BY <1>1, <1>2, <1>3, <1>4, <1>5 DEF AuditInv

\* The handlers do not disturb the exporter: one that moves is not flushing, and
\* after an orderly end none moves.
LEMMA MoveExport ==
  ASSUME ExportInv, NEW r \in ApiRequests, NEW where, MovesTo(r, where),
         main # "drained", UNCHANGED main, UNCHANGED exportVars,
         apiReq[r].pc # "exporting" \/ flusher[r].at = "rest"
  PROVE  ExportInv'
  <1>1. UNCHANGED <<buf, pending, flusher, stored, ended, closing, emitted, putErrors, lastFailed>>
    BY DEF exportVars
  <1>2. ExportTypes'
    BY <1>1 DEF ExportInv, ExportTypes
  <1>3. FlushInv'
    BY <1>1 DEF ExportInv, FlushInv, MovesTo
  <1>4. DrainInv'
    BY DEF DrainInv
  <1>5. KeptInv'
    BY <1>1 DEF ExportInv, KeptInv, InMemory, Elements
  <1> QED BY <1>2, <1>3, <1>4, <1>5 DEF ExportInv

\* A running handler means that the process is not drained.
LEMMA RunningNotDrained ==
  ASSUME ExportInv, NEW r \in ApiRequests, Running(r)
  PROVE  main # "drained"
  BY DEF ExportInv, DrainInv

LEMMA ArriveStep ==
  ASSUME ApiInv, NEW r \in ApiRequests, NEW op \in Ops, ApiArrive(r, op)
  PROVE  ApiInv'
  <1>0. /\ ApiTypes /\ LiveInv /\ AuditInv /\ ExportInv /\ apiReq[r].pc = "idle" /\ main = "serving"
        /\ UNCHANGED <<tenants, keys, applied, auditLog, racing, onDeleted, main, exportVars>>
        /\ op.kind \in Kinds /\ op.tenant \in Tenants
    BY ApiAssumption DEF ApiInv, ApiArrive, tables, apiHistory
  <1>1. /\ apiReq'[r].op = op /\ apiReq'[r].pc = (IF ChecksTenant(op.kind) THEN "check" ELSE "act")
        /\ DOMAIN apiReq' = ApiRequests /\ DOMAIN apiReq'[r] = {"pc", "op", "table"}
        /\ \A q \in ApiRequests : q # r => apiReq'[q] = apiReq[q]
    BY <1>0 DEF ApiArrive, ApiTypes
  <1>2. ApiTypes'
    BY <1>0, <1>1 DEF ApiTypes
  <1>3. LiveInv'
    BY <1>0, <1>1 DEF LiveInv, ActsOnLiveTenant
  <1>4. AuditInv'
    <2>1. UNCHANGED emitted /\ UNCHANGED auditLog
      BY <1>0 DEF exportVars
    <2>2. r \notin auditLog \cup emitted /\ apiReq'[r].pc \in {"check", "act"}
      BY <1>0, <1>1 DEF AuditInv
    <2>3. \A k \in keys : k.id \in ApiRequests /\ k.id # r
      BY <1>0 DEF AuditInv, ApiTypes
    <2> QED BY <1>0, <1>1, <2>1, <2>2, <2>3 DEF AuditInv
  <1>5. ExportInv'
    <2>1. UNCHANGED <<buf, pending, flusher, stored, ended, closing, emitted, putErrors, lastFailed>>
      BY <1>0 DEF exportVars
    <2>2. ExportTypes' /\ KeptInv'
      BY <1>0, <2>1 DEF ExportInv, ExportTypes, KeptInv, InMemory, Elements
    <2>3. FlushInv'
      BY <1>0, <1>1, <2>1 DEF ExportInv, FlushInv
    <2> QED BY <1>0, <2>2, <2>3 DEF ExportInv, DrainInv
  <1> QED BY <1>2, <1>3, <1>4, <1>5 DEF ApiInv

\* A handler fails before its statement has taken effect.
LEMMA FailStep ==
  ASSUME ApiInv, NEW r \in ApiRequests, apiReq[r].pc \in {"check", "act"}, MovesTo(r, "failed"),
         UNCHANGED <<tenants, keys, applied, auditLog, racing, onDeleted, main, exportVars>>
  PROVE  ApiInv'
  <1>0. ApiTypes /\ LiveInv /\ AuditInv /\ ExportInv /\ UNCHANGED emitted
    BY DEF ApiInv, exportVars
  <1>1. main # "drained"
    BY <1>0, RunningNotDrained DEF Running
  <1>2. ApiTypes' /\ LiveInv' /\ AuditInv' /\ ExportInv'
    BY <1>0, <1>1, MoveTypes, MoveLive, FailAudit, MoveExport
  <1> QED BY <1>2 DEF ApiInv

LEMMA CheckStep ==
  ASSUME ApiInv, NEW r \in ApiRequests, CheckTenant(r)
  PROVE  ApiInv'
  <1>0. /\ ApiTypes /\ LiveInv /\ AuditInv /\ ExportInv /\ apiReq[r].pc = "check"
        /\ UNCHANGED <<tenants, keys, applied, auditLog, racing, onDeleted, main, exportVars>>
    BY DEF ApiInv, CheckTenant, tables, apiHistory
  <1>1. CASE ApiGoto(r, "failed")
    BY <1>0, <1>1, GotoMoves, FailStep
  <1>2. CASE GetTenant(apiReq[r].op.tenant) /\ ApiGoto(r, "act")
    <2>1. MovesTo(r, "act")
      BY <1>0, <1>2, GotoMoves
    <2>2. ApiTypes'
      BY <1>0, <2>1, MoveTypes
    <2>3. LiveInv'
      BY <1>0, <1>2, <2>1 DEF LiveInv, ActsOnLiveTenant, MovesTo, GetTenant
    <2>4. AuditInv'
      <3>1. UNCHANGED emitted /\ UNCHANGED auditLog
        BY <1>0 DEF exportVars
      <3>2. r \notin auditLog \cup emitted /\ apiReq'[r].pc = "act"
        BY <1>0, <2>1 DEF AuditInv, MovesTo
      <3>3. \A k \in keys : k.id \in ApiRequests /\ k.id # r
        BY <1>0 DEF AuditInv, ApiTypes
      <3>4. \A q \in ApiRequests : q # r => apiReq'[q].pc = apiReq[q].pc /\ apiReq'[q].op = apiReq[q].op
        BY <2>1 DEF MovesTo
      <3> QED BY <1>0, <3>1, <3>2, <3>3, <3>4 DEF AuditInv
    <2>5. main # "drained"
      BY <1>0, RunningNotDrained DEF Running
    <2>6. ExportInv'
      BY <1>0, <2>1, <2>5, MoveExport
    <2> QED BY <2>2, <2>3, <2>4, <2>6 DEF ApiInv
  <1> QED BY <1>1, <1>2 DEF CheckTenant
-----------------------------------------------------------------------------
(* The statements *)

\* What a statement that took effect leaves behind: the handler goes on to the
\* audit only when a table has changed.
LEMMA EffectStep ==
  ASSUME ApiInv, NEW r \in ApiRequests, apiReq[r].pc = "act", NEW next, TakesEffect(r, next),
         \/ next = "audit" /\ <<tenants, keys, dashboards>>' # <<tenants, keys, dashboards>>
         \/ next = "done",
         tenants' \in [Tenants -> {"absent", "live", "deleted"}],
         keys' \subseteq keys \cup {[id |-> r, tenant |-> apiReq[r].op.tenant]},
         racing \subseteq racing',
         \A q \in ApiRequests : apiReq[q].pc = "act" /\ ChecksTenant(apiReq[q].op.kind) =>
            tenants'[apiReq[q].op.tenant] = "live" \/ q \in racing'
  PROVE  ApiInv'
  <1>0. /\ ApiTypes /\ LiveInv /\ AuditInv /\ ExportInv
        /\ UNCHANGED <<ttl, auditLog, main, exportVars>>
        /\ apiReq[r].op.tenant \in Tenants
    BY DEF ApiInv, TakesEffect, ApiTypes
  <1>1. PICK pc \in {next, "failed"} : MovesTo(r, pc)
    BY <1>0, GotoMoves DEF TakesEffect
  <1>2. pc \in {"audit", "done", "failed"} /\ main # "drained"
    BY <1>0, RunningNotDrained DEF Running
  <1>3. ExportInv'
    BY <1>0, <1>1, <1>2, MoveExport
  <1>4. ApiTypes'
    <2>1. keys' \subseteq [id : ApiRequests, tenant : Tenants]
      BY <1>0 DEF ApiTypes
    <2> QED BY <1>0, <1>1, <2>1 DEF ApiTypes, MovesTo
  <1>5. LiveInv'
    <2>1. onDeleted' \subseteq racing'
      <3>1. tenants[apiReq[r].op.tenant] # "live" /\ ChecksTenant(apiReq[r].op.kind) => r \in racing
        BY <1>0 DEF LiveInv
      <3> QED BY <1>0, <3>1 DEF TakesEffect, LiveInv, ActsOnLiveTenant
    <2>2. ASSUME NEW q \in ApiRequests, apiReq'[q].pc = "act", ChecksTenant(apiReq'[q].op.kind)
          PROVE  tenants'[apiReq'[q].op.tenant] = "live" \/ q \in racing'
      <3>1. q # r /\ apiReq[q].pc = "act" /\ apiReq'[q].op = apiReq[q].op
        BY <1>1, <1>2, <2>2 DEF MovesTo
      <3> QED BY <2>2, <3>1
    <2> QED BY <2>1, <2>2 DEF LiveInv, ActsOnLiveTenant
  <1>6. AuditInv'
    <2>1. UNCHANGED emitted /\ UNCHANGED auditLog /\ r \notin auditLog \cup emitted
      BY <1>0 DEF exportVars, AuditInv
    <2>2. ASSUME NEW k \in keys'
          PROVE  apiReq'[k.id].pc \notin {"idle", "check", "act"}
      <3>1. CASE k \in keys
        BY <1>0, <1>1, <1>2, <3>1 DEF AuditInv, ApiTypes, MovesTo
      <3>2. CASE k = [id |-> r, tenant |-> apiReq[r].op.tenant]
        BY <1>1, <1>2, <3>2 DEF MovesTo
      <3> QED BY <3>1, <3>2
    <2>3. /\ applied \subseteq applied' /\ applied' \subseteq applied \cup {r}
          /\ (next = "audit" => r \in applied')
      BY DEF TakesEffect
    <2>4. \A q \in ApiRequests : q # r => apiReq'[q].pc = apiReq[q].pc /\ apiReq'[q].op = apiReq[q].op
      BY <1>1 DEF MovesTo
    <2>5. /\ apiReq'[r].pc = pc /\ apiReq'[r].op = apiReq[r].op
          /\ (pc = "audit" => next = "audit")
      BY <1>1, <1>2 DEF MovesTo
    <2>6. applied' \subseteq ApiRequests /\ (auditLog \cup emitted)' \subseteq applied'
      BY <1>0, <2>1, <2>3 DEF AuditInv
    <2>7. ASSUME NEW q \in ApiRequests
          PROVE  /\ apiReq'[q].pc \in {"audit", "export", "exporting"} => q \in applied'
                 /\ apiReq'[q].pc = "exporting" => q \in emitted'
                 /\ apiReq'[q].pc = "done" /\ q \in auditLog' => q \in emitted'
                 /\ q \in auditLog' => apiReq'[q].pc \in {"export", "exporting", "done"}
                 /\ q \in emitted' => apiReq'[q].pc \in {"exporting", "done"}
      <3>1. CASE q = r
        BY <1>2, <2>1, <2>3, <2>5, <3>1
      <3>2. CASE q # r
        BY <1>0, <2>1, <2>3, <2>4, <3>2 DEF AuditInv
      <3> QED BY <3>1, <3>2
    <2> QED BY <2>2, <2>6, <2>7 DEF AuditInv
  <1> QED BY <1>3, <1>4, <1>5, <1>6 DEF ApiInv

\* The requests that look a tenant up are not disturbed when no tenant changes.
LEMMA TenantsKept ==
  ASSUME ApiInv, UNCHANGED <<tenants, racing>>
  PROVE  /\ tenants' \in [Tenants -> {"absent", "live", "deleted"}]
         /\ racing \subseteq racing'
         /\ \A q \in ApiRequests : apiReq[q].pc = "act" /\ ChecksTenant(apiReq[q].op.kind) =>
              tenants'[apiReq[q].op.tenant] = "live" \/ q \in racing'
  BY DEF ApiInv, ApiTypes, LiveInv

LEMMA ActStep ==
  ASSUME ApiInv, NEW r \in ApiRequests, Act(r, apiReq[r].op.tenant)
  PROVE  ApiInv'
  <1> DEFINE t == apiReq[r].op.tenant
  <1>0. ApiTypes /\ LiveInv /\ AuditInv /\ ExportInv
    BY DEF ApiInv
  <1>1. CASE createTenant(r, t)
    <2>1. apiReq[r].pc = "act" /\ t \in Tenants
      BY <1>0, <1>1 DEF createTenant, At, ApiTypes
    <2>2. /\ tenants' \in [Tenants -> {"absent", "live", "deleted"}] /\ tenants' # tenants
          /\ UNCHANGED <<keys, racing>>
          /\ \A u \in Tenants : tenants[u] = "live" => tenants'[u] = "live"
      BY <1>0, <1>1, <2>1 DEF createTenant, CreateTenant, ApiTypes
    <2>3. \A q \in ApiRequests : apiReq[q].pc = "act" /\ ChecksTenant(apiReq[q].op.kind) =>
            tenants'[apiReq[q].op.tenant] = "live" \/ q \in racing'
      BY <1>0, <2>2 DEF LiveInv, ApiTypes
    <2>4. TakesEffect(r, "audit")
      BY <1>1 DEF createTenant
    <2> QED BY <2>1, <2>2, <2>3, <2>4, EffectStep
  <1>2. CASE deleteTenant(r, t)
    <2>1. apiReq[r].pc = "act" /\ t \in Tenants
      BY <1>0, <1>2 DEF deleteTenant, At, ApiTypes
    <2>2. /\ tenants' \in [Tenants -> {"absent", "live", "deleted"}] /\ tenants' # tenants
          /\ UNCHANGED keys
          /\ racing' = racing \cup {q \in ApiRequests : apiReq[q].op.tenant = t /\ apiReq[q].pc = "act"}
          /\ \A u \in Tenants : u # t => tenants'[u] = tenants[u]
      BY <1>0, <1>2, <2>1 DEF deleteTenant, SoftDeleteTenant, ApiTypes
    <2>3. \A q \in ApiRequests : apiReq[q].pc = "act" /\ ChecksTenant(apiReq[q].op.kind) =>
            tenants'[apiReq[q].op.tenant] = "live" \/ q \in racing'
      BY <1>0, <2>2 DEF LiveInv, ApiTypes
    <2>4. TakesEffect(r, "audit")
      BY <1>2 DEF deleteTenant
    <2> QED BY <2>1, <2>2, <2>3, <2>4, EffectStep
  <1>3. CASE issueAPIKey(r, t)
    <2>1. /\ apiReq[r].pc = "act" /\ UNCHANGED <<tenants, racing>> /\ TakesEffect(r, "audit")
          /\ keys' = keys \cup {[id |-> r, tenant |-> t]}
      BY <1>3 DEF issueAPIKey, KeyIssued, At
    <2>2. keys' # keys
      <3>1. [id |-> r, tenant |-> t] \notin keys
        BY <1>0, <2>1 DEF AuditInv
      <3> QED BY <2>1, <3>1
    <2> QED BY <2>1, <2>2, TenantsKept, EffectStep
  <1>4. CASE revokeAPIKey(r, t)
    <2>1. /\ apiReq[r].pc = "act" /\ UNCHANGED <<tenants, racing>> /\ TakesEffect(r, "audit")
          /\ keys' # keys /\ keys' \subseteq keys
      BY <1>4 DEF revokeAPIKey, KeyRevoked, At
    <2> QED BY <2>1, TenantsKept, EffectStep
  <1>5. CASE createDashboard(r, t) \/ updateDashboard(r, t) \/ deleteDashboard(r, t)
    <2>1. /\ apiReq[r].pc = "act" /\ UNCHANGED <<tenants, racing, keys>> /\ TakesEffect(r, "done")
      BY <1>5 DEF createDashboard, updateDashboard, deleteDashboard, CreateDashboard,
                  UpdateDashboard, DeleteDashboard, At
    <2> QED BY <2>1, TenantsKept, EffectStep
  <1>6. CASE Rejected(r)
    <2>1. /\ apiReq[r].pc = "act" /\ MovesTo(r, "failed")
          /\ UNCHANGED <<tenants, keys, applied, auditLog, racing, onDeleted, main, exportVars>>
      BY <1>0, <1>6, GotoMoves DEF Rejected, tables, apiHistory
    <2> QED BY <2>1, FailStep
  <1> QED BY <1>1, <1>2, <1>3, <1>4, <1>5, <1>6 DEF Act

\* A step of Apply: the handler alters a table and stays, is through, or fails.
LEMMA ApplyStep ==
  ASSUME ApiInv, NEW r \in ApiRequests, NEW days, apiReq[r].pc = "act", Apply(r, days)
  PROVE  ApiInv'
  <1>0. /\ ApiTypes /\ LiveInv /\ AuditInv /\ ExportInv
        /\ UNCHANGED <<tenants, keys, auditLog, main, racing, exportVars>>
        /\ UNCHANGED emitted /\ UNCHANGED auditLog /\ r \notin auditLog \cup emitted
    BY DEF ApiInv, Apply, exportVars, AuditInv
  <1>1. main # "drained"
    BY <1>0, RunningNotDrained DEF Running
  <1>2. CASE ApiGoto(r, "failed") /\ UNCHANGED <<ttl, applied, onDeleted>>
    <2>1. MovesTo(r, "failed")
      BY <1>0, <1>2, GotoMoves
    <2> QED BY <1>0, <1>2, <2>1, FailStep
  <1>3. CASE ApiGoto(r, "audit") /\ applied' = applied \cup {r} /\ UNCHANGED <<ttl, onDeleted>>
    <2>1. MovesTo(r, "audit")
      BY <1>0, <1>3, GotoMoves
    <2>2. ApiTypes' /\ LiveInv' /\ ExportInv'
      BY <1>0, <1>1, <1>3, <2>1, MoveTypes, MoveLive, MoveExport
    <2>3. AuditInv'
      <3>1. apiReq'[r].pc = "audit" /\ \A q \in ApiRequests : q # r => apiReq'[q].pc = apiReq[q].pc /\ apiReq'[q].op = apiReq[q].op
        BY <2>1 DEF MovesTo
      <3>2. \A k \in keys : k.id \in ApiRequests /\ k.id # r
        BY <1>0 DEF AuditInv, ApiTypes
      <3> QED BY <1>0, <1>3, <3>1, <3>2 DEF AuditInv
    <2> QED BY <2>2, <2>3 DEF ApiInv
  <1>4. CASE /\ apiReq' = [apiReq EXCEPT ![r].table = apiReq[r].table + 1] /\ UNCHANGED applied
             /\ onDeleted' \in {onDeleted,
                  IF tenants[apiReq[r].op.tenant] # "live" /\ ChecksTenant(apiReq[r].op.kind)
                  THEN onDeleted \cup {r} ELSE onDeleted}
    <2>1. MovesTo(r, "act")
      BY <1>0, <1>4 DEF MovesTo, ApiTypes
    <2>2. ApiTypes' /\ ExportInv'
      BY <1>0, <1>1, <2>1, MoveTypes, MoveExport
    <2>3. \A q \in ApiRequests : apiReq'[q].pc = apiReq[q].pc /\ apiReq'[q].op = apiReq[q].op
      BY <2>1 DEF MovesTo
    <2>4. LiveInv'
      <3>1. tenants[apiReq[r].op.tenant] # "live" /\ ChecksTenant(apiReq[r].op.kind) => r \in racing
        BY <1>0 DEF LiveInv
      <3>2. onDeleted' \subseteq racing'
        BY <1>0, <1>4, <3>1 DEF LiveInv, ActsOnLiveTenant
      <3> QED BY <1>0, <2>3, <3>2 DEF LiveInv, ActsOnLiveTenant
    <2>5. AuditInv'
      BY <1>0, <1>4, <2>3 DEF AuditInv, ApiTypes
    <2> QED BY <2>2, <2>4, <2>5 DEF ApiInv
  <1> QED BY <1>2, <1>3, <1>4 DEF Apply
LEMMA WriteAuditStep ==
  ASSUME ApiInv, NEW r \in ApiRequests, WriteAudit(r)
  PROVE  ApiInv'
  <1>0. /\ ApiTypes /\ LiveInv /\ AuditInv /\ ExportInv /\ apiReq[r].pc = "audit"
        /\ UNCHANGED <<tenants, keys, main, applied, racing, onDeleted, exportVars, emitted>>
        /\ auditLog' \in {auditLog, auditLog \cup {r}}
    BY DEF ApiInv, WriteAudit, tables, exportVars
  <1>1. MovesTo(r, "export") /\ main # "drained"
    BY <1>0, GotoMoves, RunningNotDrained DEF WriteAudit, Running
  <1>2. ApiTypes' /\ LiveInv' /\ ExportInv'
    BY <1>0, <1>1, MoveTypes, MoveLive, MoveExport
  <1>3. AuditInv'
    <2>1. apiReq'[r].pc = "export" /\ \A q \in ApiRequests : q # r => apiReq'[q].pc = apiReq[q].pc /\ apiReq'[q].op = apiReq[q].op
      BY <1>1 DEF MovesTo
    <2>2. \A k \in keys : k.id \in ApiRequests
      BY <1>0 DEF ApiTypes
    <2> QED BY <1>0, <2>1, <2>2 DEF AuditInv
  <1> QED BY <1>2, <1>3 DEF ApiInv

LEMMA RespondStep ==
  ASSUME ApiInv, NEW r \in ApiRequests, Respond(r)
  PROVE  ApiInv'
  <1>0. /\ ApiTypes /\ LiveInv /\ AuditInv /\ ExportInv /\ apiReq[r].pc = "exporting"
        /\ UNCHANGED <<tenants, keys, main, applied, racing, onDeleted, exportVars, emitted>>
        /\ UNCHANGED auditLog /\ flusher[r].at = "rest"
    BY DEF ApiInv, Respond, tables, apiHistory, exportVars, Resting
  <1>1. MovesTo(r, "done") /\ main # "drained"
    BY <1>0, GotoMoves, RunningNotDrained DEF Respond, Running
  <1>2. ApiTypes' /\ LiveInv' /\ ExportInv'
    BY <1>0, <1>1, MoveTypes, MoveLive, MoveExport
  <1>3. AuditInv'
    <2>1. apiReq'[r].pc = "done" /\ \A q \in ApiRequests : q # r => apiReq'[q].pc = apiReq[q].pc /\ apiReq'[q].op = apiReq[q].op
      BY <1>1 DEF MovesTo
    <2>2. \A k \in keys : k.id \in ApiRequests
      BY <1>0 DEF ApiTypes
    <2> QED BY <1>0, <2>1, <2>2 DEF AuditInv
  <1> QED BY <1>2, <1>3 DEF ApiInv

-----------------------------------------------------------------------------
(* The exporter *)

LEMMA ElementsAppend ==
  ASSUME NEW S, NEW s \in Seq(S), NEW x \in S
  PROVE  Append(s, x) \in Seq(S) /\ Elements(Append(s, x)) = Elements(s) \cup {x}
  <1>1. /\ Append(s, x) \in Seq(S) /\ Len(s) \in Nat
        /\ DOMAIN Append(s, x) = 1 .. Len(s) + 1 /\ DOMAIN s = 1 .. Len(s)
        /\ \A i \in 1 .. Len(s) : Append(s, x)[i] = s[i]
        /\ Append(s, x)[Len(s) + 1] = x
    OBVIOUS
  <1>2. ASSUME NEW y \in Elements(Append(s, x))
        PROVE  y \in Elements(s) \cup {x}
    <2>1. PICK i \in 1 .. Len(s) + 1 : y = Append(s, x)[i]
      BY <1>1, <1>2 DEF Elements
    <2> QED BY <1>1, <2>1 DEF Elements
  <1>3. ASSUME NEW y \in Elements(s) \cup {x}
        PROVE  y \in Elements(Append(s, x))
    <2>1. CASE y = x
      <3>1. Len(s) + 1 \in DOMAIN Append(s, x)
        BY <1>1
      <3> QED BY <1>1, <2>1, <3>1 DEF Elements
    <2>2. CASE y \in Elements(s)
      <3>1. PICK i \in 1 .. Len(s) : y = s[i]
        BY <1>1, <2>2 DEF Elements
      <3>2. i \in DOMAIN Append(s, x) /\ y = Append(s, x)[i]
        BY <1>1, <3>1
      <3> QED BY <3>2 DEF Elements
    <2> QED BY <1>3, <2>1, <2>2
  <1> QED BY <1>1, <1>2, <1>3

LEMMA ElementsTail ==
  ASSUME NEW S, NEW s \in Seq(S), s # << >>
  PROVE  Tail(s) \in Seq(S) /\ Head(s) \in S /\ Elements(s) \subseteq Elements(Tail(s)) \cup {Head(s)}
  <1>1. /\ Tail(s) \in Seq(S) /\ Head(s) = s[1] /\ Head(s) \in S /\ DOMAIN s = 1 .. Len(s)
        /\ DOMAIN Tail(s) = 1 .. Len(s) - 1 /\ Len(s) \in Nat
        /\ \A i \in 1 .. Len(s) - 1 : Tail(s)[i] = s[i + 1]
    OBVIOUS
  <1>2. ASSUME NEW y \in Elements(s)
        PROVE  y \in Elements(Tail(s)) \cup {Head(s)}
    <2>1. PICK i \in 1 .. Len(s) : y = s[i]
      BY <1>1, <1>2 DEF Elements
    <2>2. CASE i # 1
      <3>1. i - 1 \in DOMAIN Tail(s) /\ Tail(s)[i - 1] = y
        BY <1>1, <2>1, <2>2
      <3> QED BY <3>1 DEF Elements
    <2> QED BY <1>1, <2>1, <2>2
  <1> QED BY <1>1, <1>2

LEMMA ElementsConcat ==
  ASSUME NEW S, NEW s \in Seq(S), NEW t \in Seq(S)
  PROVE  s \o t \in Seq(S) /\ Elements(s) \cup Elements(t) \subseteq Elements(s \o t)
  <1>1. /\ s \o t \in Seq(S) /\ Len(s) \in Nat /\ Len(t) \in Nat
        /\ DOMAIN s = 1 .. Len(s) /\ DOMAIN t = 1 .. Len(t)
        /\ DOMAIN (s \o t) = 1 .. Len(s) + Len(t)
        /\ \A i \in 1 .. Len(s) : (s \o t)[i] = s[i]
        /\ \A i \in 1 .. Len(t) : (s \o t)[Len(s) + i] = t[i]
    OBVIOUS
  <1>2. ASSUME NEW y \in Elements(s)
        PROVE  y \in Elements(s \o t)
    <2>1. PICK i \in 1 .. Len(s) : y = s[i]
      BY <1>1, <1>2 DEF Elements
    <2>2. i \in DOMAIN (s \o t) /\ (s \o t)[i] = y
      BY <1>1, <2>1
    <2> QED BY <2>2 DEF Elements
  <1>3. ASSUME NEW y \in Elements(t)
        PROVE  y \in Elements(s \o t)
    <2>1. PICK i \in 1 .. Len(t) : y = t[i]
      BY <1>1, <1>3 DEF Elements
    <2>2. Len(s) + i \in DOMAIN (s \o t) /\ (s \o t)[Len(s) + i] = y
      BY <1>1, <2>1
    <2> QED BY <2>2 DEF Elements
  <1> QED BY <1>1, <1>2, <1>3

LEMMA ElementsEmpty == Elements(<< >>) = {}
  BY DEF Elements

\* Where a record may be.
LEMMA InMemoryWhere ==
  ASSUME NEW x
  PROVE  x \in InMemory <=> \/ x \in Elements(buf) \/ x \in Elements(pending)
                            \/ \E f \in Flushers : x \in Elements(flusher[f].batch)
  BY DEF InMemory

\* A goroutine that was resting begins to flush.
LEMMA FlushStarts ==
  ASSUME ExportTypes, NEW f \in Flushers, StartFlush(f)
  PROVE  /\ DOMAIN flusher' = Flushers
         /\ \A g \in Flushers : /\ DOMAIN flusher'[g] = {"at", "batch"}
                                /\ flusher'[g].batch = flusher[g].batch
                                /\ g # f => flusher'[g].at = flusher[g].at
         /\ flusher'[f].at = "lock"
  BY DEF ExportTypes, StartFlush
\* Somebody who is not flushing appends a record, and may begin to flush.
LEMMA InnerAppended ==
  ASSUME ExportTypes, NEW f \in Flushers, flusher[f].at = "rest", NEW r \in ApiRequests, InnerAppend(f, r)
  PROVE  /\ pending' \in Seq(ApiRequests) /\ Elements(pending') = Elements(pending) \cup {r}
         /\ DOMAIN flusher' = Flushers
         /\ \A g \in Flushers : /\ DOMAIN flusher'[g] = {"at", "batch"}
                                /\ flusher'[g].batch = flusher[g].batch
                                /\ g # f => flusher'[g].at = flusher[g].at
         /\ flusher'[f].at \in {"rest", "lock"}
  <1>1. pending' = Append(pending, r) /\ pending \in Seq(ApiRequests)
    BY DEF InnerAppend, ExportTypes
  <1>2. pending' \in Seq(ApiRequests) /\ Elements(pending') = Elements(pending) \cup {r}
    BY <1>1, ElementsAppend
  <1>3. CASE UNCHANGED flusher
    BY <1>2, <1>3 DEF ExportTypes
  <1>4. CASE StartFlush(f)
    BY <1>2, <1>4, FlushStarts
  <1> QED BY <1>3, <1>4 DEF InnerAppend

\* The flushers' types, when a goroutine that held no batch moves.
LEMMA FlusherTypes ==
  ASSUME ExportTypes, NEW f \in Flushers, flusher[f].at # "put",
         DOMAIN flusher' = Flushers,
         \A g \in Flushers : /\ DOMAIN flusher'[g] = {"at", "batch"}
                             /\ flusher'[g].batch = flusher[g].batch
                             /\ g # f => flusher'[g].at = flusher[g].at,
         flusher'[f].at \in {"rest", "lock"},
         buf' \in Seq(ApiRequests), pending' \in Seq(ApiRequests)
  PROVE  ExportTypes'
  BY DEF ExportTypes

\* Everything that was kept is, when batches and store stay.
LEMMA KeptStays ==
  ASSUME KeptInv, ExportTypes, UNCHANGED stored,
         NEW new, emitted' \subseteq emitted \cup new,
         \A g \in Flushers : flusher'[g].batch = flusher[g].batch,
         Elements(buf) \cup Elements(pending) \cup new \subseteq Elements(buf') \cup Elements(pending')
  PROVE  KeptInv'
  <1>1. ASSUME NEW x \in emitted'
        PROVE  x \in stored' \cup InMemory'
    <2>1. x \in stored \/ x \in new \/ x \in Elements(buf) \/ x \in Elements(pending)
            \/ \E f \in Flushers : x \in Elements(flusher[f].batch)
      BY <1>1, InMemoryWhere DEF KeptInv
    <2>2. CASE x \in stored
      BY <2>2
    <2>3. CASE x \in new \/ x \in Elements(buf) \/ x \in Elements(pending)
      BY <2>3 DEF InMemory, Elements
    <2>4. ASSUME NEW f \in Flushers, x \in Elements(flusher[f].batch)
          PROVE  x \in InMemory'
      <3>1. x \in Elements(flusher'[f].batch)
        BY <2>4
      <3> QED BY <3>1 DEF InMemory, Elements
    <2> QED BY <2>1, <2>2, <2>3, <2>4
  <1> QED BY <1>1 DEF KeptInv

LEMMA FlusherNames ==
  /\ Worker \in Flushers /\ Ticker \in Flushers /\ Closer \in Flushers /\ ApiRequests \subseteq Flushers
  /\ Worker \notin ApiRequests /\ Ticker \notin ApiRequests /\ Closer \notin ApiRequests
  /\ Worker # Ticker /\ Worker # Closer /\ Ticker # Closer
  BY ExportAssumption DEF Flushers

\* A handler hands its record to the exporter, and has it in its own hands when
\* the buffer is full.
LEMMA ExportRecordStep ==
  ASSUME ApiInv, NEW r \in ApiRequests, Export(r)
  PROVE  ApiInv'
  <1>0. /\ ApiTypes /\ LiveInv /\ AuditInv /\ ExportInv /\ apiReq[r].pc = "export"
        /\ ExportTypes /\ FlushInv /\ KeptInv /\ DrainInv
        /\ UNCHANGED <<tenants, keys, main, applied, racing, onDeleted, stored, ended, closing, lastFailed>>
        /\ UNCHANGED auditLog /\ emitted' = emitted \cup {r}
    BY DEF ApiInv, ExportInv, Export, AppendRecord, tables, apiHistory
  <1>1. MovesTo(r, "exporting") /\ main # "drained"
    BY <1>0, GotoMoves, RunningNotDrained DEF Export, Running
  <1>2. ApiTypes' /\ LiveInv'
    BY <1>0, <1>1, MoveTypes, MoveLive
  <1>3. apiReq'[r].pc = "exporting" /\ \A q \in ApiRequests : q # r => apiReq'[q].pc = apiReq[q].pc /\ apiReq'[q].op = apiReq[q].op
    BY <1>1 DEF MovesTo
  <1>4. AuditInv'
    <2>1. \A k \in keys : k.id \in ApiRequests
      BY <1>0 DEF ApiTypes
    <2> QED BY <1>0, <1>3, <2>1 DEF AuditInv
  <1>5. flusher[r].at = "rest" /\ r \in Flushers /\ buf \in Seq(ApiRequests) /\ pending \in Seq(ApiRequests)
    BY <1>0, FlusherNames DEF FlushInv, ExportTypes
  <1>6. /\ buf' \in Seq(ApiRequests) /\ pending' \in Seq(ApiRequests)
        /\ Elements(buf) \cup Elements(pending) \cup {r} \subseteq Elements(buf') \cup Elements(pending')
        /\ DOMAIN flusher' = Flushers
        /\ \A g \in Flushers : /\ DOMAIN flusher'[g] = {"at", "batch"}
                               /\ flusher'[g].batch = flusher[g].batch
                               /\ g # r => flusher'[g].at = flusher[g].at
        /\ flusher'[r].at \in {"rest", "lock"}
    <2>1. CASE Len(buf) < BufSize
      <3>1. buf' = Append(buf, r) /\ UNCHANGED <<pending, flusher>>
        BY <2>1 DEF Export, AppendRecord
      <3>2. buf' \in Seq(ApiRequests) /\ Elements(buf') = Elements(buf) \cup {r}
        BY <1>5, <3>1, ElementsAppend
      <3> QED BY <1>0, <1>5, <3>1, <3>2 DEF ExportTypes
    <2>2. CASE ~(Len(buf) < BufSize)
      <3>1. InnerAppend(r, r) /\ UNCHANGED buf
        BY <2>2 DEF Export, AppendRecord
      <3> QED BY <1>0, <1>5, <3>1, InnerAppended
    <2> QED BY <2>1, <2>2
  <1>7. ExportTypes'
    BY <1>0, <1>5, <1>6, FlusherTypes
  <1>8. FlushInv'
    BY <1>0, <1>3, <1>6, FlusherNames DEF FlushInv
  <1>9. KeptInv'
    BY <1>0, <1>6, KeptStays
  <1>10. DrainInv'
    BY <1>0, <1>1 DEF DrainInv
  <1> QED BY <1>2, <1>4, <1>7, <1>8, <1>9, <1>10 DEF ApiInv, ExportInv

\* The exporter's own goroutines concern nothing else.
LEMMA ExporterOnly ==
  ASSUME ApiInv, UNCHANGED apiVars, UNCHANGED emitted, ExportInv'
  PROVE  ApiInv'
  BY DEF ApiInv, apiVars, ApiTypes, LiveInv, AuditInv, ActsOnLiveTenant

LEMMA WorkerSteps ==
  ASSUME ExportInv, UNCHANGED <<apiReq, main>>, WorkerAppend \/ WorkerExit
  PROVE  ExportInv'
  <1>0. /\ ExportTypes /\ FlushInv /\ KeptInv /\ DrainInv /\ flusher[Worker].at = "rest"
        /\ Worker \notin ended
        /\ UNCHANGED <<stored, closing, emitted, lastFailed>>
    BY DEF ExportInv, WorkerAppend, WorkerExit, Resting
  <1>1. CASE WorkerAppend
    <2>1. /\ buf # << >> /\ buf' = Tail(buf) /\ InnerAppend(Worker, Head(buf)) /\ UNCHANGED ended
          /\ buf \in Seq(ApiRequests)
      BY <1>0, <1>1 DEF WorkerAppend, ExportTypes
    <2>2. /\ buf' \in Seq(ApiRequests) /\ Head(buf) \in ApiRequests
          /\ Elements(buf) \subseteq Elements(buf') \cup {Head(buf)}
      BY <2>1, ElementsTail
    <2>3. /\ pending' \in Seq(ApiRequests) /\ Elements(pending') = Elements(pending) \cup {Head(buf)}
          /\ DOMAIN flusher' = Flushers
          /\ \A g \in Flushers : /\ DOMAIN flusher'[g] = {"at", "batch"}
                                 /\ flusher'[g].batch = flusher[g].batch
                                 /\ g # Worker => flusher'[g].at = flusher[g].at
          /\ flusher'[Worker].at \in {"rest", "lock"}
      BY <1>0, <2>1, <2>2, FlusherNames, InnerAppended
    <2>4. ExportTypes'
      BY <1>0, <2>2, <2>3, FlusherNames, FlusherTypes
    <2>5. FlushInv'
      BY <1>0, <2>1, <2>3, FlusherNames DEF FlushInv
    <2>6. KeptInv'
      <3>1. Elements(buf) \cup Elements(pending) \cup {} \subseteq Elements(buf') \cup Elements(pending')
        BY <2>2, <2>3
      <3> QED BY <1>0, <2>3, <3>1, KeptStays
    <2>7. DrainInv'
      BY <1>0, <2>1 DEF DrainInv, Running, FlushInv
    <2> QED BY <2>4, <2>5, <2>6, <2>7 DEF ExportInv
  <1>2. CASE WorkerExit
    <2>1. /\ UNCHANGED <<buf, pending, flusher>> /\ ended' = ended \cup {Worker}
          /\ buf = << >> /\ closing # "open"
      BY <1>2 DEF WorkerExit
    <2>2. ExportTypes' /\ KeptInv'
      BY <1>0, <2>1 DEF ExportTypes, KeptInv, InMemory, Elements
    <2>3. FlushInv'
      BY <1>0, <2>1 DEF FlushInv
    <2>4. DrainInv'
      BY <1>0, <2>1 DEF DrainInv, Running
    <2> QED BY <2>2, <2>3, <2>4 DEF ExportInv
  <1> QED BY <1>1, <1>2
LEMMA TickerSteps ==
  ASSUME ExportInv, UNCHANGED <<apiReq, main>>, TickerFires \/ TickerExit
  PROVE  ExportInv'
  <1>0. /\ ExportTypes /\ FlushInv /\ KeptInv /\ DrainInv /\ flusher[Ticker].at = "rest"
        /\ Ticker \notin ended
        /\ UNCHANGED <<buf, pending, stored, closing, emitted, lastFailed>>
    BY DEF ExportInv, TickerFires, TickerExit, Resting
  <1>1. CASE TickerFires
    <2>1. /\ DOMAIN flusher' = Flushers /\ UNCHANGED ended
          /\ \A g \in Flushers : /\ DOMAIN flusher'[g] = {"at", "batch"}
                                 /\ flusher'[g].batch = flusher[g].batch
                                 /\ g # Ticker => flusher'[g].at = flusher[g].at
          /\ flusher'[Ticker].at = "lock"
      BY <1>0, <1>1, FlusherNames, FlushStarts DEF TickerFires
    <2>2. ExportTypes'
      BY <1>0, <2>1, FlusherNames, FlusherTypes DEF ExportTypes
    <2>3. FlushInv'
      BY <1>0, <2>1, FlusherNames DEF FlushInv
    <2>4. KeptInv'
      <3>1. Elements(buf) \cup Elements(pending) \cup {} \subseteq Elements(buf') \cup Elements(pending')
        BY <1>0
      <3> QED BY <1>0, <2>1, <3>1, KeptStays
    <2>5. DrainInv'
      BY <1>0, <2>1, FlusherNames DEF DrainInv, Running
    <2> QED BY <2>2, <2>3, <2>4, <2>5 DEF ExportInv
  <1>2. CASE TickerExit
    <2>1. UNCHANGED flusher /\ ended' = ended \cup {Ticker} /\ closing = "inner"
      BY <1>2 DEF TickerExit
    <2>2. ExportTypes' /\ KeptInv'
      BY <1>0, <2>1 DEF ExportTypes, KeptInv, InMemory, Elements
    <2>3. FlushInv'
      BY <1>0, <2>1 DEF FlushInv
    <2>4. DrainInv'
      BY <1>0, <2>1, FlusherNames DEF DrainInv, Running
    <2> QED BY <2>2, <2>3, <2>4 DEF ExportInv
  <1> QED BY <1>1, <1>2

\* Once Close flushes after an orderly end, nobody else does.
LEMMA OnlyCloserFlushes ==
  ASSUME FlushInv, DrainInv, NEW f \in Flushers, flusher[f].at # "rest",
         main = "drained", closing \in {"flush", "closed"}
  PROVE  f = Closer
  <1>1. f \notin ApiRequests
    BY DEF FlushInv, DrainInv, Running
  <1>2. f # Worker /\ f # Ticker
    BY DEF FlushInv
  <1> QED BY <1>1, <1>2 DEF Flushers

\* The batch takes all that is pending.
LEMMA TakeStep ==
  ASSUME ExportInv, UNCHANGED <<apiReq, main>>, NEW f \in Flushers, FlushTake(f)
  PROVE  ExportInv'
  <1>0. /\ ExportTypes /\ FlushInv /\ KeptInv /\ DrainInv /\ flusher[f].at = "lock"
        /\ UNCHANGED <<buf, stored, closing, emitted, lastFailed, ended>> /\ pending' = << >>
        /\ buf \in Seq(ApiRequests) /\ pending \in Seq(ApiRequests)
    BY DEF ExportInv, FlushTake, ExportTypes
  <1>1. /\ DOMAIN flusher' = Flushers
        /\ \A g \in Flushers : g # f => flusher'[g] = flusher[g]
        /\ flusher'[f] = IF pending = << >> THEN Resting ELSE [at |-> "put", batch |-> pending]
    BY <1>0 DEF FlushTake, ExportTypes
  <1>2. /\ DOMAIN flusher'[f] = {"at", "batch"} /\ flusher'[f].batch = pending
        /\ flusher'[f].at \in {"rest", "put"} /\ (flusher'[f].at # "put" => pending = << >>)
    BY <1>1 DEF Resting
  <1>3. ExportTypes'
    BY <1>0, <1>1, <1>2 DEF ExportTypes
  <1>4. FlushInv'
    BY <1>0, <1>1, <1>2, FlusherNames DEF FlushInv
  <1>5. KeptInv'
    <2>1. ASSUME NEW x \in emitted'
          PROVE  x \in stored' \cup InMemory'
      <3>1. x \in stored \/ x \in Elements(buf) \/ x \in Elements(pending)
              \/ \E g \in Flushers : x \in Elements(flusher[g].batch)
        BY <1>0, <2>1, InMemoryWhere DEF KeptInv
      <3>2. CASE x \in stored \/ x \in Elements(buf)
        BY <1>0, <3>2 DEF InMemory, Elements
      <3>3. CASE x \in Elements(pending)
        <4>1. x \in Elements(flusher'[f].batch)
          BY <1>2, <3>3
        <4> QED BY <4>1 DEF InMemory, Elements
      <3>4. ASSUME NEW g \in Flushers, x \in Elements(flusher[g].batch)
            PROVE  x \in InMemory'
        <4>1. g # f
          BY <1>0, <3>4, ElementsEmpty DEF ExportTypes
        <4>2. x \in Elements(flusher'[g].batch)
          BY <1>1, <3>4, <4>1
        <4> QED BY <4>2 DEF InMemory, Elements
      <3> QED BY <3>1, <3>2, <3>3, <3>4
    <2> QED BY <2>1 DEF KeptInv
  <1>6. DrainInv'
    BY <1>0 DEF DrainInv, Running
  <1> QED BY <1>3, <1>4, <1>5, <1>6 DEF ExportInv

\* An upload ends; a failed one puts its batch back.
LEMMA PutSteps ==
  ASSUME ExportInv, UNCHANGED <<apiReq, main>>, NEW f \in Flushers, PutOk(f) \/ PutError(f)
  PROVE  ExportInv'
  <1>0. /\ ExportTypes /\ FlushInv /\ KeptInv /\ DrainInv /\ flusher[f].at = "put"
        /\ UNCHANGED <<buf, closing, emitted, ended>>
        /\ flusher' = [flusher EXCEPT ![f] = Resting]
        /\ pending \in Seq(ApiRequests) /\ flusher[f].batch \in Seq(ApiRequests)
    BY DEF ExportInv, PutOk, PutError, ExportTypes
  <1>1. /\ DOMAIN flusher' = Flushers /\ flusher'[f] = Resting
        /\ \A g \in Flushers : g # f => flusher'[g] = flusher[g]
    BY <1>0 DEF ExportTypes
  <1>2. /\ flusher'[f].at = "rest" /\ flusher'[f].batch = << >> /\ DOMAIN flusher'[f] = {"at", "batch"}
    BY <1>1 DEF Resting
  <1>3. FlushInv'
    BY <1>0, <1>1, <1>2, FlusherNames DEF FlushInv
  <1> DEFINE Typed(g) == /\ DOMAIN flusher'[g] = {"at", "batch"} /\ flusher'[g].batch \in Seq(ApiRequests)
                         /\ flusher'[g].at \in {"rest", "lock", "put"}
                         /\ flusher'[g].at # "put" => flusher'[g].batch = << >>
  <1>8. ASSUME NEW g \in Flushers
        PROVE  Typed(g)
    <2>1. << >> \in Seq(ApiRequests)
      OBVIOUS
    <2>2. CASE g = f
      BY <1>2, <2>1, <2>2
    <2>3. CASE g # f
      BY <1>0, <1>1, <2>3 DEF ExportTypes
    <2> QED BY <2>2, <2>3
  <1>4. ASSUME NEW x \in emitted, ~\E g \in Flushers : g # f /\ x \in Elements(flusher[g].batch)
        PROVE  \/ x \in stored \/ x \in Elements(buf) \/ x \in Elements(pending)
               \/ x \in Elements(flusher[f].batch)
    BY <1>0, <1>4, InMemoryWhere DEF KeptInv
  <1>5. ASSUME stored \subseteq stored', Elements(pending) \subseteq Elements(pending'),
               Elements(flusher[f].batch) \subseteq stored' \cup Elements(pending')
        PROVE  KeptInv'
    <2>1. ASSUME NEW x \in emitted'
          PROVE  x \in stored' \cup InMemory'
      <3>1. ASSUME NEW g \in Flushers, g # f, x \in Elements(flusher[g].batch)
            PROVE  x \in InMemory'
        <4>1. x \in Elements(flusher'[g].batch)
          BY <1>1, <3>1
        <4> QED BY <4>1 DEF InMemory, Elements
      <3>2. CASE x \in Elements(buf) \/ x \in Elements(pending')
        BY <1>0, <3>2 DEF InMemory, Elements
      <3> QED BY <1>0, <1>4, <1>5, <2>1, <3>1, <3>2
    <2> QED BY <2>1 DEF KeptInv
  <1>6. CASE PutOk(f)
    <2>1. /\ stored' = stored \cup Elements(flusher[f].batch) /\ UNCHANGED <<pending, lastFailed>>
      BY <1>6 DEF PutOk
    <2>2. ExportTypes'
      BY <1>0, <1>1, <1>8, <2>1 DEF ExportTypes
    <2>3. KeptInv'
      BY <1>5, <2>1
    <2>4. DrainInv'
      <3>1. main = "drained" /\ closing \in {"flush", "closed"} => f = Closer
        BY <1>0, OnlyCloserFlushes
      <3> QED BY <1>0, <2>1, <3>1 DEF DrainInv, Running
    <2> QED BY <1>3, <2>2, <2>3, <2>4 DEF ExportInv
  <1>7. CASE PutError(f)
    <2>1. /\ stored \subseteq stored' /\ pending' = flusher[f].batch \o pending
          /\ (f = Closer => lastFailed')
      BY <1>7 DEF PutError
    <2>2. /\ pending' \in Seq(ApiRequests)
          /\ Elements(flusher[f].batch) \cup Elements(pending) \subseteq Elements(pending')
      BY <1>0, <2>1, ElementsConcat
    <2>3. ExportTypes'
      BY <1>0, <1>1, <1>8, <2>2 DEF ExportTypes
    <2>4. KeptInv'
      BY <1>5, <2>1, <2>2
    <2>5. DrainInv'
      <3>1. main = "drained" /\ closing \in {"flush", "closed"} => f = Closer
        BY <1>0, OnlyCloserFlushes
      <3> QED BY <1>0, <2>1, <3>1 DEF DrainInv, Running
    <2> QED BY <1>3, <2>3, <2>4, <2>5 DEF ExportInv
  <1> QED BY <1>6, <1>7

\* Close waits for the worker, then for the ticker, and flushes once.
LEMMA CloseSteps ==
  ASSUME ExportInv, UNCHANGED <<apiReq, main>>, CloseInner \/ CloseFlush \/ CloseReturns
  PROVE  ExportInv'
  <1>0. /\ ExportTypes /\ FlushInv /\ KeptInv /\ DrainInv
        /\ UNCHANGED <<buf, pending, stored, ended, emitted, lastFailed>>
    BY DEF ExportInv, CloseInner, CloseFlush, CloseReturns
  <1>1. CASE CloseInner
    <2>1. UNCHANGED flusher /\ closing = "outer" /\ closing' = "inner" /\ Worker \in ended
      BY <1>1 DEF CloseInner
    <2>2. ExportTypes' /\ KeptInv' /\ FlushInv' /\ DrainInv'
      BY <1>0, <2>1 DEF ExportTypes, KeptInv, InMemory, Elements, FlushInv, DrainInv, Running
    <2> QED BY <2>2 DEF ExportInv
  <1>2. CASE CloseFlush
    <2>1. /\ closing = "inner" /\ closing' = "flush" /\ Ticker \in ended
          /\ flusher[Closer].at = "rest"
          /\ DOMAIN flusher' = Flushers
          /\ \A g \in Flushers : /\ DOMAIN flusher'[g] = {"at", "batch"}
                                 /\ flusher'[g].batch = flusher[g].batch
                                 /\ g # Closer => flusher'[g].at = flusher[g].at
          /\ flusher'[Closer].at = "lock"
      BY <1>0, <1>2, FlusherNames, FlushStarts DEF CloseFlush, FlushInv
    <2>2. ExportTypes'
      BY <1>0, <2>1, FlusherNames, FlusherTypes DEF ExportTypes
    <2>3. FlushInv'
      BY <1>0, <2>1, FlusherNames DEF FlushInv
    <2>4. KeptInv'
      <3>1. Elements(buf) \cup Elements(pending) \cup {} \subseteq Elements(buf') \cup Elements(pending')
        BY <1>0
      <3> QED BY <1>0, <2>1, <3>1, KeptStays
    <2>5. DrainInv'
      BY <1>0, <2>1 DEF DrainInv, Running
    <2> QED BY <2>2, <2>3, <2>4, <2>5 DEF ExportInv
  <1>3. CASE CloseReturns
    <2>1. /\ UNCHANGED flusher /\ closing = "flush" /\ closing' = "closed"
          /\ flusher[Closer].at = "rest"
      BY <1>3 DEF CloseReturns, Resting
    <2>2. ExportTypes' /\ KeptInv' /\ FlushInv' /\ DrainInv'
      BY <1>0, <2>1 DEF ExportTypes, KeptInv, InMemory, Elements, FlushInv, DrainInv, Running
    <2> QED BY <2>2 DEF ExportInv
  <1> QED BY <1>1, <1>2, <1>3

\* SIGTERM: drained means that no handler is left.
LEMMA TerminateStep ==
  ASSUME ApiInv, Terminate
  PROVE  ApiInv'
  <1>0. /\ ApiTypes /\ LiveInv /\ AuditInv /\ ExportTypes /\ FlushInv /\ KeptInv /\ DrainInv
        /\ closing = "open" /\ closing' = "outer"
        /\ UNCHANGED <<buf, pending, flusher, stored, ended, emitted, lastFailed>>
        /\ UNCHANGED <<tenants, keys, auditLog, apiReq, applied, racing, onDeleted>>
    BY DEF ApiInv, ExportInv, Terminate, CloseBuffered, tables, apiHistory
  <1>1. ApiTypes' /\ LiveInv' /\ AuditInv'
    BY <1>0 DEF ApiTypes, LiveInv, AuditInv, ActsOnLiveTenant
  <1>2. ExportTypes' /\ KeptInv' /\ FlushInv'
    BY <1>0 DEF ExportTypes, KeptInv, InMemory, Elements, FlushInv
  <1>3. DrainInv'
    <2>1. main = "serving" /\ (main' = "drained" => \A r \in ApiRequests : ~Running(r))
      BY DEF Terminate
    <2>2. Worker \notin ended
      BY <1>0 DEF FlushInv
    <2> QED BY <1>0, <2>1, <2>2 DEF DrainInv, Running
  <1> QED BY <1>1, <1>2, <1>3 DEF ApiInv, ExportInv
-----------------------------------------------------------------------------

LEMMA ApiStep ==
  ASSUME ApiInv, [ApiNext]_<<apiVars, exportVars>>
  PROVE  ApiInv'
  <1>1. ASSUME NEW r \in ApiRequests, putRetention(r) \/ dropRetention(r)
        PROVE  ApiInv'
    BY <1>1, ApplyStep DEF putRetention, dropRetention, At
  <1>2. ASSUME ExportStep, UNCHANGED apiVars
        PROVE  ApiInv'
    <2>1. UNCHANGED <<apiReq, main>> /\ ExportInv
      BY <1>2 DEF apiVars, ApiInv
    <2>2. UNCHANGED emitted
      BY <1>2 DEF ExportStep, WorkerAppend, WorkerExit, TickerFires, TickerExit, FlushTake, PutOk,
                  PutError, CloseInner, CloseFlush, CloseReturns
    <2>3. ExportInv'
      BY <1>2, <2>1, WorkerSteps, TickerSteps, TakeStep, PutSteps, CloseSteps DEF ExportStep
    <2> QED BY <1>2, <2>2, <2>3, ExporterOnly
  <1>3. CASE UNCHANGED <<apiVars, exportVars>>
    <2>1. UNCHANGED <<buf, pending, flusher, stored, ended, closing, emitted, lastFailed, apiReq, main>>
      BY <1>3 DEF apiVars, exportVars
    <2>2. ExportInv'
      BY <2>1 DEF ApiInv, ExportInv, ExportTypes, KeptInv, InMemory, Elements, FlushInv, DrainInv, Running
    <2> QED BY <1>3, <2>1, <2>2, ExporterOnly
  <1> QED
    BY <1>1, <1>2, <1>3, ArriveStep, CheckStep, ActStep, WriteAuditStep, ExportRecordStep,
       RespondStep, TerminateStep DEF ApiNext

LEMMA ApiInitInv == ApiInit /\ ExportInit => ApiInv
  <1> SUFFICES ASSUME ApiInit, ExportInit PROVE ApiInv
    OBVIOUS
  <1>1. ApiTypes
    BY DEF ApiInit, ApiTypes
  <1>2. \A r \in ApiRequests : apiReq[r].pc = "idle"
    BY DEF ApiInit
  <1>3. LiveInv
    BY <1>2 DEF LiveInv, ActsOnLiveTenant, ApiInit
  <1>4. AuditInv
    <2>1. auditLog = {} /\ emitted = {} /\ applied = {} /\ keys = {}
      BY DEF ApiInit, ExportInit
    <2> QED BY <1>2, <2>1 DEF AuditInv
  <1>5. \A f \in Flushers : flusher[f].at = "rest"
    BY DEF ExportInit, Resting
  <1>6. ExportTypes
    <2>1. << >> \in Seq(ApiRequests)
      OBVIOUS
    <2>2. ASSUME NEW f \in Flushers
          PROVE  DOMAIN flusher[f] = {"at", "batch"} /\ flusher[f].batch = << >>
      BY DEF ExportInit, Resting
    <2>3. DOMAIN flusher = Flushers /\ buf = << >> /\ pending = << >>
      BY DEF ExportInit
    <2> QED BY <1>5, <2>1, <2>2, <2>3 DEF ExportTypes
  <1>7. FlushInv
    BY <1>5, FlusherNames DEF ExportInit, FlushInv
  <1>8. DrainInv /\ KeptInv
    BY DEF DrainInv, KeptInv, ApiInit, ExportInit
  <1> QED BY <1>1, <1>3, <1>4, <1>6, <1>7, <1>8 DEF ApiInv, ExportInv

LEMMA ApiInvariance == ApiSpec => []ApiInv
  <1>1. ApiInv /\ [ApiNext]_<<apiVars, exportVars>> => ApiInv'
    BY ApiStep
  <1> QED BY <1>1, ApiInitInv, PTL DEF ApiSpec

\* issueAPIKey and putRetention act on a live tenant, unless it was deleted
\* between their look and their statement, however many requests there are.
THEOREM LiveTenantOrRace == ApiSpec => []ActsOnLiveTenant
  <1>1. ApiInv => ActsOnLiveTenant
    BY DEF ApiInv, LiveInv
  <1> QED BY <1>1, ApiInvariance, PTL

\* Every audit row and every exported record stands for a change that was made,
\* by a request that did not fail, and a row's record is with the exporter when
\* the operator has the answer (audit), whichever statements fail.
THEOREM AuditIsTruthful == ApiSpec => []AuditTruthful
  <1>1. ApiInv => AuditTruthful
    BY DEF ApiInv, AuditInv, AuditTruthful
  <1> QED BY <1>1, ApiInvariance, PTL

\* BufferedExporter and S3Exporter lose no record while the process runs, and
\* an orderly Close whose last upload succeeds leaves all of them in the bucket.
THEOREM NoRecordLost == ApiSpec => []ExportAccounted
  <1>1. ApiInv => ExportAccounted
    <2> SUFFICES ASSUME ApiInv
                 PROVE  ExportAccounted
      OBVIOUS
    <2>0. ExportTypes /\ FlushInv /\ DrainInv /\ KeptInv
      BY DEF ApiInv, ExportInv
    <2>1. ASSUME ProcessEnded, main = "drained", ~lastFailed
          PROVE  InMemory = {}
      <3>1. closing = "closed" /\ Worker \in ended /\ Ticker \in ended
        BY <2>0, <2>1 DEF ProcessEnded, FlushInv
      <3>2. buf = << >> /\ flusher[Closer].at = "rest" /\ pending = << >>
        BY <2>0, <2>1, <3>1 DEF FlushInv, DrainInv
      <3>3. ASSUME NEW f \in Flushers
            PROVE  flusher[f].batch = << >>
        <4>1. flusher[f].at = "rest"
          BY <2>0, <2>1, <3>1, <3>2, OnlyCloserFlushes
        <4> QED BY <2>0, <4>1 DEF ExportTypes
      <3> QED BY <3>2, <3>3, ElementsEmpty, InMemoryWhere
    <2> QED BY <2>0, <2>1 DEF ExportAccounted, KeptInv
  <1> QED BY <1>1, ApiInvariance, PTL
=============================================================================
