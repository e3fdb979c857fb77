----------------------------- MODULE TenantApi -----------------------------
(***************************************************************************)
(* The control plane, src/services/tenant-api: its tables in Postgres, the *)
(* TTL rules it sets in ClickHouse, and its handlers as steps: look the    *)
(* tenant up, change something, write the audit row, export the record.    *)
(* Each statement is its own transaction and may fail, or be executed      *)
(* although its answer is lost.  A key or a dashboard is named by the      *)
(* request that created it.  Handlers that only read are left out.         *)
(***************************************************************************)
EXTENDS AuditExport

CONSTANTS
    Tenants,
    Existing,   \* the tenants that exist at the start
    Tables,     \* the ClickHouse tables in the order Apply alters them
    MaxDays,    \* the largest number of days Validate lets pass
    Ops         \* the requests operators send

NoTenant == "none"
Kinds == {"tenant.create", "tenant.delete", "api_key.issue", "api_key.revoke",
          "retention.update", "retention.drop",
          "dashboard.create", "dashboard.update", "dashboard.delete"}

ASSUME ApiAssumption ==
    /\ Existing \subseteq Tenants /\ NoTenant \notin Tenants /\ MaxDays \in Nat
    /\ \A op \in Ops : op.kind \in Kinds /\ op.tenant \in Tenants

VARIABLES
    tenants,     \* table tenants: absent, live or (softly) deleted
    keys,        \* table tenant_api_keys: the keys issued and not revoked
    dashboards,  \* table dashboards: [id, tenant, name]
    ttl,         \* the tenant whose TTL rule each ClickHouse table has
    auditLog,    \* table tenant_audit_log
    apiReq,      \* the handlers: what for, where, and the table Apply is at
    main,        \* where main is
    applied,     \* requests that changed what they were to change, all of it (history)
    racing,      \* requests whose tenant was deleted behind their back (history)
    onDeleted    \* requests that changed something of a tenant not live (history)

apiVars == <<tenants, keys, dashboards, ttl, auditLog, apiReq, main,
             applied, racing, onDeleted>>
tables == <<tenants, keys, dashboards, ttl>>
apiHistory == <<racing, onDeleted>>

NoOp == [kind |-> "none", tenant |-> NoTenant]

ApiInit ==
    /\ tenants = [t \in Tenants |-> IF t \in Existing THEN "live" ELSE "absent"]
    /\ keys = {} /\ dashboards = {} /\ auditLog = {}
    /\ ttl = [i \in DOMAIN Tables |-> NoTenant]
    /\ apiReq = [r \in ApiRequests |-> [pc |-> "idle", op |-> NoOp, table |-> 1]]
    /\ main = "serving"
    /\ applied = {} /\ racing = {} /\ onDeleted = {}

ApiGoto(r, where) == apiReq' = [apiReq EXCEPT ![r].pc = where]

\* issueAPIKey and putRetention look for the tenant; the others do not.
ChecksTenant(kind) == kind \in {"api_key.issue", "retention.update"}

\* A request passes requireAdmin and reaches its handler.
ApiArrive(r, op) ==
    /\ main = "serving" /\ apiReq[r].pc = "idle"
    /\ \A q \in ApiRequests : q < r => apiReq[q].pc # "idle"
    /\ apiReq' = [apiReq EXCEPT ![r].op = op,
                          ![r].pc = IF ChecksTenant(op.kind) THEN "check" ELSE "act"]
    /\ UNCHANGED <<tables, auditLog, main, applied, apiHistory, exportVars>>

\* A mutant of GetTenant: deleted tenants are found as well.
GetTenantAny(t) == tenants[t] # "absent"

GetTenant(t) == tenants[t] = "live"

\* Not found, or the lookup failed: 404.
CheckTenant(r) ==
    /\ apiReq[r].pc = "check"
    /\ \/ GetTenant(apiReq[r].op.tenant) /\ ApiGoto(r, "act")
       \/ ApiGoto(r, "failed")
    /\ UNCHANGED <<tables, auditLog, main, applied, apiHistory, exportVars>>

----------------------------------------------------------------------------
(* The changes, each one statement: what makes it possible and what it does *)

CreateTenant(r, t) ==
    /\ tenants[t] = "absent"
    /\ tenants' = [tenants EXCEPT ![t] = "live"]
    /\ UNCHANGED <<keys, dashboards, racing>>

\* Keys, dashboards and TTL rules of the tenant stay.
SoftDeleteTenant(r, t) ==
    /\ tenants[t] = "live"
    /\ tenants' = [tenants EXCEPT ![t] = "deleted"]
    /\ racing' = racing \union {q \in ApiRequests : apiReq[q].op.tenant = t /\ apiReq[q].pc = "act"}
    /\ UNCHANGED <<keys, dashboards>>

\* The row's foreign key wants a tenant, be it deleted.
KeyIssued(r, t) ==
    /\ tenants[t] # "absent"
    /\ keys' = keys \union {[id |-> r, tenant |-> t]}
    /\ UNCHANGED <<tenants, dashboards, racing>>

\* A mutant of KeyRevoked: a key that is not there counts as revoked.
RevokeAnyKey(r, t) ==
    /\ keys' = {k \in keys : k.tenant # t}
    /\ UNCHANGED <<tenants, dashboards, racing>>

KeyRevoked(r, t) ==
    /\ \E k \in keys : k.tenant = t /\ keys' = keys \ {k}
    /\ UNCHANGED <<tenants, dashboards, racing>>

NameFree(t, name, but) ==
    ~ \E d \in dashboards : d.tenant = t /\ d.name = name /\ d.id # but

CreateDashboard(r, t) ==
    /\ tenants[t] # "absent" /\ NameFree(t, apiReq[r].op.name, r)
    /\ dashboards' = dashboards \union {[id |-> r, tenant |-> t, name |-> apiReq[r].op.name]}
    /\ UNCHANGED <<tenants, keys, racing>>

\* By id alone: whose dashboard it is does not matter.
UpdateDashboard(r, t) ==
    /\ \E d \in dashboards :
         /\ NameFree(d.tenant, apiReq[r].op.name, d.id)
         /\ dashboards' = (dashboards \ {d}) \union {[d EXCEPT !.name = apiReq[r].op.name]}
    /\ UNCHANGED <<tenants, keys, racing>>

DeleteDashboard(r, t) ==
    /\ \E d \in dashboards : dashboards' = dashboards \ {d}
    /\ UNCHANGED <<tenants, keys, racing>>

----------------------------------------------------------------------------
(* The handlers *)

At(r, kind) == apiReq[r].pc = "act" /\ apiReq[r].op.kind = kind

\* A handler's statement has taken effect: the handler goes on, unless the
\* answer of the database gets lost.
TakesEffect(r, next) ==
    /\ \E pc \in {next, "failed"} : ApiGoto(r, pc)
    /\ applied' = IF <<tenants, keys, dashboards>>' # <<tenants, keys, dashboards>>
                  THEN applied \union {r} ELSE applied
    /\ onDeleted' = IF tenants[apiReq[r].op.tenant] # "live" /\ ChecksTenant(apiReq[r].op.kind)
                    THEN onDeleted \union {r} ELSE onDeleted
    /\ UNCHANGED <<ttl, auditLog, main, exportVars>>

createTenant(r, t) == At(r, "tenant.create") /\ CreateTenant(r, t) /\ TakesEffect(r, "audit")
deleteTenant(r, t) == At(r, "tenant.delete") /\ SoftDeleteTenant(r, t) /\ TakesEffect(r, "audit")
issueAPIKey(r, t) == At(r, "api_key.issue") /\ KeyIssued(r, t) /\ TakesEffect(r, "audit")
revokeAPIKey(r, t) == At(r, "api_key.revoke") /\ KeyRevoked(r, t) /\ TakesEffect(r, "audit")

\* No audit of dashboards.
createDashboard(r, t) == At(r, "dashboard.create") /\ CreateDashboard(r, t) /\ TakesEffect(r, "done")
updateDashboard(r, t) == At(r, "dashboard.update") /\ UpdateDashboard(r, t) /\ TakesEffect(r, "done")
deleteDashboard(r, t) == At(r, "dashboard.delete") /\ DeleteDashboard(r, t) /\ TakesEffect(r, "done")

\* The statement fails or finds no row, or the body was malformed.
Rejected(r) ==
    /\ apiReq[r].pc = "act" /\ apiReq[r].op.kind \notin {"retention.update", "retention.drop"}
    /\ ApiGoto(r, "failed")
    /\ UNCHANGED <<tables, auditLog, main, applied, apiHistory, exportVars>>

Act(r, t) ==
    \/ createTenant(r, t) \/ deleteTenant(r, t) \/ issueAPIKey(r, t) \/ revokeAPIKey(r, t)
    \/ createDashboard(r, t) \/ updateDashboard(r, t) \/ deleteDashboard(r, t)
    \/ Rejected(r)

----------------------------------------------------------------------------
(* Retention: Apply alters one table after the other *)

\* Spec.Validate for one table: hot and total days, zero meaning unset.
ValidDays(d) ==
    /\ d.hot \in 0 .. MaxDays /\ d.total \in 0 .. MaxDays
    /\ d.hot > 0 /\ d.total > 0 => d.total >= d.hot

Validate(days) == \A i \in DOMAIN Tables : ValidDays(days[i])

\* Drop is Apply with the defaults, which concern every table.
Defaults == [i \in DOMAIN Tables |-> [hot |-> 1, total |-> 1]]

Skipped(d) == d.hot = 0 /\ d.total = 0

\* MODIFY TTL replaces the rule of the whole table, whoever's it was.  (An ALTER
\* that fails has not taken effect.)
Apply(r, days) ==
    LET op == apiReq[r].op
        i  == apiReq[r].table
    IN  /\ \/ /\ Validate(days) /\ i <= Len(Tables)
              /\ apiReq' = [apiReq EXCEPT ![r].table = i + 1]
              /\ IF Skipped(days[i]) THEN UNCHANGED <<ttl, onDeleted>>
                 ELSE /\ ttl' = [ttl EXCEPT ![i] = op.tenant]
                      /\ onDeleted' = IF tenants[op.tenant] # "live" /\ ChecksTenant(op.kind)
                                      THEN onDeleted \union {r} ELSE onDeleted
              /\ UNCHANGED applied
           \/ /\ Validate(days) /\ i > Len(Tables)
              /\ ApiGoto(r, "audit") /\ applied' = applied \union {r}
              /\ UNCHANGED <<ttl, onDeleted>>
           \/ /\ ~Validate(days) \/ i <= Len(Tables)
              /\ ApiGoto(r, "failed") /\ UNCHANGED <<ttl, applied, onDeleted>>
        /\ UNCHANGED <<tenants, keys, dashboards, auditLog, main, racing, exportVars>>

putRetention(r) == At(r, "retention.update") /\ Apply(r, apiReq[r].op.days)
dropRetention(r) == At(r, "retention.drop") /\ Apply(r, Defaults)

----------------------------------------------------------------------------
(* audit: the row, then the record; neither failure is the client's *)

WriteAudit(r) ==
    /\ apiReq[r].pc = "audit"
    /\ \/ auditLog' = auditLog \union {r}
       \/ UNCHANGED auditLog
    /\ ApiGoto(r, "export")
    /\ UNCHANGED <<tables, main, applied, racing, onDeleted, exportVars>>

Export(r) ==
    /\ apiReq[r].pc = "export"
    /\ AppendRecord(r)
    /\ ApiGoto(r, "exporting")
    /\ UNCHANGED <<tables, auditLog, main, applied, apiHistory>>

\* Append has returned, after the handler's own flush if it had to do one.
Respond(r) ==
    /\ apiReq[r].pc = "exporting" /\ flusher[r] = Resting
    /\ ApiGoto(r, "done")
    /\ UNCHANGED <<tables, auditLog, main, applied, apiHistory, exportVars>>

Running(r) == apiReq[r].pc \notin {"idle", "done", "failed"}

\* SIGTERM: no new requests; Shutdown waits for the handlers, or gives up
\* after ten seconds, and then main's deferred calls close the exporter.
Terminate ==
    /\ main = "serving"
    /\ \E how \in {"drained", "overdue"} :
         /\ how = "drained" => \A r \in ApiRequests : ~Running(r)
         /\ main' = how
    /\ CloseBuffered
    /\ UNCHANGED <<tables, auditLog, apiReq, applied, apiHistory>>

\* Once Close has returned, main returns, and with it the process ends.
ProcessEnded == closing = "closed"

ApiNext ==
    /\ ~ProcessEnded
    /\ \/ \E r \in ApiRequests :
            \/ \E op \in Ops : ApiArrive(r, op)
            \/ CheckTenant(r) \/ Act(r, apiReq[r].op.tenant) \/ putRetention(r) \/ dropRetention(r)
            \/ WriteAudit(r) \/ Export(r) \/ Respond(r)
       \/ Terminate
       \/ ExportStep /\ UNCHANGED apiVars

ApiSpec == ApiInit /\ ExportInit /\ [][ApiNext]_<<apiVars, exportVars>>

----------------------------------------------------------------------------
(* Properties *)

(***************************************************************************)
(* The audit trail is true: a row or an exported record stands for a       *)
(* change that was made, whole, by a request that did not fail, whatever   *)
(* of its steps fails or runs late; and when the operator has the answer,  *)
(* a change that is in the table is with the exporter too.                 *)
(***************************************************************************)
AuditTruthful ==
    /\ auditLog \union emitted \subseteq applied
    /\ \A r \in auditLog \union emitted : apiReq[r].pc # "failed"
    /\ \A r \in auditLog : apiReq[r].pc = "done" => r \in emitted

(***************************************************************************)
(* "Capture has to be transactional with the action it logs (you don't     *)
(* want a key revoke that silently fails to record)": the row of a revoke  *)
(* that was answered with success is in the table.                         *)
(***************************************************************************)
RevokeIsRecorded ==
    \A r \in applied :
        apiReq[r].op.kind = "api_key.revoke" /\ apiReq[r].pc = "done" => r \in auditLog

(***************************************************************************)
(* No record that the exporter has accepted gets lost while the process    *)
(* runs, whoever is flushing and whichever upload fails; and after an      *)
(* orderly end, with no handler left behind and the last upload            *)
(* successful, every one of them is in the bucket.                         *)
(***************************************************************************)
ExportAccounted ==
    /\ emitted \subseteq stored \union InMemory
    /\ ProcessEnded /\ main = "drained" /\ ~lastFailed => emitted \subseteq stored

(***************************************************************************)
(* A key is issued, and a TTL overridden, only for a tenant that exists;   *)
(* the one exception is a tenant deleted between the handler's look and    *)
(* its statement.                                                          *)
(***************************************************************************)
ActsOnLiveTenant == onDeleted \subseteq racing

----------------------------------------------------------------------------
(* The inductive invariants behind them; TenantApiProofs uses them *)

ApiTypes ==
    /\ DOMAIN apiReq = ApiRequests
    /\ \A r \in ApiRequests :
         /\ DOMAIN apiReq[r] = {"pc", "op", "table"}
         /\ apiReq[r].pc # "idle" => apiReq[r].op.kind \in Kinds /\ apiReq[r].op.tenant \in Tenants
    /\ tenants \in [Tenants -> {"absent", "live", "deleted"}]
    /\ keys \subseteq [id : ApiRequests, tenant : Tenants]

\* A handler that looked its tenant up found it, and it is still there unless
\* somebody deleted it since.
LiveInv ==
    /\ \A r \in ApiRequests : apiReq[r].pc = "act" /\ ChecksTenant(apiReq[r].op.kind) =>
         tenants[apiReq[r].op.tenant] = "live" \/ r \in racing
    /\ ActsOnLiveTenant

\* How far a handler is tells what it has changed, logged and exported.  The key
\* of a request is in the table only after its statement: the INSERT is a change.
AuditInv ==
    /\ \A k \in keys : apiReq[k.id].pc \notin {"idle", "check", "act"}
    /\ applied \subseteq ApiRequests /\ auditLog \union emitted \subseteq applied
    /\ \A r \in ApiRequests :
         /\ apiReq[r].pc \in {"audit", "export", "exporting"} => r \in applied
         /\ apiReq[r].pc = "exporting" => r \in emitted
         /\ apiReq[r].pc = "done" /\ r \in auditLog => r \in emitted
         /\ r \in auditLog => apiReq[r].pc \in {"export", "exporting", "done"}
         /\ r \in emitted => apiReq[r].pc \in {"exporting", "done"}

\* Only a handler that is exporting flushes, the worker and the ticker have
\* returned with nothing in hand, and Close flushes once.
ExportTypes ==
    /\ DOMAIN flusher = Flushers
    /\ \A f \in Flushers :
         /\ DOMAIN flusher[f] = {"at", "batch"} /\ flusher[f].batch \in Seq(ApiRequests)
         /\ flusher[f].at \in {"rest", "lock", "put"}
         /\ flusher[f].at # "put" => flusher[f].batch = << >>
    /\ buf \in Seq(ApiRequests) /\ pending \in Seq(ApiRequests)

FlushInv ==
    /\ \A r \in ApiRequests : flusher[r].at # "rest" => apiReq[r].pc = "exporting"
    /\ \A f \in {Worker, Ticker} : f \in ended => flusher[f].at = "rest"
    /\ closing # "flush" => flusher[Closer].at = "rest"
    /\ closing \in {"inner", "flush", "closed"} => Worker \in ended
    /\ closing \in {"flush", "closed"} => Ticker \in ended
    /\ closing \in {"open", "outer", "inner", "flush", "closed"}
    /\ Worker \in ended => closing # "open"

\* After an orderly end nothing is queued any more, and once Close has taken
\* what was pending nothing is pending either, unless its upload failed.
DrainInv ==
    main = "drained" =>
        /\ closing # "open"
        /\ \A r \in ApiRequests : ~Running(r)
        /\ Worker \in ended => buf = << >>
        /\ closing \in {"flush", "closed"} =>
             flusher[Closer].at = "lock" \/ pending = << >> \/ lastFailed

KeptInv == emitted \subseteq stored \union InMemory

ExportInv == ExportTypes /\ FlushInv /\ DrainInv /\ KeptInv

ApiInv == ApiTypes /\ LiveInv /\ AuditInv /\ ExportInv
=============================================================================
