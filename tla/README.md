# A TLA+ model of ObserveX

ObserveX is a multi-tenant observability platform written in Go. This directory
holds TLA+ models of its core, the TLC configurations that check them, and
proofs checked by TLAPS. The models are written from the code under `pkg/` and
`services/`; `PROJECT.json` maps every definition to the lines it stands for and
lists the hazards the properties are aimed at.

## 1. The system

| Part | State | Operations | What is hard |
|---|---|---|---|
| Ingest gateway (`services/ingest-gateway`) | receivers, one engine, one sink | receive, decode, `ProcessSignal`; shutdown | order of the shutdown |
| Processing engine (`pkg/engine`) | bounded channels, workers | three stages, `handle`, `Stop` | back-pressure, cancellation against draining |
| Write-ahead log (`pkg/wal`) | mmapped segments, write offset, dirty flag | `Write`, rotation, group commit, `Sync`, `Close`, `Walk`, recovery | torn writes, page cache, failed rotation, `Close` against waiting writers |
| ClickHouse backend (`pkg/storage/clickhouse`) | buffer, breaker | `Write`, `Flush`, flush loop, `Close` | overlapping flushes without the lock, three inserts that are no transaction |
| Supervisor and actors (`pkg/supervisor`, `pkg/actor`) | map of managed actors, restart history, mailboxes | route, sweep, backoff, quarantine, release, stop | several backoff goroutines for one actor, closed mailboxes |
| Receivers and scopes (`internal/otlp`, `internal/receiver`, `pkg/auth`) | calls under way, the two servers and the packet loop | check key and scope, offer a batch to the engine, answer; stop | batches against a full queue, retries, handlers that outlive the shutdown |
| CEP, alert sink, spillover (`pkg/cep`, `pkg/alertsink`, `pkg/spillover`) | sliding windows, bounded buffer, JetStream | evaluate, publish with retries, spill and consume | reuse of window buckets, publish after stop, acknowledged drops |
| Key store (`pkg/auth`) | Postgres rows, TTL cache | issue, revoke, validate | stale cache entries, slow validations |
| Alert-manager (`services/alert-manager`, `pkg/notifier`, `pkg/sloburn`) | alerts, silences, SLO counters, SSE subscribers | event, resolve, silence, observe, dispatch | concurrent transitions, crash between state and notification |
| Control plane (`services/tenant-api`, `pkg/auditlog`, `pkg/retention`, `pkg/oidc`) | tenants, keys, dashboards, audit trail, table TTLs, JWKS | CRUD, export, apply, validate | partial failure, records lost at shutdown |
| Sampling (`pkg/sampling`) | priority queue, EWMA state, Redis snapshot | `Decide`, flush | bounded queue; floating point |
| Query side (`pkg/observeql`, `pkg/promql`, `pkg/logql`, `services/query-engine`, federation, cold tier, ML) | the cursor of a log tail; otherwise none, or I/O | parse, translate, read, tail | the cursor against ties, limits and late rows; text and floating point |

How they interact: a receiver checks the caller's key and scopes and calls
`ProcessSignal`, which puts the signal into `ingestCh` or refuses it when that is full. Three stage goroutines pass it on to a pool of workers. A worker
offers it to the tenant's actor (through the supervisor's map), samples it,
writes the payload to the WAL and then to the storage backend, which inserts
batches into ClickHouse. Actors run CEP rules and publish events through the
alert sink to the alert-manager, which keeps alerts in Postgres and dispatches
notifications. All services validate API keys that the tenant-api issues and
revokes in Postgres.

What makes each part correct: no accepted signal disappears before the shutdown;
the WAL is ahead of every other store; fsynced entries survive any crash; a row
is inserted at most once; a stopped actor is supervised and a quarantined one
stays down; a revoked key dies within a known time; a client is told what became of
its batch; a rule raises one event per breach, and every event is sent, or counted as
dropped or failed; the history of an alert agrees with its state, and whoever is not
told of an alert is not told for a known reason; the audit trail records only what was
done; no exported audit record is lost; tokens are checked against keys that catch up
with the provider's; a tail sends each log row once and in order. Where the code falls
short of this or of what it says, a run of section 3 shows it or section 7 says so.

## 2. Modules

| Module | Models | State and actions |
|---|---|---|
| `DurableLog` | what a log promises its callers | abstract: append, sync, torn append, recovery |
| `Wal` | `pkg/wal/wal.go` | every segment is a page-cache image and a disk image; one action per critical section of `Write`, `rotate`, `Sync`, the group-commit loop and `Close`; the kernel (`Writeback`) and crashes are environment actions; history variables record the log, where each entry was written (`places`) and which are in the active segment |
| `KeyStore` | `pkg/auth/store_postgres.go` | table rows, cache entries, and one program counter per concurrent validation |
| `StorageBackend` | `backend.go`, `client.go` | buffer, the batch each flusher has taken, the breaker (gobreaker, external), `Close` |
| `Engine`, `MCEngine` | `pkg/engine/engine.go`, the shutdown of the gateway's `main` | extends `StorageBackend`: channels, stages, workers, `Stop` |
| `Supervisor`, `MCSupervisor` | `supervisor.go`, `actor.go` | managed actors, their succession of actors, restart histories as ages, backoff goroutines as remaining delays |
| `Receivers` | `internal/otlp`, `internal/receiver`, `pkg/auth/{auth,gin,scopes}.go`, routes and shutdown of the gateway's `main` | one record per call: route, key, batch, place, attempt, answer; the handlers offer one signal per step, against `PipelineReceives`; `Cancel` to `MainReturns` are `main` |
| `Cep` | `pkg/cep/cep.go` | the rings of buckets and the breach flags of both rules; `Process` is one signal through the rules in their order; the history of signals is the reference |
| `AlertSink` | `pkg/alertsink/sink.go`, `processSignal` of the actor, the deferred stops of `main` | extends `Cep`: the actor's event in hand, the buffer, the worker with its attempt, the counters |
| `AlertStore` | `services/alert-manager/store/store.go` | the tables `alerts`, `alert_history` and `silences`, and the statements as operators |
| `AlertManager` | `services/alert-manager/cmd/main.go`, `sse.go`, `pkg/notifier/notifier.go` | extends `AlertStore`: one handler per request between its statements, one dispatch goroutine per notification, the stream hub, crashes |
| `SloBurn` | `pkg/sloburn/sloburn.go` | events per minute, trimmed and untrimmed; `Evaluate` decides from the first, the property from the second |
| `Sampler` | `pkg/sampling/sampler.go` | the bounded queue of scored traces and the memory of traces seen |
| `LogTail` | `services/query-engine/cmd/logs_sse.go` | the cursor, the answer being written, the rows sent and sent again; rows become visible at any time; a bound timestamp gets to the server in whole seconds (`Bound`) |
| `AuditExport` | `pkg/auditlog/auditlog.go`, `s3.go` | the buffer, the pending list, the batch each flusher has taken, the bucket; `Close` in its steps |
| `TenantApi` | `services/tenant-api`, `pkg/retention/retention.go` | extends `AuditExport`: the tables, one program counter per request, the statements of each handler, then the audit row, then the export; `main`'s shutdown |
| `Oidc` | `pkg/oidc/oidc.go`, `middleware.go` | the provider's rotation, the cached set, the loop's and each request's fetch under way |
| `MCEngine`, `MCSupervisor`, `MCReceivers`, `MCControlPlane` | | constants of the module each extends |
| `MCIngest`, `MCServices`, `MCGateway` | | compositions for TLC: `Engine` and `Wal`; `AlertManager`, `SloBurn`, `Sampler`, `LogTail`, `KeyStore` and `TenantApi`; `AlertSink`, `Receivers` and `Oidc` |
| `WalProofs`, `KeyStoreProofs`, `EngineProofs` (of `StorageBackend` and `Engine`), `SupervisorProofs`, `AlertManagerProofs`, `TenantApiProofs`, `GatewayProofs` (of `Cep`, `AlertSink` and `Receivers`), `TelemetryProofs` (of `Sampler`, `SloBurn` and `LogTail`) | | lemmas and theorems |

Parts that share no state are checked in one run: a behaviour follows one of them,
chosen in the initial state (`focus`), while the others rest. That loses nothing, since
no property relates two of them.

Abstractions worth knowing:

- A WAL entry is one header cell and one cell per unit of payload. The CRC matches
  exactly when the payload cells are those of the entry the header belongs to; a
  collision of CRCs is not modelled. `HostCrash` keeps the disk image, into
  which `Writeback` has copied any cells in any order.
- In `Engine` the WAL is the set of payloads it took, since its own behaviour is
  in `Wal`; the actor is its mailbox, since its own behaviour is in `Supervisor`;
  sampling is a free choice for traces. The degraded mode of the backend (no
  connection at start, where every `Write` is a no-op) is not modelled.
- An insert that is reported as failed may have stored its rows: the answer can
  be lost. Nothing is retried.
- Nothing in the code ends an actor by itself: its `running` flag is cleared only
  by `Stop`. `ActorStop`, by a holder of the handle, is what the repository's tests
  use to simulate a crash. The panic recovery that the package comment mentions
  does not exist, so a panic (`Panicked`) ends every behaviour.
- Each delivery in `Supervisor` is either by `RouteToTenant` or, as in production,
  by `engine.handle`, which takes the actor from `GetOrCreateActor` and so bypasses
  the spillover and does not check for nil.
- The handlers of `TenantApi` and `AlertManager` interleave between their SQL
  statements. A statement takes effect or fails; one whose answer is lost is a failure
  that took effect. `UpsertFiring` is two steps (its SELECT takes no lock, and read
  committed lets another transaction commit in between), the rest of its transaction
  is one.
- In `Cep` a duration is a small number or NaN, since the comparisons with NaN decide
  which bucket it spoils. Time is counted in buckets and only goes forward, by any
  number of buckets between two signals; a clock that is set back is not a case.
- In `Sampler` the score's parts are inputs (`SpanScores`), the z-score among them:
  EWMA is floating-point arithmetic. `SloBurn` compares fractions by multiplication.
- A panic in an HTTP handler is recovered by gin and answered with 500; one in a gRPC
  handler, in the packet loop or in an actor ends the process.
- `m.a` is read without the supervisor's lock. The old actor such a read can still
  give was closed before it was replaced, so the outcome is that of a read just
  before the replacement.
- The fsync of a segment makes its directory entry durable, as Linux file systems do;
  `wal.go` never fsyncs the directory. In `rotate`, errors of munmap and close are not a
  case of their own.
- A gRPC call arrives with its message. One whose message never comes would hold
  `GracefulStop`, which has no deadline, and with it the shutdown; `OrderlyEnd` is about
  clients that send what they announced.
- `Publish` of the alert sink sends and counts in one step; an `ALTER` of `Apply` that
  fails has not taken effect; the targets and window pairs of an SLO are fixed, and it
  is registered once.
- In `LogTail` time is counted in units of the column, `Second` of them to a second. The
  truncation is in the driver (clickhouse-go, external), which formats a `time.Time` that
  is bound to a positional `?` as seconds. Rows in `BadRows` are those `json.Marshal`
  rejects: the cursor moves past them.

## 3. Runs

Passing:

- `ingest`, the engine and the log it writes. Engine: three signals (a metric, a trace,
  one with a bad payload), two workers, all channels of capacity 1, batches of two, a
  breaker that opens after two failures, and a shutdown at any moment. Log: two writers,
  segments of 4 cells, payloads of 1 and 2, three entries, three segments, two crashes and
  one fault. Enough for a rotation, a failed rotation followed by another writer, a torn
  tail, a recovery whose leftovers are overwritten, and a second crash after that. Checked:
  `Walk` returns the log; the module implements `DurableLog`; `Close` makes the entries of
  this process durable; the group commit eventually does.
- `supervisor`: one tenant, two deliveries (one of each kind), one crash, a backoff
  longer than the sweep interval so that backoff goroutines of one crash overlap,
  quarantine after the second sweep, its release, and `Stop` at any moment. The
  bounds on managed actors and actors are large enough never to matter: two
  deliveries, two stops and one crash need at most two and five.
- `gateway`: two concurrent calls of any route with a good key, one without the
  scope, one whose row has an unknown scope and a revoked one, batches of two against a
  queue of one so that a batch is cut, one retry, and a shutdown at any moment, with
  handlers that miss the deadline. Checked: answers agree with what the engine took and
  for whom (`AnswersTruthful`); the gateway comes to its end without a send on the
  closed channel (`OrderlyEnd`). Behind the engine: three signals over windows of two
  buckets and four instants, so that the ring goes round twice and a breach ends and
  begins again (`EventsAreEdges`), a sink with one place in its buffer and two attempts
  (`EventAccounted`, `SinkStops`). Tokens: two requests under two rotations and two
  failures or empty answers of the provider, so that an old answer arrives after a
  newer one was installed (`KeysCatchUp`).
- `services`, requests that meet in a store. Alert-manager: three requests on two alerts,
  one of them silenced or resolved at any moment, two notifiers either of which may fail,
  one subscriber with a buffer of one, one crash: enough for two racing first events, for a
  resolve between a read and its write, and for a notification that outlives its alert.
  Burn rates over windows of 3, 2 and 1 minutes with four events in five minutes, so that
  events leave every window; three traces for a queue of two; three rows, one of which
  cannot be marshalled, for a tail whose answers hold two, over seconds of two instants,
  with equal timestamps, late rows and a client that goes away. Keys: two keys, two
  validations, a cache of one entry, all delays 1, time up to 4, so that a revocation falls
  between SELECT and put, an entry is evicted by another key, and a stale delete hits a
  fresh entry. Control plane: two concurrent requests of ten kinds on two tenants, any
  statement failing before or after it takes effect, a buffer of one record, uploads by
  count, by ticker and at the end, two of which may fail, and SIGTERM at any moment, with
  or without handlers left behind.

Violated, each against a sentence of the source (see `findings`):

- `wal_empty_payload`: an entry with an empty payload ends its segment for every
  reader.
- `wal_restart_sync`: `Close` after a restart does not fsync recovered entries.
- `keystore_window`: a revoked key is accepted for longer than `CacheTTL`. The bound
  that does hold, and is proved, is `QueryTimeout + MaxVerify + CacheTTL`.
- `engine_stop_drains`: `Stop` cancels the context and thereby loses accepted signals.
- `supervisor_quarantine`: one crash is counted once per sweep.
- `supervisor_quarantined_mail`: a signal of a quarantined tenant is dropped by
  `RouteToTenant`, as documented, and not by `engine.handle`, which dereferences the nil
  actor.
- `gateway_scopes`: a key whose row has an unknown scope may ingest over HTTP (no scopes
  means the default ones) and not over gRPC.
- `audit_capture`: a revoke succeeds without its audit row, since the row is a statement
  of its own.

Deadlock is not checked: a closed WAL, a stopped engine, a panicked gateway and a
clock at its bound are states in which these systems stop.

Symmetry is used only in `services`, which checks invariants alone: of the keys and the
validations of the key store.

Liveness is stated as `[]<>P`, for "infinitely often nobody is kept waiting": the states
that wait are left only by what is promised, so this says what `waiting ~> served` says,
and it needs no tableau.

## 4. Fairness

- `Wal`: the group-commit goroutine and the goroutine inside `Close` are weakly
  fair, since the runtime schedules a goroutine that stays runnable. Callers, the
  kernel and crashes are not fair. A failed fsync does not make
  `EventuallyDurable` false: the next tick tries again, and faults are bounded.
- `Engine`: stages, workers, the batch steps and the shutdown's own steps are weakly
  fair; signals need not arrive and no shutdown needs to be asked for.
- `Supervisor`: actors, backoff goroutines, the sweep and the clock are weakly fair.
  Nobody has to send, stop or release.
- `AlertSink`: the worker is weakly fair; a post has a timeout, so an attempt ends.
- `Receivers`: handlers (`CallStep`) and the steps of a shutdown under way (`StopStep`)
  are weakly fair while the process lives: `ProcessSignal` never blocks, `Shutdown` has a
  deadline, and the two loops look at the context. The pipeline behind the queue is not
  fair, since after the cancel nobody need read it.
- `Oidc`: the refresh loop and the requests are weakly fair; a fetch has a timeout, and
  rotations and faults are bounded. Nobody has to present a token.

## 5. Proofs

TLAPS proves the following for every value of the constants that satisfies the named
assumptions. The inductive invariants stand at the end of the module they belong to;
TLC has checked each of them on the run of its module before it was proved. In every
module the argument is the same: the initial states satisfy the invariant, each action
preserves it (one lemma per action, or per group of actions that touch the same part of
the state), and it implies the property.

Write-ahead log:

- `WalInvariance`. Neither the log nor what is on disk says where the next scan stops, so
  `WalInv` follows the cells. A header stays where its entry was written, in the page
  cache and on disk (`HeadersInPlace`); the entries of the log are at increasing places
  (`LogInOrder`); a scan of the active segment comes by `writeOffset` and accepts every
  entry in front of it (`LogIntact`), where the offsets a scan comes by are the smallest
  set with 0 and the end of every valid entry in it. Disk and page cache agree up to the
  end of a durable entry (`DurableIntact`), so a crash leaves the scan up to there as it
  was. What this process wrote is durable, or in the active segment and dirty
  (`OwnCovered`).
- `WalkReturnsTheLog`: `Walk` returns the entries recovered or appended, once and in order.
  Two increasing sequences of places with the same members are equal, so it is enough that
  scans return the intact entries and nothing else.
- `CloseIsDurable`: what this process appended is on disk when `Close` returns nil.
- `WalImplementsDurableLog`: each action is a step of `DurableLog` or a stutter. Recovery
  is the hard case: what `Open` finds after a crash are entries once started, each once,
  with everything durable among them and in its old order.

All four assume `0 \notin Lens`. With empty payloads they are false: a header of length 0
ends the scan, which is the run `wal_empty_payload`.

Key store:

- `TypeCorrect`, `RevocationBounded`, `ExpiryBounded`. That no key is accepted late is
  not inductive: it depends on what requests under way and cache entries will still do.
  `IndInv` adds, for each request, that a row it holds was valid when the database read
  it and that its deadlines are not over (`RequestInv`), and, for each cache entry, that
  it ends within the window of a revocation or expiry (`CacheInv`). The clock may advance
  only when no deadline is due, which is what ties the two together.
- `CacheStaysBounded`: `put` makes room before it stores. The lemma behind it counts what
  is left after a tenth of the entries, and at least one, was evicted.

Storage backend and engine:

- `SignalInOnePlace`, `BufferBounded` of the backend under any number of writers.
  `OnePlace` needs that a flusher outside `WriteBatch` holds nothing: otherwise taking
  the buffer would forget a batch.
- `EngineImplementsStorage`: the composed engine implements the specification of the
  backend. Its writers are to write a signal once, which the engine sees to: a signal is
  at one place of the pipeline and a worker has not stored it before (`PipelineOnce`). `EngineSignalInOnePlace` and `EngineBufferBounded`
  follow by the refinement, and the first two theorems are not proved again.
- `NothingSilentlyLost`, `WalBeforeStorage`, `StopIsClean`, from `EngineInv`. `PipeInv`
  says that a signal is at one place, and that what a worker is about to store is in the
  log;
  `StopInv` says, for each place `Stop` can be at, which goroutines have ended and what
  of the backend is empty. The cancelled context is the reason for the guard of
  `NoSilentLoss`: afterwards stages return with a signal in hand.

Supervisor and actors:

- `RestartsLeaveNoActor`, `QuarantineHolds`. A restart replaces an actor only if it is not
  running; the invariant adds that numbers not given out yet are not in use and that
  backoff goroutines wait only for managed actors that exist.
- `QuarantineWithinWindow`, from `HistoryInv`: the ages in a restart history decrease, so
  that `trimBefore`, which looks for the first young one, leaves only young ones, and the
  list of an actor that is not quarantined is at most `MaxRestarts` long, so that one more
  sweep gives exactly the count in the property.
- `InboxesDrained`, from `InboxInv`: the goroutine of an actor ends on a closed and empty
  inbox, and nobody puts a signal into a closed one (such a send panics). `RoutedToMade`
  is needed beside it: a router holds a managed actor that exists, so it sends to an
  actor.

Alert-manager:

- `StreamsStayOpen`, from `HubInv`: a client is registered only while its channel is open,
  which is why the order of the two halves of `unsubscribe` matters.
- `CountsAreDelivered`: a goroutine whose sends have all succeeded is still to raise the
  count, so `CountInv` bounds the count together with the number of such goroutines.
- `HistoryTellsTheTruth`: `LogInv` bounds the notifications in the history together with
  the goroutines that have counted theirs and not logged it, since `MarkNotified` is two
  statements.
- `OnlyRacesDuplicate`: `RaceInv` says that in a history whose alert does not fire every
  firing was resolved, and the same of the prefix that a handler had read when it decided
  to create. The race is then the only way to two firings without a resolution.
- `FiringsAreAccounted`: inductive once the types of handlers and goroutines are known.

Control plane:

- `LiveTenantOrRace`, from `LiveInv`: a handler between its look at the tenant and its
  statement acts on a live tenant or is recorded as racing with the deletion.
- `AuditIsTruthful`, from `AuditInv`: how far a handler has come tells what it has
  changed, logged and exported. It says nothing of changes without a row, which the code
  has: `audit_capture`, and changes of dashboards (section 7).
- `NoRecordLost`, from `ExportInv`: a record accepted is in the buffer, the pending list,
  a batch or the bucket (`KeptInv`); a flusher at rest has no batch and an ended one is at
  rest (`FlushInv`); after the handlers have drained, what `Close` has passed is empty
  unless the last upload failed (`DrainInv`).

Gateway:

- `RulesRaiseEdges`: the rules raise an event for exactly the signals that take a service
  over the threshold, judged by the history of signals and not by the rings. `CepInv` says
  that a bucket is of the last minute of its slot in which something happened, with that
  minute's count (`ErrorSlots`) or largest duration (`LatencySlots`), and that a rule is
  firing when the last signal it saw of the service was over (`FiringMeansOver`). Two
  minutes of one window never share a slot (`SlotsApart`), so the sum over the ring is the
  number of errors in the window (`SumCounts`); a first duration of NaN, which hides the
  rest of its minute, is part of the statement.
- `NoEventLost`, from `SinkInv`: events are numbered by the signals that raised them, a
  number is in one place, and the counters are the sizes of the sets (`SinkCounts`). What
  reached the alert-manager was sent, failed or is being sent: a post whose answer was
  lost is why a failed event may have arrived.
- `ClientsAreToldTheTruth`, from `ReceiversInv`: the places of the batch that the engine
  has are those in front of the handler (`CallInv`), for every attempt, and calls still
  running when the engine closes its channel are calls `Shutdown` gave up on
  (`OverdueInv`). Of rows with a scope the code does not know it claims nothing
  (`gateway_scopes`).

Sampling, burn rates, log tail:

- `SiblingsAreKept`, from `SamplerInv`: the memory of traces forgets nothing that is asked
  for; eviction from the queue touches the queue alone.
- `TrimmingChangesNoDecision`, from `SloInv`: nothing younger than the longest window and
  a minute has been trimmed. Two sums over equal restrictions are equal, so no fact about
  sums is needed; that `Evaluate`'s walk over the pairs finds the worst one is shown by
  the least pair that trips.
- `TailSkipsOnlyLateOrCut`, from `TailInv`: what is left of the cursor's promise when it
  reaches the server in whole seconds. Rows sent are behind the cursor, and only those
  inside a second can be in the answer in hand again (`CursorInv`); in front of the bound
  the answer in hand leads to, nothing is missing but what cannot be marshalled, came
  late, or was cut off by `LIMIT` at the start of a second (`ReadInv`). That truncation is
  monotone (`BoundOfCursor`) is what the proof needs of it.

Assumptions (each in the module that declares the constants, evaluated by TLC on every
run): bounds and sizes are naturals, positive where the code replaces zero by a default;
model values for "none" are not members of the set they extend; goroutines with a role of
their own are distinct from each other and from the workers or requests
(`FlushersDistinct`, `ExportAssumption`); the alerts, tenants and keys named by inputs
exist; and `ShortWithinLong`, that the short window of a pair is within the long one. That
holds of `DefaultWindowPairs`, the only pairs production uses. `validate` does not ask for
it, and the theorem would be false without it: `Observe` trims by the long windows.

Induction goes by first counterexamples. The library's induction theorems take an operator
as a parameter, which the installed provers cannot instantiate; that a set of numbers that
is not empty has a least member (`LeastNat`, `LeastOf`, `LargestOf`, `LeastIn`, `Upward`)
takes its place, applied to the set of numbers for which a claim fails. The loops of
`Wal` and `Cep` are recursive functions, of which one lemma each says that they satisfy
their recursion (`Unrolls`, `LoopRuns`).

Only model-checked:

- All liveness: `EventuallyDurable`, `EventuallySettled`, `EventuallyHandled`,
  `StopTerminates`, `StoppedIsSupervised`, `StopEndsActors`, `SinkStops`, `OrderlyEnd`,
  `KeysCatchUp`. Fairness and `ENABLED` are beyond the prover.

## 6. Plan

Done: the modules of section 2; a theorem for every invariant, every action property and
every refinement that a passing run checks. Left:

1. The spillover consumer, should it acknowledge only what was delivered.
2. The liveness properties, which stay with TLC.

## 7. What the code does not promise

Met while modelling, beside what the violated runs of section 3 show; the models have
these behaviours, and the properties name them as exceptions where they bear on one.

- A handler that `Shutdown` gave up on may append to an exporter that is closed: the
  record stays in a buffer that nobody drains.
- `MODIFY TTL` replaces the whole rule of a shared table, so the retention of one tenant
  overwrites that of another (`pkg/retention/retention.go` expects a mix in one table).
- Tenants are deleted softly: their keys stay valid and their dashboards stay, although
  ADR-0032 has the latter follow by `ON DELETE CASCADE`.
- An alert that starts while silenced is never notified, also after the silence; the SLO
  path asks for no silence and never resolves. Nothing resumes a stream from
  `Last-Event-ID`, which a comment in `sse.go` counts on.
- The gateway stops the alert sink before the actors that publish to it, so an actor can
  panic on the closed channel at shutdown.
- A signal that raises an error event is not shown to the latency rule, and a first
  duration of NaN hides the durations of its bucket.
- A batch answered with 429 has been taken in part; its retry duplicates the front.
- A slow answer of the identity provider may replace newer keys until the next refresh,
  and an empty set empties the cache. The backoff on a missing kid that
  `pkg/oidc/oidc.go` mentions does not exist: each miss fetches at once.
- `sloburn.validate` accepts a short window longer than every long one, for which `Observe`
  has trimmed what the short window would count.
- The log tail skips rows that become visible behind the bound of its cursor, and rows at
  the start of a second at which `LIMIT` cut an answer. Rows of the cursor's second are
  sent again by each poll, although the comment at `logs_sse.go:132-134` calls duplicates
  impossible; and when one second has more rows than `LIMIT`, every poll returns the same
  ones and the tail never gets behind them, although ADR-0030 has a `log` event for every
  new row. `TailExact` says exactly which rows are written twice or not at all.
- Creating, updating or deleting a dashboard is not audited, although ADR-0004 has every
  mutation write to `tenant_audit_log`.
- A send by a router to an actor that is being stopped panics the process: nothing orders
  the send and the close of the inbox.

## 8. Not modelled

Parsers and translators of the query languages (text: what they compute for every
input is an induction over strings, and they keep no state), ML scoring and EWMA
(floating point), federation, Parquet, the plugin host and the OTLP decoders (I/O and
external runtimes), the spillover's JetStream queue (its consumer acknowledges every
message whatever became of it), the file exporter of the audit log, migrations and
reads, metrics and self-observability (write-only), the cold-tier service (a reader of
ClickHouse metrics), the UI server, and `http_receiver.go`, which nothing mounts.
`PROJECT.json` gives the reason for each.
