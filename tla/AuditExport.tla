---------------------------- MODULE AuditExport ----------------------------
(***************************************************************************)
(* The export of audit records, src/pkg/auditlog: a BufferedExporter (a    *)
(* bounded channel and a worker) around an S3Exporter (pending records, a  *)
(* ticker that flushes them, a flush at a count).  Whoever appends the     *)
(* record that reaches the count flushes, so the worker, the ticker,       *)
(* Close and a handler that found the buffer full may all be flushing.  A  *)
(* record is named by the request that emits it.                           *)
(***************************************************************************)
EXTENDS Integers, Sequences, FiniteSets

CONSTANTS
    ApiRequests,   \* the requests of the service
    BufSize,       \* size of the channel
    FlushAtCount,  \* S3Options.FlushAtCount
    MaxPutErrors,  \* bound on the uploads that fail
    Worker, Ticker, Closer  \* the exporter's goroutines, and the one that calls Close

ASSUME ExportAssumption ==
    /\ BufSize \in Nat \ {0} /\ FlushAtCount \in Nat \ {0} /\ MaxPutErrors \in Nat
    /\ ApiRequests \intersect {Worker, Ticker, Closer} = {}
    /\ Worker # Ticker /\ Worker # Closer /\ Ticker # Closer

Flushers == ApiRequests \union {Worker, Ticker, Closer}

VARIABLES
    buf,        \* BufferedExporter.buf
    pending,    \* S3Exporter.pending
    flusher,    \* who is in flush: before the lock, or uploading a batch
    stored,     \* the records in the bucket
    ended,      \* the goroutines that have returned: worker, ticker
    closing,    \* where Close is
    emitted,    \* the records for which Append was called (history)
    putErrors,  \* uploads that failed
    lastFailed  \* the final flush of Close failed

exportVars == <<buf, pending, flusher, stored, ended, closing, emitted, putErrors, lastFailed>>

Resting == [at |-> "rest", batch |-> << >>]

ExportInit ==
    /\ buf = << >> /\ pending = << >> /\ stored = {} /\ ended = {}
    /\ flusher = [f \in Flushers |-> Resting]
    /\ closing = "open" /\ emitted = {} /\ putErrors = 0 /\ lastFailed = FALSE

Elements(s) == {s[i] : i \in DOMAIN s}

StartFlush(f) == flusher' = [flusher EXCEPT ![f].at = "lock"]

\* S3Exporter.Append by f: append and look at the count under the lock.
InnerAppend(f, r) ==
    /\ pending' = Append(pending, r)
    /\ IF Len(pending) + 1 >= FlushAtCount THEN StartFlush(f) ELSE UNCHANGED flusher

\* BufferedExporter.Append in a handler: queue, or append in its own goroutine.
AppendRecord(r) ==
    /\ emitted' = emitted \union {r}
    /\ IF Len(buf) < BufSize
       THEN buf' = Append(buf, r) /\ UNCHANGED <<pending, flusher>>
       ELSE InnerAppend(r, r) /\ UNCHANGED buf
    /\ UNCHANGED <<stored, ended, closing, putErrors, lastFailed>>

\* The worker takes a record; after stopCh it drains what is left.
WorkerAppend ==
    /\ Worker \notin ended /\ flusher[Worker] = Resting /\ buf # << >>
    /\ buf' = Tail(buf)
    /\ InnerAppend(Worker, Head(buf))
    /\ UNCHANGED <<stored, ended, closing, emitted, putErrors, lastFailed>>

\* Only an empty buffer lets the worker return.
WorkerExit ==
    /\ Worker \notin ended /\ flusher[Worker] = Resting
    /\ closing # "open" /\ buf = << >>
    /\ ended' = ended \union {Worker}
    /\ UNCHANGED <<buf, pending, flusher, stored, closing, emitted, putErrors, lastFailed>>

TickerFires ==
    /\ Ticker \notin ended /\ flusher[Ticker] = Resting
    /\ StartFlush(Ticker)
    /\ UNCHANGED <<buf, pending, stored, ended, closing, emitted, putErrors, lastFailed>>

TickerExit ==
    /\ Ticker \notin ended /\ flusher[Ticker] = Resting /\ closing = "inner"
    /\ ended' = ended \union {Ticker}
    /\ UNCHANGED <<buf, pending, flusher, stored, closing, emitted, putErrors, lastFailed>>

\* flush, under the lock: take all that is pending.
FlushTake(f) ==
    /\ flusher[f].at = "lock"
    /\ pending' = << >>
    /\ flusher' = [flusher EXCEPT ![f] = IF pending = << >> THEN Resting
                                         ELSE [at |-> "put", batch |-> pending]]
    /\ UNCHANGED <<buf, stored, ended, closing, emitted, putErrors, lastFailed>>

PutOk(f) ==
    /\ flusher[f].at = "put"
    /\ stored' = stored \union Elements(flusher[f].batch)
    /\ flusher' = [flusher EXCEPT ![f] = Resting]
    /\ UNCHANGED <<buf, pending, ended, closing, emitted, putErrors, lastFailed>>

\* PutObject failed, before or after the object was stored: the batch goes
\* back in front of what has come since.
PutError(f) ==
    /\ flusher[f].at = "put" /\ putErrors < MaxPutErrors
    /\ putErrors' = putErrors + 1
    /\ stored' \in {stored, stored \union Elements(flusher[f].batch)}
    /\ pending' = flusher[f].batch \o pending
    /\ flusher' = [flusher EXCEPT ![f] = Resting]
    /\ lastFailed' = (lastFailed \/ f = Closer)
    /\ UNCHANGED <<buf, ended, closing, emitted>>

\* BufferedExporter.Close: stop the worker, wait for it, close the exporter
\* inside, which stops the ticker, waits for it, and flushes a last time.
CloseBuffered ==
    /\ closing = "open"
    /\ closing' = "outer"
    /\ UNCHANGED <<buf, pending, flusher, stored, ended, emitted, putErrors, lastFailed>>

CloseInner ==
    /\ closing = "outer" /\ Worker \in ended
    /\ closing' = "inner"
    /\ UNCHANGED <<buf, pending, flusher, stored, ended, emitted, putErrors, lastFailed>>

\* A mutant of CloseFlush: it does not wait for the ticker.
CloseFlushAtOnce ==
    /\ closing = "inner"
    /\ closing' = "flush"
    /\ StartFlush(Closer)
    /\ UNCHANGED <<buf, pending, stored, ended, emitted, putErrors, lastFailed>>

CloseFlush ==
    /\ closing = "inner" /\ Ticker \in ended
    /\ closing' = "flush"
    /\ StartFlush(Closer)
    /\ UNCHANGED <<buf, pending, stored, ended, emitted, putErrors, lastFailed>>

CloseReturns ==
    /\ closing = "flush" /\ flusher[Closer] = Resting
    /\ closing' = "closed"
    /\ UNCHANGED <<buf, pending, flusher, stored, ended, emitted, putErrors, lastFailed>>

\* The goroutines of the exporter, and Close once it has been called.
ExportStep ==
    \/ WorkerAppend \/ WorkerExit \/ TickerFires \/ TickerExit
    \/ \E f \in Flushers : FlushTake(f) \/ PutOk(f) \/ PutError(f)
    \/ CloseInner \/ CloseFlush \/ CloseReturns

InMemory == Elements(buf) \union Elements(pending)
              \union UNION {Elements(flusher[f].batch) : f \in Flushers}
=============================================================================
