--------------------------- MODULE StorageBackend ---------------------------
(* pkg/storage/clickhouse/backend.go and client.go: the write buffer in front
   of ClickHouse, its background flusher and the circuit breaker around each
   batch insert.

   flushLocked takes the whole buffer under the lock and releases the lock
   while the batch is inserted, so any number of batches can be on their way
   at once: one per writer, one of the flush loop and one of a caller of Flush.
   A batch that fails is not put back. *)
EXTENDS Naturals, FiniteSets

CONSTANTS
    Signals,
    TypeOf,      \* signal -> rank of its table: metrics 1, logs 2, traces 3; 4: no table
    Writers,     \* goroutines that call Write
    Loop,        \* flushLoop
    Stopper,     \* the goroutine that calls Flush and Close
    BatchSize,
    TripAfter    \* consecutive failures that open the breaker

ASSUME StorageAssumption ==
    /\ TypeOf \in [Signals -> 1..4]
    /\ BatchSize \in Nat \ {0} /\ TripAfter \in Nat \ {0}

\* The flush loop and the goroutine that stops the engine are not workers.
ASSUME FlushersDistinct ==
    Loop \notin Writers /\ Stopper \notin Writers /\ Loop # Stopper

Flushers == Writers \cup {Loop, Stopper}

VARIABLES
    buffer,      \* signals that wait for the next flush
    batch,       \* flusher -> the batch it has taken
    phase,       \* flusher -> idle, taken (not yet past the breaker), inserting
    fresh,       \* flusher -> the breaker still counts its outcome
    stored,      \* rows that ClickHouse has
    lost,        \* signals of failed batches, and of writes after Close
    breaker, failures, probing,   \* gobreaker: state, ConsecutiveFailures, Requests > 0
    storageClosed, loop, closing  \* closed; flushLoop; the progress of Close

bufferVars == <<buffer, batch, phase, stored, lost>>
breakerVars == <<fresh, breaker, failures, probing>>
closeVars == <<storageClosed, loop, closing>>
storageVars == <<bufferVars, breakerVars, closeVars>>

StorageTypeOK ==
    /\ buffer \subseteq Signals /\ stored \subseteq Signals /\ lost \subseteq Signals
    /\ batch \in [Flushers -> SUBSET Signals]
    /\ phase \in [Flushers -> {"idle", "taken", "inserting"}]
    /\ fresh \in [Flushers -> BOOLEAN]
    /\ breaker \in {"closed", "open", "half-open"}
    /\ failures \in 0..TripAfter /\ probing \in BOOLEAN
    /\ storageClosed \in BOOLEAN /\ loop \in {"run", "done"}
    /\ closing \in {"idle", "waiting", "done"}

StorageInit ==
    /\ buffer = {} /\ stored = {} /\ lost = {}
    /\ batch = [f \in Flushers |-> {}]
    /\ phase = [f \in Flushers |-> "idle"]
    /\ fresh = [f \in Flushers |-> FALSE]
    /\ breaker = "closed" /\ failures = 0 /\ probing = FALSE
    /\ storageClosed = FALSE /\ loop = "run" /\ closing = "idle"

-----------------------------------------------------------------------------
(* Write, Flush and the flush loop. *)

\* A flushLocked that keeps the buffer and copies it into the batch.
TakeCopy(f, content) ==
    /\ batch' = [batch EXCEPT ![f] = content]
    /\ phase' = [phase EXCEPT ![f] = "taken"]
    /\ buffer' = content

\* flushLocked up to the point where it releases the lock.
Take(f, content) ==
    /\ batch' = [batch EXCEPT ![f] = content]
    /\ phase' = [phase EXCEPT ![f] = "taken"]
    /\ buffer' = {}

\* A Write that lets the buffer reach BatchSize before it flushes.
WriteLate(w, s) ==
    /\ phase[w] = "idle"
    /\ IF storageClosed
       THEN lost' = lost \cup {s} /\ UNCHANGED <<buffer, batch, phase, stored>>
       ELSE /\ IF Cardinality(buffer \cup {s}) <= BatchSize
               THEN buffer' = buffer \cup {s} /\ UNCHANGED <<batch, phase>>
               ELSE Take(w, buffer \cup {s})
            /\ UNCHANGED <<stored, lost>>
    /\ UNCHANGED <<breakerVars, closeVars>>

\* Write of one signal: append it, and flush a full buffer on the caller's time.
Write(w, s) ==
    /\ phase[w] = "idle"
    /\ IF storageClosed
       THEN lost' = lost \cup {s} /\ UNCHANGED <<buffer, batch, phase, stored>>
       ELSE /\ IF Cardinality(buffer \cup {s}) < BatchSize
               THEN buffer' = buffer \cup {s} /\ UNCHANGED <<batch, phase>>
               ELSE Take(w, buffer \cup {s})
            /\ UNCHANGED <<stored, lost>>
    /\ UNCHANGED <<breakerVars, closeVars>>

Flush(f) ==
    /\ phase[f] = "idle" /\ ~storageClosed /\ buffer # {}
    /\ Take(f, buffer)
    /\ UNCHANGED <<stored, lost, breakerVars, closeVars>>

\* flushLoop, on a tick.
FlushTick == loop = "run" /\ Flush(Loop)

-----------------------------------------------------------------------------
(* WriteBatch inside breaker.Execute (gobreaker, external). *)

\* beforeRequest admits everything while closed, one request while half-open.
Admits == breaker = "closed" \/ (breaker = "half-open" /\ ~probing)

\* A new generation: outcomes of requests admitted earlier are not counted.
Become(state) == /\ breaker' = state /\ failures' = 0 /\ probing' = FALSE
                 /\ fresh' = [f \in Flushers |-> FALSE]

Admit(f) ==
    /\ phase[f] = "taken" /\ Admits
    /\ phase' = [phase EXCEPT ![f] = "inserting"]
    /\ fresh' = [fresh EXCEPT ![f] = TRUE]
    /\ probing' = (breaker = "half-open")
    /\ UNCHANGED <<buffer, batch, stored, lost, breaker, failures, closeVars>>

Refuse(f) ==
    /\ phase[f] = "taken" /\ ~Admits
    /\ phase' = [phase EXCEPT ![f] = "idle"]
    /\ batch' = [batch EXCEPT ![f] = {}]
    /\ lost' = lost \cup batch[f]
    /\ UNCHANGED <<buffer, stored, breakerVars, closeVars>>

Settled(f) == /\ phase' = [phase EXCEPT ![f] = "idle"]
              /\ batch' = [batch EXCEPT ![f] = {}]

\* afterRequest on success: a success while half-open closes the breaker.
CountSuccess(f) ==
    CASE ~fresh[f] -> UNCHANGED breakerVars
      [] fresh[f] /\ breaker = "half-open" -> Become("closed")
      [] OTHER -> /\ failures' = 0 /\ fresh' = [fresh EXCEPT ![f] = FALSE]
                  /\ UNCHANGED <<breaker, probing>>

\* afterRequest on failure: one while half-open, or TripAfter in a row, opens it.
CountFailure(f) ==
    CASE ~fresh[f] -> UNCHANGED breakerVars
      [] fresh[f] /\ (breaker = "half-open" \/ failures + 1 >= TripAfter) -> Become("open")
      [] OTHER -> /\ failures' = failures + 1 /\ fresh' = [fresh EXCEPT ![f] = FALSE]
                  /\ UNCHANGED <<breaker, probing>>

\* splitByType: the signals of the first n tables. One of another type is in
\* none and is dropped without an error.
UpTo(n, signals) == {s \in signals : TypeOf[s] <= n}

InsertSucceeds(f) ==
    /\ phase[f] = "inserting" /\ closing # "done"
    /\ stored' = stored \cup UpTo(3, batch[f])
    /\ lost' = lost \cup (batch[f] \ UpTo(3, batch[f]))
    /\ Settled(f) /\ CountSuccess(f)
    /\ UNCHANGED <<buffer, closeVars>>

\* An insert fails, or the context ends. The tables are written in order, so the
\* first n have their rows and the rest of the batch is gone; the table whose
\* insert was reported as failed may be one of the n (its answer was lost).
InsertFails(f) ==
    /\ phase[f] = "inserting" /\ UpTo(3, batch[f]) # {}
    /\ \E n \in 0..3 : /\ stored' = stored \cup UpTo(n, batch[f])
                       /\ lost' = lost \cup (batch[f] \ UpTo(n, batch[f]))
    /\ Settled(f) /\ CountFailure(f)
    /\ UNCHANGED <<buffer, closeVars>>

\* Timeout after the breaker opened; Interval while it is closed.
BreakerHalfOpens == /\ breaker = "open" /\ Become("half-open")
                    /\ UNCHANGED <<bufferVars, closeVars>>
BreakerInterval == /\ breaker = "closed" /\ failures > 0 /\ Become("closed")
                   /\ UNCHANGED <<bufferVars, closeVars>>

-----------------------------------------------------------------------------
(* Close: mark closed and stop the loop; wait for the loop; Flush, which finds
   closed set and returns; close the connection. *)
CloseBegin ==
    /\ ~storageClosed /\ phase[Stopper] = "idle"
    /\ storageClosed' = TRUE /\ closing' = "waiting"
    /\ UNCHANGED <<bufferVars, breakerVars, loop>>

\* A loop that is told to stop only after Close has waited for it.
FlushLoopToldLate ==
    /\ loop = "run" /\ closing = "done" /\ phase[Loop] = "idle"
    /\ loop' = "done"
    /\ UNCHANGED <<bufferVars, breakerVars, storageClosed, closing>>

FlushLoopExits ==
    /\ loop = "run" /\ storageClosed /\ phase[Loop] = "idle"
    /\ loop' = "done"
    /\ UNCHANGED <<bufferVars, breakerVars, storageClosed, closing>>

CloseEnd ==
    /\ closing = "waiting" /\ loop = "done"
    /\ closing' = "done"
    /\ UNCHANGED <<bufferVars, breakerVars, storageClosed, loop>>

BatchStep(f) == Admit(f) \/ Refuse(f) \/ InsertSucceeds(f) \/ InsertFails(f)

\* The steps the backend takes on its own, whoever uses it.
StorageStep ==
    \/ FlushTick \/ FlushLoopExits
    \/ BreakerHalfOpens \/ BreakerInterval
    \/ \E f \in Flushers : BatchStep(f)

\* The backend under callers that write each signal once, flush and close.
Written == buffer \cup stored \cup lost \cup (UNION {batch[f] : f \in Flushers})

StorageNext ==
    \/ StorageStep
    \/ \E w \in Writers, s \in Signals \ Written : Write(w, s)
    \/ Flush(Stopper) \/ CloseBegin \/ CloseEnd

StorageSpec == StorageInit /\ [][StorageNext]_storageVars

-----------------------------------------------------------------------------
(* Properties *)

\* A signal is in one place: waiting, in one batch, stored or lost. Hence no
\* batch ever inserts a row that another batch, or an earlier flush, inserted,
\* although flushes by writers, the loop and Flush overlap without the lock.
BatchesDisjoint == \A f, g \in Flushers : f # g => batch[f] \cap batch[g] = {}
BatchesNew == \A f \in Flushers : batch[f] \cap (buffer \cup stored \cup lost) = {}
OnePlace == /\ BatchesDisjoint /\ BatchesNew
            /\ buffer \cap (stored \cup lost) = {} /\ stored \cap lost = {}

\* The lock is never free with BatchSize signals in the buffer: the Write that
\* completes a batch takes it, whoever else flushes, fails or closes meanwhile.
BufferBelowBatchSize == Cardinality(buffer) < BatchSize

\* A flusher that is not in WriteBatch holds no batch.
IdleHoldsNothing == \A f \in Flushers : phase[f] = "idle" => batch[f] = {}

\* The inductive invariant behind OnePlace.
StorageInv == StorageTypeOK /\ IdleHoldsNothing /\ OnePlace
=============================================================================
