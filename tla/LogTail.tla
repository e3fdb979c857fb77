------------------------------ MODULE LogTail ------------------------------
(***************************************************************************)
(* The live tail of logs, src/services/query-engine/cmd/logs_sse.go: one   *)
(* goroutine per client polls ClickHouse for the rows behind its cursor,   *)
(* oldest first and at most LIMIT at a time, and writes them one by one.   *)
(* Rows get into the table in batches, so a row may become visible later   *)
(* than a row with a newer timestamp.  Time is counted in the milliseconds *)
(* of the column, DateTime64(3); the cursor gets to the server in whole    *)
(* seconds.                                                                *)
(***************************************************************************)
EXTENDS Integers, SequencesExt

CONSTANTS
    Rows,      \* rows of the table logs that match the client's filters
    BatchCap,  \* logsTailBatchCap
    LookBack,  \* the five seconds of context a new client gets
    Second,    \* units of time in a second
    BadRows,   \* rows that json.Marshal rejects
    MaxNow     \* bound on the clock

ASSUME TailAssumption ==
    /\ BatchCap \in Nat \ {0} /\ LookBack \in Nat /\ Second \in Nat \ {0}
    /\ MaxNow \in Nat

VARIABLES
    now,
    logs,      \* the timestamp of each row that is in the table
    tail,      \* the client's goroutine: none, open or closed
    lastSeen,  \* the cursor
    batch,     \* rows of the last answer that are still to be written
    sent,      \* rows written to the client (history)
    repeats,   \* rows written to it more than once (history)
    from,      \* where the cursor started (history)
    late,      \* rows that came when the cursor was past them (history)
    cuts       \* timestamps at which LIMIT cut an answer off (history)

tailVars == <<now, logs, tail, lastSeen, batch, sent, repeats, from, late, cuts>>

TailInit ==
    /\ now = LookBack /\ logs = << >> /\ tail = "none"
    /\ lastSeen = 0 /\ from = 0 /\ batch = << >>
    /\ sent = {} /\ repeats = {} /\ late = {} /\ cuts = {}

TailTick ==
    /\ now < MaxNow
    /\ now' = now + 1
    /\ UNCHANGED <<logs, tail, lastSeen, batch, sent, repeats, from, late, cuts>>

TimestampAfter(ts) == IF ts > lastSeen THEN ts ELSE lastSeen

\* The driver formats a time.Time that is bound to a ? in whole seconds.
Bound(ts) == ts - (ts % Second)

\* Where the cursor will be when the answer in hand is written.
ReadTo == IF batch = << >> THEN lastSeen ELSE TimestampAfter(logs[Last(batch)])

\* A writer's batch makes a row visible, its timestamp not in the future.
RowVisible(r, ts) ==
    /\ r \notin DOMAIN logs /\ ts <= now
    /\ logs' = [x \in DOMAIN logs \union {r} |-> IF x = r THEN ts ELSE logs[x]]
    /\ late' = IF tail = "open" /\ ts <= Bound(ReadTo) THEN late \union {r} ELSE late
    /\ UNCHANGED <<now, tail, lastSeen, batch, sent, repeats, from, cuts>>

Connect ==
    /\ tail = "none"
    /\ tail' = "open" /\ lastSeen' = now - LookBack /\ from' = now - LookBack
    /\ UNCHANGED <<now, logs, batch, sent, repeats, late, cuts>>

\* A mutant of Matches: the bound itself is asked for again.
MatchesFrom == {r \in DOMAIN logs : logs[r] >= Bound(lastSeen)}

\* tenant and filters aside: timestamp > ?
Matches == {r \in DOMAIN logs : logs[r] > Bound(lastSeen)}

\* ORDER BY timestamp LIMIT ?; rows of one timestamp come in any order.
Answers ==
    LET n == IF Cardinality(Matches) < BatchCap THEN Cardinality(Matches) ELSE BatchCap
    IN  {a \in [1 .. n -> Matches] :
            /\ IsInjective(a)
            /\ \A i, j \in 1 .. n : i < j => logs[a[i]] <= logs[a[j]]
            /\ \A r \in Matches \ Range(a) : \A i \in 1 .. n : logs[a[i]] <= logs[r]}

\* The ticker fires while nothing is left to be written.
Poll ==
    /\ tail = "open" /\ batch = << >>
    /\ \E a \in Answers :
         /\ batch' = a
         /\ cuts' = IF Len(a) = BatchCap THEN cuts \union {logs[Last(a)]} ELSE cuts
    /\ UNCHANGED <<now, logs, tail, lastSeen, sent, repeats, from, late>>

\* The cursor moves before the row is written; a row that Marshal rejects is
\* passed over.
WriteRow ==
    LET r == Head(batch)
    IN  /\ tail = "open" /\ batch # << >>
        /\ lastSeen' = TimestampAfter(logs[r])
        /\ batch' = Tail(batch)
        /\ IF r \in BadRows THEN UNCHANGED <<sent, repeats>>
           ELSE /\ sent' = sent \union {r}
                /\ repeats' = IF r \in sent THEN repeats \union {r} ELSE repeats
        /\ UNCHANGED <<now, logs, tail, from, late, cuts>>

\* The query fails, a write fails, or the client goes away.
Disconnect ==
    /\ tail = "open"
    /\ tail' = "closed" /\ batch' = << >>
    /\ UNCHANGED <<now, logs, lastSeen, sent, repeats, from, late, cuts>>

TailNext ==
    \/ TailTick \/ Connect \/ Poll \/ WriteRow \/ Disconnect
    \/ \E r \in Rows, ts \in 1 .. MaxNow : RowVisible(r, ts)

TailSpec == TailInit /\ [][TailNext]_tailVars

----------------------------------------------------------------------------
(* Properties *)

(***************************************************************************)
(* What the bound in whole seconds leaves of the cursor's promise.  What   *)
(* is about to be written is never of an earlier second than what was, and *)
(* the rows that were written twice are not at the start of their second.  *)
(* A row that no later poll asks for was written, is about to be, is one   *)
(* that Marshal rejects, or became visible too late, unless LIMIT cut an   *)
(* answer off at its timestamp and that is the start of a second: there,   *)
(* and nowhere else, the strict comparison skips rows.                     *)
(***************************************************************************)
TailExact ==
    /\ \A q \in sent, r \in Range(batch) : Bound(logs[q]) <= logs[r]
    /\ \A r \in repeats : logs[r] # Bound(logs[r])
    /\ tail = "open" =>
         \A r \in DOMAIN logs : Bound(from) < logs[r] /\ logs[r] <= Bound(lastSeen) =>
            \/ r \in sent \union Range(batch) \union BadRows \union late
            \/ logs[r] \in cuts /\ logs[r] = Bound(logs[r])

----------------------------------------------------------------------------
(* The inductive invariant behind TailExact; TelemetryProofs uses it *)

TailTypes ==
    /\ now \in Nat /\ now >= LookBack /\ lastSeen \in Nat /\ from \in Nat
    /\ IsFiniteSet(DOMAIN logs) /\ logs \in [DOMAIN logs -> Nat]
    /\ batch \in Seq(DOMAIN logs) /\ sent \subseteq DOMAIN logs /\ repeats \subseteq sent
    /\ tail \in {"none", "open", "closed"}
    /\ tail # "open" => batch = << >>
    /\ tail = "none" => sent = {}

\* What was written is behind the cursor; the answer in hand is in order, has
\* each row once, and of what was written only what is not at the start of its
\* second.
CursorInv ==
    /\ \A q \in sent : logs[q] <= lastSeen
    /\ \A i, j \in DOMAIN batch : i < j => logs[batch[i]] <= logs[batch[j]]
    /\ IsInjective(batch)
    /\ \A q \in sent, i \in DOMAIN batch :
         /\ Bound(logs[q]) <= logs[batch[i]]
         /\ q = batch[i] => logs[q] # Bound(logs[q])
    /\ \A r \in repeats : logs[r] # Bound(logs[r])

\* In front of the bound that the answer in hand leads to, nothing is missing but
\* what was rejected, came late or was cut off.
ReadInv ==
    tail = "open" =>
      \A r \in DOMAIN logs : Bound(from) < logs[r] /\ logs[r] <= Bound(ReadTo) =>
         \/ r \in sent \union Range(batch) \union BadRows \union late
         \/ logs[r] \in cuts /\ logs[r] = Bound(logs[r])

TailInv == TailTypes /\ CursorInv /\ ReadInv
=============================================================================
