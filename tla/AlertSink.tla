----------------------------- MODULE AlertSink -----------------------------
(***************************************************************************)
(* The HTTP sink of src/pkg/alertsink behind an actor: a bounded buffer, a *)
(* worker that posts each event up to three times, and the end of the      *)
(* ingest-gateway's main, which cancels the context, stops the sink (the   *)
(* deferred calls run last one first) and only then the engine and its     *)
(* actors.  An event is named by the number of the signal that raised it.  *)
(***************************************************************************)
EXTENDS Cep

CONSTANTS
    BufferSize,  \* HTTPOptions.BufferSize
    Attempts     \* posts per event

ASSUME SinkAssumption == BufferSize \in Nat \ {0} /\ Attempts \in Nat \ {0}

VARIABLES
    hand,     \* the event the actor is about to publish, 0 if none
    buf,      \* HTTPSink.buf: the queued events
    closed,   \* buf has been closed
    worker,   \* the event in sendWithRetry, and the attempts already made
    done,     \* the worker has returned
    fate,     \* what became of each event that left buffer, hand and worker
    reached,  \* the events that the alert-manager got, once or more often
    stats,    \* publishedTotal, droppedTotal and failedTotal
    main,     \* where the gateway's main is
    panicked

sinkVars == <<hand, buf, closed, worker, done, fate, reached, stats, main, panicked>>

Idle == [ev |-> 0, tries |-> 0]

SinkInit ==
    /\ hand = 0 /\ buf = << >> /\ reached = {} /\ closed = FALSE /\ worker = Idle /\ done = FALSE
    /\ fate = [e \in 1 .. MaxSignals |-> "none"]
    /\ stats = [published |-> 0, dropped |-> 0, failed |-> 0]
    /\ main = "serving" /\ panicked = FALSE

Fate(e, what) == fate' = [fate EXCEPT ![e] = what]
Counted(what) == stats' = [stats EXCEPT ![what] = @ + 1]

\* processSignal up to the publication of the event.  After cancel() the loop
\* may still prefer its inbox to ctx.Done, or take no further signal.
processSignal(sig) ==
    /\ main # "ended" /\ hand = 0 /\ ~panicked
    /\ Len(processed) < MaxSignals
    /\ Process(sig)
    /\ hand' = IF processed'[Len(processed')].event = "none" THEN 0 ELSE Len(processed')
    /\ UNCHANGED <<buf, closed, worker, done, fate, reached, stats, main, panicked>>

\* A mutant of Publish: counts the event before it knows whether there is room.
PublishCountsFirst ==
    /\ hand # 0 /\ ~closed /\ ~panicked
    /\ hand' = 0
    /\ Counted("published")
    /\ IF Len(buf) < BufferSize THEN buf' = Append(buf, hand) /\ UNCHANGED fate
                                ELSE Fate(hand, "dropped") /\ UNCHANGED buf
    /\ UNCHANGED <<cepVars, closed, worker, done, reached, main, panicked>>

\* Publish never waits; a send on the closed channel panics, room or not.  The
\* counter is in the same step as the send: only Stats reads it.
Publish ==
    /\ hand # 0 /\ ~panicked
    /\ panicked' = closed
    /\ IF closed
       THEN UNCHANGED <<hand, buf, fate, stats>>
       ELSE /\ hand' = 0
            /\ IF Len(buf) < BufferSize
               THEN buf' = Append(buf, hand) /\ Counted("published") /\ UNCHANGED fate
               ELSE Fate(hand, "dropped") /\ Counted("dropped") /\ UNCHANGED buf
    /\ UNCHANGED <<cepVars, closed, worker, done, reached, main>>

WorkerTake ==
    /\ worker = Idle /\ ~done /\ buf # << >> /\ ~panicked
    /\ worker' = [ev |-> Head(buf), tries |-> 0]
    /\ buf' = Tail(buf)
    /\ UNCHANGED <<cepVars, hand, closed, done, fate, reached, stats, main, panicked>>

\* One attempt of sendWithRetry: it succeeds, or it fails before or after the
\* alert-manager has taken the event.
Send ==
    /\ worker # Idle /\ ~panicked
    /\ \E outcome \in {"ok", "refused", "timedOut"} :
         /\ reached' = IF outcome = "refused" THEN reached ELSE reached \union {worker.ev}
         /\ IF outcome = "ok"
            THEN worker' = Idle /\ Fate(worker.ev, "sent") /\ UNCHANGED stats
            ELSE IF worker.tries + 1 = Attempts
                 THEN worker' = Idle /\ Fate(worker.ev, "failed") /\ Counted("failed")
                 ELSE worker' = [worker EXCEPT !.tries = @ + 1] /\ UNCHANGED <<fate, stats>>
    /\ UNCHANGED <<cepVars, hand, buf, closed, done, main, panicked>>

\* The channel is closed and empty: the range loop ends.
WorkerDone ==
    /\ worker = Idle /\ ~done /\ closed /\ buf = << >> /\ ~panicked
    /\ done' = TRUE
    /\ UNCHANGED <<cepVars, hand, buf, closed, worker, fate, reached, stats, main, panicked>>

\* SIGTERM: cancel(), then the servers and receivers are shut down.
Shutdown ==
    /\ main = "serving" /\ ~panicked
    /\ main' = "cancelled"
    /\ UNCHANGED <<cepVars, hand, buf, closed, worker, done, fate, reached, stats, panicked>>

\* A mutant of SinkStop: waits for the worker without closing its channel.
SinkStopOpen ==
    /\ main = "cancelled" /\ ~panicked
    /\ main' = "stoppingSink"
    /\ UNCHANGED <<cepVars, hand, buf, closed, worker, done, fate, reached, stats, panicked>>

\* The deferred sink.Stop: close(buf), then wait for the worker.
SinkStop ==
    /\ main = "cancelled" /\ ~panicked
    /\ main' = "stoppingSink" /\ closed' = TRUE
    /\ UNCHANGED <<cepVars, hand, buf, worker, done, fate, reached, stats, panicked>>

\* sink.Stop has returned; the deferred engine Stop ends the actors.
EngineStop ==
    /\ main = "stoppingSink" /\ done /\ ~panicked
    /\ main' = "ended"
    /\ UNCHANGED <<cepVars, hand, buf, closed, worker, done, fate, reached, stats, panicked>>

AlertPathNext ==
    \/ \E sig \in Signals : processSignal(sig)
    \/ Publish \/ WorkerTake \/ Send \/ WorkerDone
    \/ Shutdown \/ SinkStop \/ EngineStop
    \/ CepTick /\ UNCHANGED sinkVars

AlertPathSpec ==
    CepInit /\ SinkInit /\ [][AlertPathNext]_<<cepVars, sinkVars>>

----------------------------------------------------------------------------
(* Properties *)

With(where) == {e \in DOMAIN fate : fate[e] = where}
Raised == {i \in DOMAIN processed : processed[i].event # "none"}

(***************************************************************************)
(* No event gets lost without a trace: each one is in exactly one of the   *)
(* actor's hand, the buffer, the worker, or the set of those sent, dropped *)
(* or failed; the three counters agree with those sets; what counts as     *)
(* sent has reached the alert-manager, what was dropped has not, and the   *)
(* worker ends with an empty buffer.  The actor panics on the closed       *)
(* channel only after Stop has closed it.                                  *)
(***************************************************************************)
EventAccounted ==
    LET places == << {hand} \ {0}, {buf[i] : i \in DOMAIN buf}, {worker.ev} \ {0},
                     With("sent"), With("dropped"), With("failed") >>
        n == [i \in DOMAIN places |-> Cardinality(places[i])]
    IN  /\ UNION {places[i] : i \in DOMAIN places} = Raised
        /\ \A i, j \in DOMAIN places : i # j => places[i] \intersect places[j] = {}
        /\ stats = [published |-> n[2] + n[3] + n[4] + n[6],
                    dropped |-> n[5], failed |-> n[6]]
        /\ With("sent") \subseteq reached
        /\ reached \intersect ({hand} \union With("dropped")) = {}
        /\ done => buf = << >>
        /\ panicked => main = "stoppingSink" \/ main = "ended"

(***************************************************************************)
(* Stop ends: once main has called it, the worker gives up or delivers     *)
(* what is queued and main goes on, unless a late event of an actor has    *)
(* made the process panic (Stop waits for done without a deadline).        *)
(***************************************************************************)
SinkStops == []<>(main \in {"stoppingSink", "ended"} => done \/ panicked)

----------------------------------------------------------------------------
(* The inductive invariant behind EventAccounted; GatewayProofs uses it *)

Fates == {"none", "sent", "dropped", "failed"}
Buffered == {buf[i] : i \in DOMAIN buf}
InHand == {hand} \ {0}
Sending == {worker.ev} \ {0}

SinkTypes ==
    /\ processed \in Seq([sig : Signals, epoch : Nat, event : {"error", "latency", "none"}])
    /\ epoch \in Nat /\ Len(processed) <= MaxSignals
    /\ hand \in Nat /\ buf \in Seq(Nat \ {0}) /\ closed \in BOOLEAN
    /\ worker \in [ev : Nat, tries : Nat] /\ (worker.ev = 0 => worker = Idle)
    /\ fate \in [1 .. MaxSignals -> Fates]
    /\ stats \in [published : Nat, dropped : Nat, failed : Nat]

\* Each event is in one place, and once in the buffer.
SinkPlaces ==
    /\ InHand \union Buffered \union Sending \union With("sent") \union With("dropped")
         \union With("failed") = Raised
    /\ \A i, j \in DOMAIN buf : buf[i] = buf[j] => i = j
    /\ InHand \intersect (Buffered \union Sending) = {} /\ Buffered \intersect Sending = {}
    /\ \A e \in InHand \union Buffered \union Sending : fate[e] = "none"

SinkCounts ==
    /\ stats.published = Cardinality(Buffered) + Cardinality(Sending)
                           + Cardinality(With("sent")) + Cardinality(With("failed"))
    /\ stats.dropped = Cardinality(With("dropped"))
    /\ stats.failed = Cardinality(With("failed"))

SinkReached ==
    /\ With("sent") \subseteq reached
    /\ reached \subseteq Sending \union With("sent") \union With("failed")

SinkEnds ==
    /\ closed => main \in {"stoppingSink", "ended"}
    /\ panicked => closed
    /\ done => closed /\ buf = << >>

SinkInv == SinkTypes /\ SinkPlaces /\ SinkCounts /\ SinkReached /\ SinkEnds
=============================================================================
