------------------------------- MODULE Engine -------------------------------
(* pkg/engine/engine.go with the storage backend, and the shutdown sequence of
   services/ingest-gateway/cmd/main.go that stops it.

   Receivers put signals into ingestCh. Three stages (decode, validate,
   enrich), each a goroutine with a bounded output channel, hand them on to a
   pool of workers, which offer each signal to its tenant's actor, sample it,
   write it to the WAL and then to the storage backend. Channel 0 is ingestCh,
   channel i the output of stage i. *)
EXTENDS StorageBackend, Sequences, Functions

CONSTANTS
    NoSignal,
    BadPayload,        \* signals whose payload is not JSON
    NoTenant,          \* signals without a tenant
    IngestBufferSize,  \* capacity of ingestCh
    StageBuffer,       \* capacity of each stage's output (1024)
    MailboxSize        \* capacity of the tenant's actor inbox

ASSUME EngineAssumption ==
    /\ NoSignal \notin Signals
    /\ {IngestBufferSize, StageBuffer, MailboxSize} \subseteq Nat \ {0}

VARIABLES
    chan,       \* channel -> signals in it
    chClosed,   \* channel -> closed
    hold,       \* stage -> the signal it is about to send
    worker,     \* worker -> idle, handling, storing, exited
    sig,        \* worker -> the signal it handles
    inbox,      \* signals in the actor's mailbox
    ctxDone,    \* the run context is cancelled
    stop,       \* main's shutdown and Stop: where they are
    accepted,   \* history: signals ProcessSignal took
    dropped,    \* history: signals dropped with a reason that is counted
    walled,     \* signals in the WAL
    walClosed

pipeVars == <<chan, chClosed, hold>>
workVars == <<worker, sig, inbox, dropped, walled>>
stopVars == <<ctxDone, stop, walClosed>>
engineVars == <<pipeVars, workVars, stopVars, accepted>>
vars == <<storageVars, engineVars>>

Stages == 1..3
Rejects == [i \in Stages |-> CASE i = 1 -> BadPayload [] i = 2 -> NoTenant [] OTHER -> {}]
Capacity(i) == IF i = 0 THEN IngestBufferSize ELSE StageBuffer

EngineInit ==
    /\ StorageInit
    /\ chan = [i \in 0..3 |-> <<>>] /\ chClosed = [i \in 0..3 |-> FALSE]
    /\ hold = [i \in Stages |-> NoSignal]
    /\ worker = [w \in Writers |-> "idle"] /\ sig = [w \in Writers |-> NoSignal]
    /\ inbox = 0
    /\ ctxDone = FALSE /\ stop = "running" /\ walClosed = FALSE
    /\ accepted = {} /\ dropped = {} /\ walled = {}

-----------------------------------------------------------------------------
\* ProcessSignal: into ingestCh if there is room; otherwise ErrOverloaded, and
\* the client may send the signal again. Receivers run until they are shut down.
ProcessSignal(s) ==
    /\ stop \in {"running", "receivers"}
    /\ s \notin accepted
    /\ Len(chan[0]) < Capacity(0)
    /\ chan' = [chan EXCEPT ![0] = Append(@, s)]
    /\ accepted' = accepted \cup {s}
    /\ UNCHANGED <<storageVars, chClosed, hold, workVars, stopVars>>

(* A stage: range over its input, drop what it rejects, send the rest. *)
StageReceives(i) ==
    /\ ~chClosed[i] /\ hold[i] = NoSignal /\ chan[i - 1] # <<>>
    /\ chan' = [chan EXCEPT ![i - 1] = Tail(@)]
    /\ IF Head(chan[i - 1]) \in Rejects[i]
       THEN dropped' = dropped \cup {Head(chan[i - 1])} /\ UNCHANGED hold
       ELSE hold' = [hold EXCEPT ![i] = Head(chan[i - 1])] /\ UNCHANGED dropped
    /\ UNCHANGED <<storageVars, chClosed, worker, sig, inbox, walled, stopVars, accepted>>

\* A send that gives up when the channel is full.
StageSendsOrDrops(i) ==
    /\ hold[i] # NoSignal
    /\ chan' = IF Len(chan[i]) < Capacity(i) THEN [chan EXCEPT ![i] = Append(@, hold[i])]
                                             ELSE chan
    /\ hold' = [hold EXCEPT ![i] = NoSignal]
    /\ UNCHANGED <<storageVars, chClosed, workVars, stopVars, accepted>>

StageSends(i) ==
    /\ hold[i] # NoSignal /\ Len(chan[i]) < Capacity(i)
    /\ chan' = [chan EXCEPT ![i] = Append(@, hold[i])]
    /\ hold' = [hold EXCEPT ![i] = NoSignal]
    /\ UNCHANGED <<storageVars, chClosed, workVars, stopVars, accepted>>

\* The input is closed and empty, or the context is done while the stage sends:
\* the signal it holds is discarded. Its output channel is closed.
StageReturns(i) ==
    /\ ~chClosed[i]
    /\ \/ hold[i] = NoSignal /\ chan[i - 1] = <<>> /\ chClosed[i - 1]
       \/ hold[i] # NoSignal /\ ctxDone
    /\ chClosed' = [chClosed EXCEPT ![i] = TRUE]
    /\ hold' = [hold EXCEPT ![i] = NoSignal]
    /\ UNCHANGED <<storageVars, chan, workVars, stopVars, accepted>>

-----------------------------------------------------------------------------
(* A worker: select between the pipeline and the end of the context; handle. *)

\* Take a signal and offer it to its tenant's actor, which may be full.
WorkerReceives(w) ==
    /\ worker[w] = "idle" /\ phase[w] = "idle" /\ chan[3] # <<>>
    /\ chan' = [chan EXCEPT ![3] = Tail(@)]
    /\ worker' = [worker EXCEPT ![w] = "handling"]
    /\ sig' = [sig EXCEPT ![w] = Head(chan[3])]
    /\ inbox' = IF inbox < MailboxSize THEN inbox + 1 ELSE inbox
    /\ UNCHANGED <<storageVars, chClosed, hold, dropped, walled, stopVars, accepted>>

HandleEnds(w) == /\ worker' = [worker EXCEPT ![w] = "idle"]
                 /\ sig' = [sig EXCEPT ![w] = NoSignal]

\* shouldPersist says no (traces only), or the WAL refuses the entry.
HandleDrops(w) ==
    /\ worker[w] = "handling"
    /\ dropped' = dropped \cup {sig[w]}
    /\ HandleEnds(w)
    /\ UNCHANGED <<storageVars, pipeVars, inbox, walled, stopVars, accepted>>

\* A handle that buffers the signal for storage although it skipped the WAL.
HandleSkipsWal(w) ==
    /\ worker[w] = "handling"
    /\ worker' = [worker EXCEPT ![w] = "storing"]
    /\ UNCHANGED <<storageVars, pipeVars, walled, sig, inbox, dropped, stopVars, accepted>>

HandleWritesWal(w) ==
    /\ worker[w] = "handling" /\ ~walClosed
    /\ walled' = walled \cup {sig[w]}
    /\ worker' = [worker EXCEPT ![w] = "storing"]
    /\ UNCHANGED <<storageVars, pipeVars, sig, inbox, dropped, stopVars, accepted>>

\* storage.Write; when it fills the buffer the worker stays in WriteBatch.
HandleStores(w) ==
    /\ worker[w] = "storing"
    /\ Write(w, sig[w])
    /\ HandleEnds(w)
    /\ UNCHANGED <<pipeVars, inbox, dropped, walled, stopVars, accepted>>

\* A worker that returns when it finds the pipeline empty.
WorkerReturnsWhenEmpty(w) ==
    /\ worker[w] = "idle" /\ phase[w] = "idle"
    /\ ctxDone \/ chan[3] = <<>>
    /\ worker' = [worker EXCEPT ![w] = "exited"]
    /\ UNCHANGED <<storageVars, pipeVars, sig, inbox, dropped, walled, stopVars, accepted>>

WorkerReturns(w) ==
    /\ worker[w] = "idle" /\ phase[w] = "idle"
    /\ ctxDone \/ (chan[3] = <<>> /\ chClosed[3])
    /\ worker' = [worker EXCEPT ![w] = "exited"]
    /\ UNCHANGED <<storageVars, pipeVars, sig, inbox, dropped, walled, stopVars, accepted>>

\* The actor takes a signal from its mailbox, until the supervisor stops it.
ActorReceives ==
    /\ inbox > 0 /\ stop \in {"running", "receivers", "engine", "workers"}
    /\ inbox' = inbox - 1
    /\ UNCHANGED <<storageVars, pipeVars, worker, sig, dropped, walled, stopVars, accepted>>

\* The backend works on its own.
StorageWorks == StorageStep /\ UNCHANGED engineVars

-----------------------------------------------------------------------------
(* Shutdown: main cancels the context, shuts the receivers down, and its
   deferred Stop closes ingestCh, waits for the workers, stops the supervisor,
   flushes and closes the storage and closes the WAL. *)
Goto(from, to) == stop = from /\ stop' = to

ShutdownRequested ==
    /\ Goto("running", "receivers")
    /\ ctxDone' = TRUE
    /\ UNCHANGED <<storageVars, pipeVars, workVars, walClosed, accepted>>

ReceiversStopped ==
    /\ Goto("receivers", "engine")
    /\ UNCHANGED <<storageVars, pipeVars, workVars, ctxDone, walClosed, accepted>>

StopBegins ==
    /\ Goto("engine", "workers")
    /\ chClosed' = [chClosed EXCEPT ![0] = TRUE]
    /\ UNCHANGED <<storageVars, chan, hold, workVars, ctxDone, walClosed, accepted>>

\* A Stop that forgets wg.Wait.
StopWithoutWait ==
    /\ Goto("workers", "flush")
    /\ UNCHANGED <<storageVars, pipeVars, workVars, ctxDone, walClosed, accepted>>

\* wg.Wait returns; sup.Stop stops the actors.
StopWaits ==
    /\ \A w \in Writers : worker[w] = "exited"
    /\ Goto("workers", "flush")
    /\ UNCHANGED <<storageVars, pipeVars, workVars, ctxDone, walClosed, accepted>>

\* A Stop that relies on Close to flush.
StopSkipsFlush ==
    /\ Goto("flush", "close")
    /\ UNCHANGED <<storageVars, pipeVars, workVars, ctxDone, walClosed, accepted>>

StopFlushes ==
    /\ Goto("flush", "close")
    /\ IF buffer = {} THEN UNCHANGED storageVars ELSE Flush(Stopper)
    /\ UNCHANGED <<pipeVars, workVars, ctxDone, walClosed, accepted>>

StopClosesStorage ==
    /\ \/ stop = "close" /\ CloseBegin /\ UNCHANGED stop
       \/ CloseEnd /\ Goto("close", "wal")
    /\ UNCHANGED <<pipeVars, workVars, ctxDone, walClosed, accepted>>

StopClosesWal ==
    /\ Goto("wal", "done")
    /\ walClosed' = TRUE
    /\ UNCHANGED <<storageVars, pipeVars, workVars, ctxDone, accepted>>

Stop == \/ ReceiversStopped \/ StopBegins \/ StopWaits \/ StopFlushes
        \/ StopClosesStorage \/ StopClosesWal

-----------------------------------------------------------------------------
Next ==
    \/ \E s \in Signals : ProcessSignal(s)
    \/ \E i \in Stages : StageReceives(i) \/ StageSends(i) \/ StageReturns(i)
    \/ \E w \in Writers : \/ WorkerReceives(w) \/ HandleDrops(w) \/ HandleWritesWal(w)
                          \/ HandleStores(w) \/ WorkerReturns(w)
    \/ ActorReceives
    \/ StorageWorks
    \/ ShutdownRequested
    \/ Stop

\* Every goroutine of the engine keeps running, the flush ticker ticks, inserts
\* end by success or by their timeout, and main carries its shutdown through.
Fairness ==
    /\ \A i \in Stages : /\ WF_vars(StageReceives(i)) /\ WF_vars(StageSends(i))
                         /\ WF_vars(StageReturns(i))
    /\ \A w \in Writers : /\ WF_vars(WorkerReceives(w))
                          /\ WF_vars(HandleDrops(w) \/ HandleWritesWal(w))
                          /\ WF_vars(HandleStores(w)) /\ WF_vars(WorkerReturns(w))
    /\ WF_vars(FlushTick /\ UNCHANGED engineVars)
    /\ WF_vars(FlushLoopExits /\ UNCHANGED engineVars)
    /\ \A f \in Flushers : WF_vars(BatchStep(f) /\ UNCHANGED engineVars)
    /\ WF_vars(Stop)

Spec == EngineInit /\ [][Next]_vars /\ Fairness

-----------------------------------------------------------------------------
(* Properties *)

InChannels == UNION {Range(chan[i]) : i \in 0..3}
InStages == {hold[i] : i \in Stages} \ {NoSignal}
InWorkers == {sig[w] : w \in Writers} \ {NoSignal}

\* Until the context is cancelled, a signal that ProcessSignal accepted is on
\* its way, in the WAL, or dropped with a reason: full channels hold signals
\* back and lose none.
NoSilentLoss ==
    ~ctxDone => accepted = InChannels \cup InStages \cup InWorkers \cup dropped \cup walled

\* "the WAL stays the source of truth": nothing reaches the storage buffer,
\* a batch or ClickHouse that the WAL does not hold.
WalFirst == Written \subseteq walled

\* When the connection and then the WAL are closed, no worker is left that
\* could use them, no batch is on its way and none of the buffer is stranded.
CleanStop ==
    /\ closing = "done" => /\ \A f \in Flushers : phase[f] = "idle"
                           /\ buffer = {}
    /\ walClosed => \A w \in Writers : worker[w] = "exited"

\* Every signal in the WAL ends up in ClickHouse or in a batch that is given
\* up, even when the engine is stopped in the meantime.
EventuallySettled == \A s \in Signals : []<>(s \in walled => s \in stored \cup lost)

\* An accepted signal gets through the pipeline unless the engine is stopped.
EventuallyHandled ==
    \A s \in Signals : []<>(s \in accepted => s \in dropped \cup walled \/ ctxDone)

\* A shutdown that was requested completes: no stage, worker or flush that the
\* others wait for is left blocked.
StopTerminates == []<>(stop \in {"running", "done"})

\* "Stop drains the engine", "Closing the ingest channel makes Chain stages
\* drain": when Stop returns every accepted signal has been handled.
StopDrains == stop = "done" => accepted \subseteq dropped \cup walled
-----------------------------------------------------------------------------
(* The inductive invariant of the proofs. *)

StopSteps == {"running", "receivers", "engine", "workers", "flush", "close", "wal", "done"}

EngineTypeOK ==
    /\ chan \in [0..3 -> Seq(Signals)] /\ chClosed \in [0..3 -> BOOLEAN]
    /\ hold \in [Stages -> Signals \cup {NoSignal}]
    /\ worker \in [Writers -> {"idle", "handling", "storing", "exited"}]
    /\ sig \in [Writers -> Signals \cup {NoSignal}]
    /\ inbox \in 0..MailboxSize /\ ctxDone \in BOOLEAN /\ walClosed \in BOOLEAN
    /\ stop \in StopSteps
    /\ accepted \subseteq Signals /\ dropped \subseteq Signals /\ walled \subseteq Signals

\* A worker has a signal exactly while it handles one, and stores it only once
\* the WAL has it.
WorkersHold == \A w \in Writers :
    /\ sig[w] = NoSignal <=> worker[w] \in {"idle", "exited"}
    /\ worker[w] = "storing" => sig[w] \in walled

\* What Stop has left behind it, and what Close has.
WorkersGone == \A w \in Writers :
    /\ stop \in {"flush", "close", "wal", "done"} => worker[w] = "exited"
    /\ worker[w] = "exited" => phase[w] = "idle"
StopOrder ==
    /\ stop = "running" <=> ~ctxDone
    /\ walClosed => stop = "done"
    /\ stop \in {"close", "wal", "done"} => buffer = {}
    /\ storageClosed => stop \in {"close", "wal", "done"}
CloseOrder ==
    /\ closing = "idle" <=> ~storageClosed
    /\ closing = "done" => loop = "done"
    /\ loop = "done" => storageClosed /\ phase[Loop] = "idle"
    /\ storageClosed => phase[Stopper] = "idle"

\* A signal is at one place of the pipeline, and has not been dropped, logged
\* or stored before it gets there.
ChannelsOnce ==
    /\ \A i \in 0..3 : IsInjective(chan[i])
    /\ \A i, j \in 0..3 : i # j => Range(chan[i]) \cap Range(chan[j]) = {}
HandsOnce ==
    /\ \A i, j \in Stages : i # j /\ hold[i] = hold[j] => hold[i] = NoSignal
    /\ \A v, w \in Writers : v # w /\ sig[v] = sig[w] => sig[v] = NoSignal
PlacesApart ==
    /\ InChannels \cap InStages = {} /\ InChannels \cap InWorkers = {}
    /\ InStages \cap InWorkers = {}
NotYetHandled ==
    /\ (InChannels \cup InStages) \cap (dropped \cup walled) = {}
    /\ \A w \in Writers : worker[w] = "handling" => sig[w] \notin dropped \cup walled
    /\ \A w \in Writers : worker[w] = "storing" => sig[w] \notin Written
OnlyAccepted == InChannels \cup InStages \cup InWorkers \cup dropped \cup walled \subseteq accepted
PipelineOnce == /\ ChannelsOnce /\ HandsOnce /\ PlacesApart /\ NotYetHandled /\ OnlyAccepted

PipeInv == EngineTypeOK /\ WorkersHold /\ NoSilentLoss /\ WalFirst /\ PipelineOnce
StopInv == WorkersGone /\ StopOrder /\ CloseOrder
EngineInv == StorageInv /\ PipeInv /\ StopInv
=============================================================================
