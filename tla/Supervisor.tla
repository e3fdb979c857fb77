----------------------------- MODULE Supervisor -----------------------------
(* pkg/supervisor/supervisor.go and pkg/actor/actor.go: one actor per tenant,
   restarted with backoff when it stops, quarantined when it stops too often.

   A managedActor is the supervisor's bookkeeping; it owns a succession of
   actors. Both are numbered in the order of their creation. Nothing holds a
   reference count: a router, a backoff goroutine or a caller of
   GetOrCreateActor keeps a managedActor, or an actor, that the map or the
   managedActor no longer points to.

   Time is discrete. Timestamps are kept as ages and delays as the time that
   remains, so that no clock is needed. *)
EXTENDS Naturals, Sequences, FiniteSets

CONSTANTS
    Tenants, Signals, TenantOf,
    Direct,           \* signals delivered by engine.handle; the others by RouteToTenant
    Spillover,        \* whether a Spiller is configured
    MailboxSize, MaxRestarts, RestartWindow,
    HealthInterval, BackoffMin, BackoffMax,
    MaxManaged,       \* bound: managedActors
    MaxActors,        \* bound: actors
    MaxCrashes,       \* bound: actors stopped by a holder of their handle
    MaxLate           \* bound: goroutines that are due while time passes

ASSUME SupervisorAssumption ==
    /\ TenantOf \in [Signals -> Tenants] /\ Direct \subseteq Signals
    /\ Spillover \in BOOLEAN
    /\ MailboxSize \in Nat \ {0} /\ MaxRestarts \in Nat \ {0}
    /\ RestartWindow \in Nat \ {0} /\ HealthInterval \in Nat \ {0}
    /\ BackoffMin \in Nat \ {0} /\ BackoffMax \in Nat /\ BackoffMin <= BackoffMax
    /\ MaxManaged \in Nat /\ MaxActors \in Nat /\ MaxCrashes \in Nat /\ MaxLate \in Nat

\* A lookup makes at most one managedActor, which replaces an actor at most once
\* for each time it was stopped, from outside or by Stop: with n signals,
\* MaxManaged >= n and MaxActors >= 2n + MaxCrashes are never in the way.
Managed == 1..MaxManaged
Actors == 1..MaxActors
None == 0

VARIABLES
    actors,       \* the map: tenant -> managedActor, or None
    made,         \* managedActors and actors made so far
    current,      \* managedActor -> its actor (m.a)
    restarts,     \* managedActor -> ages of the restarts counted
    backoffNext,
    quarantined,
    waits,        \* managedActor -> (remaining delay -> backoff goroutines)
    running,      \* actor -> started and not stopped; its inbox is open
    loop,         \* actor -> none, run, ended: its processing goroutine
    pc, at,       \* signal -> where it is
    ticker,       \* time to the ticker's next tick, and whether one is pending
    monitor,      \* the monitor goroutine runs
    stopping,     \* no, cancelled (rootCtx is done), stopped
    crashes       \* number of actors stopped from outside

mapVars == <<actors, made>>
bookVars == <<restarts, backoffNext, quarantined, waits>>
actorVars == <<current, running, loop>>
signalVars == <<pc, at>>
clockVars == <<ticker, monitor>>
vars == <<mapVars, bookVars, actorVars, signalVars, clockVars, stopping, crashes>>

Delays == 0..BackoffMax

\* After NewSupervisorWithOptions and Start.
Init ==
    /\ actors = [t \in Tenants |-> None]
    /\ made = [m |-> 0, a |-> 0]
    /\ current = [m \in Managed |-> None]
    /\ restarts = [m \in Managed |-> <<>>]
    /\ backoffNext = [m \in Managed |-> BackoffMin]
    /\ quarantined = [m \in Managed |-> FALSE]
    /\ waits = [m \in Managed |-> [d \in Delays |-> 0]]
    /\ running = [a \in Actors |-> FALSE]
    /\ loop = [a \in Actors |-> "none"]
    /\ pc = [s \in Signals |-> "new"] /\ at = [s \in Signals |-> None]
    /\ ticker = [left |-> HealthInterval, pending |-> FALSE]
    /\ monitor = TRUE /\ stopping = "no"
    /\ crashes = 0

\* A panic in any goroutine ends the process: nothing recovers it.
Panicked == \E s \in Signals : pc[s] = "panicked"
Cancelled == stopping # "no"

\* m.a.IsRunning()
IsRunning(m) == current[m] # None /\ running[current[m]]

-----------------------------------------------------------------------------
(* Routing. A delivery looks the tenant up under the lock and sends without it. *)

Goes(s, state, where) == /\ pc' = [pc EXCEPT ![s] = state]
                         /\ at' = [at EXCEPT ![s] = where]

\* NewTenantActorWithOptions and Start, for managedActor m.
StartActor(m) ==
    LET a == made.a + 1 IN
    /\ a \in Actors
    /\ current' = [current EXCEPT ![m] = a]
    /\ running' = [running EXCEPT ![a] = TRUE]
    /\ loop' = [loop EXCEPT ![a] = "run"]

\* getOrCreate when the tenant has an entry: nil if it is quarantined.
\* RouteToTenant counts a drop; engine.handle uses the nil actor.
LookUp(s) ==
    LET m == actors[TenantOf[s]] IN
    /\ pc[s] = "new" /\ m # None
    /\ CASE ~quarantined[m] -> Goes(s, "found", m)
         [] quarantined[m] /\ s \notin Direct -> Goes(s, "dropped", None)
         [] OTHER -> Goes(s, "panicked", None)
    /\ UNCHANGED <<mapVars, bookVars, actorVars, clockVars, stopping, crashes>>

\* getOrCreate when it has none. rootCtx may be done: the actor starts all the same.
Create(s) ==
    LET m == made.m + 1 IN
    /\ pc[s] = "new" /\ actors[TenantOf[s]] = None
    /\ m \in Managed /\ StartActor(m)
    /\ made' = [m |-> m, a |-> made.a + 1]
    /\ actors' = [actors EXCEPT ![TenantOf[s]] = m]
    /\ backoffNext' = [backoffNext EXCEPT ![m] = BackoffMin]
    /\ Goes(s, "found", m)
    /\ UNCHANGED <<restarts, quarantined, waits, clockVars, stopping, crashes>>

Mailbox(a) == {s \in Signals : pc[s] = "queued" /\ at[s] = a}

\* select { case m.a.Mailbox() <- sig: default: }. A send to a closed inbox
\* panics; a full one leads to the spillover, or to a drop. m.a is read without
\* the lock that restartActor writes it under; the old actor that such a read
\* can still give was closed before it was replaced, so the send panics as it
\* does just before the replacement.
Send(s) ==
    LET a == current[at[s]] IN
    /\ pc[s] = "found"
    /\ \/ ~running[a] /\ Goes(s, "panicked", a)
       \/ running[a] /\ Cardinality(Mailbox(a)) < MailboxSize /\ Goes(s, "queued", a)
       \/ running[a] /\ Cardinality(Mailbox(a)) >= MailboxSize /\ Goes(s, "dropped", None)
       \/ /\ running[a] /\ Cardinality(Mailbox(a)) >= MailboxSize
          /\ Spillover /\ s \notin Direct /\ Goes(s, "spilled", None)
    /\ UNCHANGED <<mapVars, bookVars, actorVars, clockVars, stopping, crashes>>

-----------------------------------------------------------------------------
(* The actor's goroutine: it receives until its inbox is closed and empty, or
   until rootCtx is done; select takes either when both are ready. *)

Process(s) ==
    /\ pc[s] = "queued" /\ loop[at[s]] = "run"
    /\ Goes(s, "processed", None)
    /\ UNCHANGED <<mapVars, bookVars, actorVars, clockVars, stopping, crashes>>

\* An actor that returns as soon as its inbox is closed.
InboxClosedEarly(a) == loop[a] = "run" /\ ~running[a]

InboxClosed(a) == loop[a] = "run" /\ ~running[a] /\ Mailbox(a) = {}

\* A goroutine that does not watch rootCtx.
ContextIgnored(a) == loop[a] = "run" /\ Cancelled /\ ~running[a]

ContextDone(a) == loop[a] = "run" /\ Cancelled

ActorReturns(a) ==
    /\ InboxClosed(a) \/ ContextDone(a)
    /\ loop' = [loop EXCEPT ![a] = "ended"]
    /\ UNCHANGED <<mapVars, bookVars, current, running, signalVars, clockVars, stopping, crashes>>

\* A holder of the handle stops the actor: what a crash is to the supervisor.
ActorStop(a) ==
    /\ running[a] /\ crashes < MaxCrashes
    /\ crashes' = crashes + 1
    /\ running' = [running EXCEPT ![a] = FALSE]
    /\ UNCHANGED <<mapVars, bookVars, current, loop, signalVars, clockVars, stopping>>

-----------------------------------------------------------------------------
(* The monitor. *)

NoTrim(ages) == ages

\* Drop the timestamps in front of the first that is not before the cutoff.
trimBefore(ages) ==
    LET fresh == {i \in DOMAIN ages : ages[i] <= RestartWindow}
    IN  IF fresh = {} THEN <<>>
        ELSE SubSeq(ages, CHOOSE i \in fresh : \A j \in fresh : i <= j, Len(ages))

\* Twice the delay, up to 20% more or less; without the cap, and with it.
Jittered(delay) == {d \in 0..3 * delay : 8 * delay <= 5 * d /\ 5 * d <= 12 * delay}

nextBackoff(delay) == {IF d > BackoffMax THEN BackoffMax ELSE d : d \in Jittered(delay)}

\* The actors of the map that a sweep looks at.
Swept == {m \in Managed : ~quarantined[m] /\ \E t \in Tenants : actors[t] = m}

\* The swept actors that are not running.
Down == {m \in Swept : ~IsRunning(m)}

Counted(m) == Append(trimBefore(restarts[m]), 0)
Flooded == {m \in Down : Len(Counted(m)) > MaxRestarts}

Sweep ==
    /\ monitor /\ ticker.pending
    /\ ticker' = [ticker EXCEPT !.pending = FALSE]
    /\ restarts' = [m \in Managed |-> CASE m \in Down -> Counted(m)
                                        [] m \in Swept \ Down -> trimBefore(restarts[m])
                                        [] OTHER -> restarts[m]]
    /\ quarantined' = [m \in Managed |-> quarantined[m] \/ m \in Flooded]
    /\ waits' = [m \in Managed |-> IF m \in Down \ Flooded
                                   THEN [waits[m] EXCEPT ![backoffNext[m]] = @ + 1]
                                   ELSE waits[m]]
    /\ \E next \in [Down \ Flooded -> UNION {nextBackoff(backoffNext[m]) : m \in Managed}] :
          /\ \A m \in Down \ Flooded : next[m] \in nextBackoff(backoffNext[m])
          /\ backoffNext' = [m \in Managed |-> IF m \in Down \ Flooded THEN next[m]
                                                                    ELSE backoffNext[m]]
    /\ UNCHANGED <<mapVars, actorVars, signalVars, monitor, stopping, crashes>>

MonitorReturns ==
    /\ monitor /\ Cancelled
    /\ monitor' = FALSE /\ ticker' = [left |-> HealthInterval, pending |-> FALSE]
    /\ UNCHANGED <<mapVars, bookVars, actorVars, signalVars, stopping, crashes>>

Waited(m, d) == waits' = [waits EXCEPT ![m][d] = @ - 1]

\* restartActor without its first check, without its second, and with the second
\* inverted.
DueUnlessRunning(m) == ~IsRunning(m)
DueUnlessQuarantined(m) == ~quarantined[m]
DueIfRunning(m) == ~quarantined[m] /\ IsRunning(m)

\* restartActor looks again, under the lock.
Due(m) == ~quarantined[m] /\ ~IsRunning(m)

\* A backoff goroutine whose delay is over.
Restart(m) ==
    /\ waits[m][0] > 0 /\ Waited(m, 0)
    /\ IF Due(m)
       THEN StartActor(m) /\ made' = [made EXCEPT !.a = @ + 1]
       ELSE UNCHANGED <<actorVars, made>>
    /\ UNCHANGED <<actors, restarts, backoffNext, quarantined, signalVars, clockVars,
                   stopping, crashes>>

\* One that sees rootCtx done first.
WaitCancelled(m) ==
    /\ Cancelled
    /\ \E d \in Delays : waits[m][d] > 0 /\ Waited(m, d)
    /\ UNCHANGED <<mapVars, restarts, backoffNext, quarantined, actorVars, signalVars,
                   clockVars, stopping, crashes>>

\* Goroutines that could run now, for m: expired waits and a pending sweep.
Late(m) == waits[m][0] + IF ticker.pending THEN 1 ELSE 0

Older(ages) == [i \in DOMAIN ages |-> IF ages[i] <= RestartWindow THEN ages[i] + 1 ELSE ages[i]]

\* One unit of time. A ticker whose tick is still pending drops the new one. The
\* history of an actor that is quarantined, or forgotten, is not looked at again.
Tick ==
    /\ \A m \in Managed : Late(m) <= MaxLate
    /\ ticker' = CASE ~monitor -> ticker
                   [] monitor /\ ticker.left = 1 -> [left |-> HealthInterval, pending |-> TRUE]
                   [] OTHER -> [ticker EXCEPT !.left = @ - 1]
    /\ restarts' = [m \in Managed |-> IF m \in Swept THEN Older(restarts[m]) ELSE restarts[m]]
    /\ waits' = [m \in Managed |-> [d \in Delays |->
                   LET next == IF d < BackoffMax THEN waits[m][d + 1] ELSE 0 IN
                   IF d = 0 THEN waits[m][0] + next ELSE next]]
    /\ UNCHANGED <<mapVars, backoffNext, quarantined, actorVars, signalVars, monitor,
                   stopping, crashes>>

-----------------------------------------------------------------------------
(* The operator, and Stop. *)

\* Clear the entry and forget it. Its actor, if one runs, goes on.
ReleaseQuarantine(t) ==
    LET m == actors[t] IN
    /\ m # None
    /\ actors' = [actors EXCEPT ![t] = None]
    /\ quarantined' = [quarantined EXCEPT ![m] = FALSE]
    /\ restarts' = [restarts EXCEPT ![m] = <<>>]
    /\ backoffNext' = [backoffNext EXCEPT ![m] = BackoffMin]
    /\ UNCHANGED <<made, waits, actorVars, signalVars, clockVars, stopping, crashes>>

\* Stop cancels rootCtx before it takes the lock.
StopCancels ==
    /\ stopping = "no"
    /\ stopping' = "cancelled"
    /\ UNCHANGED <<mapVars, bookVars, actorVars, signalVars, clockVars, crashes>>

StopActors ==
    /\ stopping = "cancelled"
    /\ stopping' = "stopped"
    /\ running' = [a \in Actors |->
                     running[a] /\ \A t \in Tenants : actors[t] = None \/ current[actors[t]] # a]
    /\ actors' = [t \in Tenants |-> None]
    /\ UNCHANGED <<made, bookVars, current, loop, signalVars, clockVars, crashes>>

-----------------------------------------------------------------------------
Deliver(s) == LookUp(s) \/ Create(s) \/ Send(s)

Step ==
    \/ \E s \in Signals : Deliver(s) \/ Process(s)
    \/ \E a \in Actors : ActorReturns(a) \/ ActorStop(a)
    \/ \E m \in Managed : Restart(m) \/ WaitCancelled(m)
    \/ \E t \in Tenants : ReleaseQuarantine(t)
    \/ Sweep \/ MonitorReturns \/ Tick \/ StopCancels \/ StopActors

Next == ~Panicked /\ Step

Spec == Init /\ [][Next]_vars

\* Goroutines that can run do, a select takes every branch that stays ready, and
\* time passes. Nobody has to send, stop or release.
Fairness ==
    /\ WF_vars(~Panicked /\ \E a \in Actors : ActorReturns(a))
    /\ WF_vars(~Panicked /\ \E m \in Managed : Restart(m) \/ WaitCancelled(m))
    /\ WF_vars(~Panicked /\ Sweep)
    /\ WF_vars(~Panicked /\ Tick)
    /\ \A s \in Signals : WF_vars(~Panicked /\ Process(s))

FairSpec == Spec /\ Fairness

-----------------------------------------------------------------------------
(* Properties *)

\* Backoff goroutines of several sweeps wait for the same actor. Whatever their
\* order, an actor that runs is the one its managedActor points to: a second
\* restart never leaves an actor behind.
OnlyCurrentRuns == \A a \in Actors : running[a] => \E m \in Managed : current[m] = a

\* A backoff goroutine that was started before the quarantine does not bring
\* the actor back.
QuarantinedStaysDown == \A m \in Managed : quarantined[m] => ~IsRunning(m)

\* An actor is quarantined for MaxRestarts + 1 sweeps, all in one RestartWindow,
\* that found it stopped.
QuarantinedInWindow ==
    \A m \in Managed : quarantined[m] =>
        /\ Len(restarts[m]) = MaxRestarts + 1
        /\ \A i \in DOMAIN restarts[m] : restarts[m][i] <= RestartWindow

\* A signal that an inbox accepted is not left in it when the actor is stopped
\* and replaced: only the cancelled context makes an actor abandon its inbox.
NothingStranded ==
    \A a \in Actors : loop[a] = "ended" /\ ~Cancelled => Mailbox(a) = {}

\* A stopped actor is replaced, quarantined or released.
StoppedIsSupervised == \A m \in Managed :
    []<>(\/ IsRunning(m) \/ quarantined[m] \/ Cancelled \/ Panicked
         \/ \A t \in Tenants : actors[t] # m)

\* After Stop no goroutine of an actor goes on, not even one that was started
\* after it, or that ReleaseQuarantine made the supervisor forget.
StopEndsActors == []<>(Cancelled => Panicked \/ \A a \in Actors : loop[a] # "run")

\* What the proofs of OnlyCurrentRuns and QuarantinedStaysDown rest on: numbers
\* that were not given out yet are not in use.
Mapped == actors \in [Tenants -> 0..MaxManaged] /\ \A t \in Tenants : actors[t] <= made.m
Numbered ==
    /\ made \in [m : 0..MaxManaged, a : 0..MaxActors]
    /\ Mapped /\ current \in [Managed -> 0..MaxActors]
    /\ running \in [Actors -> BOOLEAN] /\ quarantined \in [Managed -> BOOLEAN]
    /\ \A m \in Managed : current[m] <= made.a /\ (current[m] = None <=> m > made.m)
    /\ \A m \in Managed : m > made.m => ~quarantined[m]
    /\ \A a \in Actors : running[a] => a <= made.a

\* Backoff goroutines wait only for managedActors that were made.
WaitsMade == /\ waits \in [Managed -> [Delays -> Nat]]
             /\ \A m \in Managed, d \in Delays : waits[m][d] > 0 => m <= made.m

\* The inductive invariant of those two.
SupervisorInv == Numbered /\ WaitsMade /\ OnlyCurrentRuns /\ QuarantinedStaysDown

\* Behind QuarantinedInWindow: a history is in order, oldest first, so that a
\* timestamp within the window has none before the cutoff behind it; and it has
\* room for one more until the actor is quarantined.
Ordered(ages) == \A i, j \in DOMAIN ages : i <= j => ages[j] <= ages[i]
Histories ==
    /\ restarts \in [Managed -> Seq(0..RestartWindow + 1)]
    /\ \A m \in Managed : Ordered(restarts[m])
    /\ \A m \in Managed : ~quarantined[m] => Len(restarts[m]) <= MaxRestarts
HistoryInv == Histories /\ QuarantinedInWindow

\* Behind NothingStranded: a goroutine that returned has left a closed inbox.
SignalsPlaced ==
    /\ pc \in [Signals -> {"new", "found", "queued", "processed", "dropped", "spilled", "panicked"}]
    /\ at \in [Signals -> 0..MaxManaged \cup 0..MaxActors]
    /\ stopping \in {"no", "cancelled", "stopped"} /\ crashes \in Nat
EndedIsClosed == \A a \in Actors : loop[a] = "ended" /\ ~Cancelled => ~running[a]
LoopsTyped == loop \in [Actors -> {"none", "run", "ended"}]
InboxInv == SignalsPlaced /\ LoopsTyped /\ EndedIsClosed /\ NothingStranded

\* Also behind NothingStranded: a router holds a managedActor that was made.
RoutedToMade == \A s \in Signals : pc[s] = "found" => at[s] \in Managed /\ at[s] <= made.m

\* "all subsequent routes for that tenant are dropped (counted in `TotalDropped`
\* for alerting)": whichever way a signal reaches the supervisor, if its tenant
\* is quarantined when it is looked up, it is dropped.
QuarantinedMailDropped ==
    [][\A s \in Signals :
         LET m == actors[TenantOf[s]] IN
         pc[s] = "new" /\ pc'[s] # "new" /\ m # None /\ quarantined[m]
           => pc'[s] = "dropped"]_vars

\* "if more than MaxRestarts happen within RestartWindow, the actor is promoted
\* to PERMANENT": quarantine takes more than MaxRestarts crashes.
QuarantineTakesCrashes ==
    \A m \in Managed : quarantined[m] /\ ~Cancelled => crashes > MaxRestarts
=============================================================================
