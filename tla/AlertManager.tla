---------------------------- MODULE AlertManager ----------------------------
(***************************************************************************)
(* The alert-manager service of src/services/alert-manager/cmd, with the   *)
(* notifier's Dispatcher and the stream hub.  Every request is a handler   *)
(* of its own; a new firing alert is notified by a goroutine the handler   *)
(* starts and nobody waits for, so a crash (or the end of main, which      *)
(* waits for handlers only) loses it.  Requests carry the number under     *)
(* which they arrived.  Requests that are refused for their form change    *)
(* nothing and are left out; the audit records of silences and SLOs go to  *)
(* the exporter of module AuditExport and are not followed here.           *)
(***************************************************************************)
EXTENDS AlertStore

CONSTANTS
    EventAlerts,  \* the alerts that POST /v1/events is about
    SloAlerts,    \* the alerts that a burning SLO raises, one per severity
    NoAlert,      \* the alert of a request that is about none
    Notifiers,    \* the configured notifiers
    Clients,      \* subscribers of /v1/alerts/stream
    BufCap,       \* sseHub.bufCap
    MaxRequests,  \* bound on the requests that arrive
    MaxCrashes    \* bound on the crashes

ASSUME ManagerAssumption ==
    /\ EventAlerts \subseteq Alerts /\ SloAlerts \subseteq Alerts
    /\ NoAlert \notin Alerts
    /\ IsFiniteSet(Notifiers)
    /\ BufCap \in Nat \ {0} /\ MaxRequests \in Nat /\ MaxCrashes \in Nat

Requests == 1 .. MaxRequests

VARIABLES
    req,       \* the handlers: where each is and what it has read
    job,       \* the dispatch goroutines, under the number of their request
    received,  \* what reached each notifier: firing notifications per alert
    subs,      \* sseHub.subs: the registered clients
    chan,      \* each client's channel: is it open, and how full
    panicked,  \* a send on a closed channel
    crashes

vars == <<storeVars, req, job, received, subs, chan, panicked, crashes>>
hubVars == <<subs, chan, panicked>>
dispatchVars == <<job, received>>

\* A request: its place in the handler, what it is about, the state its SELECT
\* returned, and (history variables) how long the alert's history was then and
\* where its own "created" stands in it.
Request(pc, kind, a, silenced) ==
    [pc |-> pc, kind |-> kind, alert |-> a, silenced |-> silenced,
     seen |-> "none", readAt |-> 0, wroteAt |-> 0]

NoReq == Request("idle", "none", NoAlert, FALSE)

\* A dispatch goroutine.
Dispatch(pc, kind, a) == [pc |-> pc, kind |-> kind, alert |-> a]

NoJob == Dispatch("none", "none", NoAlert)
NoChan == [state |-> "closed", len |-> 0]

Init ==
    /\ StoreInit
    /\ req = [r \in Requests |-> NoReq]
    /\ job = [r \in Requests |-> NoJob]
    /\ received = [n \in Notifiers |-> [a \in Alerts |-> 0]]
    /\ subs = {} /\ chan = [c \in Clients |-> NoChan]
    /\ panicked = FALSE /\ crashes = 0

----------------------------------------------------------------------------
(* The stream hub *)

\* The hub holds its read lock through the loop: no client comes or goes.  A
\* full buffer drops the event.
Publish ==
    /\ chan' = [c \in Clients |->
                  IF c \in subs /\ chan[c].state = "open" /\ chan[c].len < BufCap
                  THEN [chan[c] EXCEPT !.len = @ + 1] ELSE chan[c]]
    /\ panicked' = (panicked \/ \E c \in subs : chan[c].state = "closed")
    /\ UNCHANGED subs

Subscribe(c) ==
    /\ chan[c].state = "closed" /\ c \notin subs
    /\ chan' = [chan EXCEPT ![c].state = "open"]
    /\ subs' = subs \union {c}
    /\ UNCHANGED <<storeVars, req, dispatchVars, panicked, crashes>>

\* The stream loop takes an event and writes it.
StreamEvent(c) ==
    /\ c \in subs /\ chan[c].len > 0
    /\ chan' = [chan EXCEPT ![c].len = @ - 1]
    /\ UNCHANGED <<storeVars, req, dispatchVars, subs, panicked, crashes>>

\* The client went away, or a write to it failed: the deferred unsubscribe
\* takes it out of the hub under the lock, and then closes its channel.
UnsubscribeDelete(c) ==
    /\ c \in subs
    /\ subs' = subs \ {c}
    /\ UNCHANGED <<storeVars, req, dispatchVars, chan, panicked, crashes>>

\* A mutant of UnsubscribeClose: the channel is closed before it is taken out.
CloseFirst(c) ==
    /\ c \in subs /\ chan[c].state = "open"
    /\ chan' = [chan EXCEPT ![c].state = "closed"]
    /\ UNCHANGED <<storeVars, req, dispatchVars, subs, panicked, crashes>>

UnsubscribeClose(c) ==
    /\ c \notin subs /\ chan[c].state = "open"
    /\ chan' = [chan EXCEPT ![c] = NoChan]
    /\ UNCHANGED <<storeVars, req, dispatchVars, subs, panicked, crashes>>

----------------------------------------------------------------------------
(* The handlers *)

Goto(r, where) == req' = [req EXCEPT ![r].pc = where]

Arrive(r, first) ==
    /\ req[r].pc = "idle" /\ \A q \in 1 .. r - 1 : req[q].pc # "idle"
    /\ req' = [req EXCEPT ![r] = first]

\* POST /v1/events of an alert that fires: the silences are looked up first,
\* and a failed lookup counts as not silenced.
EventFiring(r, a) ==
    /\ \E s \in {IsSilenced(a), FALSE} : Arrive(r, Request("select", "firing", a, s))
    /\ UNCHANGED <<storeVars, dispatchVars, hubVars, crashes>>

\* POST /v1/events with resolved: the handler starts with Resolve, which may
\* fail or whose answer may get lost.
EventResolved(r, a) ==
    /\ \E pc \in {"notify", "failed"} : Arrive(r, Request(pc, "resolved", a, FALSE))
    /\ Resolve(a) \/ (req'[r].pc = "failed" /\ UNCHANGED storeVars)
    /\ UNCHANGED <<dispatchVars, hubVars, crashes>>

\* POST /v1/observations, when Evaluate (module SloBurn) finds the SLO burning:
\* its alert is raised without a look at the silences.
Observation(r, a) ==
    /\ Arrive(r, Request("select", "firing", a, FALSE))
    /\ UNCHANGED <<storeVars, dispatchVars, hubVars, crashes>>

\* UpsertFiring: SELECT state.
UpsertSelect(r) ==
    /\ req[r].pc = "select"
    /\ req' = [req EXCEPT ![r].pc = "write",
                          ![r].seen = alerts[req[r].alert].state,
                          ![r].readAt = Len(history[req[r].alert])]
    /\ UNCHANGED <<storeVars, dispatchVars, hubVars, crashes>>

\* A mutant of AfterUpsert: an alert that fires again is not notified.
AfterInsertOnly(q) == IF q.seen = "none" /\ ~q.silenced THEN "notify" ELSE "done"

\* Where the handler goes when UpsertFiring has returned without an error.
AfterUpsert(q) == IF NewTransition(q.seen) /\ ~q.silenced THEN "notify" ELSE "done"

\* UpsertFiring: the writes and the commit; it may fail, or its answer get lost.
UpsertCommit(r) ==
    LET q == req[r]
        wroteAt == IF NewTransition(q.seen) THEN Len(history[q.alert]) + 1 ELSE 0
    IN  /\ q.pc = "write"
        /\ \/ /\ UpsertWrite(q.alert, q.seen)
              /\ \E pc \in {AfterUpsert(q), "failed"} :
                   req' = [req EXCEPT ![r].pc = pc, ![r].wroteAt = wroteAt]
           \/ Goto(r, "failed") /\ UNCHANGED storeVars
        /\ UNCHANGED <<dispatchVars, hubVars, crashes>>

\* The handler starts the goroutine, publishes to the hub and answers 202.
Notify(r) ==
    /\ req[r].pc = "notify"
    /\ job' = [job EXCEPT ![r] = Dispatch("sending", req[r].kind, req[r].alert)]
    /\ Publish
    /\ Goto(r, "done")
    /\ UNCHANGED <<storeVars, received, crashes>>

\* POST /v1/silences, which may fail.
SilenceRequest(r, m) ==
    /\ Arrive(r, Request("done", "none", NoAlert, FALSE))
    /\ CreateSilence(m) \/ UNCHANGED storeVars
    /\ UNCHANGED <<dispatchVars, hubVars, crashes>>

----------------------------------------------------------------------------
(* The dispatch goroutines *)

\* Dispatch calls every notifier in a goroutine of its own and waits for all:
\* some sends fail, and of those some were delivered all the same (the answer
\* came after the timeout).  Any error, or a resolved notification: nothing is
\* recorded.
\* A mutant of Recorded: one notifier that took it is enough.
RecordedIfAny(errs, kind) == errs # Notifiers /\ kind = "firing"

Recorded(errs, kind) == errs = {} /\ kind = "firing"

DispatchAll(r) ==
    /\ job[r].pc = "sending"
    /\ \E errs \in SUBSET Notifiers : \E late \in SUBSET errs :
         /\ job' = [job EXCEPT ![r].pc =
                      IF Recorded(errs, job[r].kind) THEN "count" ELSE "end"]
         /\ received' = [n \in Notifiers |->
              IF n \in errs \ late \/ job[r].kind = "resolved" THEN received[n]
              ELSE [received[n] EXCEPT ![job[r].alert] = @ + 1]]
    /\ UNCHANGED <<storeVars, req, hubVars, crashes>>

\* MarkNotified; each statement may fail.
MarkCount(r) ==
    /\ job[r].pc = "count"
    /\ \/ MarkNotifiedCount(job[r].alert) /\ job' = [job EXCEPT ![r].pc = "log"]
       \/ UNCHANGED storeVars /\ job' = [job EXCEPT ![r].pc = "end"]
    /\ UNCHANGED <<req, received, hubVars, crashes>>

MarkLog(r) ==
    /\ job[r].pc = "log"
    /\ job' = [job EXCEPT ![r].pc = "end"]
    /\ MarkNotifiedLog(job[r].alert) \/ UNCHANGED storeVars
    /\ UNCHANGED <<req, received, hubVars, crashes>>

----------------------------------------------------------------------------

\* The process dies; the tables stay, and nothing resumes a notification.
Crash ==
    /\ crashes < MaxCrashes
    /\ crashes' = crashes + 1
    /\ req' = [r \in Requests |->
                 IF req[r].pc \in {"idle", "done", "failed"} THEN req[r]
                 ELSE [req[r] EXCEPT !.pc = "failed"]]
    /\ job' = [r \in Requests |-> IF job[r].pc = "none" THEN NoJob
                                  ELSE [job[r] EXCEPT !.pc = "end"]]
    /\ subs' = {} /\ chan' = [c \in Clients |-> NoChan]
    /\ UNCHANGED <<storeVars, received, panicked>>

Handler(r) ==
    \/ UpsertSelect(r) \/ UpsertCommit(r) \/ Notify(r)

Dispatcher(r) == DispatchAll(r) \/ MarkCount(r) \/ MarkLog(r)

Next ==
    \/ \E r \in Requests :
         \/ \E a \in EventAlerts : EventFiring(r, a) \/ EventResolved(r, a)
         \/ \E a \in SloAlerts : Observation(r, a)
         \/ \E m \in Matchers : SilenceRequest(r, m)
         \/ Handler(r) \/ Dispatcher(r)
    \/ \E c \in Clients : Subscribe(c) \/ StreamEvent(c) \/ UnsubscribeDelete(c)
                          \/ UnsubscribeClose(c)
    \/ \E m \in Matchers :
         ExpireSilence(m) /\ UNCHANGED <<req, dispatchVars, hubVars, crashes>>
    \/ Crash

Spec == Init /\ [][Next]_vars

----------------------------------------------------------------------------
(* Properties *)

\* The entries of an alert's history that change its state, and the last of them
\* before entry n.
Transitions(a) == {i \in DOMAIN history[a] : history[a][i] \in {"created", "resolved"}}

LastBefore(a, n, event) ==
    \E i \in Transitions(a) :
        /\ i < n /\ history[a][i] = event
        /\ \A j \in Transitions(a) : j < n => j <= i

Notified(a) == {i \in DOMAIN history[a] : history[a][i] = "notified"}

\* The last transition is the state of the row, and an alert is resolved only
\* after it was created.
Replays(a) ==
    /\ \/ alerts[a].state = "none" /\ Transitions(a) = {}
       \/ alerts[a].state = "firing" /\ LastBefore(a, Len(history[a]) + 1, "created")
       \/ alerts[a].state = "resolved" /\ LastBefore(a, Len(history[a]) + 1, "resolved")
    /\ \A i \in Transitions(a) : history[a][i] = "resolved" => LastBefore(a, i, "created")

(***************************************************************************)
(* The append-only history tells the truth about the table, whatever the   *)
(* order of the transactions: the last transition in it is the state of    *)
(* the row, an alert is resolved only once per firing, and it records no   *)
(* more notifications than notify_count does (UpsertFiring, Resolve and    *)
(* MarkNotified write both tables).                                        *)
(***************************************************************************)
HistoryReplays ==
    \A a \in Alerts :
        Replays(a) /\ Cardinality(Notified(a)) <= alerts[a].notifyCount

Created(a) == {r \in Requests : req[r].alert = a /\ req[r].wroteAt > 0}

(***************************************************************************)
(* The table deduplicates every firing but a racing one: when two requests *)
(* both start a firing of an alert that nobody resolved in between, the    *)
(* second had read the row before the first committed (the SELECT of       *)
(* UpsertFiring takes no lock).                                            *)
(***************************************************************************)
DuplicateNeedsRace ==
    \A a \in Alerts : \A p, q \in Created(a) :
        /\ req[p].wroteAt < req[q].wroteAt
        /\ \A i \in req[p].wroteAt .. req[q].wroteAt : history[a][i] # "resolved"
        => req[q].readAt < req[p].wroteAt

(***************************************************************************)
(* An alert that fires is known to a goroutine, or there is a reason why   *)
(* nobody is told: it was silenced when it started, the handler that       *)
(* recorded it failed or died, or that handler is just about to start the  *)
(* goroutine.  Later events on the alert do not make up for it.            *)
(***************************************************************************)
FiringIsAccounted ==
    \A a \in Alerts : alerts[a].state = "firing" =>
        \E r \in Created(a) :
            /\ \A i \in DOMAIN history[a] : history[a][i] = "created" => i <= req[r].wroteAt
            /\ \/ req[r].silenced
               \/ req[r].pc \in {"notify", "failed"}
               \/ job[r].alert = a

(***************************************************************************)
(* notify_count never overstates what people were told: each notifier has  *)
(* received at least that many firing notifications of the alert           *)
(* (dispatchFiring marks only after every Send succeeded).                 *)
(***************************************************************************)
CountedWasDelivered ==
    \A a \in Alerts, n \in Notifiers : alerts[a].notifyCount <= received[n][a]

(***************************************************************************)
(* No event is sent to a stream that has been closed: unsubscribe takes    *)
(* the client out of the hub before it closes the channel, and Publish     *)
(* holds the lock (a send on a closed channel would panic under that lock, *)
(* and cost the request that publishes its answer).                        *)
(***************************************************************************)
NoSendOnClosed == ~panicked

----------------------------------------------------------------------------
(* The inductive invariants behind them; AlertManagerProofs uses them *)

\* A client is in the hub only while its channel is open.
HubInv ==
    /\ subs \subseteq Clients
    /\ DOMAIN chan = Clients
    /\ \A c \in Clients : DOMAIN chan[c] = {"state", "len"}
    /\ \A c \in subs : chan[c].state = "open"
    /\ NoSendOnClosed

\* Handlers and goroutines that still have something to do know their alert.
RequestTypes ==
    /\ DOMAIN req = Requests
    /\ \A r \in Requests :
         /\ DOMAIN req[r] = DOMAIN NoReq
         /\ req[r].pc \in {"select", "write", "notify"} => req[r].alert \in Alerts

JobTypes ==
    /\ DOMAIN job = Requests
    /\ \A r \in Requests :
         /\ DOMAIN job[r] = DOMAIN NoJob
         /\ job[r].pc \in {"sending", "count", "log"} => job[r].alert \in Alerts

DispatchTypes ==
    /\ DOMAIN alerts = Alerts
    /\ \A a \in Alerts : DOMAIN alerts[a] = {"state", "notifyCount"} /\ alerts[a].notifyCount \in Nat
    /\ received \in [Notifiers -> [Alerts -> Nat]]
    /\ RequestTypes /\ JobTypes

\* The goroutines that every notifier has answered and that will count it.
Uncounted(a) == {r \in Requests : job[r].pc = "count" /\ job[r].alert = a}

CountInv ==
    /\ DispatchTypes
    /\ \A a \in Alerts, n \in Notifiers :
         alerts[a].notifyCount + Cardinality(Uncounted(a)) <= received[n][a]

\* What the tables and the history variables of the handlers may hold.  A
\* handler that has not committed has written nothing, and only a started
\* goroutine has an alert.
Events == {"created", "updated", "resolved", "notified"}

HandlerTypes ==
    \A r \in Requests :
        /\ req[r].readAt \in Nat /\ req[r].wroteAt \in Nat
        /\ req[r].pc \in {"idle", "select", "write"} => req[r].wroteAt = 0
        /\ req[r].wroteAt > 0 => req[r].alert \in Alerts
        /\ job[r].pc = "none" => job[r].alert = NoAlert

HistoryTypes == DispatchTypes /\ HandlerTypes /\ history \in [Alerts -> Seq(Events)]

\* The goroutines that have counted their notification and not yet logged it.
Unlogged(a) == {r \in Requests : job[r].pc = "log" /\ job[r].alert = a}

LogInv ==
    \A a \in Alerts :
        /\ Replays(a)
        /\ Cardinality(Notified(a)) + Cardinality(Unlogged(a)) <= alerts[a].notifyCount

\* Every firing among the first n entries was resolved among them.
Settled(a, n) ==
    \A i \in 1 .. n : history[a][i] = "created" =>
        \E j \in i + 1 .. n : history[a][j] = "resolved"

\* A handler that will start a firing, or has, read a settled history; and its
\* own entry comes after what it had read.
ReadSettled(r) ==
    LET q == req[r]
    IN  /\ (q.pc = "write" /\ q.seen # "firing") \/ q.wroteAt > 0
           => q.readAt <= Len(history[q.alert]) /\ Settled(q.alert, q.readAt)
        /\ q.wroteAt > 0 =>
             /\ q.wroteAt \in DOMAIN history[q.alert] /\ history[q.alert][q.wroteAt] = "created"
             /\ q.readAt < q.wroteAt

RaceInv ==
    /\ \A a \in Alerts : alerts[a].state # "firing" => Settled(a, Len(history[a]))
    /\ \A r \in Requests : ReadSettled(r)

ManagerInv == HistoryTypes /\ LogInv /\ RaceInv /\ FiringIsAccounted
=============================================================================
