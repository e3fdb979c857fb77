------------------------- MODULE AlertManagerProofs -------------------------
(***************************************************************************)
(* Theorems about the alert-manager, for any number of alerts, requests,   *)
(* notifiers, subscribers and crashes: a stream is never written to after  *)
(* it was closed, notify_count never overstates what was delivered, the    *)
(* history tells the truth about the table, only a race duplicates a       *)
(* firing, and a firing that nobody is told of has a known reason.         *)
(***************************************************************************)
EXTENDS AlertManager, FiniteSetTheorems, TLAPS

(* The stream hub *)

\* Publish sends to registered clients only, and their channels are open.
LEMMA PublishInv ==
  ASSUME HubInv, Publish
  PROVE  HubInv'
  <1>1. subs' = subs /\ panicked' = FALSE
    BY DEF HubInv, Publish, NoSendOnClosed
  <1>2. DOMAIN chan' = Clients
    BY DEF Publish
  <1>3. ASSUME NEW c \in Clients
        PROVE  DOMAIN chan'[c] = {"state", "len"} /\ chan'[c].state = chan[c].state
    <2>1. chan'[c] = chan[c] \/ chan'[c] = [chan[c] EXCEPT !.len = @ + 1]
      BY DEF Publish
    <2> QED BY <2>1 DEF HubInv
  <1> QED BY <1>1, <1>2, <1>3 DEF HubInv, NoSendOnClosed

LEMMA HubStep ==
  ASSUME HubInv, [Next]_vars
  PROVE  HubInv'
  <1>1. CASE UNCHANGED hubVars
    BY <1>1 DEF HubInv, hubVars, NoSendOnClosed
  <1>2. ASSUME NEW r \in Requests, Notify(r)
        PROVE  HubInv'
    BY <1>2, PublishInv DEF Notify
  <1>3. ASSUME NEW c \in Clients,
               Subscribe(c) \/ StreamEvent(c) \/ UnsubscribeDelete(c) \/ UnsubscribeClose(c)
        PROVE  HubInv'
    <2>1. CASE Subscribe(c)
      BY <2>1 DEF Subscribe, HubInv, NoSendOnClosed
    <2>2. CASE StreamEvent(c)
      BY <2>2 DEF StreamEvent, HubInv, NoSendOnClosed
    <2>3. CASE UnsubscribeDelete(c)
      BY <2>3 DEF UnsubscribeDelete, HubInv, NoSendOnClosed
    <2>4. CASE UnsubscribeClose(c)
      BY <2>4 DEF UnsubscribeClose, HubInv, NoSendOnClosed, NoChan
    <2> QED BY <1>3, <2>1, <2>2, <2>3, <2>4
  <1>4. CASE Crash
    BY <1>4 DEF Crash, HubInv, NoSendOnClosed, NoChan
  <1>5. CASE UNCHANGED vars
    BY <1>1, <1>5 DEF vars, hubVars
  <1> QED
    BY <1>1, <1>2, <1>3, <1>4, <1>5
    DEF Next, Handler, Dispatcher, EventFiring, EventResolved, Observation, UpsertSelect,
        UpsertCommit, SilenceRequest, DispatchAll, MarkCount, MarkLog

\* No order of subscriptions, departures, events and crashes sends an event on
\* a closed channel (unsubscribe deletes under the lock before it closes).
THEOREM StreamsStayOpen == Spec => []NoSendOnClosed
  <1>1. Init => HubInv
    BY DEF Init, HubInv, NoSendOnClosed, NoChan
  <1>2. HubInv /\ [Next]_vars => HubInv'
    BY HubStep
  <1>3. HubInv => NoSendOnClosed
    BY DEF HubInv
  <1> QED BY <1>1, <1>2, <1>3, PTL DEF Spec

-----------------------------------------------------------------------------
(* The count of notifications *)

LEMMA RequestsFinite == IsFiniteSet(Requests)
  BY FS_Interval, ManagerAssumption DEF Requests

\* Removing goroutines from those that will count removes nothing else.
LEMMA UncountedShrinks ==
  ASSUME NEW a, Uncounted(a)' \subseteq Uncounted(a)
  PROVE  /\ Cardinality(Uncounted(a)) \in Nat
         /\ Cardinality(Uncounted(a)') \in Nat
         /\ Cardinality(Uncounted(a)') <= Cardinality(Uncounted(a))
  <1>1. IsFiniteSet(Uncounted(a))
    BY RequestsFinite, FS_Subset DEF Uncounted
  <1> QED BY <1>1, FS_Subset, FS_CardinalityType

\* A step that gives no goroutine something to count keeps the bound.
LEMMA CountKept ==
  ASSUME CountInv, DispatchTypes',
         \A a \in Alerts : alerts'[a].notifyCount = alerts[a].notifyCount,
         \A a \in Alerts, n \in Notifiers : received[n][a] <= received'[n][a],
         \A a \in Alerts : Uncounted(a)' \subseteq Uncounted(a)
  PROVE  CountInv'
  <1>1. ASSUME NEW a \in Alerts, NEW n \in Notifiers
        PROVE  (alerts[a].notifyCount + Cardinality(Uncounted(a)) <= received[n][a])'
    <2>1. /\ Cardinality(Uncounted(a)) \in Nat /\ Cardinality(Uncounted(a)') \in Nat
          /\ Cardinality(Uncounted(a)') <= Cardinality(Uncounted(a))
      BY UncountedShrinks
    <2>2. alerts[a].notifyCount + Cardinality(Uncounted(a)) <= received[n][a]
      BY DEF CountInv
    <2>3. /\ alerts[a].notifyCount \in Nat /\ received[n][a] \in Nat /\ received'[n][a] \in Nat
          /\ received[n][a] <= received'[n][a] /\ alerts'[a].notifyCount = alerts[a].notifyCount
      BY DEF CountInv, DispatchTypes
    <2>4. Cardinality(Uncounted(a))' = Cardinality(Uncounted(a)')
      OBVIOUS
    <2> QED BY <2>1, <2>2, <2>3, <2>4
  <1> QED BY <1>1 DEF CountInv

\* The step leaves every count in the table alone.
CountsKept ==
    /\ DOMAIN alerts' = Alerts
    /\ \A a \in Alerts : /\ DOMAIN alerts'[a] = {"state", "notifyCount"}
                         /\ alerts'[a].notifyCount = alerts[a].notifyCount

\* Writing the state of an alert does.
LEMMA StateWrite ==
  ASSUME DispatchTypes, NEW b, NEW s, SetState(b, s) \/ UNCHANGED alerts
  PROVE  CountsKept
  BY DEF DispatchTypes, SetState, CountsKept

LEMMA ResolveKeepsCounts ==
  ASSUME DispatchTypes, NEW b, Resolve(b)
  PROVE  CountsKept
  <1>1. SetState(b, "resolved") \/ UNCHANGED alerts
    BY DEF Resolve
  <1> QED BY <1>1, StateWrite

LEMMA UpsertKeepsCounts ==
  ASSUME DispatchTypes, NEW b, NEW seen, UpsertWrite(b, seen)
  PROVE  CountsKept
  <1>1. SetState(b, "firing") \/ UNCHANGED alerts
    BY DEF UpsertWrite
  <1> QED BY <1>1, StateWrite

\* A step of a handler other than Notify concerns req and the tables only.
LEMMA HandlerKeepsCounts ==
  ASSUME CountInv, UNCHANGED dispatchVars, CountsKept, RequestTypes'
  PROVE  CountInv'
  <1>1. DispatchTypes'
    BY DEF CountInv, DispatchTypes, JobTypes, dispatchVars, CountsKept
  <1>2. \A a \in Alerts : Uncounted(a)' \subseteq Uncounted(a)
    BY DEF dispatchVars, Uncounted
  <1>3. \A a \in Alerts, n \in Notifiers : received[n][a] <= received'[n][a]
    BY DEF CountInv, DispatchTypes, dispatchVars
  <1> QED BY <1>1, <1>2, <1>3, CountKept DEF CountsKept

\* A request that arrives, with the record it starts from.
LEMMA ArriveTypes ==
  ASSUME DispatchTypes, NEW r \in Requests, NEW pc, NEW kind, NEW a, NEW s,
         Arrive(r, Request(pc, kind, a, s)),
         pc \in {"select", "write", "notify"} => a \in Alerts
  PROVE  RequestTypes'
  BY DEF DispatchTypes, RequestTypes, Arrive, Request, NoReq

\* A handler that goes on, or ends.
LEMMA GotoTypes ==
  ASSUME DispatchTypes, NEW r \in Requests, NEW where, Goto(r, where),
         where \in {"done", "failed"}
  PROVE  RequestTypes'
  BY DEF DispatchTypes, RequestTypes, Goto

\* The handlers' steps before Notify.
LEMMA HandlerSteps ==
  ASSUME CountInv, NEW r \in Requests,
         \/ \E a \in EventAlerts : EventFiring(r, a) \/ EventResolved(r, a)
         \/ \E a \in SloAlerts : Observation(r, a)
         \/ \E m \in Matchers : SilenceRequest(r, m)
         \/ UpsertSelect(r) \/ UpsertCommit(r)
  PROVE  CountInv'
  <1>0. DispatchTypes /\ EventAlerts \subseteq Alerts /\ SloAlerts \subseteq Alerts
    BY ManagerAssumption DEF CountInv
  <1>1. UNCHANGED alerts => CountsKept
    BY <1>0 DEF DispatchTypes, CountsKept
  <1>2. ASSUME NEW a \in EventAlerts, EventFiring(r, a)
        PROVE  CountInv'
    <2>1. UNCHANGED dispatchVars /\ UNCHANGED alerts
      BY <1>2 DEF EventFiring, storeVars
    <2>2. PICK s \in {IsSilenced(a), FALSE} : Arrive(r, Request("select", "firing", a, s))
      BY <1>2 DEF EventFiring
    <2>3. RequestTypes'
      BY <1>0, <2>2, ArriveTypes
    <2> QED BY <1>1, <2>1, <2>3, HandlerKeepsCounts
  <1>3. ASSUME NEW a \in EventAlerts, EventResolved(r, a)
        PROVE  CountInv'
    <2>1. UNCHANGED dispatchVars
      BY <1>3 DEF EventResolved
    <2>2. CountsKept
      BY <1>0, <1>1, <1>3, ResolveKeepsCounts DEF EventResolved, storeVars
    <2>3. PICK pc \in {"notify", "failed"} : Arrive(r, Request(pc, "resolved", a, FALSE))
      BY <1>3 DEF EventResolved
    <2>4. RequestTypes'
      BY <1>0, <2>3, ArriveTypes
    <2> QED BY <2>1, <2>2, <2>4, HandlerKeepsCounts
  <1>4. ASSUME NEW a \in SloAlerts, Observation(r, a)
        PROVE  CountInv'
    <2>1. /\ UNCHANGED dispatchVars /\ UNCHANGED alerts
          /\ Arrive(r, Request("select", "firing", a, FALSE))
      BY <1>4 DEF Observation, storeVars
    <2>2. RequestTypes'
      BY <1>0, <2>1, ArriveTypes
    <2> QED BY <1>1, <2>1, <2>2, HandlerKeepsCounts
  <1>5. ASSUME NEW m \in Matchers, SilenceRequest(r, m)
        PROVE  CountInv'
    <2>1. /\ UNCHANGED dispatchVars /\ UNCHANGED alerts
          /\ Arrive(r, Request("done", "none", NoAlert, FALSE))
      BY <1>5 DEF SilenceRequest, CreateSilence, storeVars
    <2>2. RequestTypes'
      BY <1>0, <2>1, ArriveTypes
    <2> QED BY <1>1, <2>1, <2>2, HandlerKeepsCounts
  <1>6. CASE UpsertSelect(r)
    <2>1. UNCHANGED dispatchVars /\ UNCHANGED alerts
      BY <1>6 DEF UpsertSelect, storeVars
    <2>2. RequestTypes'
      BY <1>0, <1>6 DEF DispatchTypes, RequestTypes, UpsertSelect
    <2> QED BY <1>1, <2>1, <2>2, HandlerKeepsCounts
  <1>7. CASE UpsertCommit(r)
    <2>1. UNCHANGED dispatchVars
      BY <1>7 DEF UpsertCommit
    <2>2. CountsKept
      BY <1>0, <1>1, <1>7, UpsertKeepsCounts DEF UpsertCommit, storeVars
    <2>3. ASSUME NEW q \in Requests
          PROVE  /\ DOMAIN req'[q] = DOMAIN NoReq /\ req'[q].alert = req[q].alert
                 /\ q # r => req'[q] = req[q]
      <3>1. DOMAIN req[q] = DOMAIN NoReq /\ DOMAIN req = Requests
        BY <1>0 DEF DispatchTypes, RequestTypes
      <3>2. CASE Goto(r, "failed")
        BY <3>1, <3>2 DEF NoReq, Request, Goto
      <3>3. CASE \E pc, at : req' = [req EXCEPT ![r].pc = pc, ![r].wroteAt = at]
        BY <3>1, <3>3 DEF NoReq, Request
      <3> QED BY <1>7, <3>2, <3>3 DEF UpsertCommit
    <2>4. DOMAIN req' = Requests /\ req[r].alert \in Alerts
      BY <1>0, <1>7 DEF DispatchTypes, RequestTypes, UpsertCommit, Goto
    <2>5. RequestTypes'
      <3>1. ASSUME NEW q \in Requests, req'[q].pc \in {"select", "write", "notify"}
            PROVE  req'[q].alert \in Alerts
        <4>1. q # r => req[q].alert \in Alerts
          BY <1>0, <2>3, <3>1 DEF DispatchTypes, RequestTypes
        <4> QED BY <2>3, <2>4, <4>1
      <3> QED BY <2>3, <2>4, <3>1 DEF RequestTypes
    <2> QED BY <2>1, <2>2, <2>5, HandlerKeepsCounts
  <1> QED BY <1>2, <1>3, <1>4, <1>5, <1>6, <1>7

\* The handler starts its goroutine, which has nothing to count yet.
LEMMA NotifyKeepsCounts ==
  ASSUME CountInv, NEW r \in Requests, Notify(r)
  PROVE  CountInv'
  <1>0. DispatchTypes
    BY DEF CountInv
  <1>1. /\ UNCHANGED <<alerts, received>> /\ req[r].alert \in Alerts
        /\ job' = [job EXCEPT ![r] = Dispatch("sending", req[r].kind, req[r].alert)]
        /\ Goto(r, "done")
    BY <1>0 DEF Notify, storeVars, DispatchTypes, RequestTypes
  <1>2. RequestTypes'
    BY <1>0, <1>1, GotoTypes
  <1>3. JobTypes'
    BY <1>0, <1>1 DEF DispatchTypes, JobTypes, Dispatch, NoJob
  <1>4. DispatchTypes'
    BY <1>0, <1>1, <1>2, <1>3 DEF DispatchTypes
  <1>5. \A a \in Alerts : Uncounted(a)' \subseteq Uncounted(a)
    BY <1>0, <1>1 DEF Uncounted, DispatchTypes, JobTypes, Dispatch
  <1>6. \A a \in Alerts, n \in Notifiers : received[n][a] <= received'[n][a]
    BY <1>0, <1>1 DEF DispatchTypes
  <1> QED BY <1>1, <1>4, <1>5, <1>6, CountKept

\* A goroutine moves on without anything to count.
LEMMA JobEnds ==
  ASSUME CountInv, NEW r \in Requests, NEW pc, pc \in {"end", "log"},
         job[r].alert \in Alerts, job' = [job EXCEPT ![r].pc = pc]
  PROVE  JobTypes' /\ \A a \in Alerts : Uncounted(a)' \subseteq Uncounted(a)
  BY DEF CountInv, DispatchTypes, JobTypes, NoJob, Dispatch, Uncounted

\* Every notifier has the notification before the goroutine may count it.
LEMMA DispatchKeepsCounts ==
  ASSUME CountInv, NEW r \in Requests, DispatchAll(r)
  PROVE  CountInv'
  <1> DEFINE b == job[r].alert
  <1>0. DispatchTypes
    BY DEF CountInv
  <1>1. PICK errs \in SUBSET Notifiers : \E late \in SUBSET errs :
          /\ job' = [job EXCEPT ![r].pc = IF Recorded(errs, job[r].kind) THEN "count" ELSE "end"]
          /\ received' = [n \in Notifiers |->
               IF n \in errs \ late \/ job[r].kind = "resolved" THEN received[n]
               ELSE [received[n] EXCEPT ![job[r].alert] = @ + 1]]
    BY DEF DispatchAll
  <1>2. UNCHANGED <<alerts, req>> /\ b \in Alerts /\ job[r].pc = "sending"
    BY <1>0 DEF DispatchAll, storeVars, DispatchTypes, JobTypes
  <1>3. /\ received' \in [Notifiers -> [Alerts -> Nat]]
        /\ \A a \in Alerts, n \in Notifiers : received[n][a] <= received'[n][a]
    BY <1>0, <1>1, <1>2 DEF DispatchTypes
  <1>4. RequestTypes'
    BY <1>0, <1>2 DEF DispatchTypes, RequestTypes
  <1>5. CASE ~Recorded(errs, job[r].kind)
    <2>1. job' = [job EXCEPT ![r].pc = "end"]
      BY <1>1, <1>5
    <2>2. JobTypes' /\ \A a \in Alerts : Uncounted(a)' \subseteq Uncounted(a)
      BY <1>2, <2>1, JobEnds
    <2>3. DispatchTypes'
      BY <1>0, <1>2, <1>3, <1>4, <2>2 DEF DispatchTypes
    <2> QED BY <1>2, <1>3, <2>2, <2>3, CountKept
  <1>6. CASE Recorded(errs, job[r].kind)
    <2>1. job' = [job EXCEPT ![r].pc = "count"]
      BY <1>1, <1>6
    <2>2. \A n \in Notifiers : received'[n] = [received[n] EXCEPT ![b] = @ + 1]
      BY <1>1, <1>6 DEF Recorded
    <2>3. JobTypes'
      BY <1>0, <1>2, <2>1 DEF DispatchTypes, JobTypes, NoJob, Dispatch
    <2>4. DispatchTypes'
      BY <1>0, <1>2, <1>3, <1>4, <2>3 DEF DispatchTypes
    <2>5. ASSUME NEW a \in Alerts, NEW n \in Notifiers
          PROVE  (alerts[a].notifyCount + Cardinality(Uncounted(a)) <= received[n][a])'
      <3>1. /\ alerts[a].notifyCount \in Nat /\ received[n][a] \in Nat
            /\ alerts[a].notifyCount + Cardinality(Uncounted(a)) <= received[n][a]
            /\ UNCHANGED alerts
        BY <1>0, <1>2 DEF CountInv, DispatchTypes
      <3>2. IsFiniteSet(Uncounted(a)) /\ Cardinality(Uncounted(a)) \in Nat
        BY RequestsFinite, FS_Subset, FS_CardinalityType DEF Uncounted
      <3>3. CASE a = b
        <4>1. Uncounted(a)' = Uncounted(a) \cup {r} /\ r \notin Uncounted(a)
          BY <1>0, <1>2, <2>1, <3>3 DEF Uncounted, DispatchTypes, JobTypes, NoJob, Dispatch
        <4>2. Cardinality(Uncounted(a))' = Cardinality(Uncounted(a)) + 1
          BY <3>2, <4>1, FS_AddElement
        <4>3. received'[n][a] = received[n][a] + 1
          BY <1>0, <2>2, <3>3 DEF DispatchTypes
        <4> QED BY <3>1, <3>2, <4>2, <4>3
      <3>4. CASE a # b
        <4>1. Uncounted(a)' = Uncounted(a)
          BY <1>0, <1>2, <2>1, <3>4 DEF Uncounted, DispatchTypes, JobTypes, NoJob, Dispatch
        <4>2. received'[n][a] = received[n][a]
          BY <1>0, <2>2, <3>4 DEF DispatchTypes
        <4> QED BY <3>1, <3>2, <4>1, <4>2
      <3> QED BY <3>3, <3>4
    <2> QED BY <2>4, <2>5 DEF CountInv
  <1> QED BY <1>5, <1>6

\* MarkNotified raises the count and takes the goroutine from those to come.
LEMMA MarkCountKeepsCounts ==
  ASSUME CountInv, NEW r \in Requests, MarkCount(r)
  PROVE  CountInv'
  <1> DEFINE b == job[r].alert
  <1>0. DispatchTypes
    BY DEF CountInv
  <1>1. UNCHANGED <<req, received>> /\ b \in Alerts /\ job[r].pc = "count"
    BY <1>0 DEF MarkCount, DispatchTypes, JobTypes
  <1>2. PICK pc \in {"log", "end"} : job' = [job EXCEPT ![r].pc = pc]
    BY DEF MarkCount
  <1>3. JobTypes' /\ \A a \in Alerts : Uncounted(a)' \subseteq Uncounted(a)
    BY <1>1, <1>2, JobEnds
  <1>4. RequestTypes'
    BY <1>0, <1>1 DEF DispatchTypes, RequestTypes
  <1>5. CASE UNCHANGED storeVars
    <2>1. UNCHANGED alerts
      BY <1>5 DEF storeVars
    <2>2. DispatchTypes'
      BY <1>0, <1>1, <1>3, <1>4, <2>1 DEF DispatchTypes
    <2>3. \A a \in Alerts, n \in Notifiers : received[n][a] <= received'[n][a]
      BY <1>0, <1>1 DEF DispatchTypes
    <2> QED BY <1>3, <2>1, <2>2, <2>3, CountKept
  <1>6. CASE MarkNotifiedCount(b)
    <2>1. /\ DOMAIN alerts' = Alerts
          /\ \A a \in Alerts : /\ DOMAIN alerts'[a] = {"state", "notifyCount"}
                               /\ alerts'[a].notifyCount = alerts[a].notifyCount
                                                             + (IF a = b THEN 1 ELSE 0)
      BY <1>0, <1>1, <1>6 DEF MarkNotifiedCount, DispatchTypes
    <2>2. DispatchTypes'
      BY <1>0, <1>1, <1>3, <1>4, <2>1 DEF DispatchTypes
    <2>3. ASSUME NEW a \in Alerts, NEW n \in Notifiers
          PROVE  (alerts[a].notifyCount + Cardinality(Uncounted(a)) <= received[n][a])'
      <3>1. /\ alerts[a].notifyCount \in Nat /\ received[n][a] \in Nat
            /\ alerts[a].notifyCount + Cardinality(Uncounted(a)) <= received[n][a]
            /\ received'[n][a] = received[n][a]
        BY <1>0, <1>1 DEF CountInv, DispatchTypes
      <3>2. IsFiniteSet(Uncounted(a)) /\ Cardinality(Uncounted(a)) \in Nat
        BY RequestsFinite, FS_Subset, FS_CardinalityType DEF Uncounted
      <3>3. CASE a = b
        <4>1. Uncounted(a)' = Uncounted(a) \ {r} /\ r \in Uncounted(a)
          BY <1>0, <1>1, <1>2, <3>3 DEF Uncounted, DispatchTypes, JobTypes, NoJob, Dispatch
        <4>2. Cardinality(Uncounted(a))' = Cardinality(Uncounted(a)) - 1
          BY <3>2, <4>1, FS_RemoveElement
        <4> QED BY <2>1, <3>1, <3>2, <3>3, <4>2
      <3>4. CASE a # b
        <4>1. /\ Cardinality(Uncounted(a))' <= Cardinality(Uncounted(a))
              /\ Cardinality(Uncounted(a))' \in Nat
          BY <1>3, UncountedShrinks
        <4> QED BY <2>1, <3>1, <3>2, <3>4, <4>1
      <3> QED BY <3>3, <3>4
    <2> QED BY <2>2, <2>3 DEF CountInv
  <1> QED BY <1>5, <1>6 DEF MarkCount

LEMMA MarkLogKeepsCounts ==
  ASSUME CountInv, NEW r \in Requests, MarkLog(r)
  PROVE  CountInv'
  <1>0. DispatchTypes
    BY DEF CountInv
  <1>1. /\ UNCHANGED <<alerts, req, received>> /\ job[r].alert \in Alerts
        /\ job' = [job EXCEPT ![r].pc = "end"]
    BY <1>0 DEF MarkLog, MarkNotifiedLog, storeVars, DispatchTypes, JobTypes
  <1>2. JobTypes' /\ \A a \in Alerts : Uncounted(a)' \subseteq Uncounted(a)
    BY <1>1, JobEnds
  <1>3. DispatchTypes'
    BY <1>0, <1>1, <1>2 DEF DispatchTypes, RequestTypes
  <1>4. \A a \in Alerts, n \in Notifiers : received[n][a] <= received'[n][a]
    BY <1>0, <1>1 DEF DispatchTypes
  <1> QED BY <1>1, <1>2, <1>3, <1>4, CountKept

\* A crash ends handlers and goroutines; the count may fall behind for good.
LEMMA CrashKeepsCounts ==
  ASSUME CountInv, Crash
  PROVE  CountInv'
  <1>0. DispatchTypes /\ UNCHANGED <<alerts, received>>
    BY DEF CountInv, Crash, storeVars
  <1>1. RequestTypes'
    <2>1. DOMAIN req' = Requests
      BY DEF Crash
    <2>2. ASSUME NEW r \in Requests
          PROVE  /\ DOMAIN req'[r] = DOMAIN NoReq
                 /\ req'[r].pc \notin {"select", "write", "notify"}
      <3>1. DOMAIN req[r] = DOMAIN NoReq /\ "pc" \in DOMAIN NoReq
        BY <1>0 DEF DispatchTypes, RequestTypes, NoReq, Request
      <3>2. CASE req[r].pc \in {"idle", "done", "failed"}
        BY <3>1, <3>2 DEF Crash
      <3>3. CASE req[r].pc \notin {"idle", "done", "failed"}
        <4>1. req'[r] = [req[r] EXCEPT !.pc = "failed"]
          BY <3>3 DEF Crash
        <4> QED BY <3>1, <4>1
      <3> QED BY <3>2, <3>3
    <2> QED BY <2>1, <2>2 DEF RequestTypes
  <1>2. /\ DOMAIN job' = Requests
        /\ \A r \in Requests : DOMAIN job'[r] = DOMAIN NoJob /\ job'[r].pc \in {"none", "end"}
    BY <1>0 DEF Crash, DispatchTypes, JobTypes, NoJob, Dispatch
  <1>3. DispatchTypes'
    BY <1>0, <1>1, <1>2 DEF DispatchTypes, JobTypes
  <1>4. \A a \in Alerts : Uncounted(a)' \subseteq Uncounted(a)
    BY <1>2 DEF Uncounted
  <1>5. \A a \in Alerts, n \in Notifiers : received[n][a] <= received'[n][a]
    BY <1>0 DEF DispatchTypes
  <1> QED BY <1>0, <1>3, <1>4, <1>5, CountKept

LEMMA CountStep ==
  ASSUME CountInv, [Next]_vars
  PROVE  CountInv'
  <1>1. ASSUME UNCHANGED <<alerts, req, job, received>>
        PROVE  CountInv'
    BY <1>1 DEF CountInv, DispatchTypes, RequestTypes, JobTypes, Uncounted
  <1>2. ASSUME NEW r \in Requests, Handler(r) \/ Dispatcher(r)
        PROVE  CountInv'
    BY <1>2, HandlerSteps, NotifyKeepsCounts, DispatchKeepsCounts, MarkCountKeepsCounts,
       MarkLogKeepsCounts DEF Handler, Dispatcher
  <1>3. ASSUME NEW c \in Clients,
               Subscribe(c) \/ StreamEvent(c) \/ UnsubscribeDelete(c) \/ UnsubscribeClose(c)
        PROVE  CountInv'
    <2>1. UNCHANGED <<alerts, req, job, received>>
      BY <1>3 DEF Subscribe, StreamEvent, UnsubscribeDelete, UnsubscribeClose, storeVars, dispatchVars
    <2> QED BY <1>1, <2>1
  <1>4. ASSUME NEW m \in Matchers,
               ExpireSilence(m) /\ UNCHANGED <<req, dispatchVars, hubVars, crashes>>
        PROVE  CountInv'
    <2>1. UNCHANGED <<alerts, req, job, received>>
      BY <1>4 DEF ExpireSilence, dispatchVars
    <2> QED BY <1>1, <2>1
  <1>5. CASE UNCHANGED vars
    BY <1>1, <1>5 DEF vars, storeVars
  <1> QED BY <1>2, <1>3, <1>4, <1>5, HandlerSteps, CrashKeepsCounts DEF Next

LEMMA CountInit == Init => CountInv
  <1> SUFFICES ASSUME Init PROVE CountInv
    OBVIOUS
  <1>1. DispatchTypes
    BY DEF Init, StoreInit, DispatchTypes, RequestTypes, JobTypes, NoReq, Request, NoJob, Dispatch
  <1>2. ASSUME NEW a \in Alerts, NEW n \in Notifiers
        PROVE  alerts[a].notifyCount + Cardinality(Uncounted(a)) <= received[n][a]
    <2>1. Uncounted(a) = {}
      BY DEF Init, Uncounted, NoJob, Dispatch
    <2>2. Cardinality(Uncounted(a)) = 0
      BY <2>1, FS_EmptySet
    <2> QED BY <2>2 DEF Init, StoreInit
  <1> QED BY <1>1, <1>2 DEF CountInv

\* notify_count of an alert never exceeds the firing notifications that each
\* of the notifiers has received, whatever sends fail, come late or are lost
\* in a crash (dispatchFiring marks only after every Send has succeeded).
THEOREM CountsAreDelivered == Spec => []CountedWasDelivered
  <1>1. CountInv => CountedWasDelivered
    <2> SUFFICES ASSUME CountInv, NEW a \in Alerts, NEW n \in Notifiers
                 PROVE  alerts[a].notifyCount <= received[n][a]
      BY DEF CountedWasDelivered
    <2>1. Cardinality(Uncounted(a)) \in Nat
      BY RequestsFinite, FS_Subset, FS_CardinalityType DEF Uncounted
    <2> QED BY <2>1 DEF CountInv, DispatchTypes
  <1>2. CountInv /\ [Next]_vars => CountInv'
    BY CountStep
  <1> QED BY <1>1, <1>2, CountInit, PTL DEF Spec
-----------------------------------------------------------------------------
(* The history *)

\* An entry appended to one alert's history.
LEMMA LogEffect ==
  ASSUME history \in [Alerts -> Seq(Events)], NEW b \in Alerts, NEW e \in Events, Log(b, e)
  PROVE  /\ history' \in [Alerts -> Seq(Events)]
         /\ \A a \in Alerts : a # b => history'[a] = history[a]
         /\ Len(history'[b]) = Len(history[b]) + 1
         /\ \A i \in 1 .. Len(history[b]) : history'[b][i] = history[b][i]
         /\ history'[b][Len(history[b]) + 1] = e
  <1>1. history[b] \in Seq(Events)
    OBVIOUS
  <1>2. history'[b] = Append(history[b], e)
    BY DEF Log
  <1>3. Append(history[b], e) \in Seq(Events)
    BY <1>1
  <1>4. history' \in [Alerts -> Seq(Events)] /\ \A a \in Alerts : a # b => history'[a] = history[a]
    BY <1>3 DEF Log
  <1> QED BY <1>1, <1>2, <1>4

\* An entry that is no transition, or one that the row's state agrees with,
\* keeps the row and its history in step.
LEMMA LogReplays ==
  ASSUME history \in [Alerts -> Seq(Events)], NEW b \in Alerts, NEW e \in Events,
         Log(b, e), Replays(b),
         \/ e \in {"updated", "notified"} /\ alerts'[b].state = alerts[b].state
         \/ e = "created" /\ alerts'[b].state = "firing"
         \/ e = "resolved" /\ alerts[b].state = "firing" /\ alerts'[b].state = "resolved"
  PROVE  Replays(b)'
  <1>0. PICK n \in Nat : n = Len(history[b]) /\ DOMAIN history[b] = 1 .. n
    OBVIOUS
  <1>1. /\ history'[b] \in Seq(Events) /\ Len(history'[b]) = n + 1
        /\ DOMAIN history'[b] = 1 .. n + 1
        /\ \A i \in 1 .. n : history'[b][i] = history[b][i]
        /\ history'[b][n + 1] = e
    BY <1>0, LogEffect
  <1>2. Transitions(b)' = Transitions(b) \cup (IF e \in {"created", "resolved"} THEN {n + 1} ELSE {})
    BY <1>0, <1>1 DEF Transitions
  <1>3. Transitions(b) \subseteq 1 .. n
    BY <1>0 DEF Transitions
  <1>4. ASSUME NEW i \in 1 .. n + 1, NEW f, LastBefore(b, i, f)
        PROVE  LastBefore(b, i, f)'
    BY <1>0, <1>1, <1>2, <1>3, <1>4 DEF LastBefore
  <1>5. ASSUME e \in {"updated", "notified"}, NEW f, LastBefore(b, n + 1, f)
        PROVE  LastBefore(b, n + 2, f)'
    BY <1>0, <1>1, <1>2, <1>3, <1>5 DEF LastBefore
  <1>6. ASSUME e \in {"created", "resolved"}
        PROVE  LastBefore(b, n + 2, e)'
    BY <1>0, <1>1, <1>2, <1>3, <1>6 DEF LastBefore
  <1>7. ASSUME NEW i \in Transitions(b)', history'[b][i] = "resolved"
        PROVE  LastBefore(b, i, "created")'
    <2>1. CASE i \in Transitions(b)
      <3>1. i \in 1 .. n + 1 /\ history[b][i] = "resolved"
        BY <1>0, <1>1, <1>3, <1>7, <2>1
      <3> QED BY <1>4, <2>1, <3>1 DEF Replays
    <2>2. CASE i \notin Transitions(b)
      <3>1. i = n + 1 /\ e = "resolved" /\ alerts[b].state = "firing"
        BY <1>1, <1>2, <1>7, <2>2
      <3>2. LastBefore(b, n + 1, "created")
        BY <1>0, <3>1 DEF Replays
      <3>3. i \in 1 .. n + 1 /\ LastBefore(b, i, "created")
        BY <1>0, <3>1, <3>2
      <3> QED BY <1>4, <3>3
    <2> QED BY <2>1, <2>2
  <1>8. /\ (alerts[b].state = "firing" => LastBefore(b, n + 1, "created"))
        /\ (alerts[b].state = "resolved" => LastBefore(b, n + 1, "resolved"))
        /\ (alerts[b].state = "none" => Transitions(b) = {})
        /\ alerts[b].state \in {"none", "firing", "resolved"}
    BY <1>0 DEF Replays
  <1>9. Len(history[b])' + 1 = n + 2
    BY <1>0, <1>1
  <1>10. \/ alerts'[b].state = "none" /\ Transitions(b)' = {}
         \/ alerts'[b].state = "firing" /\ LastBefore(b, n + 2, "created")'
         \/ alerts'[b].state = "resolved" /\ LastBefore(b, n + 2, "resolved")'
    BY <1>2, <1>5, <1>6, <1>8
  <1> QED
    <2>1. \A f : LastBefore(b, n + 2, f)' <=> LastBefore(b, Len(history[b]) + 1, f)'
      BY <1>9 DEF LastBefore
    <2> QED BY <1>7, <1>10, <2>1 DEF Replays

\* The alerts whose row and history a step leaves alone.
LEMMA ReplaysKept ==
  ASSUME NEW a \in Alerts, Replays(a),
         history'[a] = history[a], alerts'[a].state = alerts[a].state
  PROVE  Replays(a)'
  <1>1. Transitions(a)' = Transitions(a)
    BY DEF Transitions
  <1>2. \A n, f : LastBefore(a, n, f) => LastBefore(a, n, f)'
    BY <1>1 DEF LastBefore
  <1> QED BY <1>1, <1>2 DEF Replays
\* The entries of one kind among a history that grows by one.
LEMMA LogNotified ==
  ASSUME history \in [Alerts -> Seq(Events)], NEW b \in Alerts, NEW e \in Events, Log(b, e)
  PROVE  /\ IsFiniteSet(Notified(b)) /\ Cardinality(Notified(b)) \in Nat
         /\ e # "notified" => Notified(b)' = Notified(b)
         /\ e = "notified" => Cardinality(Notified(b))' = Cardinality(Notified(b)) + 1
  <1>0. PICK n \in Nat : n = Len(history[b]) /\ DOMAIN history[b] = 1 .. n
    OBVIOUS
  <1>1. /\ history'[b] \in Seq(Events) /\ Len(history'[b]) = n + 1
        /\ DOMAIN history'[b] = 1 .. n + 1
        /\ \A i \in 1 .. n : history'[b][i] = history[b][i]
        /\ history'[b][n + 1] = e
    BY <1>0, LogEffect
  <1>2. IsFiniteSet(Notified(b)) /\ Cardinality(Notified(b)) \in Nat /\ n + 1 \notin Notified(b)
    <2>1. IsFiniteSet(1 .. n) /\ Notified(b) \subseteq 1 .. n
      BY <1>0, FS_Interval DEF Notified
    <2> QED BY <2>1, FS_Subset, FS_CardinalityType
  <1>3. Notified(b)' = Notified(b) \cup (IF e = "notified" THEN {n + 1} ELSE {})
    BY <1>0, <1>1 DEF Notified
  <1>4. e = "notified" => Cardinality(Notified(b))' = Cardinality(Notified(b)) + 1
    BY <1>2, <1>3, FS_AddElement
  <1> QED BY <1>2, <1>3, <1>4

\* The sets that are counted are finite.
LEMMA LogSetsFinite ==
  ASSUME history \in [Alerts -> Seq(Events)], NEW a \in Alerts
  PROVE  /\ Cardinality(Notified(a)) \in Nat
         /\ IsFiniteSet(Unlogged(a)) /\ Cardinality(Unlogged(a)) \in Nat
  <1>1. IsFiniteSet(1 .. Len(history[a])) /\ Notified(a) \subseteq 1 .. Len(history[a])
    BY FS_Interval DEF Notified
  <1>2. IsFiniteSet(Unlogged(a))
    BY RequestsFinite, FS_Subset DEF Unlogged
  <1> QED BY <1>1, <1>2, FS_Subset, FS_CardinalityType

\* A history whose firings were all resolved stays so in a longer one.
LEMMA SettledGrows ==
  ASSUME NEW a, NEW n \in Nat, Settled(a, n),
         \A i \in 1 .. n : history'[a][i] = history[a][i]
  PROVE  Settled(a, n)'
  BY DEF Settled

\* The histories only grow.
Grown ==
    \A a \in Alerts : /\ Len(history[a]) <= Len(history'[a])
                      /\ \A i \in 1 .. Len(history[a]) : history'[a][i] = history[a][i]

\* The request is about the same alert and has read and written the same.
Kept(q) ==
    /\ req'[q].alert = req[q].alert /\ req'[q].seen = req[q].seen
    /\ req'[q].silenced = req[q].silenced
    /\ req'[q].readAt = req[q].readAt /\ req'[q].wroteAt = req[q].wroteAt
    /\ req'[q].pc = "write" => req[q].pc = "write"

\* What a request has read stays settled, whatever is appended since.
LEMMA ReadStaysSettled ==
  ASSUME HistoryTypes, HistoryTypes', Grown, NEW r \in Requests, Kept(r), ReadSettled(r)
  PROVE  ReadSettled(r)'
  <1> DEFINE a == req[r].alert
  <1>1. SUFFICES ASSUME (req[r].pc = "write" /\ req[r].seen # "firing") \/ req[r].wroteAt > 0
                 PROVE  ReadSettled(r)'
    BY DEF ReadSettled, Kept
  <1>2. /\ a \in Alerts /\ history[a] \in Seq(Events) /\ history'[a] \in Seq(Events)
        /\ req[r].readAt \in Nat /\ req[r].wroteAt \in Nat
    BY <1>1 DEF HistoryTypes, HandlerTypes, DispatchTypes, RequestTypes
  <1>3. req[r].readAt <= Len(history[a]) /\ Settled(a, req[r].readAt)
    BY <1>1 DEF ReadSettled
  <1>4. PICK b \in Alerts, n \in Nat : b = a /\ n = req[r].readAt
    BY <1>2
  <1>5. /\ Len(history[b]) <= Len(history'[b])
        /\ \A i \in 1 .. Len(history[b]) : history'[b][i] = history[b][i]
    BY <1>2, <1>4 DEF Grown
  <1>6. Settled(b, n)'
    <2>1. \A i \in 1 .. n : history'[b][i] = history[b][i]
      BY <1>2, <1>3, <1>4, <1>5
    <2>2. Settled(b, n)
      BY <1>3, <1>4
    <2> QED BY <2>1, <2>2, SettledGrows
  <1>7. n <= Len(history'[b])
    BY <1>2, <1>3, <1>4, <1>5
  <1>8. req[r].wroteAt > 0 =>
          /\ req[r].wroteAt \in DOMAIN history'[b] /\ history'[b][req[r].wroteAt] = "created"
          /\ n < req[r].wroteAt
    BY <1>2, <1>4, <1>5 DEF ReadSettled
  <1>9. /\ req'[r].alert = b /\ req'[r].readAt = n /\ req'[r].wroteAt = req[r].wroteAt
    BY <1>4 DEF Kept
  <1>10. Settled(req[r].alert, req[r].readAt)'
    BY <1>6, <1>9 DEF Settled
  <1> QED BY <1>7, <1>8, <1>9, <1>10 DEF ReadSettled
\* The request has written nothing and is not about to.
Fresh(q) == req[q].wroteAt = 0 /\ req'[q].wroteAt = 0 /\ req'[q].pc # "write"

\* A handler that has a goroutine to start, or has failed, still does or has
\* started it; and a goroutine does not forget its alert.
MovesOn(q) ==
    req[q].alert \in Alerts =>
        /\ req[q].pc \in {"notify", "failed"} =>
             req'[q].pc \in {"notify", "failed"} \/ job'[q].alert = req[q].alert
        /\ job[q].alert = req[q].alert => job'[q].alert = req[q].alert

RequestsGoOn == \A q \in Requests : (Kept(q) /\ MovesOn(q)) \/ Fresh(q)

LEMMA ReadsStaySettled ==
  ASSUME HistoryTypes, HistoryTypes', Grown, NEW q \in Requests, ReadSettled(q), Kept(q) \/ Fresh(q)
  PROVE  ReadSettled(q)'
  <1>1. CASE Kept(q)
    BY <1>1, ReadStaysSettled
  <1>2. CASE Fresh(q)
    BY <1>2 DEF Fresh, ReadSettled
  <1> QED BY <1>1, <1>2

\* An alert that fires is accounted for as before when no firing was recorded.
LEMMA AccountedKept ==
  ASSUME HistoryTypes, HistoryTypes', FiringIsAccounted, RequestsGoOn, NEW a \in Alerts,
         alerts'[a].state = "firing" => alerts[a].state = "firing",
         \A i \in DOMAIN history'[a] :
           history'[a][i] = "created" => i \in DOMAIN history[a] /\ history[a][i] = "created",
         alerts'[a].state = "firing"
  PROVE  \E r \in Created(a)' :
            /\ \A i \in DOMAIN history'[a] : history'[a][i] = "created" => i <= req'[r].wroteAt
            /\ req'[r].silenced \/ req'[r].pc \in {"notify", "failed"} \/ job'[r].alert = a
  <1>1. PICK r \in Created(a) :
            /\ \A i \in DOMAIN history[a] : history[a][i] = "created" => i <= req[r].wroteAt
            /\ req[r].silenced \/ req[r].pc \in {"notify", "failed"} \/ job[r].alert = a
    BY DEF FiringIsAccounted
  <1>2. r \in Requests /\ req[r].alert = a /\ req[r].wroteAt > 0
    BY DEF Created
  <1>3. Kept(r) /\ MovesOn(r)
    BY <1>2 DEF RequestsGoOn, Fresh
  <1>4. r \in Created(a)'
    BY <1>2, <1>3 DEF Created, Kept
  <1>5. req'[r].silenced \/ req'[r].pc \in {"notify", "failed"} \/ job'[r].alert = a
    BY <1>1, <1>2, <1>3 DEF Kept, MovesOn
  <1>6. req'[r].wroteAt = req[r].wroteAt
    BY <1>3 DEF Kept
  <1> QED BY <1>1, <1>4, <1>5, <1>6

\* A step that leaves the states and the histories alone.
LEMMA QuietStep ==
  ASSUME ManagerInv, HistoryTypes', UNCHANGED history, RequestsGoOn,
         \A a \in Alerts : alerts'[a].state = alerts[a].state
  PROVE  RaceInv' /\ FiringIsAccounted' /\ \A a \in Alerts : Replays(a)' /\ Notified(a)' = Notified(a)
  <1>0. HistoryTypes /\ LogInv /\ RaceInv /\ FiringIsAccounted
    BY DEF ManagerInv
  <1>1. \A a \in Alerts : Replays(a)' /\ Notified(a)' = Notified(a)
    BY <1>0, ReplaysKept DEF LogInv, Notified
  <1>2. Grown
    BY <1>0 DEF Grown, HistoryTypes
  <1>3. \A q \in Requests : ReadSettled(q)'
    BY <1>0, <1>2, ReadsStaySettled DEF RaceInv, RequestsGoOn
  <1>4. ASSUME NEW a \in Alerts, alerts'[a].state # "firing"
        PROVE  Settled(a, Len(history[a]))'
    BY <1>0, <1>4 DEF RaceInv, Settled
  <1>5. RaceInv'
    BY <1>3, <1>4 DEF RaceInv
  <1>6. FiringIsAccounted'
    BY <1>0, AccountedKept DEF FiringIsAccounted
  <1> QED BY <1>1, <1>5, <1>6

\* The same when no notification was counted and none begins to be logged.
LEMMA QuietManager ==
  ASSUME ManagerInv, HistoryTypes', UNCHANGED history, RequestsGoOn,
         \A a \in Alerts : /\ alerts'[a].state = alerts[a].state
                           /\ alerts'[a].notifyCount = alerts[a].notifyCount
                           /\ Unlogged(a)' \subseteq Unlogged(a)
  PROVE  ManagerInv'
  <1>0. HistoryTypes /\ LogInv
    BY DEF ManagerInv
  <1>1. RaceInv' /\ FiringIsAccounted' /\ \A a \in Alerts : Replays(a)' /\ Notified(a)' = Notified(a)
    BY QuietStep
  <1>2. ASSUME NEW a \in Alerts
        PROVE  Cardinality(Notified(a))' + Cardinality(Unlogged(a))' <= alerts'[a].notifyCount
    <2>1. /\ Cardinality(Notified(a)) \in Nat /\ IsFiniteSet(Unlogged(a))
          /\ Cardinality(Unlogged(a)) \in Nat /\ alerts[a].notifyCount \in Nat
      BY <1>0, LogSetsFinite DEF HistoryTypes, DispatchTypes
    <2>2. Unlogged(a)' \subseteq Unlogged(a)
      OBVIOUS
    <2>3. Cardinality(Unlogged(a)') <= Cardinality(Unlogged(a)) /\ Cardinality(Unlogged(a)') \in Nat
      BY <2>1, <2>2, FS_Subset, FS_CardinalityType
    <2>4. Cardinality(Notified(a))' = Cardinality(Notified(a))
      BY <1>1
    <2>5. Cardinality(Notified(a)) + Cardinality(Unlogged(a)) <= alerts[a].notifyCount
      BY <1>0 DEF LogInv
    <2>6. Cardinality(Unlogged(a))' = Cardinality(Unlogged(a)')
      OBVIOUS
    <2> QED BY <2>1, <2>3, <2>4, <2>5, <2>6
  <1> QED BY <1>1, <1>2 DEF ManagerInv, LogInv
\* The step appends an entry to b's history, and the row's state goes with it.
Enters(b, e) ==
    /\ Log(b, e)
    /\ \A a \in Alerts : a # b => alerts'[a].state = alerts[a].state
    /\ \/ e \in {"updated", "notified"} /\ alerts'[b].state = alerts[b].state
       \/ e = "created" /\ alerts'[b].state = "firing"
       \/ e = "resolved" /\ alerts[b].state = "firing" /\ alerts'[b].state = "resolved"

\* An alert that is not firing has a settled history.
LEMMA EnteredSettles ==
  ASSUME history \in [Alerts -> Seq(Events)], NEW b \in Alerts, NEW e \in Events, Enters(b, e),
         alerts[b].state # "firing" => Settled(b, Len(history[b])),
         alerts'[b].state # "firing"
  PROVE  Settled(b, Len(history[b]))'
  <1>0. PICK n \in Nat : n = Len(history[b])
    OBVIOUS
  <1>1. /\ Len(history'[b]) = n + 1 /\ history'[b][n + 1] = e
        /\ \A i \in 1 .. n : history'[b][i] = history[b][i]
    BY <1>0, LogEffect DEF Enters
  <1>2. CASE e = "resolved"
    BY <1>1, <1>2 DEF Settled
  <1>3. CASE e \in {"updated", "notified"}
    <2>1. Settled(b, n)
      BY <1>0, <1>3 DEF Enters
    <2> QED BY <1>1, <1>3, <2>1 DEF Settled
  <1> QED BY <1>2, <1>3 DEF Enters

LEMMA EnteredStep ==
  ASSUME ManagerInv, NEW b \in Alerts, NEW e \in Events, Enters(b, e)
  PROVE  /\ Grown /\ history' \in [Alerts -> Seq(Events)]
         /\ \A a \in Alerts : /\ Replays(a)'
                              /\ alerts'[a].state # "firing" => Settled(a, Len(history[a]))'
                              /\ a # b => Notified(a)' = Notified(a)
  <1>0. /\ HistoryTypes /\ LogInv /\ RaceInv /\ history \in [Alerts -> Seq(Events)]
        /\ Log(b, e)
    BY DEF ManagerInv, HistoryTypes, Enters
  <1>1. /\ history' \in [Alerts -> Seq(Events)]
        /\ \A a \in Alerts : a # b => history'[a] = history[a]
        /\ Len(history'[b]) = Len(history[b]) + 1
        /\ \A i \in 1 .. Len(history[b]) : history'[b][i] = history[b][i]
    BY <1>0, LogEffect
  <1>2. Grown
    <2>1. ASSUME NEW a \in Alerts
          PROVE  /\ Len(history[a]) <= Len(history'[a])
                 /\ \A i \in 1 .. Len(history[a]) : history'[a][i] = history[a][i]
      BY <1>0, <1>1
    <2> QED BY <2>1 DEF Grown
  <1>3. ASSUME NEW a \in Alerts, a # b
        PROVE  /\ Replays(a)' /\ Notified(a)' = Notified(a)
               /\ alerts'[a].state # "firing" => Settled(a, Len(history[a]))'
    <2>1. history'[a] = history[a] /\ alerts'[a].state = alerts[a].state
      BY <1>1, <1>3 DEF Enters
    <2>2. Replays(a)' /\ Notified(a)' = Notified(a)
      BY <1>0, <2>1, ReplaysKept DEF LogInv, Notified
    <2> QED BY <1>0, <2>1, <2>2 DEF RaceInv, Settled
  <1>4. Replays(b)'
    BY <1>0, LogReplays DEF Enters, LogInv
  <1>5. alerts'[b].state # "firing" => Settled(b, Len(history[b]))'
    BY <1>0, EnteredSettles DEF RaceInv
  <1> QED BY <1>1, <1>2, <1>3, <1>4, <1>5

\* An entry other than "created" leaves every firing accounted for.
LEMMA EnteredAccounted ==
  ASSUME ManagerInv, HistoryTypes', NEW b \in Alerts, NEW e \in Events, Enters(b, e),
         e # "created", RequestsGoOn
  PROVE  FiringIsAccounted'
  <1>0. HistoryTypes /\ FiringIsAccounted /\ history \in [Alerts -> Seq(Events)] /\ Log(b, e)
    BY DEF ManagerInv, HistoryTypes, Enters
  <1>1. /\ history' \in [Alerts -> Seq(Events)]
        /\ \A a \in Alerts : a # b => history'[a] = history[a]
        /\ Len(history'[b]) = Len(history[b]) + 1
        /\ \A i \in 1 .. Len(history[b]) : history'[b][i] = history[b][i]
        /\ history'[b][Len(history[b]) + 1] = e
    BY <1>0, LogEffect
  <1>2. ASSUME NEW a \in Alerts
        PROVE  /\ alerts'[a].state = "firing" => alerts[a].state = "firing"
               /\ \A i \in DOMAIN history'[a] :
                    history'[a][i] = "created" => i \in DOMAIN history[a] /\ history[a][i] = "created"
    <2>1. history[a] \in Seq(Events) /\ history'[a] \in Seq(Events)
      BY <1>0, <1>1
    <2>2. CASE a # b
      BY <1>1, <2>2 DEF Enters
    <2>3. CASE a = b
      BY <1>1, <2>1, <2>3 DEF Enters
    <2> QED BY <2>2, <2>3
  <1> QED BY <1>0, <1>2, AccountedKept DEF FiringIsAccounted

\* A step that leaves the handlers and the tables alone.
LEMMA RestStep ==
  ASSUME ManagerInv, UNCHANGED <<alerts, history, req, job, received>>
  PROVE  ManagerInv'
  <1>1. HistoryTypes'
    BY DEF ManagerInv, HistoryTypes, HandlerTypes, DispatchTypes, RequestTypes, JobTypes
  <1>2. RequestsGoOn
    BY DEF RequestsGoOn, Kept, MovesOn
  <1>3. \A a \in Alerts : Unlogged(a)' \subseteq Unlogged(a)
    BY DEF Unlogged
  <1> QED BY <1>1, <1>2, <1>3, QuietManager
\* A request arrives: it has read and written nothing.
LEMMA ArrivedStep ==
  ASSUME ManagerInv, NEW r \in Requests, NEW pc, NEW kind, NEW a, NEW s, pc # "write",
         Arrive(r, Request(pc, kind, a, s)), UNCHANGED job
  PROVE  HandlerTypes' /\ RequestsGoOn
  <1>0. HandlerTypes /\ DOMAIN req = Requests
    BY DEF ManagerInv, HistoryTypes, DispatchTypes, RequestTypes
  <1>1. /\ req[r].pc = "idle" /\ req'[r] = Request(pc, kind, a, s)
        /\ \A q \in Requests : q # r => req'[q] = req[q]
    BY <1>0 DEF Arrive
  <1>2. /\ req'[r].pc = pc /\ req'[r].wroteAt = 0 /\ req'[r].readAt = 0
    BY <1>1 DEF Request
  <1>3. HandlerTypes'
    BY <1>0, <1>1, <1>2 DEF HandlerTypes
  <1>4. Fresh(r)
    BY <1>0, <1>1, <1>2 DEF Fresh, HandlerTypes
  <1>5. \A q \in Requests : q # r => Kept(q) /\ MovesOn(q)
    BY <1>1 DEF Kept, MovesOn
  <1> QED BY <1>3, <1>4, <1>5 DEF RequestsGoOn

\* The handlers' first steps that leave the tables of alerts alone.
LEMMA ArrivalStep ==
  ASSUME ManagerInv, DispatchTypes', NEW r \in Requests,
         NEW pc, NEW kind, NEW a, NEW s, pc # "write",
         Arrive(r, Request(pc, kind, a, s)), UNCHANGED <<alerts, history, job>>
  PROVE  ManagerInv'
  <1>1. HandlerTypes' /\ RequestsGoOn
    BY ArrivedStep
  <1>2. HistoryTypes'
    BY <1>1 DEF ManagerInv, HistoryTypes
  <1>3. \A b \in Alerts : Unlogged(b)' \subseteq Unlogged(b)
    BY DEF Unlogged
  <1> QED BY <1>1, <1>2, <1>3, QuietManager

\* A row that Resolve changes was firing, and its history says so.
LEMMA ResolvedStep ==
  ASSUME ManagerInv, DispatchTypes', NEW r \in Requests, NEW b \in EventAlerts, EventResolved(r, b)
  PROVE  ManagerInv'
  <1>0. /\ b \in Alerts /\ UNCHANGED job /\ DispatchTypes /\ LogInv /\ RaceInv /\ HistoryTypes
        /\ history \in [Alerts -> Seq(Events)]
    BY ManagerAssumption DEF EventResolved, dispatchVars, ManagerInv, HistoryTypes
  <1>1. PICK pc \in {"notify", "failed"} : Arrive(r, Request(pc, "resolved", b, FALSE))
    BY DEF EventResolved
  <1>2. CASE UNCHANGED <<alerts, history>>
    BY <1>0, <1>1, <1>2, ArrivalStep
  <1>3. CASE alerts[b].state = "firing" /\ SetState(b, "resolved") /\ Log(b, "resolved")
    <2>1. Enters(b, "resolved") /\ "resolved" \in Events
      BY <1>0, <1>3 DEF Enters, SetState, DispatchTypes, Events
    <2>2. /\ Grown /\ history' \in [Alerts -> Seq(Events)]
          /\ \A a \in Alerts : /\ Replays(a)'
                               /\ alerts'[a].state # "firing" => Settled(a, Len(history[a]))'
                               /\ a # b => Notified(a)' = Notified(a)
      BY <1>0, <2>1, EnteredStep
    <2>3. HandlerTypes' /\ RequestsGoOn
      BY <1>0, <1>1, ArrivedStep
    <2>4. HistoryTypes'
      BY <2>2, <2>3 DEF HistoryTypes
    <2>5. FiringIsAccounted'
      BY <1>0, <2>1, <2>3, <2>4, EnteredAccounted
    <2>6. \A q \in Requests : ReadSettled(q)'
      BY <1>0, <2>2, <2>3, <2>4, ReadsStaySettled DEF RaceInv, RequestsGoOn
    <2>7. ASSUME NEW a \in Alerts
          PROVE  Cardinality(Notified(a))' + Cardinality(Unlogged(a))' <= alerts'[a].notifyCount
      <3>1. Notified(a)' = Notified(a)
        BY <1>0, <1>3, <2>1, <2>2, LogNotified
      <3>2. Unlogged(a)' = Unlogged(a)
        BY <1>0 DEF Unlogged
      <3>3. alerts'[a].notifyCount = alerts[a].notifyCount
        BY <1>0, <1>3 DEF SetState, DispatchTypes
      <3> QED BY <1>0, <3>1, <3>2, <3>3 DEF LogInv
    <2> QED BY <2>2, <2>4, <2>5, <2>6, <2>7 DEF ManagerInv, LogInv, RaceInv
  <1> QED BY <1>2, <1>3 DEF EventResolved, Resolve, storeVars

\* The SELECT of UpsertFiring finds an alert that is not firing only with a
\* settled history.
LEMMA SelectStep ==
  ASSUME ManagerInv, DispatchTypes', NEW r \in Requests, UpsertSelect(r)
  PROVE  ManagerInv'
  <1>0. /\ DispatchTypes /\ LogInv /\ RaceInv /\ HistoryTypes /\ HandlerTypes /\ FiringIsAccounted
        /\ history \in [Alerts -> Seq(Events)] /\ DOMAIN req = Requests
        /\ UNCHANGED <<alerts, history, job>> /\ req[r].pc = "select"
    BY DEF UpsertSelect, storeVars, dispatchVars, ManagerInv, HistoryTypes, DispatchTypes, RequestTypes
  <1>1. PICK b \in Alerts : b = req[r].alert
    BY <1>0 DEF DispatchTypes, RequestTypes
  <1>2. PICK n \in Nat : n = Len(history[b])
    BY <1>0
  <1>3. /\ req'[r].pc = "write" /\ req'[r].seen = alerts[b].state /\ req'[r].readAt = n
        /\ req'[r].wroteAt = 0 /\ req'[r].alert = b
        /\ \A q \in Requests : q # r => req'[q] = req[q]
    <2>1. DOMAIN req[r] = {"pc", "kind", "alert", "silenced", "seen", "readAt", "wroteAt"}
      BY <1>0 DEF DispatchTypes, RequestTypes, NoReq, Request
    <2>2. req[r].wroteAt = 0
      BY <1>0 DEF HandlerTypes
    <2> QED BY <1>0, <1>1, <1>2, <2>1, <2>2 DEF UpsertSelect
  <1>4. HistoryTypes'
    BY <1>0, <1>3 DEF HistoryTypes, HandlerTypes
  <1>5. ASSUME NEW q \in Requests, q # r
        PROVE  ReadSettled(q)'
    <2>1. req'[q] = req[q]
      BY <1>3, <1>5
    <2> QED BY <1>0, <2>1 DEF RaceInv, ReadSettled, Settled
  <1>6. ReadSettled(r)'
    <2>1. alerts[b].state # "firing" => Settled(b, n)
      BY <1>0, <1>2 DEF RaceInv
    <2>2. Settled(req[r].alert, req[r].readAt)' <=> Settled(b, n)
      BY <1>0, <1>3 DEF Settled
    <2>3. req'[r].readAt <= Len(history'[req'[r].alert])
      BY <1>0, <1>2, <1>3
    <2> QED BY <1>3, <2>1, <2>2, <2>3 DEF ReadSettled
  <1>7. ASSUME NEW a \in Alerts
        PROVE  alerts'[a].state # "firing" => Settled(a, Len(history[a]))'
    BY <1>0 DEF RaceInv, Settled
  <1>8. LogInv'
    <2>1. \A a \in Alerts : Replays(a)' /\ Notified(a)' = Notified(a) /\ Unlogged(a)' = Unlogged(a)
      BY <1>0, ReplaysKept DEF LogInv, Notified, Unlogged
    <2> QED BY <1>0, <2>1 DEF LogInv
  <1>9. FiringIsAccounted'
    <2>1. req[r].wroteAt = 0
      BY <1>0 DEF HandlerTypes
    <2>2. ASSUME NEW a \in Alerts, NEW q \in Created(a)
          PROVE  q \in Created(a)' /\ req'[q] = req[q]
      BY <1>3, <2>1, <2>2 DEF Created
    <2> QED BY <1>0, <2>2 DEF FiringIsAccounted
  <1> QED BY <1>4, <1>5, <1>6, <1>7, <1>8, <1>9 DEF ManagerInv, RaceInv
\* The commit of UpsertFiring.  The entry it makes is the latest of its alert,
\* and its handler is about to notify, fails, or knows the alert as silenced.
LEMMA CommitStep ==
  ASSUME ManagerInv, DispatchTypes', NEW r \in Requests, UpsertCommit(r)
  PROVE  ManagerInv'
  <1>0. /\ DispatchTypes /\ LogInv /\ RaceInv /\ HistoryTypes /\ HandlerTypes /\ FiringIsAccounted
        /\ history \in [Alerts -> Seq(Events)] /\ DOMAIN req = Requests
        /\ UNCHANGED job /\ req[r].pc = "write"
    BY DEF UpsertCommit, dispatchVars, ManagerInv, HistoryTypes, DispatchTypes, RequestTypes
  <1>1. PICK b \in Alerts : b = req[r].alert
    BY <1>0 DEF DispatchTypes, RequestTypes
  <1>2. PICK n \in Nat : n = Len(history[b])
    BY <1>0
  <1>3. DOMAIN req[r] = {"pc", "kind", "alert", "silenced", "seen", "readAt", "wroteAt"}
    BY <1>0 DEF DispatchTypes, RequestTypes, NoReq, Request
  <1>4. req[r].wroteAt = 0 /\ req[r].readAt \in Nat
    BY <1>0 DEF HandlerTypes
  <1>5. \A a \in Alerts : Unlogged(a)' = Unlogged(a)
    BY <1>0 DEF Unlogged
  <1>6. CASE Goto(r, "failed") /\ UNCHANGED storeVars
    <2>1. /\ UNCHANGED <<alerts, history>>
          /\ req'[r].pc = "failed" /\ req'[r].wroteAt = 0 /\ req'[r].readAt \in Nat
          /\ \A q \in Requests : q # r => req'[q] = req[q]
      BY <1>0, <1>3, <1>4, <1>6 DEF Goto, storeVars
    <2>2. HistoryTypes'
      BY <1>0, <2>1 DEF HistoryTypes, HandlerTypes
    <2>3. RequestsGoOn
      BY <1>0, <1>4, <2>1 DEF RequestsGoOn, Fresh, Kept, MovesOn
    <2> QED BY <1>0, <1>5, <2>1, <2>2, <2>3, QuietManager
  <1>7. ASSUME UpsertWrite(b, req[r].seen), NEW pc, pc \in {AfterUpsert(req[r]), "failed"},
               NEW at, at = (IF NewTransition(req[r].seen) THEN n + 1 ELSE 0),
               req' = [req EXCEPT ![r].pc = pc, ![r].wroteAt = at]
        PROVE  ManagerInv'
    <2>1. /\ req'[r].pc = pc /\ req'[r].wroteAt = at /\ req'[r].readAt = req[r].readAt
          /\ req'[r].alert = b /\ req'[r].silenced = req[r].silenced
          /\ \A q \in Requests : q # r => req'[q] = req[q]
      BY <1>0, <1>1, <1>3, <1>7
    <2>2. pc \in {"notify", "done", "failed"} /\ at \in Nat
      BY <1>2, <1>7 DEF AfterUpsert
    <2>3. HandlerTypes'
      BY <1>0, <1>4, <2>1, <2>2 DEF HandlerTypes
    <2>4. ASSUME NEW a \in Alerts
          PROVE  alerts'[a].notifyCount = alerts[a].notifyCount
      BY <1>0, <1>7, UpsertKeepsCounts DEF CountsKept
    <2>5. PICK e \in {"created", "updated"} :
            /\ Enters(b, e) /\ (e = "created" <=> NewTransition(req[r].seen))
      <3>1. CASE NewTransition(req[r].seen)
        BY <1>0, <1>7, <3>1 DEF UpsertWrite, Enters, SetState, DispatchTypes
      <3>2. CASE ~NewTransition(req[r].seen)
        BY <1>0, <1>7, <3>2 DEF UpsertWrite, Enters
      <3> QED BY <3>1, <3>2
    <2>6. e \in Events
      BY DEF Events
    <2>7. /\ Grown /\ history' \in [Alerts -> Seq(Events)]
          /\ \A a \in Alerts : /\ Replays(a)'
                               /\ alerts'[a].state # "firing" => Settled(a, Len(history[a]))'
                               /\ a # b => Notified(a)' = Notified(a)
      BY <1>0, <2>5, <2>6, EnteredStep
    <2>8. HistoryTypes'
      BY <2>3, <2>7 DEF HistoryTypes
    <2>9. LogInv'
      <3>1. ASSUME NEW a \in Alerts
            PROVE  Notified(a)' = Notified(a)
        BY <1>0, <2>5, <2>6, <2>7, LogNotified DEF Enters
      <3>2. ASSUME NEW a \in Alerts
            PROVE  Cardinality(Notified(a))' + Cardinality(Unlogged(a))' <= alerts'[a].notifyCount
        BY <1>0, <1>5, <2>4, <3>1 DEF LogInv
      <3> QED BY <2>7, <3>2 DEF LogInv
    <2>10. \A q \in Requests : q # r => Kept(q) /\ MovesOn(q)
      BY <1>0, <2>1 DEF Kept, MovesOn
    <2>11. \A q \in Requests : q # r => ReadSettled(q)'
      BY <1>0, <2>7, <2>8, <2>10, ReadsStaySettled DEF RaceInv
    <2>12. CASE e = "updated"
      <3>1. at = 0
        BY <1>7, <2>5, <2>12
      <3>2. Fresh(r)
        BY <1>4, <2>1, <2>2, <3>1 DEF Fresh
      <3>3. RequestsGoOn
        BY <2>10, <3>2 DEF RequestsGoOn
      <3>4. FiringIsAccounted'
        BY <2>5, <2>6, <2>8, <2>12, <3>3, EnteredAccounted
      <3>5. ReadSettled(r)'
        BY <1>0, <2>7, <2>8, <3>2, ReadsStaySettled DEF RaceInv
      <3> QED BY <2>7, <2>8, <2>9, <2>11, <3>4, <3>5 DEF ManagerInv, RaceInv
    <2>13. CASE e = "created"
      <3>1. at = n + 1 /\ NewTransition(req[r].seen) /\ req[r].seen # "firing"
        BY <1>7, <2>5, <2>13 DEF NewTransition
      <3>2. /\ history'[b] \in Seq(Events) /\ history[b] \in Seq(Events)
            /\ Len(history'[b]) = n + 1 /\ DOMAIN history'[b] = 1 .. n + 1
            /\ history'[b][n + 1] = "created"
            /\ \A i \in 1 .. n : history'[b][i] = history[b][i]
            /\ \A a \in Alerts : a # b => history'[a] = history[a]
        BY <1>0, <1>2, <2>5, <2>6, <2>13, LogEffect DEF Enters
      <3>3. ReadSettled(r)'
        <4>1. req[r].readAt <= n /\ Settled(req[r].alert, req[r].readAt)
          BY <1>0, <1>1, <1>2, <3>1 DEF RaceInv, ReadSettled
        <4>2. PICK m \in Nat : m = req[r].readAt
          BY <1>4
        <4>3. Settled(b, m)
          BY <1>1, <4>1, <4>2
        <4>4. Settled(b, m)'
          BY <3>2, <4>1, <4>2, <4>3, SettledGrows
        <4>5. Settled(req[r].alert, req[r].readAt)'
          BY <2>1, <4>2, <4>4 DEF Settled
        <4>6. /\ req'[r].alert = b /\ req'[r].readAt = m /\ req'[r].wroteAt = n + 1
              /\ m <= n /\ m < n + 1 /\ m <= Len(history'[b]) /\ n + 1 > 0
              /\ n + 1 \in DOMAIN history'[b]
          BY <1>2, <2>1, <3>1, <3>2, <4>1, <4>2
        <4> QED BY <3>2, <4>5, <4>6 DEF ReadSettled
      <3>4. FiringIsAccounted'
        <4>1. ASSUME NEW a \in Alerts, a # b, alerts'[a].state = "firing"
              PROVE  \E q \in Created(a)' :
                       /\ \A i \in DOMAIN history'[a] : history'[a][i] = "created" => i <= req'[q].wroteAt
                       /\ req'[q].silenced \/ req'[q].pc \in {"notify", "failed"} \/ job'[q].alert = a
          <5>1. history'[a] = history[a] /\ alerts[a].state = "firing"
            BY <2>5, <3>2, <4>1 DEF Enters
          <5>2. PICK q \in Created(a) :
                  /\ \A i \in DOMAIN history[a] : history[a][i] = "created" => i <= req[q].wroteAt
                  /\ req[q].silenced \/ req[q].pc \in {"notify", "failed"} \/ job[q].alert = a
            BY <1>0, <5>1 DEF FiringIsAccounted
          <5>3. q \in Requests /\ q # r
            BY <1>4 DEF Created
          <5>4. req'[q] = req[q] /\ q \in Created(a)'
            BY <2>1, <5>3 DEF Created
          <5> QED BY <1>0, <5>1, <5>2, <5>4
        <4>2. r \in Created(b)'
          BY <1>2, <2>1, <3>1 DEF Created
        <4>3. \A i \in DOMAIN history'[b] : history'[b][i] = "created" => i <= req'[r].wroteAt
          BY <2>1, <3>1, <3>2
        <4>4. req'[r].silenced \/ req'[r].pc \in {"notify", "failed"}
          BY <1>7, <2>1, <3>1 DEF AfterUpsert
        <4> QED BY <4>1, <4>2, <4>3, <4>4 DEF FiringIsAccounted
      <3> QED BY <2>7, <2>8, <2>9, <2>11, <3>3, <3>4 DEF ManagerInv, RaceInv
    <2> QED BY <2>12, <2>13
  <1>8. CASE /\ UpsertWrite(b, req[r].seen)
             /\ \E pc \in {AfterUpsert(req[r]), "failed"} :
                  req' = [req EXCEPT ![r].pc = pc,
                            ![r].wroteAt = IF NewTransition(req[r].seen) THEN n + 1 ELSE 0]
    BY <1>7, <1>8
  <1> QED BY <1>1, <1>2, <1>6, <1>8 DEF UpsertCommit
\* The goroutine that Notify starts is about the handler's alert.
LEMMA NotifyStep ==
  ASSUME ManagerInv, DispatchTypes', NEW r \in Requests, Notify(r)
  PROVE  ManagerInv'
  <1>0. /\ DispatchTypes /\ HistoryTypes /\ HandlerTypes /\ DOMAIN req = Requests /\ DOMAIN job = Requests
        /\ UNCHANGED <<alerts, history>> /\ req[r].pc = "notify"
    BY DEF Notify, storeVars, ManagerInv, HistoryTypes, DispatchTypes, RequestTypes, JobTypes
  <1>1. /\ req'[r].pc = "done" /\ req'[r].wroteAt = req[r].wroteAt /\ req'[r].readAt = req[r].readAt
        /\ req'[r].alert = req[r].alert /\ req'[r].silenced = req[r].silenced
        /\ req'[r].seen = req[r].seen
        /\ \A q \in Requests : q # r => req'[q] = req[q]
    <2>1. DOMAIN req[r] = {"pc", "kind", "alert", "silenced", "seen", "readAt", "wroteAt"}
      BY <1>0 DEF DispatchTypes, RequestTypes, NoReq, Request
    <2> QED BY <1>0, <2>1 DEF Notify, Goto
  <1>2. /\ job'[r].pc = "sending" /\ job'[r].alert = req[r].alert
        /\ \A q \in Requests : q # r => job'[q] = job[q]
    BY <1>0 DEF Notify, Dispatch
  <1>3. HistoryTypes'
    BY <1>0, <1>1, <1>2 DEF HistoryTypes, HandlerTypes
  <1>4. RequestsGoOn
    <2>1. Kept(r) /\ MovesOn(r)
      BY <1>1, <1>2 DEF Kept, MovesOn
    <2>2. \A q \in Requests : q # r => Kept(q) /\ MovesOn(q)
      BY <1>1, <1>2 DEF Kept, MovesOn
    <2> QED BY <2>1, <2>2 DEF RequestsGoOn
  <1>5. \A a \in Alerts : Unlogged(a)' \subseteq Unlogged(a)
    BY <1>2 DEF Unlogged
  <1> QED BY <1>0, <1>3, <1>4, <1>5, QuietManager

\* A goroutine moves on: it keeps its alert.
LEMMA GoroutineStep ==
  ASSUME ManagerInv, NEW r \in Requests, NEW pc, pc # "none",
         job' = [job EXCEPT ![r].pc = pc], UNCHANGED req
  PROVE  /\ HandlerTypes' /\ RequestsGoOn
         /\ \A q \in Requests : job'[q].alert = job[q].alert
         /\ job'[r].pc = pc /\ \A q \in Requests : q # r => job'[q].pc = job[q].pc
  <1>0. HandlerTypes /\ DOMAIN job = Requests /\ DOMAIN job[r] = {"pc", "kind", "alert"}
    BY DEF ManagerInv, HistoryTypes, DispatchTypes, JobTypes, NoJob, Dispatch
  <1>1. /\ job'[r].pc = pc /\ job'[r].alert = job[r].alert
        /\ \A q \in Requests : q # r => job'[q] = job[q]
    BY <1>0
  <1>2. HandlerTypes'
    BY <1>0, <1>1 DEF HandlerTypes
  <1>3. \A q \in Requests : Kept(q) /\ MovesOn(q)
    BY <1>1 DEF Kept, MovesOn
  <1> QED BY <1>1, <1>2, <1>3 DEF RequestsGoOn

\* Sends change no table.
LEMMA SendStep ==
  ASSUME ManagerInv, DispatchTypes', NEW r \in Requests, DispatchAll(r)
  PROVE  ManagerInv'
  <1>1. UNCHANGED <<alerts, history, req>>
    BY DEF DispatchAll, storeVars
  <1>2. PICK pc \in {"count", "end"} : job' = [job EXCEPT ![r].pc = pc]
    BY DEF DispatchAll
  <1>3. /\ HandlerTypes' /\ RequestsGoOn
        /\ \A q \in Requests : job'[q].alert = job[q].alert
        /\ job'[r].pc = pc /\ \A q \in Requests : q # r => job'[q].pc = job[q].pc
    BY <1>1, <1>2, GoroutineStep
  <1>4. HistoryTypes'
    BY <1>1, <1>3 DEF ManagerInv, HistoryTypes
  <1>5. \A a \in Alerts : Unlogged(a)' \subseteq Unlogged(a)
    BY <1>3 DEF Unlogged
  <1> QED BY <1>1, <1>3, <1>4, <1>5, QuietManager

\* The count goes up before the history says so.
LEMMA MarkCountStep ==
  ASSUME ManagerInv, DispatchTypes', NEW r \in Requests, MarkCount(r)
  PROVE  ManagerInv'
  <1>0. /\ UNCHANGED <<history, req>> /\ DispatchTypes /\ LogInv /\ HistoryTypes /\ job[r].pc = "count"
    BY DEF MarkCount, MarkNotifiedCount, storeVars, ManagerInv, HistoryTypes
  <1>1. PICK b \in Alerts : b = job[r].alert
    BY <1>0 DEF DispatchTypes, JobTypes
  <1>2. CASE UNCHANGED storeVars /\ job' = [job EXCEPT ![r].pc = "end"]
    <2>1. UNCHANGED alerts
      BY <1>2 DEF storeVars
    <2>2. /\ HandlerTypes' /\ RequestsGoOn
          /\ \A q \in Requests : job'[q].alert = job[q].alert
          /\ job'[r].pc = "end" /\ \A q \in Requests : q # r => job'[q].pc = job[q].pc
      BY <1>0, <1>2, GoroutineStep
    <2>3. HistoryTypes'
      BY <1>0, <2>1, <2>2 DEF HistoryTypes
    <2>4. \A a \in Alerts : Unlogged(a)' \subseteq Unlogged(a)
      BY <2>2 DEF Unlogged
    <2> QED BY <1>0, <2>1, <2>2, <2>3, <2>4, QuietManager
  <1>3. CASE MarkNotifiedCount(b) /\ job' = [job EXCEPT ![r].pc = "log"]
    <2>1. ASSUME NEW a \in Alerts
          PROVE  /\ alerts'[a].state = alerts[a].state
                 /\ alerts'[a].notifyCount = alerts[a].notifyCount + (IF a = b THEN 1 ELSE 0)
      BY <1>0, <1>3 DEF MarkNotifiedCount, DispatchTypes
    <2>2. /\ HandlerTypes' /\ RequestsGoOn
          /\ \A q \in Requests : job'[q].alert = job[q].alert
          /\ job'[r].pc = "log" /\ \A q \in Requests : q # r => job'[q].pc = job[q].pc
      BY <1>0, <1>3, GoroutineStep
    <2>3. HistoryTypes'
      BY <1>0, <2>2 DEF HistoryTypes
    <2>4. /\ RaceInv' /\ FiringIsAccounted'
          /\ \A a \in Alerts : Replays(a)' /\ Notified(a)' = Notified(a)
      BY <1>0, <2>1, <2>2, <2>3, QuietStep
    <2>5. ASSUME NEW a \in Alerts
          PROVE  Cardinality(Notified(a))' + Cardinality(Unlogged(a))' <= alerts'[a].notifyCount
      <3>1. /\ Cardinality(Notified(a)) \in Nat /\ IsFiniteSet(Unlogged(a))
            /\ Cardinality(Unlogged(a)) \in Nat /\ alerts[a].notifyCount \in Nat
        BY <1>0, LogSetsFinite DEF HistoryTypes, DispatchTypes
      <3>2. /\ Cardinality(Notified(a)) + Cardinality(Unlogged(a)) <= alerts[a].notifyCount
            /\ Cardinality(Notified(a))' = Cardinality(Notified(a))
        BY <1>0, <2>4 DEF LogInv
      <3>3. CASE a = b
        <4>1. Unlogged(a)' = Unlogged(a) \cup {r} /\ r \notin Unlogged(a)
          BY <1>0, <1>1, <2>2, <3>3 DEF Unlogged
        <4>2. Cardinality(Unlogged(a))' = Cardinality(Unlogged(a)) + 1
          BY <3>1, <4>1, FS_AddElement
        <4> QED BY <2>1, <3>1, <3>2, <3>3, <4>2
      <3>4. CASE a # b
        <4>1. Unlogged(a)' = Unlogged(a)
          BY <1>0, <1>1, <2>2, <3>4 DEF Unlogged
        <4> QED BY <2>1, <3>1, <3>2, <3>4, <4>1
      <3> QED BY <3>3, <3>4
    <2> QED BY <2>3, <2>4, <2>5 DEF ManagerInv, LogInv
  <1> QED BY <1>1, <1>2, <1>3 DEF MarkCount

LEMMA MarkLogStep ==
  ASSUME ManagerInv, DispatchTypes', NEW r \in Requests, MarkLog(r)
  PROVE  ManagerInv'
  <1>0. /\ UNCHANGED <<alerts, req>> /\ DispatchTypes /\ LogInv /\ RaceInv /\ HistoryTypes
        /\ job[r].pc = "log" /\ job' = [job EXCEPT ![r].pc = "end"]
        /\ history \in [Alerts -> Seq(Events)]
    BY DEF MarkLog, MarkNotifiedLog, storeVars, ManagerInv, HistoryTypes
  <1>1. PICK b \in Alerts : b = job[r].alert
    BY <1>0 DEF DispatchTypes, JobTypes
  <1>2. /\ HandlerTypes' /\ RequestsGoOn
        /\ \A q \in Requests : job'[q].alert = job[q].alert
        /\ job'[r].pc = "end" /\ \A q \in Requests : q # r => job'[q].pc = job[q].pc
    BY <1>0, GoroutineStep
  <1>3. \A a \in Alerts : Unlogged(a)' \subseteq Unlogged(a)
    BY <1>2 DEF Unlogged
  <1>4. CASE UNCHANGED history
    <2>1. HistoryTypes'
      BY <1>0, <1>2, <1>4 DEF HistoryTypes
    <2> QED BY <1>0, <1>2, <1>3, <1>4, <2>1, QuietManager
  <1>5. CASE Log(b, "notified")
    <2>1. Enters(b, "notified") /\ "notified" \in Events
      BY <1>0, <1>5 DEF Enters, Events
    <2>2. /\ Grown /\ history' \in [Alerts -> Seq(Events)]
          /\ \A a \in Alerts : /\ Replays(a)'
                               /\ alerts'[a].state # "firing" => Settled(a, Len(history[a]))'
                               /\ a # b => Notified(a)' = Notified(a)
      BY <2>1, EnteredStep
    <2>3. HistoryTypes'
      BY <1>2, <2>2 DEF HistoryTypes
    <2>4. FiringIsAccounted'
      BY <1>2, <2>1, <2>3, EnteredAccounted
    <2>5. \A q \in Requests : ReadSettled(q)'
      BY <1>0, <1>2, <2>2, <2>3, ReadsStaySettled DEF RaceInv, RequestsGoOn
    <2>6. ASSUME NEW a \in Alerts
          PROVE  Cardinality(Notified(a))' + Cardinality(Unlogged(a))' <= alerts'[a].notifyCount
      <3>1. /\ Cardinality(Notified(a)) \in Nat /\ IsFiniteSet(Unlogged(a))
            /\ Cardinality(Unlogged(a)) \in Nat /\ alerts[a].notifyCount \in Nat
        BY <1>0, LogSetsFinite DEF HistoryTypes, DispatchTypes
      <3>2. /\ Cardinality(Notified(a)) + Cardinality(Unlogged(a)) <= alerts[a].notifyCount
        BY <1>0 DEF LogInv
      <3>3. CASE a = b
        <4>1. Unlogged(a)' = Unlogged(a) \ {r} /\ r \in Unlogged(a)
          BY <1>0, <1>1, <1>2, <3>3 DEF Unlogged
        <4>2. Cardinality(Unlogged(a))' = Cardinality(Unlogged(a)) - 1
          BY <3>1, <4>1, FS_RemoveElement
        <4>3. Cardinality(Notified(a))' = Cardinality(Notified(a)) + 1
          BY <1>0, <1>5, <2>1, <3>3, LogNotified
        <4> QED BY <1>0, <3>1, <3>2, <4>2, <4>3
      <3>4. CASE a # b
        <4>1. Unlogged(a)' = Unlogged(a)
          BY <1>0, <1>1, <1>2, <3>4 DEF Unlogged
        <4> QED BY <1>0, <2>2, <3>2, <3>4, <4>1
      <3> QED BY <3>3, <3>4
    <2> QED BY <2>2, <2>3, <2>4, <2>5, <2>6 DEF ManagerInv, LogInv, RaceInv
  <1> QED BY <1>1, <1>4, <1>5 DEF MarkLog, MarkNotifiedLog, storeVars

\* A crash fails the handlers and ends the goroutines; what is stored stays.
LEMMA CrashStep ==
  ASSUME ManagerInv, DispatchTypes', Crash
  PROVE  ManagerInv'
  <1>0. HistoryTypes /\ HandlerTypes /\ DispatchTypes /\ UNCHANGED <<alerts, history>>
    BY DEF Crash, storeVars, ManagerInv, HistoryTypes
  <1>1. ASSUME NEW q \in Requests
        PROVE  /\ Kept(q)
               /\ req'[q].pc = (IF req[q].pc \in {"idle", "done", "failed"} THEN req[q].pc ELSE "failed")
    <2>1. DOMAIN req[q] = {"pc", "kind", "alert", "silenced", "seen", "readAt", "wroteAt"}
      BY <1>0 DEF DispatchTypes, RequestTypes, NoReq, Request
    <2>2. req'[q] = IF req[q].pc \in {"idle", "done", "failed"} THEN req[q]
                    ELSE [req[q] EXCEPT !.pc = "failed"]
      BY DEF Crash
    <2> QED BY <2>1, <2>2 DEF Kept
  <1>2. ASSUME NEW q \in Requests
        PROVE  /\ job'[q].alert = job[q].alert /\ job'[q].pc \in {"none", "end"}
               /\ job'[q].pc = "none" => job[q].pc = "none"
    <2>1. DOMAIN job[q] = {"pc", "kind", "alert"} /\ (job[q].pc = "none" => job[q].alert = NoAlert)
      BY <1>0 DEF DispatchTypes, JobTypes, NoJob, Dispatch, HandlerTypes
    <2>2. job'[q] = IF job[q].pc = "none" THEN NoJob ELSE [job[q] EXCEPT !.pc = "end"]
      BY DEF Crash
    <2> QED BY <2>1, <2>2 DEF NoJob, Dispatch
  <1>3. HandlerTypes'
    BY <1>0, <1>1, <1>2 DEF HandlerTypes, Kept
  <1>4. HistoryTypes'
    BY <1>0, <1>3 DEF HistoryTypes
  <1>5. RequestsGoOn
    BY <1>1, <1>2 DEF RequestsGoOn, MovesOn
  <1>6. \A a \in Alerts : Unlogged(a)' \subseteq Unlogged(a)
    BY <1>2 DEF Unlogged
  <1> QED BY <1>0, <1>4, <1>5, <1>6, QuietManager
LEMMA ManagerStep ==
  ASSUME CountInv, ManagerInv, [Next]_vars
  PROVE  CountInv' /\ ManagerInv'
  <1>0. CountInv' /\ DispatchTypes' /\ EventAlerts \subseteq Alerts /\ SloAlerts \subseteq Alerts
    BY CountStep, ManagerAssumption DEF CountInv
  <1>1. ASSUME NEW r \in Requests, NEW a \in EventAlerts, EventFiring(r, a)
        PROVE  ManagerInv'
    <2>1. UNCHANGED <<alerts, history, job>>
      BY <1>1 DEF EventFiring, storeVars, dispatchVars
    <2>2. PICK s \in {IsSilenced(a), FALSE} : Arrive(r, Request("select", "firing", a, s))
      BY <1>1 DEF EventFiring
    <2> QED BY <1>0, <2>1, <2>2, ArrivalStep
  <1>2. ASSUME NEW r \in Requests, NEW a \in SloAlerts, Observation(r, a)
        PROVE  ManagerInv'
    BY <1>0, <1>2, ArrivalStep DEF Observation, storeVars, dispatchVars
  <1>3. ASSUME NEW r \in Requests, NEW m \in Matchers, SilenceRequest(r, m)
        PROVE  ManagerInv'
    <2>1. UNCHANGED <<alerts, history, job>> /\ Arrive(r, Request("done", "none", NoAlert, FALSE))
      BY <1>3 DEF SilenceRequest, CreateSilence, storeVars, dispatchVars
    <2> QED BY <1>0, <2>1, ArrivalStep
  <1>4. ASSUME NEW r \in Requests, Handler(r) \/ Dispatcher(r)
        PROVE  ManagerInv'
    BY <1>0, <1>4, SelectStep, CommitStep, NotifyStep, SendStep, MarkCountStep, MarkLogStep
    DEF Handler, Dispatcher
  <1>5. ASSUME NEW c \in Clients,
               Subscribe(c) \/ StreamEvent(c) \/ UnsubscribeDelete(c) \/ UnsubscribeClose(c)
        PROVE  ManagerInv'
    <2>1. UNCHANGED <<alerts, history, req, job, received>>
      BY <1>5 DEF Subscribe, StreamEvent, UnsubscribeDelete, UnsubscribeClose, storeVars, dispatchVars
    <2> QED BY <2>1, RestStep
  <1>6. ASSUME NEW m \in Matchers,
               ExpireSilence(m) /\ UNCHANGED <<req, dispatchVars, hubVars, crashes>>
        PROVE  ManagerInv'
    <2>1. UNCHANGED <<alerts, history, req, job, received>>
      BY <1>6 DEF ExpireSilence, dispatchVars
    <2> QED BY <2>1, RestStep
  <1>7. CASE UNCHANGED vars
    <2>1. UNCHANGED <<alerts, history, req, job, received>>
      BY <1>7 DEF vars, storeVars
    <2> QED BY <1>0, <2>1, RestStep
  <1>8. ASSUME NEW r \in Requests, NEW a \in EventAlerts, EventResolved(r, a)
        PROVE  ManagerInv'
    BY <1>0, <1>8, ResolvedStep
  <1>9. CASE Crash
    BY <1>0, <1>9, CrashStep
  <1>10. ManagerInv'
    BY <1>1, <1>2, <1>3, <1>4, <1>5, <1>6, <1>7, <1>8, <1>9 DEF Next
  <1> QED BY <1>0, <1>10

\* An alert of the past fired once and was resolved.
LEMMA ManagerInit == Init => ManagerInv
  <1> SUFFICES ASSUME Init PROVE ManagerInv
    OBVIOUS
  <1>1. /\ \A r \in Requests : req[r] = NoReq /\ job[r] = NoJob
        /\ DispatchTypes
    BY CountInit DEF Init, CountInv
  <1>2. HandlerTypes
    BY <1>1 DEF HandlerTypes, NoReq, Request, NoJob, Dispatch
  <1>3. ASSUME NEW a \in Alerts
        PROVE  /\ a \in Past => history[a] = <<"created", "resolved">> /\ alerts[a].state = "resolved"
               /\ a \notin Past => history[a] = << >> /\ alerts[a].state = "none"
               /\ alerts[a].notifyCount = 0 /\ history[a] \in Seq(Events)
    <2>1. /\ a \in Past => history[a] = <<"created", "resolved">> /\ alerts[a].state = "resolved"
          /\ a \notin Past => history[a] = << >> /\ alerts[a].state = "none"
          /\ alerts[a].notifyCount = 0
      BY DEF Init, StoreInit
    <2>2. <<"created", "resolved">> \in Seq(Events) /\ << >> \in Seq(Events)
      BY DEF Events
    <2> QED BY <2>1, <2>2
  <1>4. history \in [Alerts -> Seq(Events)]
    BY <1>3 DEF Init, StoreInit
  <1>5. ASSUME NEW a \in Alerts
        PROVE  Replays(a) /\ Notified(a) = {} /\ Settled(a, Len(history[a]))
    <2>1. CASE a \in Past
      <3>1. /\ DOMAIN history[a] = {1, 2} /\ Len(history[a]) = 2
            /\ history[a][1] = "created" /\ history[a][2] = "resolved"
        <4>1. /\ 1 .. 2 = {1, 2} /\ <<"created", "resolved">> \in Seq(Events)
              /\ DOMAIN <<"created", "resolved">> = 1 .. 2 /\ Len(<<"created", "resolved">>) = 2
              /\ <<"created", "resolved">>[1] = "created"
              /\ <<"created", "resolved">>[2] = "resolved"
          BY DEF Events
        <4> QED BY <1>3, <2>1, <4>1
      <3>2. Transitions(a) = {1, 2} /\ Notified(a) = {}
        BY <3>1 DEF Transitions, Notified
      <3>3. LastBefore(a, 3, "resolved") /\ LastBefore(a, 2, "created")
        BY <3>1, <3>2 DEF LastBefore
      <3>4. Replays(a)
        BY <1>3, <2>1, <3>1, <3>2, <3>3 DEF Replays
      <3>5. Settled(a, Len(history[a]))
        BY <3>1 DEF Settled
      <3> QED BY <3>2, <3>4, <3>5
    <2>2. CASE a \notin Past
      <3>1. DOMAIN history[a] = {} /\ Len(history[a]) = 0
        BY <1>3, <2>2
      <3>2. Transitions(a) = {} /\ Notified(a) = {}
        BY <3>1 DEF Transitions, Notified
      <3> QED BY <1>3, <2>2, <3>1, <3>2 DEF Replays, Settled
    <2> QED BY <2>1, <2>2
  <1>6. LogInv
    <2>1. ASSUME NEW a \in Alerts
          PROVE  Cardinality(Notified(a)) = 0 /\ Cardinality(Unlogged(a)) = 0
      <3>1. Unlogged(a) = {}
        BY <1>1 DEF Unlogged, NoJob, Dispatch
      <3> QED BY <1>5, <3>1, FS_EmptySet
    <2> QED BY <1>3, <1>5, <2>1 DEF LogInv
  <1>7. RaceInv
    BY <1>1, <1>5 DEF RaceInv, ReadSettled, NoReq, Request
  <1>8. FiringIsAccounted
    BY <1>3 DEF FiringIsAccounted
  <1> QED BY <1>1, <1>2, <1>4, <1>6, <1>7, <1>8 DEF ManagerInv, HistoryTypes

LEMMA ManagerInvariance == Spec => [](CountInv /\ ManagerInv)
  <1>1. CountInv /\ ManagerInv /\ [Next]_vars => (CountInv /\ ManagerInv)'
    BY ManagerStep
  <1> QED BY <1>1, CountInit, ManagerInit, PTL DEF Spec

\* For any interleaving of requests, goroutines and crashes the alert_history of
\* an alert replays to the state of its row, no firing is resolved twice, and
\* no more notifications are logged than counted.
THEOREM HistoryTellsTheTruth == Spec => []HistoryReplays
  <1>1. ManagerInv => HistoryReplays
    <2> SUFFICES ASSUME ManagerInv, NEW a \in Alerts
                 PROVE  Replays(a) /\ Cardinality(Notified(a)) <= alerts[a].notifyCount
      BY DEF HistoryReplays
    <2>1. /\ Cardinality(Notified(a)) \in Nat /\ Cardinality(Unlogged(a)) \in Nat
          /\ alerts[a].notifyCount \in Nat
      BY LogSetsFinite DEF ManagerInv, HistoryTypes, DispatchTypes
    <2>2. Replays(a) /\ Cardinality(Notified(a)) + Cardinality(Unlogged(a)) <= alerts[a].notifyCount
      BY DEF ManagerInv, LogInv
    <2> QED BY <2>1, <2>2
  <1> QED BY <1>1, ManagerInvariance, PTL

\* Two requests start the same firing of an alert only when the second had read
\* the row before the first committed: UpsertFiring deduplicates all others.
THEOREM OnlyRacesDuplicate == Spec => []DuplicateNeedsRace
  <1>1. ManagerInv => DuplicateNeedsRace
    <2> SUFFICES ASSUME ManagerInv, NEW a \in Alerts, NEW p \in Created(a), NEW q \in Created(a),
                        req[p].wroteAt < req[q].wroteAt,
                        \A i \in req[p].wroteAt .. req[q].wroteAt : history[a][i] # "resolved",
                        ~(req[q].readAt < req[p].wroteAt)
                 PROVE  FALSE
      BY DEF DuplicateNeedsRace
    <2>1. /\ p \in Requests /\ q \in Requests /\ req[p].alert = a /\ req[q].alert = a
          /\ req[p].wroteAt > 0 /\ req[q].wroteAt > 0
      BY DEF Created
    <2>2. /\ req[p].wroteAt \in Nat /\ req[q].wroteAt \in Nat /\ req[q].readAt \in Nat
      BY <2>1 DEF ManagerInv, HistoryTypes, HandlerTypes
    <2>3. /\ history[a][req[p].wroteAt] = "created"
          /\ req[q].readAt < req[q].wroteAt /\ Settled(a, req[q].readAt)
      BY <2>1 DEF ManagerInv, RaceInv, ReadSettled
    <2>4. PICK j \in req[p].wroteAt + 1 .. req[q].readAt : history[a][j] = "resolved"
      BY <2>1, <2>2, <2>3 DEF Settled
    <2> QED BY <2>2, <2>3, <2>4
  <1> QED BY <1>1, ManagerInvariance, PTL

\* Whoever is not told of a firing alert is not told for a known reason: the
\* alert was silenced, the handler failed or died, or is about to tell.
THEOREM FiringsAreAccounted == Spec => []FiringIsAccounted
  <1>1. ManagerInv => FiringIsAccounted
    BY DEF ManagerInv
  <1> QED BY <1>1, ManagerInvariance, PTL
=============================================================================
