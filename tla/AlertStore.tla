----------------------------- MODULE AlertStore -----------------------------
(***************************************************************************)
(* The three tables of src/services/alert-manager/store and the            *)
(* transactions on them, as Postgres runs them at read committed: a SELECT *)
(* sees what is committed when it runs and takes no lock; the writes of a  *)
(* transaction lock the alert's row until it ends, so that they and the    *)
(* commit are one step.  alert_history is kept per fingerprint, in the     *)
(* order of the commits.  A silence is in the set while it is not expired. *)
(***************************************************************************)
EXTENDS Integers, Sequences, FiniteSets

CONSTANTS
    Alerts,     \* fingerprints: one per tenant, rule and label set
    LabelKeys,  \* the keys labels and matchers may use
    Labels,     \* the label set of each alert: [Alerts -> [LabelKeys -> values]]
    Past,       \* the alerts that fired and were resolved before the service started
    Matchers    \* the matchers an operator may create: partial functions on LabelKeys

ASSUME StoreAssumption ==
    /\ Past \subseteq Alerts
    /\ Labels \in [Alerts -> [LabelKeys -> STRING]]
    /\ \A m \in Matchers : DOMAIN m \subseteq LabelKeys

VARIABLES
    alerts,    \* table alerts: state and notify_count per fingerprint
    history,   \* table alert_history: the events per fingerprint
    silences   \* table alert_silences: matchers of the silences not yet expired

storeVars == <<alerts, history, silences>>

StoreInit ==
    /\ alerts = [a \in Alerts |-> [state |-> IF a \in Past THEN "resolved" ELSE "none",
                                  notifyCount |-> 0]]
    /\ history = [a \in Alerts |-> IF a \in Past THEN <<"created", "resolved">> ELSE << >>]
    /\ silences = {}

SetState(a, s) == alerts' = [alerts EXCEPT ![a].state = s]

Log(a, event) == history' = [history EXCEPT ![a] = Append(@, event)]

\* A mutant of NewTransition: every event counts as one.
NewEveryTime(seen) == TRUE

\* What UpsertFiring makes of the state it has read: does the alert fire anew?
NewTransition(seen) == seen # "firing"

\* The INSERT of a first sighting finds a row that another request committed.
KeyTaken(a, seen) == seen = "none" /\ alerts[a].state # "none"

\* The writes and the commit of UpsertFiring, after its SELECT returned seen.
UpsertWrite(a, seen) ==
    /\ ~KeyTaken(a, seen)
    /\ IF NewTransition(seen) THEN SetState(a, "firing") /\ Log(a, "created")
                              ELSE Log(a, "updated") /\ UNCHANGED alerts
    /\ UNCHANGED silences

\* A mutant of Resolve: the history is written whether or not a row changed.
ResolveAlwaysLogs(a) ==
    /\ SetState(a, IF alerts[a].state = "none" THEN "none" ELSE "resolved")
    /\ Log(a, "resolved")
    /\ UNCHANGED silences

\* The UPDATE's own condition decides; no row, no history.
Resolve(a) ==
    /\ IF alerts[a].state = "firing"
       THEN SetState(a, "resolved") /\ Log(a, "resolved")
       ELSE UNCHANGED <<alerts, history>>
    /\ UNCHANGED silences

\* The two statements of MarkNotified, which are not one transaction.
MarkNotifiedCount(a) ==
    /\ alerts' = [alerts EXCEPT ![a].notifyCount = @ + 1]
    /\ UNCHANGED <<history, silences>>

MarkNotifiedLog(a) == Log(a, "notified") /\ UNCHANGED <<alerts, silences>>

CreateSilence(m) ==
    /\ silences' = silences \union {m}
    /\ UNCHANGED <<alerts, history>>

ExpireSilence(m) ==
    /\ m \in silences
    /\ silences' = silences \ {m}
    /\ UNCHANGED <<alerts, history>>

labelsSubset(matcher, candidate) ==
    \A k \in DOMAIN matcher : candidate[k] = matcher[k]

IsSilenced(a) == \E m \in silences : labelsSubset(m, Labels[a])
=============================================================================
