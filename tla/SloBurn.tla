------------------------------ MODULE SloBurn ------------------------------
(***************************************************************************)
(* The multi-window burn-rate evaluator of src/pkg/sloburn for one SLO.    *)
(* Good and bad events are counted in buckets of a minute; Observe trims   *)
(* what no window can reach any more, and Evaluate compares the burn of a  *)
(* long and a short window with each pair's rate.  The error budget is     *)
(* 1/BudgetInv and rates are whole numbers, so that burn rates compare as  *)
(* products; a minute with no bucket counts zero.                          *)
(***************************************************************************)
EXTENDS Integers, Sequences, FiniteSetsExt, Functions

CONSTANTS
    Pairs,      \* the SLO's WindowPairs: a sequence of [long, short, rate, severity]
    BudgetInv,  \* the inverse of errorBudget
    MaxMinute   \* bound on the clock

Minutes == 0 .. MaxMinute
WindowPair == [long : Nat, short : Nat, rate : Nat \ {0},
               severity : {"ticket", "page"}]

ASSUME SloAssumption ==
    /\ MaxMinute \in Nat /\ BudgetInv \in Nat \ {0}
    /\ Pairs \in Seq(WindowPair) /\ Pairs # << >>

\* So in DefaultWindowPairs, the only pairs there are; validate does not ask for
\* it, and a longer short window would miss what Observe has trimmed.
ASSUME ShortWithinLong == \A i \in DOMAIN Pairs : Pairs[i].short <= Pairs[i].long

VARIABLES
    minute,      \* the clock
    registered,  \* the SLO is in Evaluator.slos
    good, bad,   \* sloState: the buckets kept
    seen         \* every event observed since the evaluator was made (history)

sloVars == <<minute, registered, good, bad, seen>>

NoEvents == [m \in Minutes |-> 0]

maxKeep == Max({Pairs[i].long : i \in DOMAIN Pairs})

severityRank(s) == CASE s = "page" -> 2 [] s = "ticket" -> 1 [] OTHER -> 0

SloInit ==
    /\ minute = 0 /\ registered = FALSE
    /\ good = NoEvents /\ bad = NoEvents
    /\ seen = [good |-> NoEvents, bad |-> NoEvents]

\* A new definition under the same name keeps the counters.
Register ==
    /\ registered' = TRUE
    /\ UNCHANGED <<minute, good, bad, seen>>

addToBucket(buckets) == [buckets EXCEPT ![minute] = @ + 1]

\* A mutant of trimOlder: keeps the shortest window instead of the longest.
trimToShort(buckets, cutoff) ==
    [m \in Minutes |-> IF m > minute - Min({Pairs[i].short : i \in DOMAIN Pairs})
                       THEN buckets[m] ELSE 0]

trimOlder(buckets, cutoff) ==
    [m \in Minutes |-> IF m > cutoff THEN buckets[m] ELSE 0]

Observe(isGood) ==
    LET cutoff == minute - maxKeep - 1
    IN  /\ registered
        /\ good' = trimOlder(IF isGood THEN addToBucket(good) ELSE good, cutoff)
        /\ bad'  = trimOlder(IF isGood THEN bad ELSE addToBucket(bad), cutoff)
        /\ seen' = IF isGood THEN [seen EXCEPT !.good = addToBucket(@)]
                             ELSE [seen EXCEPT !.bad = addToBucket(@)]
        /\ UNCHANGED <<minute, registered>>

InWindow(buckets, window) ==
    SumFunction(Restrict(buckets, {m \in Minutes : m > minute - window /\ m <= minute}))

\* burnRate(s, window) >= rate
Burns(g, b, window, rate) ==
    LET nGood == InWindow(g, window)
        nBad  == InWindow(b, window)
    IN  /\ nGood + nBad > 0
        /\ nBad * BudgetInv >= rate * (nGood + nBad)

Tripped(g, b) ==
    {i \in DOMAIN Pairs : /\ Burns(g, b, Pairs[i].long, Pairs[i].rate)
                          /\ Burns(g, b, Pairs[i].short, Pairs[i].rate)}

\* The pairs are walked in stable order of severity: the first that trips wins.
Evaluate ==
    LET Before(i, j) == \/ severityRank(Pairs[i].severity) > severityRank(Pairs[j].severity)
                        \/ /\ Pairs[i].severity = Pairs[j].severity
                           /\ i <= j
        tripped == Tripped(good, bad)
    IN  IF tripped = {} THEN "ok"
        ELSE Pairs[CHOOSE i \in tripped : \A j \in tripped : Before(i, j)].severity

\* What the evaluator has in memory does not survive the process.
SloCrash ==
    /\ registered' = FALSE /\ good' = NoEvents /\ bad' = NoEvents
    /\ seen' = [good |-> NoEvents, bad |-> NoEvents]
    /\ UNCHANGED minute

Tick ==
    /\ minute < MaxMinute
    /\ minute' = minute + 1
    /\ UNCHANGED <<registered, good, bad, seen>>

SloNext ==
    \/ Register
    \/ \E isGood \in BOOLEAN : Observe(isGood)
    \/ SloCrash \/ Tick

SloSpec == SloInit /\ [][SloNext]_sloVars

----------------------------------------------------------------------------
(***************************************************************************)
(* Evaluate decides on a registered SLO as if nothing had ever been        *)
(* trimmed: it pages exactly when a paging pair burns over the whole       *)
(* record of events, and opens a ticket exactly when only a ticket pair    *)
(* does (Observe's cutoff of maxKeep plus a minute, burnRate's window      *)
(* bounds, the order of pairs).                                            *)
(***************************************************************************)
BurnDecisionExact == registered =>
    LET tripped == {Pairs[i].severity : i \in Tripped(seen.good, seen.bad)}
    IN  /\ (Evaluate = "page") <=> ("page" \in tripped)
        /\ (Evaluate = "ok") <=> (tripped = {})

----------------------------------------------------------------------------
\* The inductive invariant behind it: what a window can still reach, and a
\* minute more, has not been trimmed.
SloInv ==
    /\ minute \in Minutes
    /\ good \in [Minutes -> Nat] /\ bad \in [Minutes -> Nat]
    /\ seen \in [good : [Minutes -> Nat], bad : [Minutes -> Nat]]
    /\ \A m \in Minutes : m > minute - maxKeep - 1 =>
          good[m] = seen.good[m] /\ bad[m] = seen.bad[m]
=============================================================================
