-------------------------- MODULE TelemetryProofs --------------------------
(***************************************************************************)
(* Theorems about three parts that share no state: which traces the        *)
(* sampler keeps, for any traces, scores and bound of its queue; when the  *)
(* burn-rate evaluator pages, for any pairs of windows; and which rows the *)
(* live tail shows a client, for any rows, batch size and look-back.       *)
(***************************************************************************)
EXTENDS Sampler, SloBurn, LogTail, FiniteSetTheorems, TLAPS

(* The sampler *)

LEMMA ScoreIsNat ==
  ASSUME NEW a \in SpanScores
  PROVE  Score(a) \in Nat
  BY SamplerAssumption DEF Score

\* Popping the worst leaves a part of the queue, within the bound.
LEMMA TrimmedIsBounded ==
  ASSUME NEW q, IsFiniteSet(q), NEW kept \in Trimmed(q)
  PROVE  kept \subseteq q /\ IsFiniteSet(kept) /\ Cardinality(kept) <= MaxSize
  <1>1. kept \subseteq q /\ Cardinality(kept) = IF Cardinality(q) > MaxSize THEN MaxSize ELSE Cardinality(q)
    BY DEF Trimmed
  <1>2. Cardinality(q) \in Nat
    BY FS_CardinalityType
  <1>3. IsFiniteSet(kept)
    BY <1>1, FS_Subset
  <1> QED
    BY <1>1, <1>2, <1>3, SamplerAssumption

LEMMA DecideKeepsInv ==
  ASSUME SamplerInv, NEW t \in Traces, NEW a \in SpanScores, Decide(t, a)
  PROVE  SamplerInv'
  <1> DEFINE item == [trace |-> t, score |-> Score(a), at |-> clock]
             others == {x \in pq : x.trace # t}
  <1>1. /\ pq' \in Trimmed(others \union {item}) /\ clock' = clock
        /\ seenTraces' = [seenTraces EXCEPT ![t] = clock]
        /\ spans' = [spans EXCEPT ![t] = clock]
    BY DEF Decide, Remember
  <1>2. /\ clock \in Nat /\ spans \in [Traces -> Int] /\ seenTraces = spans /\ IsFiniteSet(pq)
        /\ KeptWithSibling
    BY DEF SamplerInv
  <1>3. clock' \in Nat /\ spans' \in [Traces -> Int] /\ seenTraces' = spans'
    BY <1>1, <1>2
  <1>4. IsFiniteSet(others \union {item})
    <2>1. IsFiniteSet(others)
      BY <1>2, FS_Subset
    <2> QED
      BY <2>1, FS_AddElement
  <1>5. pq' \subseteq others \union {item} /\ IsFiniteSet(pq') /\ Cardinality(pq') <= MaxSize
    BY <1>1, <1>4, TrimmedIsBounded
  <1>6. \A x, y \in pq' : x.trace = y.trace => x = y
    <2>1. \A x, y \in others : x.trace = y.trace => x = y
      BY <1>2 DEF KeptWithSibling
    <2>2. item.trace = t /\ \A x \in others : x.trace # t
      OBVIOUS
    <2> HIDE DEF item, others
    <2> QED
      BY <2>1, <2>2, <1>5
  <1>7. ~verdict'.keep => verdict'.score < 50 /\ verdict'.before \notin 0 .. Memory - 1
    <2>1. PICK old : old = spans[t] /\ old = seenTraces[t] /\ old \in Int
      BY <1>2
    <2>2. /\ verdict'.keep = Verdict(Score(a), old, Cardinality(pq'))
          /\ verdict'.score = Score(a)
          /\ verdict'.before = IF old = -1 THEN -1 ELSE clock - old
      BY <2>1 DEF Decide
    <2>3. ~verdict'.keep => /\ ~(Score(a) >= 50)
                            /\ ~(old # -1 /\ clock - old < Memory)
      BY <2>2 DEF Verdict
    <2> QED
      BY <2>1, <2>2, <2>3, <1>2, ScoreIsNat, SamplerAssumption
  <1> QED
    BY <1>3, <1>5, <1>6, <1>7 DEF SamplerInv, KeptWithSibling

(***************************************************************************)
(* AdaptiveSampler never drops a span within Memory of a sibling, nor an   *)
(* error or a slow one, and its queue keeps to its bound, for every order  *)
(* of spans and every choice among items that tie: KeptWithSibling is an   *)
(* invariant.                                                              *)
(***************************************************************************)
THEOREM SiblingsAreKept ==
  SamplerSpec => []KeptWithSibling
  <1>1. SamplerInit => SamplerInv
    <2> SUFFICES ASSUME SamplerInit PROVE SamplerInv
      OBVIOUS
    <2>1. IsFiniteSet(pq) /\ Cardinality(pq) = 0
      BY FS_EmptySet DEF SamplerInit
    <2>2. clock \in Nat /\ spans \in [Traces -> Int] /\ seenTraces = spans
      BY DEF SamplerInit
    <2>3. KeptWithSibling
      BY <2>1, SamplerAssumption DEF SamplerInit, KeptWithSibling
    <2> QED
      BY <2>1, <2>2, <2>3 DEF SamplerInv
  <1>2. SamplerInv /\ [SamplerNext]_samplerVars => SamplerInv'
    <2> SUFFICES ASSUME SamplerInv, [SamplerNext]_samplerVars PROVE SamplerInv'
      OBVIOUS
    <2>1. ASSUME NEW t \in Traces, NEW a \in SpanScores, Decide(t, a) PROVE SamplerInv'
      BY <2>1, DecideKeepsInv
    <2>2. CASE SamplerTick
      BY <2>2 DEF SamplerTick, SamplerInv, KeptWithSibling
    <2>3. CASE UNCHANGED samplerVars
      BY <2>3 DEF samplerVars, SamplerInv, KeptWithSibling
    <2> QED
      BY <2>1, <2>2, <2>3 DEF SamplerNext
  <1>3. SamplerInv => KeptWithSibling
    BY DEF SamplerInv
  <1> QED
    BY <1>1, <1>2, <1>3, PTL DEF SamplerSpec

----------------------------------------------------------------------------
(* The burn-rate evaluator *)

\* A set of naturals that is not empty has a least element.
LEMMA LeastOf ==
  ASSUME NEW T \in SUBSET Nat, T # {}
  PROVE  \E x \in T : \A y \in T : x <= y
  <1> DEFINE R == {p \in Nat \X Nat : p[1] < p[2]}
  <1>1. IsWellFoundedOn(R, Nat)
    <2>1. IsWellFoundedOn(OpToRel(<,Nat), Nat)
      BY NatLessThanWellFounded
    <2>2. R \cap (Nat \X Nat) \subseteq OpToRel(<,Nat)
      BY DEF OpToRel
    <2> HIDE DEF R
    <2> QED
      BY <2>1, <2>2, IsWellFoundedOnSubrelation
  <1>2. PICK x \in T : \A y \in T : ~(<<y, x>> \in R)
    <2> HIDE DEF R
    <2> QED
      BY <1>1, WFMin
  <1>3. ASSUME NEW y \in T PROVE x <= y
    <2>1. ~(<<y, x>> \in R) /\ x \in Nat /\ y \in Nat
      BY <1>2
    <2>2. ~(y < x)
      BY <2>1
    <2> QED
      BY <2>1, <2>2
  <1> QED
    BY <1>3

\* A list of numbers has a largest: the shortest list without one would have it.
LEMMA LargestOf ==
  ASSUME NEW n \in Nat \ {0}, NEW f \in [1 .. n -> Nat]
  PROVE  \E i \in 1 .. n : \A j \in 1 .. n : f[j] <= f[i]
  <1> DEFINE Has(k) == \E i \in 1 .. k : \A j \in 1 .. k : f[j] <= f[i]
             none == {k \in 1 .. n : ~Has(k)}
  <1>1. SUFFICES ASSUME none # {} PROVE FALSE
    <2>1. n \in 1 .. n
      OBVIOUS
    <2> QED
      BY <2>1
  <1>2. none \in SUBSET Nat
    OBVIOUS
  <1>3. PICK k \in none : \A j \in none : k <= j
    <2> HIDE DEF none
    <2> QED
      BY <1>1, <1>2, LeastOf
  <1>4. k \in 1 .. n /\ ~Has(k)
    BY <1>3
  <1>5. k # 1
    <2>1. Has(1)
      <3>1. 1 \in 1 .. 1 /\ \A j \in 1 .. 1 : f[j] <= f[1]
        OBVIOUS
      <3> QED
        BY <3>1
    <2> QED
      BY <2>1, <1>4
  <1>6. k - 1 \in 1 .. n
    BY <1>4, <1>5
  <1>7. Has(k - 1)
    <2>1. ~(k <= k - 1)
      BY <1>4
    <2>2. k - 1 \notin none
      BY <2>1, <1>3
    <2> QED
      BY <2>2, <1>6
  <1>8. PICK i \in 1 .. k - 1 : \A j \in 1 .. k - 1 : f[j] <= f[i]
    BY <1>7
  <1>9. /\ \A j \in 1 .. k : j \in 1 .. k - 1 \/ j = k
        /\ i \in 1 .. k /\ k \in 1 .. k /\ f[i] \in Nat /\ f[k] \in Nat
        /\ \A j \in 1 .. k - 1 : f[j] \in Nat
    BY <1>4, <1>8
  <1>10. CASE f[k] <= f[i]
    <2>1. \A j \in 1 .. k : f[j] <= f[i]
      BY <1>8, <1>9, <1>10
    <2> QED
      BY <2>1, <1>9, <1>4
  <1>11. CASE ~(f[k] <= f[i])
    <2>1. \A j \in 1 .. k : f[j] <= f[k]
      BY <1>8, <1>9, <1>11
    <2> QED
      BY <2>1, <1>9, <1>4
  <1> QED
    BY <1>10, <1>11

\* maxKeep is the longest window of all.
LEMMA MaxKeepCovers ==
  /\ maxKeep \in Nat
  /\ \A i \in DOMAIN Pairs : /\ Pairs[i] \in WindowPair /\ Pairs[i].long <= maxKeep
  <1>1. PICK n \in Nat \ {0} : DOMAIN Pairs = 1 .. n
    BY SloAssumption
  <1>2. \A i \in 1 .. n : Pairs[i] \in WindowPair /\ Pairs[i].long \in Nat
    <2>1. \A i \in 1 .. n : Pairs[i] \in WindowPair
      BY <1>1, SloAssumption
    <2>2. \A w \in WindowPair : w.long \in Nat
      BY DEF WindowPair
    <2> QED
      BY <2>1, <2>2
  <1> DEFINE f == [i \in 1 .. n |-> Pairs[i].long]
             longs == {Pairs[i].long : i \in DOMAIN Pairs}
  <1>3. PICK i \in 1 .. n : \A j \in 1 .. n : Pairs[j].long <= Pairs[i].long
    <2>1. f \in [1 .. n -> Nat]
      BY <1>2
    <2> HIDE DEF f
    <2>2. PICK i \in 1 .. n : \A j \in 1 .. n : f[j] <= f[i]
      BY <2>1, LargestOf
    <2> QED
      BY <2>2 DEF f
  <1>4. \E x \in longs : \A y \in longs : x >= y
    <2>1. \A j \in 1 .. n : Pairs[i].long >= Pairs[j].long
      BY <1>2, <1>3
    <2> QED
      BY <2>1, <1>1
  <1>5. maxKeep \in longs /\ \A y \in longs : maxKeep >= y
    BY <1>4, Zenon DEF maxKeep, Max
  <1>6. maxKeep \in Nat
    BY <1>1, <1>2, <1>5
  <1> QED
    BY <1>1, <1>2, <1>5, <1>6

\* A window that reaches no further back than two records agree sums up the
\* same of both.
LEMMA SameInWindow ==
  ASSUME NEW g, NEW h, NEW window, window \in Nat, window <= maxKeep, minute \in Nat,
         \A m \in Minutes : m > minute - maxKeep - 1 => g[m] = h[m]
  PROVE  InWindow(g, window) = InWindow(h, window)
  <1> DEFINE W == {m \in Minutes : m > minute - window /\ m <= minute}
  <1>1. \A m \in W : m > minute - maxKeep - 1
    BY MaxKeepCovers, SloAssumption DEF Minutes
  <1>2. \A m \in W : g[m] = h[m]
    BY <1>1
  <1>3. Restrict(g, W) = Restrict(h, W)
    BY <1>2 DEF Restrict
  <1> QED
    BY <1>3 DEF InWindow

LEMMA TrippedAsSeen ==
  ASSUME SloInv
  PROVE  Tripped(good, bad) = Tripped(seen.good, seen.bad)
  <1>1. /\ minute \in Nat
        /\ \A m \in Minutes : m > minute - maxKeep - 1 => good[m] = seen.good[m]
        /\ \A m \in Minutes : m > minute - maxKeep - 1 => bad[m] = seen.bad[m]
    BY SloAssumption DEF SloInv, Minutes
  <1>2. ASSUME NEW i \in DOMAIN Pairs
        PROVE  /\ Pairs[i].long \in Nat /\ Pairs[i].long <= maxKeep
               /\ Pairs[i].short \in Nat /\ Pairs[i].short <= maxKeep
    <2>1. \A w \in WindowPair : w.long \in Nat /\ w.short \in Nat
      BY DEF WindowPair
    <2>2. Pairs[i] \in WindowPair /\ Pairs[i].long <= maxKeep /\ maxKeep \in Nat
      BY MaxKeepCovers
    <2>3. Pairs[i].short <= Pairs[i].long
      BY ShortWithinLong
    <2> QED
      BY <2>1, <2>2, <2>3
  <1>3. ASSUME NEW w \in Nat, w <= maxKeep, NEW rate
        PROVE  Burns(good, bad, w, rate) <=> Burns(seen.good, seen.bad, w, rate)
    <2>1. InWindow(good, w) = InWindow(seen.good, w)
      BY <1>1, <1>3, SameInWindow
    <2>2. InWindow(bad, w) = InWindow(seen.bad, w)
      BY <1>1, <1>3, SameInWindow
    <2> QED
      BY <2>1, <2>2 DEF Burns
  <1>4. ASSUME NEW i \in DOMAIN Pairs
        PROVE  i \in Tripped(good, bad) <=> i \in Tripped(seen.good, seen.bad)
    <2>1. /\ Burns(good, bad, Pairs[i].long, Pairs[i].rate)
                <=> Burns(seen.good, seen.bad, Pairs[i].long, Pairs[i].rate)
          /\ Burns(good, bad, Pairs[i].short, Pairs[i].rate)
                <=> Burns(seen.good, seen.bad, Pairs[i].short, Pairs[i].rate)
      BY <1>2, <1>3
    <2> QED
      BY <2>1 DEF Tripped
  <1> QED
    BY <1>4 DEF Tripped

\* The walk over the pairs ends at a paging pair if one has tripped.
LEMMA WalkFindsTheWorst ==
  ASSUME NEW T \in SUBSET DOMAIN Pairs, T = Tripped(good, bad)
  PROVE  /\ Evaluate = "ok" <=> T = {}
         /\ Evaluate = "page" <=> \E i \in T : Pairs[i].severity = "page"
  <1> DEFINE Before(i, j) ==
               \/ severityRank(Pairs[i].severity) > severityRank(Pairs[j].severity)
               \/ /\ Pairs[i].severity = Pairs[j].severity
                  /\ i <= j
             first == CHOOSE i \in T : \A j \in T : Before(i, j)
  <1>1. \A i \in T : Pairs[i].severity \in {"ticket", "page"} /\ i \in Nat
    <2>1. \A w \in WindowPair : w.severity \in {"ticket", "page"}
      BY DEF WindowPair
    <2>2. \A i \in T : Pairs[i] \in WindowPair
      BY MaxKeepCovers
    <2>3. \A i \in DOMAIN Pairs : i \in Nat
      BY SloAssumption
    <2> QED
      BY <2>1, <2>2, <2>3
  <1>2. Evaluate = IF T = {} THEN "ok" ELSE Pairs[first].severity
    BY DEF Evaluate
  <1>3. T # {} => \E i \in T : \A j \in T : Before(i, j)
    <2> SUFFICES ASSUME T # {} PROVE \E i \in T : \A j \in T : Before(i, j)
      OBVIOUS
    <2> DEFINE pages == {i \in T : Pairs[i].severity = "page"}
    <2>1. CASE pages # {}
      <3>1. pages \in SUBSET Nat
        BY <1>1
      <3>2. PICK i \in pages : \A j \in pages : i <= j
        <4> HIDE DEF pages
        <4> QED
          BY <2>1, <3>1, LeastOf
      <3>3. ASSUME NEW j \in T PROVE Before(i, j)
        <4>1. CASE j \in pages
          BY <4>1, <3>2
        <4>2. CASE j \notin pages
          BY <4>2, <3>2, <1>1 DEF severityRank
        <4> QED
          BY <4>1, <4>2
      <3> QED
        BY <3>2, <3>3
    <2>2. CASE pages = {}
      <3>1. T \in SUBSET Nat
        BY <1>1
      <3>2. PICK i \in T : \A j \in T : i <= j
        BY <3>1, LeastOf
      <3>3. \A j \in T : Pairs[j].severity = "ticket"
        BY <2>2, <1>1
      <3> QED
        BY <3>2, <3>3
    <2> QED
      BY <2>1, <2>2
  <1>4. T # {} => first \in T /\ \A j \in T : Before(first, j)
    BY <1>3, Zenon
  <1> HIDE DEF first
  <1>5. ASSUME NEW i \in T, Pairs[i].severity = "page" PROVE Pairs[first].severity = "page"
    <2>1. first \in T /\ Before(first, i)
      BY <1>4, <1>5
    <2> QED
      BY <2>1, <1>1, <1>5 DEF severityRank
  <1> QED
    BY <1>1, <1>2, <1>4, <1>5

LEMMA ObserveKeepsSlo ==
  ASSUME SloInv, NEW isGood \in BOOLEAN, Observe(isGood)
  PROVE  SloInv'
  <1>1. PICK k : k = minute
    OBVIOUS
  <1>2. /\ k \in Minutes /\ good \in [Minutes -> Nat] /\ bad \in [Minutes -> Nat]
        /\ seen \in [good : [Minutes -> Nat], bad : [Minutes -> Nat]]
        /\ seen.good \in [Minutes -> Nat] /\ seen.bad \in [Minutes -> Nat]
        /\ \A m \in Minutes : m > k - maxKeep - 1 => good[m] = seen.good[m] /\ bad[m] = seen.bad[m]
    BY <1>1 DEF SloInv
  <1>3. minute' = k
    BY <1>1 DEF Observe
  <1>4. /\ good' \in [Minutes -> Nat] /\ bad' \in [Minutes -> Nat]
        /\ \A m \in Minutes : m > k - maxKeep - 1 =>
              /\ good'[m] = good[m] + (IF isGood /\ m = k THEN 1 ELSE 0)
              /\ bad'[m] = bad[m] + (IF ~isGood /\ m = k THEN 1 ELSE 0)
    <2>1. CASE isGood
      BY <2>1, <1>1, <1>2 DEF Observe, trimOlder, addToBucket
    <2>2. CASE ~isGood
      BY <2>2, <1>1, <1>2 DEF Observe, trimOlder, addToBucket
    <2> QED
      BY <2>1, <2>2
  <1>5. /\ seen' \in [good : [Minutes -> Nat], bad : [Minutes -> Nat]]
        /\ \A m \in Minutes :
              /\ seen'.good[m] = seen.good[m] + (IF isGood /\ m = k THEN 1 ELSE 0)
              /\ seen'.bad[m] = seen.bad[m] + (IF ~isGood /\ m = k THEN 1 ELSE 0)
    <2>1. CASE isGood
      BY <2>1, <1>1, <1>2 DEF Observe, addToBucket
    <2>2. CASE ~isGood
      BY <2>2, <1>1, <1>2 DEF Observe, addToBucket
    <2> QED
      BY <2>1, <2>2
  <1>6. \A m \in Minutes : m > k - maxKeep - 1 => good'[m] = seen'.good[m] /\ bad'[m] = seen'.bad[m]
    BY <1>2, <1>4, <1>5
  <1> QED
    BY <1>2, <1>3, <1>4, <1>5, <1>6 DEF SloInv

(***************************************************************************)
(* Evaluate pages and opens tickets as if Observe had never trimmed a      *)
(* bucket, for any list of window pairs whose short windows are no longer  *)
(* than the long ones: BurnDecisionExact is an invariant.                  *)
(***************************************************************************)
THEOREM TrimmingChangesNoDecision ==
  SloSpec => []BurnDecisionExact
  <1>1. SloInit => SloInv
    <2> SUFFICES ASSUME SloInit PROVE SloInv
      OBVIOUS
    <2>1. NoEvents \in [Minutes -> Nat] /\ minute \in Minutes
      BY SloAssumption DEF SloInit, NoEvents, Minutes
    <2> QED
      BY <2>1 DEF SloInit, SloInv
  <1>2. SloInv /\ [SloNext]_sloVars => SloInv'
    <2> SUFFICES ASSUME SloInv, [SloNext]_sloVars PROVE SloInv'
      OBVIOUS
    <2>1. ASSUME NEW isGood \in BOOLEAN, Observe(isGood) PROVE SloInv'
      BY <2>1, ObserveKeepsSlo
    <2>2. CASE SloCrash
      <3>1. NoEvents \in [Minutes -> Nat]
        BY DEF NoEvents
      <3> QED
        BY <3>1, <2>2 DEF SloCrash, SloInv
    <2>3. CASE Tick
      <3>1. minute' = minute + 1 /\ minute' \in Minutes /\ UNCHANGED <<good, bad, seen>>
        BY <2>3, SloAssumption DEF Tick, SloInv, Minutes
      <3>2. \A m \in Minutes : m > minute' - maxKeep - 1 => m > minute - maxKeep - 1
        BY <3>1, MaxKeepCovers, SloAssumption DEF SloInv, Minutes
      <3> QED
        BY <3>1, <3>2 DEF SloInv
    <2>4. CASE Register \/ UNCHANGED sloVars
      BY <2>4 DEF Register, sloVars, SloInv
    <2> QED
      BY <2>1, <2>2, <2>3, <2>4 DEF SloNext
  <1>3. SloInv => BurnDecisionExact
    <2> SUFFICES ASSUME SloInv PROVE BurnDecisionExact
      OBVIOUS
    <2>1. PICK T : T = Tripped(good, bad) /\ T = Tripped(seen.good, seen.bad)
      BY TrippedAsSeen
    <2>2. T \in SUBSET DOMAIN Pairs
      BY <2>1 DEF Tripped
    <2>3. /\ Evaluate = "ok" <=> T = {}
          /\ Evaluate = "page" <=> \E i \in T : Pairs[i].severity = "page"
      BY <2>1, <2>2, WalkFindsTheWorst
    <2> QED
      BY <2>1, <2>3 DEF BurnDecisionExact
  <1> QED
    BY <1>1, <1>2, <1>3, PTL DEF SloSpec

----------------------------------------------------------------------------
(* The live tail of logs *)

\* What a cursor is cut down to: no more than it, and in the order of the cursors.
LEMMA BoundOfCursor ==
  /\ \A x \in Nat : Bound(x) \in Nat /\ Bound(x) <= x
  /\ \A x, y \in Nat : x <= y => Bound(x) <= Bound(y)
  <1>1. Second \in Nat /\ Second > 0
    BY TailAssumption
  <1>2. ASSUME NEW x \in Nat
        PROVE  \E p \in Nat : x = Second * p + (x % Second) /\ x % Second \in 0 .. Second - 1
                              /\ Second * p \in Nat /\ Bound(x) = Second * p
    <2>1. x = Second * (x \div Second) + (x % Second) /\ x % Second \in 0 .. Second - 1
      BY <1>1
    <2>2. x \div Second \in Nat
      BY <1>1
    <2>3. Second * (x \div Second) \in Nat
      BY <1>1, <2>2
    <2>4. Bound(x) = x - (x % Second)
      BY DEF Bound
    <2>5. PICK s \in Nat : s = Second * (x \div Second)
      BY <2>3
    <2>6. Bound(x) = s
      BY <2>1, <2>4, <2>5
    <2> QED
      BY <2>1, <2>2, <2>5, <2>6
  <1>3. \A x \in Nat : Bound(x) \in Nat /\ Bound(x) <= x
    <2> SUFFICES ASSUME NEW x \in Nat PROVE Bound(x) \in Nat /\ Bound(x) <= x
      OBVIOUS
    <2>1. PICK p \in Nat : /\ x = Second * p + (x % Second) /\ x % Second \in 0 .. Second - 1
                           /\ Second * p \in Nat /\ Bound(x) = Second * p
      BY <1>2
    <2> QED
      BY <2>1, <1>1
  <1>4. ASSUME NEW x \in Nat, NEW y \in Nat, x <= y PROVE Bound(x) <= Bound(y)
    <2>1. PICK p \in Nat : /\ x = Second * p + (x % Second) /\ x % Second \in 0 .. Second - 1
                           /\ Second * p \in Nat /\ Bound(x) = Second * p
      BY <1>2
    <2>2. PICK q \in Nat : /\ y = Second * q + (y % Second) /\ y % Second \in 0 .. Second - 1
                           /\ Second * q \in Nat /\ Bound(y) = Second * q
      BY <1>2
    <2>3. CASE p <= q
      <3>1. PICK z \in Nat : q = p + z
        <4>1. q - p \in Nat /\ q = p + (q - p)
          BY <2>3
        <4> QED
          BY <4>1
      <3>2. Second * (p + z) = Second * p + Second * z /\ Second * z \in Nat
        BY <1>1
      <3> QED
        BY <3>1, <3>2, <2>1, <2>2
    <2>4. CASE ~(p <= q)
      <3>1. PICK z \in Nat : p = q + 1 + z
        <4>1. p - q - 1 \in Nat /\ p = q + 1 + (p - q - 1)
          BY <2>4
        <4> QED
          BY <4>1
      <3>2. Second * (q + 1 + z) = Second * q + Second + Second * z /\ Second * z \in Nat
        BY <1>1
      <3>3. Second * p >= Second * q + Second
        BY <3>1, <3>2, <1>1, <2>2
      <3>4. y < Second * q + Second
        BY <2>2, <1>1
      <3>5. x >= Second * p
        BY <2>1, <1>1
      <3> QED
        BY <3>3, <3>4, <3>5, <2>1, <2>2, <1>1, <1>4
    <2> QED
      BY <2>3, <2>4
  <1> QED
    BY <1>3, <1>4

\* A full answer or a complete one: what of the matches it leaves out is no
\* older than its last row, and then it is full.
LEMMA AnswerIsOldest ==
  ASSUME TailTypes, NEW a \in Answers
  PROVE  /\ a \in Seq(DOMAIN logs) /\ IsInjective(a)
         /\ \A i \in DOMAIN a : a[i] \in DOMAIN logs /\ logs[a[i]] > Bound(lastSeen)
         /\ \A i, j \in DOMAIN a : i < j => logs[a[i]] <= logs[a[j]]
         /\ \A r \in Matches : r \in Range(a)
                \/ (Len(a) = BatchCap /\ \A i \in DOMAIN a : logs[a[i]] <= logs[r])
  <1> DEFINE n == IF Cardinality(Matches) < BatchCap THEN Cardinality(Matches) ELSE BatchCap
  <1>1. /\ a \in [1 .. n -> Matches] /\ IsInjective(a)
        /\ \A i, j \in 1 .. n : i < j => logs[a[i]] <= logs[a[j]]
        /\ \A r \in Matches \ Range(a) : \A i \in 1 .. n : logs[a[i]] <= logs[r]
    BY DEF Answers
  <1>2. Matches \subseteq DOMAIN logs /\ \A r \in Matches : logs[r] > Bound(lastSeen)
    BY DEF Matches
  <1>3. IsFiniteSet(Matches)
    BY <1>2, FS_Subset DEF TailTypes
  <1>4. Cardinality(Matches) \in Nat
    BY <1>3, FS_CardinalityType
  <1>5. n \in Nat /\ (n # BatchCap => n = Cardinality(Matches))
    BY <1>4, TailAssumption
  <1> HIDE DEF n
  <1>6. a \in Seq(DOMAIN logs) /\ Len(a) = n /\ DOMAIN a = 1 .. n
    BY <1>1, <1>2, <1>5
  <1>7. \A i \in DOMAIN a : a[i] \in DOMAIN logs /\ logs[a[i]] > Bound(lastSeen)
    BY <1>1, <1>2, <1>6
  <1>8. n # BatchCap => \A r \in Matches : r \in Range(a)
    <2> SUFFICES ASSUME n # BatchCap PROVE \A r \in Matches : r \in Range(a)
      OBVIOUS
    <2>1. IsFiniteSet(1 .. n) /\ Cardinality(1 .. n) = n
      BY <1>5, FS_Interval
    <2>2. a \in Injection(1 .. n, Matches)
      BY <1>1 DEF Injection
    <2>3. a \in Surjection(1 .. n, Matches)
      BY <2>1, <2>2, <1>3, <1>5, FS_Injection
    <2> QED
      BY <2>3, <1>6 DEF Surjection, Range
  <1> QED
    BY <1>1, <1>6, <1>7, <1>8

LEMMA TailInitInv ==
  TailInit => TailInv
  <1> SUFFICES ASSUME TailInit PROVE TailInv
    OBVIOUS
  <1>1. /\ DOMAIN logs = {} /\ DOMAIN batch = {} /\ sent = {} /\ repeats = {}
        /\ batch \in Seq(DOMAIN logs)
    BY DEF TailInit
  <1>2. TailTypes
    <2>1. logs \in [DOMAIN logs -> Nat]
      BY <1>1 DEF TailInit
    <2> QED
      BY <2>1, <1>1, FS_EmptySet, TailAssumption DEF TailInit, TailTypes
  <1>3. CursorInv
    BY <1>1 DEF CursorInv, IsInjective
  <1>4. ReadInv
    BY DEF ReadInv, TailInit
  <1> QED
    BY <1>2, <1>3, <1>4 DEF TailInv

\* The cursor never goes beyond where the answer in hand leads it.
LEMMA CursorWithinRead ==
  ASSUME TailTypes
  PROVE  /\ ReadTo \in Nat /\ lastSeen \in Nat /\ lastSeen <= ReadTo
         /\ batch # << >> => Last(batch) \in DOMAIN logs /\ Last(batch) = batch[Len(batch)]
  <1>1. lastSeen \in Nat /\ \A x \in DOMAIN logs : logs[x] \in Nat
    BY DEF TailTypes
  <1>2. CASE batch = << >>
    BY <1>1, <1>2 DEF ReadTo
  <1>3. CASE batch # << >>
    <2>1. Last(batch) \in DOMAIN logs /\ Last(batch) = batch[Len(batch)]
      BY <1>3 DEF Last, TailTypes
    <2>2. logs[Last(batch)] \in Nat
      BY <1>1, <2>1
    <2> QED
      BY <1>1, <1>3, <2>1, <2>2 DEF ReadTo, TimestampAfter
  <1> QED
    BY <1>2, <1>3

\* A row becomes visible: the cursor stays, and a row behind its bound is late.
LEMMA RowVisibleKeepsInv ==
  ASSUME TailInv, NEW r \in Rows, NEW ts \in 1 .. MaxNow, RowVisible(r, ts)
  PROVE  TailInv'
  <1>1. /\ r \notin DOMAIN logs
        /\ logs' = [x \in DOMAIN logs \union {r} |-> IF x = r THEN ts ELSE logs[x]]
        /\ late' = IF tail = "open" /\ ts <= Bound(ReadTo) THEN late \union {r} ELSE late
        /\ UNCHANGED <<now, tail, lastSeen, batch, sent, repeats, from, cuts>>
    BY DEF RowVisible
  <1>2. TailTypes /\ CursorInv /\ ReadInv
    BY DEF TailInv
  <1>3. /\ DOMAIN logs' = DOMAIN logs \union {r} /\ logs'[r] = ts
        /\ \A x \in DOMAIN logs : x # r /\ logs'[x] = logs[x]
    BY <1>1
  <1>4. /\ batch \in Seq(DOMAIN logs) /\ sent \subseteq DOMAIN logs /\ repeats \subseteq DOMAIN logs
        /\ \A i \in DOMAIN batch : batch[i] \in DOMAIN logs
    BY <1>2 DEF TailTypes
  <1>5. TailTypes'
    <2>1. IsFiniteSet(DOMAIN logs')
      BY <1>2, <1>3, FS_AddElement DEF TailTypes
    <2>2. logs' \in [DOMAIN logs' -> Nat]
      BY <1>1, <1>2, <1>3 DEF TailTypes
    <2>3. batch' \in Seq(DOMAIN logs') /\ sent' \subseteq DOMAIN logs'
      BY <1>1, <1>3, <1>4
    <2> QED
      BY <2>1, <2>2, <2>3, <1>1, <1>2 DEF TailTypes
  <1>6. CursorInv'
    <2>1. /\ \A i \in DOMAIN batch : logs'[batch[i]] = logs[batch[i]]
          /\ \A q \in sent : logs'[q] = logs[q]
          /\ \A q \in repeats : logs'[q] = logs[q]
      BY <1>3, <1>4
    <2>2. UNCHANGED <<sent, repeats, batch, lastSeen>>
      BY <1>1
    <2>3. /\ \A q \in sent : logs'[q] <= lastSeen
          /\ \A i, j \in DOMAIN batch : i < j => logs'[batch[i]] <= logs'[batch[j]]
          /\ \A q \in sent, i \in DOMAIN batch :
               /\ Bound(logs'[q]) <= logs'[batch[i]]
               /\ q = batch[i] => logs'[q] # Bound(logs'[q])
          /\ \A q \in repeats : logs'[q] # Bound(logs'[q])
      BY <2>1, <1>2, Zenon DEF CursorInv
    <2> QED
      BY <2>2, <2>3, <1>2 DEF CursorInv
  <1>7. ReadInv'
    <2>1. ReadTo' = ReadTo
      <3>1. batch # << >> => Last(batch) \in DOMAIN logs
        BY <1>2, CursorWithinRead
      <3> QED
        BY <3>1, <1>1, <1>3 DEF ReadTo, Last, TimestampAfter
    <2>2. Range(batch)' = Range(batch)
      BY <1>1 DEF Range
    <2> SUFFICES ASSUME tail = "open", NEW x \in DOMAIN logs',
                        Bound(from) < logs'[x], logs'[x] <= Bound(ReadTo)
                 PROVE  \/ x \in sent \union Range(batch) \union BadRows \union late'
                        \/ logs'[x] \in cuts /\ logs'[x] = Bound(logs'[x])
      BY <1>1, <2>1, <2>2 DEF ReadInv
    <2>3. CASE x = r
      BY <2>3, <1>1, <1>3
    <2>4. CASE x # r
      <3>1. x \in DOMAIN logs /\ logs'[x] = logs[x] /\ late \subseteq late'
        BY <2>4, <1>1, <1>3
      <3> QED
        BY <3>1, <1>2 DEF ReadInv
    <2> QED
      BY <2>3, <2>4
  <1> QED
    BY <1>5, <1>6, <1>7 DEF TailInv

LEMMA ConnectKeepsInv ==
  ASSUME TailInv, Connect
  PROVE  TailInv'
  <1>1. /\ tail = "none" /\ tail' = "open" /\ lastSeen' = now - LookBack /\ from' = lastSeen'
        /\ UNCHANGED <<now, logs, batch, sent, repeats, late, cuts>>
    BY DEF Connect
  <1>2. TailTypes /\ CursorInv /\ ReadInv
    BY DEF TailInv
  <1>3. batch = << >> /\ sent = {} /\ repeats = {} /\ DOMAIN batch = {}
    BY <1>1, <1>2 DEF TailTypes
  <1>4. lastSeen' \in Nat
    BY <1>1, <1>2, TailAssumption DEF TailTypes
  <1>5. TailTypes'
    BY <1>1, <1>2, <1>4 DEF TailTypes
  <1>6. CursorInv'
    BY <1>1, <1>3 DEF CursorInv, IsInjective
  <1>7. ReadInv'
    <2>1. ReadTo' = lastSeen' /\ Bound(lastSeen') \in Nat
      BY <1>1, <1>3, <1>4, BoundOfCursor DEF ReadTo
    <2>2. \A x \in DOMAIN logs : logs[x] \in Nat
      BY <1>2 DEF TailTypes
    <2>3. \A x \in DOMAIN logs' : ~(Bound(from') < logs'[x] /\ logs'[x] <= Bound(ReadTo'))
      BY <2>1, <2>2, <1>1
    <2> QED
      BY <2>3 DEF ReadInv
  <1> QED
    BY <1>5, <1>6, <1>7 DEF TailInv

LEMMA PollKeepsInv ==
  ASSUME TailInv, Poll
  PROVE  TailInv'
  <1>1. PICK a \in Answers :
          batch' = a /\ cuts' = IF Len(a) = BatchCap THEN cuts \union {logs[Last(a)]} ELSE cuts
    BY DEF Poll
  <1>2. /\ tail = "open" /\ batch = << >>
        /\ UNCHANGED <<now, logs, tail, lastSeen, sent, repeats, from, late>>
    BY DEF Poll
  <1>3. TailTypes /\ CursorInv /\ ReadInv
    BY DEF TailInv
  <1>4. /\ a \in Seq(DOMAIN logs) /\ IsInjective(a)
        /\ \A i \in DOMAIN a : a[i] \in DOMAIN logs /\ logs[a[i]] > Bound(lastSeen)
        /\ \A i, j \in DOMAIN a : i < j => logs[a[i]] <= logs[a[j]]
        /\ \A r \in Matches : r \in Range(a)
              \/ (Len(a) = BatchCap /\ \A i \in DOMAIN a : logs[a[i]] <= logs[r])
    BY <1>3, AnswerIsOldest
  <1>5. /\ lastSeen \in Nat /\ Bound(lastSeen) \in Nat /\ sent \subseteq DOMAIN logs
        /\ \A x \in DOMAIN logs : logs[x] \in Nat /\ Bound(logs[x]) \in Nat
    BY <1>3, BoundOfCursor DEF TailTypes
  <1>6. TailTypes'
    BY <1>1, <1>2, <1>3, <1>4 DEF TailTypes
  <1>7. CursorInv'
    <2>1. ASSUME NEW q \in sent, NEW i \in DOMAIN a
          PROVE  Bound(logs[q]) < logs[a[i]]
      <3>1. logs[q] \in Nat /\ logs[q] <= lastSeen
        BY <1>3, <1>5 DEF CursorInv
      <3>2. Bound(logs[q]) <= Bound(lastSeen) /\ Bound(logs[q]) \in Nat
        BY <3>1, <1>5, BoundOfCursor
      <3>3. logs[a[i]] > Bound(lastSeen) /\ logs[a[i]] \in Nat
        BY <1>4, <1>5
      <3> QED
        BY <3>2, <3>3, <1>5
    <2>2. \A q \in sent, i \in DOMAIN a :
            /\ Bound(logs[q]) <= logs[a[i]]
            /\ q = a[i] => logs[q] # Bound(logs[q])
      <3> SUFFICES ASSUME NEW q \in sent, NEW i \in DOMAIN a
                   PROVE  /\ Bound(logs[q]) <= logs[a[i]]
                          /\ q = a[i] => logs[q] # Bound(logs[q])
        OBVIOUS
      <3>1. Bound(logs[q]) < logs[a[i]] /\ Bound(logs[q]) \in Nat /\ logs[a[i]] \in Nat
        BY <2>1, <1>4, <1>5
      <3> QED
        BY <3>1
    <2>3. UNCHANGED <<logs, sent, repeats, lastSeen>> /\ batch' = a
      BY <1>1, <1>2
    <2> QED
      BY <2>2, <2>3, <1>3, <1>4 DEF CursorInv
  <1>8. ReadInv'
    <2>1. Range(batch)' = Range(a) /\ cuts \subseteq cuts'
      BY <1>1 DEF Range
    <2>2. ReadTo = lastSeen /\ ReadTo' = IF a = << >> THEN lastSeen ELSE TimestampAfter(logs[Last(a)])
      BY <1>1, <1>2 DEF ReadTo, TimestampAfter
    <2> SUFFICES ASSUME NEW x \in DOMAIN logs, Bound(from) < logs[x], logs[x] <= Bound(ReadTo')
                 PROVE  \/ x \in sent \union Range(a) \union BadRows \union late
                        \/ logs[x] \in cuts' /\ logs[x] = Bound(logs[x])
      BY <1>2, <2>1 DEF ReadInv
    <2>3. CASE logs[x] <= Bound(lastSeen)
      <3>1. \/ x \in sent \union Range(batch) \union BadRows \union late
            \/ logs[x] \in cuts /\ logs[x] = Bound(logs[x])
        BY <2>2, <2>3, <1>2, <1>3 DEF ReadInv
      <3>2. Range(batch) = {}
        BY <1>2 DEF Range
      <3> QED
        BY <3>1, <3>2, <2>1
    <2>4. CASE ~(logs[x] <= Bound(lastSeen))
      <3>1. x \in Matches /\ a # << >>
        BY <2>2, <2>4, <1>5 DEF Matches
      <3>2. Len(a) \in DOMAIN a /\ Last(a) = a[Len(a)] /\ Last(a) \in DOMAIN logs
        BY <3>1, <1>4 DEF Last
      <3>3. logs[Last(a)] \in Nat /\ logs[x] \in Nat
        BY <3>2, <1>5
      <3>4. ReadTo' = logs[Last(a)]
        <4>1. ReadTo' = TimestampAfter(logs[Last(a)])
          BY <2>2, <3>1
        <4>2. CASE logs[Last(a)] > lastSeen
          BY <4>1, <4>2 DEF TimestampAfter
        <4>3. CASE ~(logs[Last(a)] > lastSeen)
          <5>1. ReadTo' = lastSeen
            BY <4>1, <4>3 DEF TimestampAfter
          <5> QED
            BY <5>1, <2>4
        <4> QED
          BY <4>2, <4>3
      <3>5. ASSUME x \notin Range(a) PROVE logs[x] \in cuts' /\ logs[x] = Bound(logs[x])
        <4>1. Len(a) = BatchCap /\ logs[Last(a)] <= logs[x]
          BY <3>1, <3>2, <3>5, <1>4
        <4>2. Bound(logs[Last(a)]) \in Nat /\ Bound(logs[Last(a)]) <= logs[Last(a)]
          BY <3>3, BoundOfCursor
        <4>3. logs[x] = logs[Last(a)] /\ logs[x] = Bound(logs[Last(a)])
          BY <4>1, <4>2, <3>3, <3>4
        <4> QED
          BY <4>1, <4>3, <1>1
      <3> QED
        BY <3>5
    <2> QED
      BY <2>3, <2>4
  <1> QED
    BY <1>6, <1>7, <1>8 DEF TailInv

LEMMA WriteKeepsInv ==
  ASSUME TailInv, WriteRow
  PROVE  TailInv'
  <1>1. PICK h : h = Head(batch)
    OBVIOUS
  <1>2. /\ tail = "open" /\ batch # << >> /\ lastSeen' = TimestampAfter(logs[h])
        /\ batch' = Tail(batch)
        /\ sent' = (IF h \in BadRows THEN sent ELSE sent \union {h})
        /\ repeats' = (IF h \notin BadRows /\ h \in sent THEN repeats \union {h} ELSE repeats)
        /\ UNCHANGED <<now, logs, tail, from, late, cuts>>
    BY <1>1 DEF WriteRow
  <1>3. TailTypes /\ CursorInv /\ ReadInv
    BY DEF TailInv
  <1>4. PICK n \in Nat : n = Len(batch)
    BY <1>3 DEF TailTypes
  <1>5. /\ n > 0 /\ h = batch[1] /\ h \in DOMAIN logs /\ DOMAIN batch = 1 .. n
        /\ batch \in Seq(DOMAIN logs) /\ sent \subseteq DOMAIN logs /\ repeats \subseteq sent
    BY <1>1, <1>2, <1>3, <1>4 DEF TailTypes
  <1>6. /\ batch' \in Seq(DOMAIN logs) /\ Len(batch') = n - 1 /\ DOMAIN batch' = 1 .. n - 1
        /\ \A i \in 1 .. n - 1 : batch'[i] = batch[i + 1]
    BY <1>2, <1>4, <1>5
  <1>7. lastSeen \in Nat /\ \A x \in DOMAIN logs : logs[x] \in Nat
    BY <1>3 DEF TailTypes
  <1>8. lastSeen' \in Nat /\ lastSeen <= lastSeen' /\ logs[h] <= lastSeen' /\ logs[h] \in Nat
    <2>1. logs[h] \in Nat
      BY <1>5, <1>7
    <2> QED
      BY <2>1, <1>2, <1>7 DEF TimestampAfter
  <1>9. TailTypes'
    <2>1. sent' \subseteq DOMAIN logs /\ repeats' \subseteq sent'
      BY <1>2, <1>5
    <2> QED
      BY <2>1, <1>2, <1>3, <1>6, <1>8 DEF TailTypes
  <1>10. /\ \A i, j \in 1 .. n : i < j => logs[batch[i]] <= logs[batch[j]]
         /\ \A i, j \in 1 .. n : batch[i] = batch[j] => i = j
         /\ \A q \in sent, i \in 1 .. n :
              /\ Bound(logs[q]) <= logs[batch[i]]
              /\ q = batch[i] => logs[q] # Bound(logs[q])
    <2>1. \A i, j \in 1 .. n : i < j => logs[batch[i]] <= logs[batch[j]]
      BY <1>3, <1>5, Zenon DEF CursorInv
    <2>2. \A i, j \in 1 .. n : batch[i] = batch[j] => i = j
      BY <1>3, <1>5, Zenon DEF CursorInv, IsInjective
    <2>3. \A q \in sent, i \in 1 .. n :
              /\ Bound(logs[q]) <= logs[batch[i]]
              /\ q = batch[i] => logs[q] # Bound(logs[q])
      BY <1>3, <1>5, Zenon DEF CursorInv
    <2> QED
      BY <2>1, <2>2, <2>3
  <1>11. CursorInv'
    <2>1. \A i \in 1 .. n - 1 : i + 1 \in 1 .. n /\ 1 < i + 1 /\ 1 \in 1 .. n
      BY <1>4
    <2>2. 1 \in 1 .. n
      BY <1>5
    <2>3. \A q \in sent' : logs[q] <= lastSeen'
      <3> SUFFICES ASSUME NEW q \in sent' PROVE logs[q] <= lastSeen'
        OBVIOUS
      <3>1. CASE q = h
        BY <3>1, <1>8
      <3>2. CASE q # h
        <4>1. q \in sent /\ logs[q] <= lastSeen /\ logs[q] \in Nat
          BY <3>2, <1>2, <1>3, <1>5, <1>7 DEF CursorInv
        <4> QED
          BY <4>1, <1>7, <1>8
      <3> QED
        BY <3>1, <3>2
    <2>4. \A i, j \in 1 .. n - 1 : i < j => logs[batch'[i]] <= logs[batch'[j]]
      <3> SUFFICES ASSUME NEW i \in 1 .. n - 1, NEW j \in 1 .. n - 1, i < j
                   PROVE  logs[batch'[i]] <= logs[batch'[j]]
        OBVIOUS
      <3>1. i + 1 < j + 1
        OBVIOUS
      <3> QED
        BY <3>1, <2>1, <1>6, <1>10
    <2>5. \A i, j \in 1 .. n - 1 : batch'[i] = batch'[j] => i = j
      <3> SUFFICES ASSUME NEW i \in 1 .. n - 1, NEW j \in 1 .. n - 1, batch'[i] = batch'[j]
                   PROVE  i = j
        OBVIOUS
      <3>1. i + 1 = j + 1
        BY <2>1, <1>6, <1>10
      <3> QED
        BY <3>1
    <2>6. ASSUME NEW q \in sent', NEW i \in 1 .. n - 1
          PROVE  /\ Bound(logs[q]) <= logs[batch'[i]]
                 /\ q = batch'[i] => logs[q] # Bound(logs[q])
      <3>1. batch'[i] = batch[i + 1] /\ i + 1 \in 1 .. n /\ 1 < i + 1
        BY <2>1, <1>6
      <3>2. CASE q \in sent
        BY <3>1, <3>2, <1>10
      <3>3. CASE q \notin sent
        <4>1. q = h
          BY <3>3, <1>2
        <4>2. h # batch[i + 1] /\ logs[h] <= logs[batch[i + 1]]
          BY <3>1, <2>2, <1>5, <1>10
        <4>3. logs[batch[i + 1]] \in Nat
          BY <3>1, <1>5, <1>7
        <4>4. Bound(logs[h]) \in Nat /\ Bound(logs[h]) <= logs[h]
          BY <1>8, BoundOfCursor
        <4>5. Bound(logs[h]) <= logs[batch[i + 1]]
          BY <4>2, <4>3, <4>4, <1>8
        <4> QED
          BY <4>1, <4>2, <4>5, <3>1
      <3> QED
        BY <3>2, <3>3
    <2>7. \A q \in repeats' : logs[q] # Bound(logs[q])
      <3> SUFFICES ASSUME NEW q \in repeats' PROVE logs[q] # Bound(logs[q])
        OBVIOUS
      <3>1. CASE q \in repeats
        BY <3>1, <1>3 DEF CursorInv
      <3>2. CASE q \notin repeats
        <4>1. q = h /\ h \in sent
          BY <3>2, <1>2
        <4> QED
          BY <4>1, <2>2, <1>5, <1>10
      <3> QED
        BY <3>1, <3>2
    <2>8. logs' = logs
      BY <1>2
    <2> QED
      BY <2>3, <2>4, <2>5, <2>6, <2>7, <2>8, <1>6 DEF CursorInv, IsInjective
  <1>12. ReadInv'
    <2>1. ReadTo' = ReadTo
      <3>1. ReadTo = TimestampAfter(logs[batch[n]])
        BY <1>2, <1>4 DEF ReadTo, Last
      <3>2. CASE n = 1
        <4>1. batch' = << >>
          BY <3>2, <1>6
        <4> QED
          BY <4>1, <3>1, <3>2, <1>2, <1>5 DEF ReadTo
      <3>3. CASE n # 1
        <4>1. n - 1 \in 1 .. n - 1 /\ (n - 1) + 1 = n
          BY <3>3, <1>4, <1>5
        <4>2. batch' # << >> /\ batch'[n - 1] = batch[n] /\ Last(batch') = batch[n]
          BY <4>1, <1>6 DEF Last
        <4>3. 1 \in 1 .. n /\ n \in 1 .. n /\ 1 < n
          BY <3>3, <1>4, <1>5
        <4>4. logs[h] <= logs[batch[n]] /\ logs[batch[n]] \in Nat
          BY <4>3, <1>5, <1>7, <1>10
        <4>5. ReadTo' = IF logs[batch[n]] > lastSeen' THEN logs[batch[n]] ELSE lastSeen'
          BY <4>2, <1>2 DEF ReadTo, TimestampAfter
        <4> QED
          BY <4>4, <4>5, <3>1, <1>2, <1>7, <1>8 DEF TimestampAfter
      <3> QED
        BY <3>2, <3>3
    <2>2. sent \union Range(batch) \union BadRows \subseteq sent' \union Range(batch)' \union BadRows
      <3>1. ASSUME NEW i \in 1 .. n PROVE batch[i] \in sent' \union Range(batch)' \union BadRows
        <4>1. CASE i = 1
          BY <4>1, <1>2, <1>5
        <4>2. CASE i # 1
          <5>1. i - 1 \in 1 .. n - 1 /\ (i - 1) + 1 = i
            BY <4>2, <1>4
          <5>2. i - 1 \in DOMAIN batch' /\ batch'[i - 1] = batch[i]
            BY <5>1, <1>6
          <5> QED
            BY <5>2 DEF Range
        <4> QED
          BY <4>1, <4>2
      <3>2. \A x \in Range(batch) : x \in sent' \union Range(batch)' \union BadRows
        BY <3>1, <1>5 DEF Range
      <3> QED
        BY <3>2, <1>2
    <2> QED
      BY <2>1, <2>2, <1>2, <1>3 DEF ReadInv
  <1> QED
    BY <1>9, <1>11, <1>12 DEF TailInv

LEMMA TailStep ==
  ASSUME TailInv, [TailNext]_tailVars
  PROVE  TailInv'
  <1>1. ASSUME NEW r \in Rows, NEW ts \in 1 .. MaxNow, RowVisible(r, ts) PROVE TailInv'
    BY <1>1, RowVisibleKeepsInv
  <1>2. CASE Connect
    BY <1>2, ConnectKeepsInv
  <1>3. CASE Poll
    BY <1>3, PollKeepsInv
  <1>4. CASE WriteRow
    BY <1>4, WriteKeepsInv
  <1>5. CASE Disconnect
    <2>1. TailTypes' /\ ReadInv'
      BY <1>5 DEF Disconnect, TailInv, TailTypes, ReadInv
    <2>2. CursorInv'
      BY <1>5 DEF Disconnect, TailInv, CursorInv, IsInjective
    <2> QED
      BY <2>1, <2>2 DEF TailInv
  <1>6. CASE TailTick \/ UNCHANGED tailVars
    <2>1. /\ UNCHANGED <<logs, tail, lastSeen, batch, sent, repeats, from, late, cuts>>
          /\ now' = now \/ now' = now + 1
      BY <1>6 DEF TailTick, tailVars
    <2>2. TailTypes'
      BY <2>1, TailAssumption DEF TailInv, TailTypes
    <2>3. CursorInv' /\ ReadInv'
      BY <2>1 DEF TailInv, CursorInv, ReadInv, ReadTo, TimestampAfter, Last, Range
    <2> QED
      BY <2>2, <2>3 DEF TailInv
  <1> QED
    BY <1>1, <1>2, <1>3, <1>4, <1>5, <1>6 DEF TailNext

(***************************************************************************)
(* logs_sse.go sends the seconds in order, sends a row again only if it is *)
(* not at the start of its second, and of the rows no poll asks for again  *)
(* has skipped only those that Marshal rejected, that became visible       *)
(* behind the bound of its cursor, or that are at a start of a second at   *)
(* which LIMIT cut an answer off: TailExact holds for every arrival of     *)
(* rows and every number of milliseconds in a second.                      *)
(***************************************************************************)
THEOREM TailSkipsOnlyLateOrCut ==
  TailSpec => []TailExact
  <1>1. TailInv => TailExact
    <2> SUFFICES ASSUME TailInv PROVE TailExact
      OBVIOUS
    <2>1. TailTypes /\ CursorInv /\ ReadInv
      BY DEF TailInv
    <2>2. \A x \in DOMAIN logs : logs[x] \in Nat
      BY <2>1 DEF TailTypes
    <2>3. /\ Bound(lastSeen) <= Bound(ReadTo)
          /\ Bound(lastSeen) \in Nat /\ Bound(ReadTo) \in Nat
      BY <2>1, CursorWithinRead, BoundOfCursor
    <2>4. ASSUME tail = "open", NEW r \in DOMAIN logs,
                 Bound(from) < logs[r], logs[r] <= Bound(lastSeen)
          PROVE  \/ r \in sent \union Range(batch) \union BadRows \union late
                 \/ logs[r] \in cuts /\ logs[r] = Bound(logs[r])
      <3>1. logs[r] <= Bound(ReadTo)
        BY <2>2, <2>3, <2>4
      <3> QED
        BY <3>1, <2>1, <2>4 DEF ReadInv
    <2>5. \A q \in sent, r \in Range(batch) : Bound(logs[q]) <= logs[r]
      BY <2>1, Zenon DEF CursorInv, Range
    <2>6. \A r \in repeats : logs[r] # Bound(logs[r])
      BY <2>1 DEF CursorInv
    <2> QED
      BY <2>4, <2>5, <2>6 DEF TailExact
  <1> QED
    BY <1>1, TailInitInv, TailStep, PTL DEF TailSpec
=============================================================================
