--------------------------- MODULE GatewayProofs ---------------------------
(***************************************************************************)
(* Theorems about the two ends of the ingest gateway, for any number of    *)
(* signals, calls and attempts and any sizes of the buffers: a tenant's    *)
(* rules raise an event at every crossing of a threshold and nowhere else, *)
(* none gets lost on its way to the alert-manager without a trace, and the *)
(* receivers tell their clients the truth.                                 *)
(***************************************************************************)
EXTENDS AlertSink, Receivers, FiniteSetTheorems, WellFoundedInduction, NaturalsInduction, TLAPS

(* The rules of complex event processing *)

\* Every nonempty set of naturals has a least element.
LEMMA LeastIn ==
  ASSUME NEW T \in SUBSET Nat, T # {}
  PROVE  \E x \in T : \A y \in T : x <= y
  <1> DEFINE R == {p \in Nat \X Nat : p[1] < p[2]}
  <1>1. IsWellFoundedOn(R, Nat)
    <2>1. IsWellFoundedOn(OpToRel(<,Nat), Nat)
      BY NatLessThanWellFounded
    <2>2. R \cap (Nat \X Nat) \subseteq OpToRel(<,Nat)
      BY DEF OpToRel
    <2> HIDE DEF R
    <2> QED BY <2>1, <2>2, IsWellFoundedOnSubrelation
  <1>2. PICK x \in T : \A y \in T : ~(<<y, x>> \in R)
    <2> HIDE DEF R
    <2> QED BY <1>1, WFMin
  <1>3. ASSUME NEW y \in T PROVE x <= y
    <2>1. ~(<<y, x>> \in R) /\ x \in Nat /\ y \in Nat
      BY <1>2
    <2>2. ~(y < x)
      BY <2>1
    <2> QED BY <2>1, <2>2
  <1> QED BY <1>3

\* Induction from 0 up to m, on the numbers of a set.
LEMMA Upward ==
  ASSUME NEW m \in Nat, NEW T, 0 \in T, \A k \in 1 .. m : k - 1 \in T => k \in T
  PROVE  \A k \in 0 .. m : k \in T
  <1> DEFINE bad == {k \in 0 .. m : k \notin T}
  <1>1. SUFFICES ASSUME bad # {} PROVE FALSE
    OBVIOUS
  <1>2. PICK j \in bad : \A i \in bad : j <= i
    <2>1. bad \in SUBSET Nat
      OBVIOUS
    <2> HIDE DEF bad
    <2> QED BY <1>1, <2>1, LeastIn
  <1>3. j \in 1 .. m /\ j \notin T
    BY <1>2
  <1>4. j - 1 \in T
    <2>1. ~(j <= j - 1) /\ j - 1 \in 0 .. m
      BY <1>3
    <2>2. j - 1 \notin bad
      BY <1>2, <2>1
    <2> QED BY <2>1, <2>2
  <1> QED BY <1>3, <1>4

\* The loops of sum and maxIn: a value at 0 and a step from each slot to the next.
Loop(m, f, zero, step) == f = [k \in 0 .. m |-> IF k = 0 THEN zero ELSE step[k][f[k - 1]]]

LEMMA LoopRuns ==
  ASSUME NEW m \in Nat, NEW T, NEW zero \in T, NEW step \in [1 .. m -> [T -> T]]
  PROVE  \E f \in [0 .. m -> T] : Loop(m, f, zero, step)
  <1> DEFINE Has(n) == \E f \in [0 .. n -> T] : Loop(n, f, zero, step)
             good == {n \in 0 .. m : Has(n)}
  <1>1. 0 \in good
    <2> DEFINE f == [k \in 0 .. 0 |-> zero]
    <2>1. f \in [0 .. 0 -> T]
      OBVIOUS
    <2>2. Loop(0, f, zero, step)
      BY DEF Loop
    <2>3. Has(0)
      <3> HIDE DEF f
      <3> QED BY <2>1, <2>2
    <2> HIDE DEF Has
    <2> QED BY <2>3
  <1>2. ASSUME NEW n \in 1 .. m, n - 1 \in good PROVE n \in good
    <2>1. PICK f \in [0 .. n - 1 -> T] : Loop(n - 1, f, zero, step)
      BY <1>2
    <2> DEFINE g == [k \in 0 .. n |-> IF k = n THEN step[n][f[n - 1]] ELSE f[k]]
    <2>2. /\ \A k \in 0 .. n : k = n \/ k \in 0 .. n - 1
          /\ n - 1 \in 0 .. n - 1 /\ n \in 0 .. n /\ n # 0
          /\ \A k \in 0 .. n - 1 : k # n /\ k \in 0 .. n /\ (k # 0 => k - 1 \in 0 .. n - 1)
      OBVIOUS
    <2>3. step[n][f[n - 1]] \in T
      <3>1. f[n - 1] \in T
        BY <2>2
      <3> QED BY <3>1
    <2>4. g \in [0 .. n -> T]
      BY <2>2, <2>3
    <2>5. g[n] = step[n][f[n - 1]] /\ \A k \in 0 .. n - 1 : g[k] = f[k]
      BY <2>2
    <2>6. \A k \in 0 .. n : g[k] = IF k = 0 THEN zero ELSE step[k][g[k - 1]]
      <3>1. \A k \in 0 .. n - 1 : f[k] = IF k = 0 THEN zero ELSE step[k][f[k - 1]]
        BY <2>1 DEF Loop
      <3> HIDE DEF g
      <3> QED BY <2>2, <2>5, <3>1
    <2>7. Loop(n, g, zero, step)
      <3>1. g = [k \in 0 .. n |-> g[k]]
        BY <2>4
      <3> HIDE DEF g
      <3> QED BY <2>6, <3>1 DEF Loop
    <2>8. Has(n)
      <3> HIDE DEF g
      <3> QED BY <2>4, <2>7
    <2>9. n \in 0 .. m
      OBVIOUS
    <2> HIDE DEF Has
    <2> QED BY <2>8, <2>9
  <1>3. \A k \in 0 .. m : k \in good
    <2> HIDE DEF good
    <2> QED BY <1>1, <1>2, Upward
  <1>4. m \in 0 .. m
    OBVIOUS
  <1> QED BY <1>3, <1>4

\* Two minutes of one slot that are less than a round apart are the same.
LEMMA SlotsApart ==
  ASSUME NEW d \in Nat \ {0}, NEW a \in Nat, NEW b \in Nat, a % d = b % d, a <= b, b < a + d
  PROVE  a = b
  <1>1. PICK p \in Int, q \in Int : a = d * p + (a % d) /\ b = d * q + (a % d)
    <2>1. a = d * (a \div d) + (a % d) /\ b = d * (b \div d) + (b % d) /\ a \div d \in Int /\ b \div d \in Int
      OBVIOUS
    <2> QED BY <2>1
  <1>2. a % d \in Nat
    OBVIOUS
  <1>3. \A x, y \in Int : x >= y + 1 => d * x >= d * y + d
    <2> SUFFICES ASSUME NEW x \in Int, NEW y \in Int, x >= y + 1 PROVE d * x >= d * y + d
      OBVIOUS
    <2>1. PICK z \in Nat : x = y + 1 + z
      <3>1. x - y - 1 \in Nat /\ x = y + 1 + (x - y - 1)
        OBVIOUS
      <3> QED BY <3>1
    <2>2. d * (y + 1 + z) = d * y + d + d * z /\ d * z >= 0
      OBVIOUS
    <2> QED BY <2>1, <2>2
  <1>4. CASE q >= p + 1
    <2>1. d * q >= d * p + d
      BY <1>3, <1>4
    <2>2. d * q \in Int /\ d * p \in Int
      OBVIOUS
    <2> QED BY <1>1, <1>2, <2>1, <2>2
  <1>5. CASE p >= q + 1
    <2>1. d * p >= d * q + d
      BY <1>3, <1>5
    <2>2. d * q \in Int /\ d * p \in Int
      OBVIOUS
    <2> QED BY <1>1, <1>2, <2>1, <2>2
  <1>6. CASE p = q
    BY <1>1, <1>6
  <1> QED BY <1>4, <1>5, <1>6

\* A bucket is of some minute and holds a value.
BucketsOf(content) == [0 .. Buckets - 1 -> [epoch : Nat, val : content]]

LEMMA SlotNumbers ==
  /\ \A k \in 1 .. Buckets : k - 1 \in 0 .. Buckets - 1
  /\ \A i \in 0 .. Buckets - 1 : i + 1 \in 1 .. Buckets /\ (i + 1) - 1 = i
  /\ \A e \in Nat : e % Buckets \in 0 .. Buckets - 1
  <1>1. Buckets \in Nat /\ Buckets > 0
    BY CepAssumption
  <1>2. \A e \in Nat : e % Buckets \in 0 .. Buckets - 1
    BY <1>1
  <1> QED BY <1>1, <1>2

LEMMA SumLoop ==
  ASSUME NEW ring \in BucketsOf(Nat)
  PROVE  \E f \in [0 .. Buckets -> Nat] :
            /\ f[0] = 0 /\ sum(ring) = f[Buckets]
            /\ \A k \in 1 .. Buckets :
                 f[k] = f[k - 1] + IF Live(ring[k - 1]) THEN ring[k - 1].val ELSE 0
  <1> DEFINE gain == [k \in 1 .. Buckets |-> IF Live(ring[k - 1]) THEN ring[k - 1].val ELSE 0]
             step == [k \in 1 .. Buckets |-> [x \in Nat |-> x + gain[k]]]
             up[k \in 0 .. Buckets] ==
               IF k = 0 THEN 0
               ELSE up[k - 1] + IF Live(ring[k - 1]) THEN ring[k - 1].val ELSE 0
  <1>0. Buckets \in Nat
    BY CepAssumption
  <1>1. gain \in [1 .. Buckets -> Nat]
    BY SlotNumbers DEF BucketsOf
  <1>2. step \in [1 .. Buckets -> [Nat -> Nat]]
    <2> HIDE DEF gain
    <2> QED BY <1>1
  <1>3. PICK f \in [0 .. Buckets -> Nat] : Loop(Buckets, f, 0, step)
    <2> HIDE DEF step
    <2> QED BY <1>0, <1>2, LoopRuns
  <1>4. \A k \in 0 .. Buckets : k # 0 => k \in 1 .. Buckets /\ k - 1 \in 0 .. Buckets
    BY <1>0
  <1>5. \A k \in 0 .. Buckets : k # 0 => step[k][f[k - 1]] = f[k - 1] + gain[k]
    <2> HIDE DEF gain
    <2> QED BY <1>1, <1>4
  <1>6. \A k \in 0 .. Buckets : f[k] = IF k = 0 THEN 0 ELSE f[k - 1] + gain[k]
    <2> HIDE DEF gain, step
    <2> QED BY <1>3, <1>5 DEF Loop
  <1>7. \A k \in 0 .. Buckets :
          f[k] = IF k = 0 THEN 0
                 ELSE f[k - 1] + IF Live(ring[k - 1]) THEN ring[k - 1].val ELSE 0
    <2>1. \A k \in 1 .. Buckets : gain[k] = IF Live(ring[k - 1]) THEN ring[k - 1].val ELSE 0
      OBVIOUS
    <2> HIDE DEF gain
    <2> QED BY <1>4, <1>6, <2>1
  <1>8. f = [k \in 0 .. Buckets |->
               IF k = 0 THEN 0
               ELSE f[k - 1] + IF Live(ring[k - 1]) THEN ring[k - 1].val ELSE 0]
    BY <1>7
  <1>9. up = [k \in 0 .. Buckets |->
                IF k = 0 THEN 0
                ELSE up[k - 1] + IF Live(ring[k - 1]) THEN ring[k - 1].val ELSE 0]
    <2>1. \E u : u = [k \in 0 .. Buckets |->
                        IF k = 0 THEN 0
                        ELSE u[k - 1] + IF Live(ring[k - 1]) THEN ring[k - 1].val ELSE 0]
      BY <1>8
    <2> QED BY <2>1, Zenon
  <1>10. sum(ring) = up[Buckets]
    BY Zenon DEF sum
  <1> HIDE DEF up
  <1>11. \A k \in 0 .. Buckets : up[k] = f[k]
    <2> DEFINE same == {k \in 0 .. Buckets : up[k] = f[k]}
    <2>1. \A k \in 0 .. Buckets :
            up[k] = IF k = 0 THEN 0
                    ELSE up[k - 1] + IF Live(ring[k - 1]) THEN ring[k - 1].val ELSE 0
      BY <1>9
    <2>2. 0 \in same
      BY <2>1, <1>7, <1>0
    <2>3. \A k \in 1 .. Buckets : k - 1 \in same => k \in same
      <3>1. \A k \in 1 .. Buckets : k \in 0 .. Buckets /\ k # 0
        OBVIOUS
      <3> QED BY <2>1, <3>1, <1>7
    <2>4. \A k \in 0 .. Buckets : k \in same
      <3> HIDE DEF same
      <3> QED BY <1>0, <2>2, <2>3, Upward
    <2> QED BY <2>4
  <1>12. sum(ring) = f[Buckets]
    <2>1. Buckets \in 0 .. Buckets
      BY <1>0
    <2> QED BY <1>10, <1>11, <2>1
  <1>13. 0 \in 0 .. Buckets /\ \A k \in 1 .. Buckets : k \in 0 .. Buckets /\ k # 0
    BY <1>0
  <1>14. f[0] = 0
    BY <1>7, <1>13
  <1>15. \A k \in 1 .. Buckets :
           f[k] = f[k - 1] + IF Live(ring[k - 1]) THEN ring[k - 1].val ELSE 0
    BY <1>7, <1>13
  <1> QED BY <1>12, <1>14, <1>15

LEMMA MaxLoop ==
  ASSUME NEW ring \in BucketsOf(Int)
  PROVE  \E f \in [0 .. Buckets -> Int] :
            /\ f[0] = 0 /\ maxIn(ring) = f[Buckets]
            /\ \A k \in 1 .. Buckets :
                 f[k] = IF Live(ring[k - 1]) /\ ring[k - 1].val > f[k - 1]
                        THEN ring[k - 1].val ELSE f[k - 1]
  <1> DEFINE b(k) == ring[k - 1]
             step == [k \in 1 .. Buckets |->
                        [x \in Int |-> IF Live(b(k)) /\ b(k).val > x THEN b(k).val ELSE x]]
             up[k \in 0 .. Buckets] ==
               IF k = 0 THEN 0
               ELSE IF Live(ring[k - 1]) /\ ring[k - 1].val > up[k - 1]
                    THEN ring[k - 1].val ELSE up[k - 1]
  <1>0. Buckets \in Nat
    BY CepAssumption
  <1>1. \A k \in 1 .. Buckets : b(k).val \in Int
    BY SlotNumbers DEF BucketsOf
  <1>2. step \in [1 .. Buckets -> [Int -> Int]]
    <2> HIDE DEF b
    <2> QED BY <1>1
  <1>3. PICK f \in [0 .. Buckets -> Int] : Loop(Buckets, f, 0, step)
    <2> HIDE DEF step
    <2>1. 0 \in Int
      OBVIOUS
    <2> QED BY <1>0, <1>2, <2>1, LoopRuns
  <1>4. \A k \in 0 .. Buckets : k # 0 => k \in 1 .. Buckets /\ k - 1 \in 0 .. Buckets
    BY <1>0
  <1>5. \A k \in 0 .. Buckets : k # 0 =>
          step[k][f[k - 1]] = IF Live(b(k)) /\ b(k).val > f[k - 1] THEN b(k).val ELSE f[k - 1]
    <2> HIDE DEF b
    <2> QED BY <1>4
  <1>6. \A k \in 0 .. Buckets :
          f[k] = IF k = 0 THEN 0
                 ELSE IF Live(b(k)) /\ b(k).val > f[k - 1] THEN b(k).val ELSE f[k - 1]
    <2> HIDE DEF b, step
    <2> QED BY <1>3, <1>5 DEF Loop
  <1>7. \A k \in 0 .. Buckets :
          f[k] = IF k = 0 THEN 0
                 ELSE IF Live(ring[k - 1]) /\ ring[k - 1].val > f[k - 1]
                      THEN ring[k - 1].val ELSE f[k - 1]
    BY <1>6
  <1>8. f = [k \in 0 .. Buckets |->
               IF k = 0 THEN 0
               ELSE IF Live(ring[k - 1]) /\ ring[k - 1].val > f[k - 1]
                    THEN ring[k - 1].val ELSE f[k - 1]]
    BY <1>7
  <1>9. up = [k \in 0 .. Buckets |->
                IF k = 0 THEN 0
                ELSE IF Live(ring[k - 1]) /\ ring[k - 1].val > up[k - 1]
                     THEN ring[k - 1].val ELSE up[k - 1]]
    <2>1. \E u : u = [k \in 0 .. Buckets |->
                        IF k = 0 THEN 0
                        ELSE IF Live(ring[k - 1]) /\ ring[k - 1].val > u[k - 1]
                             THEN ring[k - 1].val ELSE u[k - 1]]
      BY <1>8
    <2> QED BY <2>1, Zenon
  <1>10. maxIn(ring) = up[Buckets]
    BY Zenon DEF maxIn
  <1> HIDE DEF up
  <1>11. \A k \in 0 .. Buckets : up[k] = f[k]
    <2> DEFINE same == {k \in 0 .. Buckets : up[k] = f[k]}
    <2>1. \A k \in 0 .. Buckets :
            up[k] = IF k = 0 THEN 0
                    ELSE IF Live(ring[k - 1]) /\ ring[k - 1].val > up[k - 1]
                         THEN ring[k - 1].val ELSE up[k - 1]
      BY <1>9
    <2>2. 0 \in same
      BY <2>1, <1>7, <1>0
    <2>3. \A k \in 1 .. Buckets : k - 1 \in same => k \in same
      <3>1. \A k \in 1 .. Buckets : k \in 0 .. Buckets /\ k # 0
        OBVIOUS
      <3> QED BY <2>1, <3>1, <1>7
    <2>4. \A k \in 0 .. Buckets : k \in same
      <3> HIDE DEF same
      <3> QED BY <1>0, <2>2, <2>3, Upward
    <2> QED BY <2>4
  <1>12. 0 \in 0 .. Buckets /\ Buckets \in 0 .. Buckets
         /\ \A k \in 1 .. Buckets : k \in 0 .. Buckets /\ k # 0
    BY <1>0
  <1>13. maxIn(ring) = f[Buckets]
    BY <1>10, <1>11, <1>12
  <1>14. f[0] = 0
    BY <1>7, <1>12
  <1>15. \A k \in 1 .. Buckets :
           f[k] = IF Live(ring[k - 1]) /\ ring[k - 1].val > f[k - 1]
                  THEN ring[k - 1].val ELSE f[k - 1]
    BY <1>7, <1>12
  <1> QED BY <1>13, <1>14, <1>15

\* The peak reaches a threshold when the value of a live bucket does.
LEMMA MaxReaches ==
  ASSUME NEW ring \in BucketsOf(Int), NEW t \in Nat \ {0}
  PROVE  maxIn(ring) >= t <=> \E i \in 0 .. Buckets - 1 : Live(ring[i]) /\ ring[i].val >= t
  <1> DEFINE b(k) == ring[k - 1]
  <1>0. Buckets \in Nat /\ \A k \in 1 .. Buckets : b(k).val \in Int
    BY CepAssumption, SlotNumbers DEF BucketsOf
  <1>1. PICK f \in [0 .. Buckets -> Int] :
          /\ f[0] = 0 /\ maxIn(ring) = f[Buckets]
          /\ \A k \in 1 .. Buckets :
               f[k] = IF Live(b(k)) /\ b(k).val > f[k - 1] THEN b(k).val ELSE f[k - 1]
    BY MaxLoop
  <1> HIDE DEF b
  <1> DEFINE Over(k) == f[k] >= t <=> \E n \in 1 .. k : Live(b(n)) /\ b(n).val >= t
             good == {k \in 0 .. Buckets : Over(k)}
  <1>2. 0 \in good
    <2>1. Over(0)
      BY <1>1
    <2> HIDE DEF Over
    <2> QED BY <2>1, <1>0
  <1>3. ASSUME NEW k \in 1 .. Buckets, k - 1 \in good PROVE k \in good
    <2>1. Over(k - 1)
      BY <1>3
    <2>2. /\ k - 1 \in 0 .. Buckets /\ k \in 0 .. Buckets
          /\ \A n \in 1 .. k : n = k \/ n \in 1 .. k - 1
          /\ \A n \in 1 .. k - 1 : n \in 1 .. k /\ k \in 1 .. k
      BY <1>0
    <2>3. (\E n \in 1 .. k : Live(b(n)) /\ b(n).val >= t)
            <=> (Live(b(k)) /\ b(k).val >= t) \/ \E n \in 1 .. k - 1 : Live(b(n)) /\ b(n).val >= t
      <3>1. k \in 1 .. k
        OBVIOUS
      <3> QED BY <2>2, <3>1
    <2>4. f[k - 1] \in Int /\ b(k).val \in Int /\ f[k] \in Int
      BY <1>0, <2>2
    <2>5. f[k] = IF Live(b(k)) /\ b(k).val > f[k - 1] THEN b(k).val ELSE f[k - 1]
      BY <1>1
    <2>6. f[k] >= t <=> (Live(b(k)) /\ b(k).val >= t) \/ f[k - 1] >= t
      BY <2>4, <2>5
    <2>7. Over(k)
      BY <2>1, <2>3, <2>6
    <2> HIDE DEF Over
    <2> QED BY <2>2, <2>7
  <1>4. \A k \in 0 .. Buckets : k \in good
    <2> HIDE DEF good
    <2> QED BY <1>0, <1>2, <1>3, Upward
  <1>5. Over(Buckets)
    BY <1>0, <1>4
  <1>6. (\E n \in 1 .. Buckets : Live(b(n)) /\ b(n).val >= t)
          <=> \E i \in 0 .. Buckets - 1 : Live(ring[i]) /\ ring[i].val >= t
    <2>1. \A n \in 1 .. Buckets : b(n) = ring[n - 1]
      BY DEF b
    <2>2. \A i \in 0 .. Buckets - 1 : b(i + 1) = ring[i]
      BY SlotNumbers DEF b
    <2> QED BY <2>1, <2>2, SlotNumbers
  <1> QED BY <1>1, <1>5, <1>6

\* Where each bucket counts what happened in the last minute of its slot, sum
\* counts what happened in the window.
LEMMA SumCounts ==
  ASSUME NEW ring \in BucketsOf(Nat), epoch \in Nat, NEW S, IsFiniteSet(S), NEW at \in [S -> Nat],
         \A i \in 0 .. Buckets - 1 :
            /\ ring[i].epoch <= epoch /\ (ring[i].epoch # 0 => ring[i].epoch % Buckets = i)
            /\ \A x \in S : at[x] % Buckets = i => at[x] <= ring[i].epoch
            /\ ring[i].val = Cardinality({x \in S : at[x] = ring[i].epoch}),
         epoch >= Buckets
  PROVE  sum(ring) = Cardinality({x \in S : at[x] > epoch - Buckets})
  <1> DEFINE W == {x \in S : at[x] > epoch - Buckets}
             Below(k) == {x \in W : at[x] % Buckets < k}
             In(i) == {x \in W : at[x] % Buckets = i}
  <1>0. /\ Buckets \in Nat /\ Buckets > 0
        /\ \A i \in 0 .. Buckets - 1 : ring[i] \in [epoch : Nat, val : Nat]
    BY CepAssumption DEF BucketsOf
  <1>1. PICK f \in [0 .. Buckets -> Nat] :
          /\ f[0] = 0 /\ sum(ring) = f[Buckets]
          /\ \A k \in 1 .. Buckets :
               f[k] = f[k - 1] + IF Live(ring[k - 1]) THEN ring[k - 1].val ELSE 0
    BY SumLoop
  <1>2. \A x \in S : at[x] \in Nat /\ at[x] % Buckets \in 0 .. Buckets - 1
    BY SlotNumbers
  <1>3. ASSUME NEW i \in 0 .. Buckets - 1
        PROVE  In(i) = IF Live(ring[i]) THEN {x \in S : at[x] = ring[i].epoch} ELSE {}
    <2>0. ring[i].epoch \in Nat /\ ring[i].epoch <= epoch
      BY <1>0
    <2>1. CASE Live(ring[i])
      <3>1. ring[i].epoch > epoch - Buckets /\ ring[i].epoch % Buckets = i
        <4>1. ring[i].epoch > epoch - Buckets
          BY <2>1 DEF Live
        <4>2. ring[i].epoch # 0
          BY <4>1, <2>0, <1>0
        <4> QED BY <4>1, <4>2
      <3>2. ASSUME NEW x \in S, at[x] > epoch - Buckets, at[x] % Buckets = i
            PROVE  at[x] = ring[i].epoch
        <4>1. at[x] <= ring[i].epoch /\ at[x] \in Nat
          BY <3>2, <1>2
        <4>2. ring[i].epoch < at[x] + Buckets
          BY <3>2, <4>1, <2>0, <1>0
        <4>3. Buckets \in Nat \ {0} /\ at[x] % Buckets = ring[i].epoch % Buckets
          BY <1>0, <3>1, <3>2
        <4> QED BY <2>0, <4>1, <4>2, <4>3, SlotsApart
      <3> QED BY <2>1, <3>1, <3>2
    <2>2. CASE ~Live(ring[i])
      <3>1. ring[i].epoch <= epoch - Buckets
        BY <2>0, <2>2, <1>0 DEF Live
      <3>2. ASSUME NEW x \in In(i) PROVE FALSE
        <4>1. at[x] <= ring[i].epoch /\ at[x] \in Nat /\ at[x] > epoch - Buckets
          BY <3>2, <1>2
        <4> QED BY <4>1, <3>1, <2>0, <1>0
      <3> QED BY <2>2, <3>2
    <2> QED BY <2>1, <2>2
  <1>4. IsFiniteSet(W) /\ \A k : IsFiniteSet(Below(k)) /\ IsFiniteSet(In(k))
    <2>1. IsFiniteSet(W)
      BY FS_Subset
    <2> HIDE DEF W
    <2>2. ASSUME NEW k PROVE IsFiniteSet(Below(k)) /\ IsFiniteSet(In(k))
      <3>1. Below(k) \subseteq W /\ In(k) \subseteq W
        OBVIOUS
      <3> HIDE DEF Below, In
      <3> QED BY <2>1, <3>1, FS_Subset
    <2> QED BY <2>1, <2>2
  <1>5. Cardinality({}) = 0
    BY FS_EmptySet
  <1> DEFINE Counts(k) == f[k] = Cardinality(Below(k))
             good == {k \in 0 .. Buckets : Counts(k)}
  <1>6. 0 \in good
    <2>1. Below(0) = {}
      BY <1>2
    <2>2. Counts(0)
      <3> HIDE DEF Below
      <3> QED BY <2>1, <1>1, <1>5
    <2> HIDE DEF Counts
    <2> QED BY <2>2, <1>0
  <1>7. ASSUME NEW k \in 1 .. Buckets, k - 1 \in good PROVE k \in good
    <2>0. Counts(k - 1)
      <3> HIDE DEF Counts
      <3> QED BY <1>7
    <2>1. f[k - 1] = Cardinality(Below(k - 1)) /\ k - 1 \in 0 .. Buckets - 1 /\ k \in 0 .. Buckets
      <3> HIDE DEF Below
      <3> QED BY <2>0, SlotNumbers
    <2>2. Below(k) = Below(k - 1) \union In(k - 1) /\ Below(k - 1) \intersect In(k - 1) = {}
      <3>1. \A r \in 0 .. Buckets - 1 : (r < k <=> r < k - 1 \/ r = k - 1) /\ ~(r < k - 1 /\ r = k - 1)
        BY <2>1
      <3>2. \A x \in W : at[x] % Buckets \in 0 .. Buckets - 1
        BY <1>2
      <3> HIDE DEF W
      <3> QED BY <3>1, <3>2
    <2>3. Cardinality(In(k - 1)) = IF Live(ring[k - 1]) THEN ring[k - 1].val ELSE 0
      <3>1. In(k - 1) = IF Live(ring[k - 1]) THEN {x \in S : at[x] = ring[k - 1].epoch} ELSE {}
        BY <1>3, <2>1
      <3>2. ring[k - 1].val = Cardinality({x \in S : at[x] = ring[k - 1].epoch})
        BY <2>1
      <3> HIDE DEF In
      <3> QED BY <3>1, <3>2, <1>5
    <2>4. /\ IsFiniteSet(Below(k - 1)) /\ IsFiniteSet(In(k - 1))
      BY <1>4
    <2> HIDE DEF Below, In
    <2>5. Cardinality(Below(k)) = Cardinality(Below(k - 1)) + Cardinality(In(k - 1))
                                    - Cardinality(Below(k - 1) \intersect In(k - 1))
      BY <2>2, <2>4, FS_Union
    <2>6. Cardinality(Below(k - 1)) \in Nat /\ Cardinality(In(k - 1)) \in Nat
      BY <2>4, FS_CardinalityType
    <2>7. Cardinality(Below(k)) = Cardinality(Below(k - 1)) + Cardinality(In(k - 1))
      <3>1. Cardinality(Below(k - 1) \intersect In(k - 1)) = 0
        BY <2>2, <1>5, Zenon
      <3> QED BY <2>5, <2>6, <3>1
    <2>8. f[k] = f[k - 1] + IF Live(ring[k - 1]) THEN ring[k - 1].val ELSE 0
      BY <1>1
    <2>9. f[k] = Cardinality(Below(k))
      BY <2>1, <2>3, <2>7, <2>8
    <2>10. Counts(k)
      BY <2>9
    <2> HIDE DEF Counts
    <2> QED BY <2>1, <2>10
  <1>8. \A k \in 0 .. Buckets : k \in good
    <2> HIDE DEF good
    <2> QED BY <1>0, <1>6, <1>7, Upward
  <1>9. f[Buckets] = Cardinality(Below(Buckets))
    <2>1. Buckets \in 0 .. Buckets
      BY <1>0
    <2>2. Counts(Buckets)
      <3> HIDE DEF Counts
      <3> QED BY <1>8, <2>1
    <2> HIDE DEF Below
    <2> QED BY <2>2
  <1>10. Below(Buckets) = W
    <2>1. \A x \in W : at[x] % Buckets \in 0 .. Buckets - 1
      BY <1>2
    <2>2. \A r \in 0 .. Buckets - 1 : r < Buckets
      BY <1>0
    <2> HIDE DEF W
    <2> QED BY <2>1, <2>2
  <1> QED BY <1>1, <1>9, <1>10

Records == [sig : Signals, epoch : Nat, event : {"error", "latency", "none"}]

\* The record of one more signal leaves the others in their places.
LEMMA Appended ==
  ASSUME CepTypes, NEW rec \in Records, processed' = Append(processed, rec)
  PROVE  /\ Len(processed) \in Nat /\ DOMAIN processed = 1 .. Len(processed)
         /\ processed' \in Seq(Records)
         /\ DOMAIN processed' = 1 .. Len(processed) + 1 /\ Len(processed') = Len(processed) + 1
         /\ DOMAIN processed' = DOMAIN processed \union {Len(processed) + 1}
         /\ Len(processed) + 1 \notin DOMAIN processed
         /\ \A i \in DOMAIN processed : processed'[i] = processed[i] /\ i < Len(processed) + 1
         /\ \A i \in DOMAIN processed : processed[i] \in Records /\ processed[i].epoch <= epoch
         /\ processed'[Len(processed) + 1] = rec
  <1>1. processed \in Seq(Records)
    BY DEF CepTypes, Records
  <1> HIDE DEF Records
  <1>2. /\ Len(processed) \in Nat /\ DOMAIN processed = 1 .. Len(processed)
        /\ processed' \in Seq(Records) /\ Len(processed') = Len(processed) + 1
        /\ DOMAIN processed' = 1 .. Len(processed) + 1
        /\ \A i \in 1 .. Len(processed) : processed'[i] = processed[i] /\ processed[i] \in Records
        /\ processed'[Len(processed) + 1] = rec
    BY <1>1
  <1>3. /\ 1 .. Len(processed) + 1 = (1 .. Len(processed)) \union {Len(processed) + 1}
        /\ Len(processed) + 1 \notin 1 .. Len(processed)
        /\ \A i \in 1 .. Len(processed) : i < Len(processed) + 1
    BY <1>2
  <1>4. \A i \in DOMAIN processed : processed[i].epoch <= epoch
    BY DEF CepTypes
  <1> QED BY <1>2, <1>3, <1>4

\* What is said of an earlier signal stays true or false.
LEMMA Settled ==
  ASSUME CepTypes, NEW rec \in Records, processed' = Append(processed, rec),
         NEW i \in DOMAIN processed
  PROVE  /\ Service(i)' = Service(i) /\ Logged(i)' = Logged(i) /\ Evaluated(i)' = Evaluated(i)
         /\ Failed(i)' = Failed(i) /\ Window(i)' = Window(i) /\ ErrorsOver(i)' = ErrorsOver(i)
         /\ Blind(i)' <=> Blind(i)
         /\ LatencyOver(i)' <=> LatencyOver(i)
  <1>1. /\ Len(processed) \in Nat /\ DOMAIN processed = 1 .. Len(processed)
        /\ DOMAIN processed' = DOMAIN processed \union {Len(processed) + 1}
        /\ \A j \in DOMAIN processed : processed'[j] = processed[j] /\ j < Len(processed) + 1
    BY Appended
  <1>2. \A j \in DOMAIN processed :
          /\ Service(j)' = Service(j) /\ Logged(j)' = Logged(j) /\ Evaluated(j)' = Evaluated(j)
          /\ Failed(j)' = Failed(j)
    BY <1>1 DEF Service, Logged, Evaluated, Failed
  <1>3. \A j \in DOMAIN processed : \A k \in 1 .. j : k \in DOMAIN processed
    BY <1>1
  <1>4. \A j \in DOMAIN processed : Window(j)' = Window(j)
    <2> SUFFICES ASSUME NEW j \in DOMAIN processed PROVE Window(j)' = Window(j)
      OBVIOUS
    <2>1. \A k \in 1 .. j : processed'[k] = processed[k]
      BY <1>1, <1>3
    <2> QED BY <2>1, <1>1 DEF Window, Service
  <1>5. ErrorsOver(i)' = ErrorsOver(i)
    <2>1. Window(i) \subseteq DOMAIN processed
      BY <1>3 DEF Window
    <2>2. {j \in Window(i)' : Failed(j)'} = {j \in Window(i) : Failed(j)}
      BY <2>1, <1>2, <1>4
    <2> QED BY <2>2, Zenon DEF ErrorsOver
  <1>6. \A j \in DOMAIN processed : Blind(j)' <=> Blind(j)
    <2> SUFFICES ASSUME NEW j \in DOMAIN processed PROVE Blind(j)' <=> Blind(j)
      OBVIOUS
    <2> DEFINE D == DurationsIn(Service(j), processed[j].epoch)
    <2>1. D \subseteq DOMAIN processed /\ D \subseteq D' /\ D' \subseteq D \union {Len(processed) + 1}
      <3>1. D' = {k \in DOMAIN processed' : /\ Evaluated(k)' /\ Service(k)' = Service(j)'
                                            /\ processed'[k].epoch = processed'[j].epoch}
        BY DEF DurationsIn
      <3>2. D = {k \in DOMAIN processed : /\ Evaluated(k) /\ Service(k) = Service(j)
                                          /\ processed[k].epoch = processed[j].epoch}
        BY DEF DurationsIn
      <3> HIDE DEF D
      <3> QED BY <3>1, <3>2, <1>1, <1>2
    <2>2. \A k \in 1 .. j : k \in DOMAIN processed /\ processed'[k] = processed[k]
      BY <1>1, <1>3
    <2>3. \A k \in DOMAIN processed : FirstOf(D', k) <=> FirstOf(D, k)
      <3>1. \A k \in DOMAIN processed : k <= Len(processed) + 1 /\ k # Len(processed) + 1
        BY <1>1
      <3> HIDE DEF D
      <3> QED BY <2>1, <3>1 DEF FirstOf
    <2>4. Blind(j)' <=> \E k \in 1 .. j : FirstOf(D', k) /\ processed'[k].sig.dur = NaN
      BY DEF Blind, FirstOf
    <2>5. Blind(j) <=> \E k \in 1 .. j : FirstOf(D, k) /\ processed[k].sig.dur = NaN
      BY DEF Blind
    <2> HIDE DEF D
    <2> QED BY <2>2, <2>3, <2>4, <2>5
  <1>7. LatencyOver(i)' <=> LatencyOver(i)
    <2>1. Window(i) \subseteq DOMAIN processed
      BY <1>3 DEF Window
    <2>2. \A j \in Window(i) : /\ j \in DOMAIN processed /\ processed'[j] = processed[j]
                               /\ Evaluated(j)' = Evaluated(j) /\ (Blind(j)' <=> Blind(j))
      BY <2>1, <1>1, <1>2, <1>6
    <2>3. LatencyOver(i)' <=>
            \E j \in Window(i) : Evaluated(j)' /\ ~Blind(j)' /\ processed'[j].sig.dur >= LatThreshold
      BY <1>4 DEF LatencyOver
    <2> QED BY <2>2, <2>3 DEF LatencyOver
  <1> QED BY <1>2, <1>4, <1>5, <1>6, <1>7

\* The new signal joins the sets it belongs to.
LEMMA Joins ==
  ASSUME CepTypes, NEW rec \in Records, processed' = Append(processed, rec),
         NEW n, n = Len(processed) + 1
  PROVE  /\ Service(n)' = rec.sig.service /\ Logged(n)' = SeesErrors(rec.sig)
         /\ Failed(n)' = (SeesErrors(rec.sig) /\ rec.sig.error)
         /\ Evaluated(n)' = (SeesLatency(rec.sig) /\ rec.event # "error")
         /\ \A s, e : ErrorsIn(s, e)' = ErrorsIn(s, e) \union
              (IF Failed(n)' /\ rec.sig.service = s /\ rec.epoch = e THEN {n} ELSE {})
         /\ \A s, e : DurationsIn(s, e)' = DurationsIn(s, e) \union
              (IF Evaluated(n)' /\ rec.sig.service = s /\ rec.epoch = e THEN {n} ELSE {})
         /\ \A s : LoggedOf(s)' = LoggedOf(s) \union
              (IF Logged(n)' /\ rec.sig.service = s THEN {n} ELSE {})
         /\ \A s : EvaluatedOf(s)' = EvaluatedOf(s) \union
              (IF Evaluated(n)' /\ rec.sig.service = s THEN {n} ELSE {})
  <1>1. /\ DOMAIN processed' = DOMAIN processed \union {n} /\ n \notin DOMAIN processed
        /\ \A j \in DOMAIN processed : processed'[j] = processed[j]
        /\ processed'[n] = rec
    BY Appended
  <1>2. \A j \in DOMAIN processed :
          /\ Service(j)' = Service(j) /\ Logged(j)' = Logged(j) /\ Evaluated(j)' = Evaluated(j)
          /\ Failed(j)' = Failed(j)
    BY <1>1 DEF Service, Logged, Evaluated, Failed
  <1>3. /\ Service(n)' = rec.sig.service /\ Logged(n)' = SeesErrors(rec.sig)
        /\ Failed(n)' = (SeesErrors(rec.sig) /\ rec.sig.error)
        /\ Evaluated(n)' = (SeesLatency(rec.sig) /\ rec.event # "error")
    BY <1>1 DEF Service, Logged, Evaluated, Failed
  <1>4. ASSUME NEW s, NEW e
        PROVE  /\ ErrorsIn(s, e)' = ErrorsIn(s, e) \union
                    (IF Failed(n)' /\ rec.sig.service = s /\ rec.epoch = e THEN {n} ELSE {})
               /\ DurationsIn(s, e)' = DurationsIn(s, e) \union
                    (IF Evaluated(n)' /\ rec.sig.service = s /\ rec.epoch = e THEN {n} ELSE {})
    <2>1. /\ ErrorsIn(s, e)' = {j \in DOMAIN processed' :
                                  Failed(j)' /\ Service(j)' = s /\ processed'[j].epoch = e}
          /\ DurationsIn(s, e)' = {j \in DOMAIN processed' :
                                  Evaluated(j)' /\ Service(j)' = s /\ processed'[j].epoch = e}
      BY DEF ErrorsIn, DurationsIn
    <2> QED BY <2>1, <1>1, <1>2, <1>3 DEF ErrorsIn, DurationsIn
  <1>5. ASSUME NEW s
        PROVE  /\ LoggedOf(s)' = LoggedOf(s) \union
                    (IF Logged(n)' /\ rec.sig.service = s THEN {n} ELSE {})
               /\ EvaluatedOf(s)' = EvaluatedOf(s) \union
                    (IF Evaluated(n)' /\ rec.sig.service = s THEN {n} ELSE {})
    <2>1. /\ LoggedOf(s)' = {j \in DOMAIN processed' : Logged(j)' /\ Service(j)' = s}
          /\ EvaluatedOf(s)' = {j \in DOMAIN processed' : Evaluated(j)' /\ Service(j)' = s}
      BY DEF LoggedOf, EvaluatedOf
    <2> QED BY <2>1, <1>1, <1>2, <1>3 DEF LoggedOf, EvaluatedOf
  <1> QED BY <1>3, <1>4, <1>5

\* What Process does, with the rules' verdicts read off the new rings.
LEMMA ProcessDoes ==
  ASSUME CepTypes, NEW sig \in Signals, Process(sig), NEW s, s = sig.service
  PROVE  /\ epoch' = epoch
         /\ errors' = IF SeesErrors(sig) /\ sig.error
                      THEN [errors EXCEPT ![s] = add(errors[s], 1)] ELSE errors
         /\ \E ev \in {"error", "latency", "none"} :
              /\ processed' = Append(processed, [sig |-> sig, epoch |-> epoch, event |-> ev])
              /\ ev = "error" <=> /\ SeesErrors(sig) /\ sum(errors'[s]) >= ErrThreshold
                                  /\ ~firing["error"][s]
              /\ maxes' = IF SeesLatency(sig) /\ ev # "error"
                          THEN [maxes EXCEPT ![s] = observe(maxes[s], sig.dur)] ELSE maxes
              /\ ev = "latency" <=> /\ SeesLatency(sig) /\ ev # "error"
                                    /\ maxIn(maxes'[s]) >= LatThreshold
                                    /\ ~firing["latency"][s]
              /\ firing' = [firing EXCEPT
                   !["error"][s] = IF SeesErrors(sig) THEN sum(errors'[s]) >= ErrThreshold ELSE @,
                   !["latency"][s] = IF SeesLatency(sig) /\ ev # "error"
                                     THEN maxIn(maxes'[s]) >= LatThreshold ELSE @]
  <1> DEFINE ering == IF sig.error THEN add(errors[s], 1) ELSE errors[s]
             eover == sum(ering) >= ErrThreshold
             eEvent == SeesErrors(sig) /\ eover /\ ~firing["error"][s]
             lring == observe(maxes[s], sig.dur)
             lover == maxIn(lring) >= LatThreshold
             lEval == SeesLatency(sig) /\ ~eEvent
             lEvent == lEval /\ lover /\ ~firing["latency"][s]
             ev == CASE eEvent -> "error" [] lEvent -> "latency" [] OTHER -> "none"
  <1>0. s \in Services /\ DOMAIN errors = Services /\ DOMAIN maxes = Services
    BY DEF CepTypes, Rings, Signals
  <1>1. /\ ErrorRule(sig).ring = ering /\ ErrorRule(sig).over = eover
        /\ ErrorRule(sig).raises = (eover /\ ~firing["error"][s])
        /\ LatencyRule(sig).ring = lring /\ LatencyRule(sig).over = lover
        /\ LatencyRule(sig).raises = (lover /\ ~firing["latency"][s])
    BY Zenon DEF ErrorRule, LatencyRule, Judged
  <1>2. /\ errors' = IF SeesErrors(sig) THEN [errors EXCEPT ![s] = ering] ELSE errors
        /\ maxes' = IF lEval THEN [maxes EXCEPT ![s] = lring] ELSE maxes
        /\ firing' = [firing EXCEPT !["error"][s]   = IF SeesErrors(sig) THEN eover ELSE @,
                                    !["latency"][s] = IF lEval THEN lover ELSE @]
        /\ processed' = Append(processed, [sig |-> sig, epoch |-> epoch, event |-> ev])
        /\ epoch' = epoch
    <2> HIDE DEF ering, eover, lring, lover
    <2> QED BY <1>1 DEF Process
  <1>3. errors' = IF SeesErrors(sig) /\ sig.error
                  THEN [errors EXCEPT ![s] = add(errors[s], 1)] ELSE errors
    <2>1. [errors EXCEPT ![s] = errors[s]] = errors
      BY DEF CepTypes, Rings
    <2> QED BY <1>2, <2>1
  <1>4. SeesErrors(sig) => errors'[s] = ering
    <2> HIDE DEF ering
    <2> QED BY <1>0, <1>2
  <1>5. lEval => maxes'[s] = lring
    <2> HIDE DEF lring, lEval
    <2> QED BY <1>0, <1>2
  <1> HIDE DEF ering, lring
  <1>6. SeesErrors(sig) => (eover <=> sum(errors'[s]) >= ErrThreshold)
    BY <1>4
  <1>7. lEval => (lover <=> maxIn(maxes'[s]) >= LatThreshold)
    BY <1>5
  <1> HIDE DEF eover, lover
  <1>8. /\ ev \in {"error", "latency", "none"} /\ (ev = "error" <=> eEvent)
        /\ (ev = "latency" <=> lEvent)
    OBVIOUS
  <1> HIDE DEF ev
  <1>9. lEval <=> SeesLatency(sig) /\ ev # "error"
    BY <1>8
  <1>10. firing' = [firing EXCEPT
                      !["error"][s] = IF SeesErrors(sig) THEN sum(errors'[s]) >= ErrThreshold ELSE @,
                      !["latency"][s] = IF SeesLatency(sig) /\ ev # "error"
                                        THEN maxIn(maxes'[s]) >= LatThreshold ELSE @]
    <2>1. SeesErrors(sig) => eover = (sum(errors'[s]) >= ErrThreshold)
      BY <1>6 DEF eover
    <2>2. lEval => lover = (maxIn(maxes'[s]) >= LatThreshold)
      BY <1>7 DEF lover
    <2>3. lEval = (SeesLatency(sig) /\ ev # "error")
      BY <1>9
    <2> HIDE DEF lEval
    <2> QED BY <1>2, <2>1, <2>2, <2>3
  <1>11. maxes' = IF SeesLatency(sig) /\ ev # "error"
                  THEN [maxes EXCEPT ![s] = observe(maxes[s], sig.dur)] ELSE maxes
    BY <1>2, <1>9 DEF lring
  <1>12. ev = "error" <=> /\ SeesErrors(sig) /\ sum(errors'[s]) >= ErrThreshold
                          /\ ~firing["error"][s]
    BY <1>6, <1>8
  <1>13. ev = "latency" <=> /\ SeesLatency(sig) /\ ev # "error" /\ maxIn(maxes'[s]) >= LatThreshold
                            /\ ~firing["latency"][s]
    BY <1>7, <1>8, <1>9
  <1> QED BY <1>2, <1>3, <1>8, <1>10, <1>11, <1>12, <1>13

\* One more signal is on record.
Recorded(sig, ev) ==
    /\ processed' = Append(processed, [sig |-> sig, epoch |-> epoch, event |-> ev])
    /\ epoch' = epoch
Events == {"error", "latency", "none"}

LEMMA RecordIsTyped ==
  ASSUME CepTypes, NEW sig \in Signals, NEW ev \in Events
  PROVE  /\ [sig |-> sig, epoch |-> epoch, event |-> ev] \in Records
         /\ sig.service \in Services /\ epoch \in 1 .. epoch /\ epoch \in Nat /\ epoch >= Buckets
         /\ Slot \in 0 .. Buckets - 1
  <1>1. epoch \in Nat /\ epoch >= Buckets /\ Buckets \in Nat /\ Buckets > 0
    BY CepAssumption DEF CepTypes
  <1>2. Slot \in 0 .. Buckets - 1
    BY <1>1, SlotNumbers DEF Slot
  <1>3. sig.service \in Services
    BY DEF Signals
  <1>4. [sig |-> sig, epoch |-> epoch, event |-> ev] \in Records
    BY <1>1 DEF Records, Events
  <1> QED BY <1>1, <1>2, <1>3, <1>4

LEMMA AddDoes ==
  ASSUME NEW ring \in BucketsOf(Nat), epoch \in Nat, Slot \in 0 .. Buckets - 1
  PROVE  /\ add(ring, 1) \in BucketsOf(Nat)
         /\ add(ring, 1)[Slot] =
              [epoch |-> epoch, val |-> 1 + IF ring[Slot].epoch = epoch THEN ring[Slot].val ELSE 0]
         /\ \A i \in 0 .. Buckets - 1 : i # Slot => add(ring, 1)[i] = ring[i]
  <1> DEFINE b == [epoch |-> epoch,
                   val |-> 1 + IF ring[Slot].epoch = epoch THEN ring[Slot].val ELSE 0]
  <1>1. ring \in [0 .. Buckets - 1 -> [epoch : Nat, val : Nat]]
    BY DEF BucketsOf
  <1>2. b \in [epoch : Nat, val : Nat]
    <2>1. ring[Slot].val \in Nat
      BY <1>1
    <2> QED BY <2>1
  <1>3. add(ring, 1) = [ring EXCEPT ![Slot] = b]
    BY Zenon DEF add
  <1> HIDE DEF b
  <1>4. /\ add(ring, 1) \in [0 .. Buckets - 1 -> [epoch : Nat, val : Nat]]
        /\ add(ring, 1)[Slot] = b
        /\ \A i \in 0 .. Buckets - 1 : i # Slot => add(ring, 1)[i] = ring[i]
    BY <1>1, <1>2, <1>3
  <1> QED BY <1>4 DEF b, BucketsOf

\* add keeps the count of each slot.
LEMMA ErrorSlotsKept ==
  ASSUME CepTypes, ErrorSlots, NEW sig \in Signals, NEW ev \in Events, Recorded(sig, ev),
         NEW s, s = sig.service,
         errors' = IF SeesErrors(sig) /\ sig.error
                   THEN [errors EXCEPT ![s] = add(errors[s], 1)] ELSE errors
  PROVE  errors' \in Rings(Nat) /\ ErrorSlots'
  <1> DEFINE rec == [sig |-> sig, epoch |-> epoch, event |-> ev]
             n == Len(processed) + 1
             At(t) == {e \in 1 .. epoch : ErrorsIn(t, e) # {}}
  <1>0. /\ rec \in Records /\ s \in Services /\ epoch \in 1 .. epoch /\ epoch \in Nat
        /\ epoch >= Buckets /\ Slot \in 0 .. Buckets - 1 /\ epoch # 0
    BY RecordIsTyped
  <1>1. PICK m : m = n
    OBVIOUS
  <1>2. /\ processed' = Append(processed, rec) /\ epoch' = epoch
        /\ rec.sig = sig /\ rec.epoch = epoch
    BY DEF Recorded
  <1>3. /\ Failed(m)' = (SeesErrors(sig) /\ sig.error)
        /\ \A t, e : ErrorsIn(t, e)' = ErrorsIn(t, e) \union
             (IF Failed(m)' /\ s = t /\ epoch = e THEN {m} ELSE {})
    <2> HIDE DEF rec
    <2> QED BY <1>0, <1>1, <1>2, Joins
  <1>4. /\ errors \in Rings(Nat)
        /\ \A t \in Services : \A i \in 0 .. Buckets - 1 :
             errors[t][i] \in [epoch : Nat, val : Nat]
    BY DEF CepTypes, Rings
  <1>5. \A t \in Services : \A i \in 0 .. Buckets - 1 :
          /\ errors[t][i].epoch <= epoch
          /\ errors[t][i].epoch # 0 => errors[t][i].epoch % Buckets = i
          /\ \A e \in At(t) : e % Buckets = i => e <= errors[t][i].epoch
          /\ errors[t][i].val = Cardinality(ErrorsIn(t, errors[t][i].epoch))
    BY DEF ErrorSlots, Placed
  <1>6. ASSUME NEW t \in Services, NEW i \in 0 .. Buckets - 1, errors'[t][i] = errors[t][i],
               ~(Failed(m)' /\ t = s /\ i = Slot)
        PROVE  /\ errors'[t][i].epoch <= epoch
               /\ errors'[t][i].epoch # 0 => errors'[t][i].epoch % Buckets = i
               /\ \A e \in 1 .. epoch : ErrorsIn(t, e)' # {} /\ e % Buckets = i =>
                    e <= errors'[t][i].epoch
               /\ \A e : e = errors'[t][i].epoch => errors'[t][i].val = Cardinality(ErrorsIn(t, e)')
    <2>1. epoch % Buckets = Slot
      BY DEF Slot
    <2>2. \A e \in 1 .. epoch : e % Buckets = i => ErrorsIn(t, e)' = ErrorsIn(t, e)
      BY <1>3, <1>6, <2>1
    <2>3. ASSUME NEW e, e = errors[t][i].epoch PROVE ErrorsIn(t, e)' = ErrorsIn(t, e)
      <3>1. e # 0 => e % Buckets = i
        BY <2>3, <1>5
      <3>2. e = epoch => i = Slot
        BY <3>1, <2>1, <1>0
      <3>3. ~(Failed(m)' /\ s = t /\ epoch = e)
        BY <3>2, <1>6
      <3> QED BY <3>3, <1>3
    <2> HIDE DEF At
    <2>4. \A e \in 1 .. epoch : ErrorsIn(t, e)' # {} /\ e % Buckets = i => e <= errors'[t][i].epoch
      <3>1. \A e \in 1 .. epoch : ErrorsIn(t, e) # {} => e \in At(t)
        BY DEF At
      <3> QED BY <1>5, <1>6, <2>2, <3>1
    <2> QED BY <1>5, <1>6, <2>3, <2>4
  <1>7. ASSUME Failed(m)', NEW i \in 0 .. Buckets - 1, i = Slot
        PROVE  /\ errors'[s][i] \in [epoch : Nat, val : Nat]
               /\ errors'[s][i].epoch = epoch /\ epoch % Buckets = i
               /\ errors'[s][i].val = Cardinality(ErrorsIn(s, epoch) \union {m})
    <2>1. errors'[s] = add(errors[s], 1)
      BY <1>0, <1>3, <1>4, <1>7 DEF Rings
    <2>2. /\ errors[s] \in [0 .. Buckets - 1 -> [epoch : Nat, val : Nat]]
      BY <1>0, <1>4 DEF Rings
    <2>3. errors'[s][i] = [epoch |-> epoch,
                           val |-> 1 + IF errors[s][i].epoch = epoch THEN errors[s][i].val ELSE 0]
      BY <2>1, <2>2, <1>0, <1>7, AddDoes DEF BucketsOf
    <2>4. IsFiniteSet(ErrorsIn(s, epoch)) /\ m \notin ErrorsIn(s, epoch)
      <3>1. DOMAIN processed = 1 .. Len(processed) /\ Len(processed) \in Nat /\ m \notin DOMAIN processed
        <4> HIDE DEF rec
        <4> QED BY <1>0, <1>1, <1>2, Appended
      <3>2. IsFiniteSet(DOMAIN processed)
        BY <3>1, FS_Interval
      <3>3. ErrorsIn(s, epoch) \subseteq DOMAIN processed
        BY DEF ErrorsIn
      <3> QED BY <3>1, <3>2, <3>3, FS_Subset
    <2>5. /\ Cardinality(ErrorsIn(s, epoch)) \in Nat
          /\ Cardinality(ErrorsIn(s, epoch) \union {m}) = Cardinality(ErrorsIn(s, epoch)) + 1
      BY <2>4, FS_CardinalityType, FS_AddElement
    <2>6. errors[s][i].epoch # epoch => ErrorsIn(s, epoch) = {}
      <3>1. epoch % Buckets = i
        BY <1>7 DEF Slot
      <3>2. ErrorsIn(s, epoch) # {} => epoch \in At(s)
        BY <1>0
      <3>3. errors[s][i].epoch <= epoch /\ errors[s][i].epoch \in Nat
        BY <1>0, <1>4, <1>5
      <3>4. ErrorsIn(s, epoch) # {} => epoch <= errors[s][i].epoch
        <4> HIDE DEF At
        <4> QED BY <1>0, <1>5, <3>1, <3>2
      <3> QED BY <3>3, <3>4, <1>0
    <2>7. (IF errors[s][i].epoch = epoch THEN errors[s][i].val ELSE 0) = Cardinality(ErrorsIn(s, epoch))
      <3>1. CASE errors[s][i].epoch = epoch
        <4> HIDE DEF At
        <4> QED BY <3>1, <1>0, <1>5
      <3>2. CASE errors[s][i].epoch # epoch
        BY <3>2, <2>6, FS_EmptySet
      <3> QED BY <3>1, <3>2
    <2>8. epoch % Buckets = i
      BY <1>7 DEF Slot
    <2> QED BY <2>3, <2>5, <2>7, <2>8, <1>0
  <1>8. \A t \in Services : \A i \in 0 .. Buckets - 1 :
          ~(Failed(m)' /\ t = s /\ i = Slot) => errors'[t][i] = errors[t][i]
    <2>1. CASE ~Failed(m)'
      BY <2>1, <1>3
    <2>2. CASE Failed(m)'
      <3>1. errors' = [errors EXCEPT ![s] = add(errors[s], 1)]
        BY <1>3, <2>2
      <3>2. \A i \in 0 .. Buckets - 1 : i # Slot => add(errors[s], 1)[i] = errors[s][i]
        <4>1. errors[s] \in BucketsOf(Nat)
          BY <1>0, <1>4 DEF Rings, BucketsOf
        <4> QED BY <4>1, <1>0, AddDoes
      <3>3. errors \in [Services -> [0 .. Buckets - 1 -> [epoch : Nat, val : Nat]]]
        BY <1>4 DEF Rings
      <3>4. \A t \in Services : errors'[t] = IF t = s THEN add(errors[s], 1) ELSE errors[t]
        BY <3>1, <3>3
      <3> QED BY <2>2, <3>2, <3>4
    <2> QED BY <2>1, <2>2
  <1>9. errors' \in Rings(Nat)
    <2>1. CASE ~Failed(m)'
      BY <2>1, <1>3, <1>4
    <2>2. CASE Failed(m)'
      <3>1. errors' = [errors EXCEPT ![s] = add(errors[s], 1)]
        BY <1>3, <2>2
      <3>2. errors \in [Services -> [0 .. Buckets - 1 -> [epoch : Nat, val : Nat]]]
        BY <1>4 DEF Rings
      <3>3. add(errors[s], 1) \in [0 .. Buckets - 1 -> [epoch : Nat, val : Nat]]
        <4>1. errors[s] \in BucketsOf(Nat)
          BY <1>0, <1>4 DEF Rings, BucketsOf
        <4> QED BY <4>1, <1>0, AddDoes DEF BucketsOf
      <3> QED BY <3>1, <3>2, <3>3 DEF Rings
    <2> QED BY <2>1, <2>2
  <1>10. ASSUME NEW t \in Services, NEW i \in 0 .. Buckets - 1
         PROVE  /\ errors'[t][i].epoch <= epoch
                /\ errors'[t][i].epoch # 0 => errors'[t][i].epoch % Buckets = i
                /\ \A e \in 1 .. epoch : ErrorsIn(t, e)' # {} /\ e % Buckets = i =>
                     e <= errors'[t][i].epoch
                /\ \A e : e = errors'[t][i].epoch => errors'[t][i].val = Cardinality(ErrorsIn(t, e)')
    <2>1. CASE Failed(m)' /\ t = s /\ i = Slot
      <3>1. /\ errors'[s][i].epoch = epoch /\ epoch % Buckets = i
            /\ errors'[s][i].val = Cardinality(ErrorsIn(s, epoch) \union {m})
        BY <2>1, <1>7
      <3>2. \A e : e = epoch => ErrorsIn(s, e)' = ErrorsIn(s, epoch) \union {m}
        BY <2>1, <1>3
      <3>3. \A e \in 1 .. epoch : e <= epoch
        BY <1>0
      <3> QED BY <2>1, <3>1, <3>2, <3>3, <1>0
    <2>2. CASE ~(Failed(m)' /\ t = s /\ i = Slot)
      BY <2>2, <1>6, <1>8
    <2> QED BY <2>1, <2>2
  <1>11. ErrorSlots'
    <2> SUFFICES ASSUME NEW t \in Services, NEW i \in 0 .. Buckets - 1
                 PROVE  /\ Placed(errors[t][i], i, {e \in 1 .. epoch : ErrorsIn(t, e) # {}})'
                        /\ errors'[t][i].val = Cardinality(ErrorsIn(t, errors[t][i].epoch)')
      BY DEF ErrorSlots
    <2>1. Placed(errors[t][i], i, {e \in 1 .. epoch : ErrorsIn(t, e) # {}})'
      BY <1>2, <1>10 DEF Placed
    <2>2. PICK e : e = errors'[t][i].epoch
      OBVIOUS
    <2>3. ErrorsIn(t, errors[t][i].epoch)' = ErrorsIn(t, e)'
      BY <2>2 DEF ErrorsIn
    <2> QED BY <2>1, <2>2, <2>3, <1>10
  <1> QED BY <1>9, <1>11

\* The error rate reaches the threshold when the errors of the window do.
LEMMA ErrorRuleJudges ==
  ASSUME CepTypes, NEW sig \in Signals, NEW ev \in Events, Recorded(sig, ev),
         NEW s, s = sig.service, NEW n, n = Len(processed) + 1,
         errors' \in Rings(Nat), ErrorSlots'
  PROVE  sum(errors'[s]) >= ErrThreshold <=> ErrorsOver(n)'
  <1> DEFINE rec == [sig |-> sig, epoch |-> epoch, event |-> ev]
             S == {j \in DOMAIN processed' : Failed(j)' /\ Service(j)' = s}
             at == [j \in S |-> processed'[j].epoch]
             W == {x \in S : at[x] > epoch - Buckets}
             ring == errors'[s]
  <1>0. /\ rec \in Records /\ s \in Services /\ epoch \in 1 .. epoch /\ epoch \in Nat
        /\ epoch >= Buckets
    BY RecordIsTyped
  <1>1. processed' = Append(processed, rec) /\ epoch' = epoch
    BY DEF Recorded
  <1>2. /\ DOMAIN processed' = 1 .. n /\ n \in Nat /\ n >= 1
        /\ DOMAIN processed' = DOMAIN processed \union {n}
        /\ processed'[n] = rec
        /\ \A j \in DOMAIN processed : processed'[j] = processed[j]
    <2> HIDE DEF rec
    <2>1. Len(processed) \in Nat
      BY <1>0, <1>1, Appended
    <2> QED BY <1>0, <1>1, <2>1, Appended
  <1>3. Service(n)' = s /\ rec.epoch = epoch
    BY <1>2 DEF Service
  <1>4. \A j \in DOMAIN processed' : processed'[j].epoch \in 1 .. epoch
    BY <1>0, <1>2 DEF CepTypes
  <1>5. IsFiniteSet(S)
    <2>1. IsFiniteSet(1 .. n)
      <3>1. 1 \in Int /\ n \in Int
        BY <1>2
      <3> QED BY <3>1, FS_Interval, Zenon
    <2>2. S \subseteq 1 .. n
      BY <1>2
    <2> HIDE DEF S
    <2> QED BY <2>1, <2>2, FS_Subset
  <1>6. at \in [S -> Nat] /\ \A x \in S : at[x] \in 1 .. epoch /\ at[x] = processed'[x].epoch
    BY <1>4
  <1>7. \A e : ErrorsIn(s, e)' = {x \in S : at[x] = e}
    BY DEF ErrorsIn
  <1>8. ASSUME NEW i \in 0 .. Buckets - 1
        PROVE  /\ ring[i].epoch <= epoch /\ (ring[i].epoch # 0 => ring[i].epoch % Buckets = i)
               /\ \A x \in S : at[x] % Buckets = i => at[x] <= ring[i].epoch
               /\ ring[i].val = Cardinality({x \in S : at[x] = ring[i].epoch})
    <2>1. /\ Placed(errors[s][i], i, {e \in 1 .. epoch : ErrorsIn(s, e) # {}})'
          /\ ring[i].val = Cardinality(ErrorsIn(s, errors[s][i].epoch)')
      BY <1>0 DEF ErrorSlots
    <2>2. /\ ring[i].epoch <= epoch /\ (ring[i].epoch # 0 => ring[i].epoch % Buckets = i)
          /\ \A e \in 1 .. epoch : ErrorsIn(s, e)' # {} /\ e % Buckets = i => e <= ring[i].epoch
      BY <2>1, <1>1 DEF Placed
    <2>3. ErrorsIn(s, errors[s][i].epoch)' = {x \in S : at[x] = ring[i].epoch}
      BY DEF ErrorsIn
    <2> HIDE DEF S, at, ring
    <2>4. \A x \in S : at[x] % Buckets = i => at[x] <= ring[i].epoch
      <3> SUFFICES ASSUME NEW x \in S, at[x] % Buckets = i PROVE at[x] <= ring[i].epoch
        OBVIOUS
      <3>1. PICK e : e = at[x]
        OBVIOUS
      <3>2. x \in ErrorsIn(s, e)' /\ e \in 1 .. epoch
        BY <3>1, <1>6, <1>7
      <3> QED BY <3>1, <3>2, <2>2
    <2> QED BY <2>1, <2>2, <2>3, <2>4
  <1>9. sum(ring) = Cardinality(W)
    <2>1. ring \in BucketsOf(Nat)
      BY <1>0 DEF Rings, BucketsOf
    <2> HIDE DEF S, at, ring
    <2> QED BY <1>0, <1>5, <1>6, <1>8, <2>1, SumCounts
  <1>10. W = {j \in Window(n)' : Failed(j)'}
    <2>1. Window(n)' = {j \in 1 .. n : Service(j)' = s /\ processed'[j].epoch > epoch - Buckets}
      BY <1>2, <1>3 DEF Window
    <2>2. W = {j \in DOMAIN processed' :
                 (Failed(j)' /\ Service(j)' = s) /\ processed'[j].epoch > epoch - Buckets}
      BY <1>6
    <2> HIDE DEF W
    <2> QED BY <1>2, <2>1, <2>2
  <1>11. ErrorsOver(n)' <=> Cardinality({j \in Window(n)' : Failed(j)'}) >= ErrThreshold
    BY DEF ErrorsOver
  <1> HIDE DEF W
  <1> QED BY <1>9, <1>10, <1>11

LEMMA OnRecord ==
  ASSUME CepTypes
  PROVE  \A j \in DOMAIN processed : processed[j] \in Records
  <1>1. processed \in Seq(Records)
    BY DEF CepTypes, Records
  <1> QED BY <1>1

LEMMA DurationTypes ==
  ASSUME CepTypes
  PROVE  /\ \A j \in DOMAIN processed : Evaluated(j) =>
              processed[j].sig.dur \in Nat \union {NaN}
         /\ \A s \in Services : maxes[s] \in BucketsOf(Int)
         /\ \A s \in Services : \A i \in 0 .. Buckets - 1 :
              maxes[s][i].epoch \in Nat /\ maxes[s][i].val \in Nat \union {NaN}
  <1>1. Durations \subseteq Nat /\ NaN = -2 /\ NoDuration = -1
    BY CepAssumption DEF NaN, NoDuration
  <1>2. ASSUME NEW j \in DOMAIN processed, Evaluated(j)
        PROVE  processed[j].sig.dur \in Nat \union {NaN}
    <2>1. processed[j] \in Records
      BY OnRecord
    <2>2. processed[j].sig \in Signals
      BY <2>1 DEF Records
    <2>3. processed[j].sig.dur \in Durations \union {NoDuration, NaN} /\ processed[j].sig.dur # NoDuration
      BY <2>2, <1>2 DEF Evaluated, SeesLatency, Signals
    <2> QED BY <2>3, <1>1
  <1>3. Durations \union {0, NaN} \subseteq Int /\ Durations \union {0, NaN} \subseteq Nat \union {NaN}
    BY <1>1
  <1>4. maxes \in [Services -> [0 .. Buckets - 1 -> [epoch : Nat, val : Durations \union {0, NaN}]]]
    BY DEF CepTypes, Rings
  <1>5. ASSUME NEW s \in Services
        PROVE  /\ maxes[s] \in BucketsOf(Int)
               /\ \A i \in 0 .. Buckets - 1 :
                    maxes[s][i].epoch \in Nat /\ maxes[s][i].val \in Nat \union {NaN}
    <2> DEFINE V == Durations \union {0, NaN}
    <2>1. maxes[s] \in [0 .. Buckets - 1 -> [epoch : Nat, val : V]]
      BY <1>4
    <2>2. V \subseteq Int /\ V \subseteq Nat \union {NaN}
      BY <1>3
    <2> HIDE DEF V
    <2> QED BY <2>1, <2>2 DEF BucketsOf
  <1> QED BY <1>2, <1>5

\* The last signal is over the latency threshold when a live bucket is.
LastIsPeak ==
    \A n \in DOMAIN processed : n = Len(processed) /\ processed[n].epoch = epoch =>
      (LatencyOver(n) <=> \E i \in 0 .. Buckets - 1 :
         Live(maxes[Service(n)][i]) /\ maxes[Service(n)][i].val >= LatThreshold)

LEMMA PeakIsOver ==
  CepTypes /\ LatencySlots => LastIsPeak
  <1> SUFFICES ASSUME CepTypes, LatencySlots, NEW n \in DOMAIN processed, n = Len(processed),
                      processed[n].epoch = epoch
               PROVE  LatencyOver(n) <=> \E i \in 0 .. Buckets - 1 :
                        Live(maxes[Service(n)][i]) /\ maxes[Service(n)][i].val >= LatThreshold
    BY DEF LastIsPeak
  <1> DEFINE s == Service(n)
             dur(j) == processed[j].sig.dur
             seen(i) == DurationsIn(s, maxes[s][i].epoch)
  <1>0. /\ epoch \in Nat /\ epoch >= Buckets /\ Buckets \in Nat \ {0} /\ LatThreshold \in Nat \ {0}
        /\ DOMAIN processed = 1 .. n /\ n \in Nat
        /\ \A j \in DOMAIN processed : processed[j].epoch \in 1 .. epoch /\ processed[j].epoch \in Nat
        /\ NaN = -2
    BY CepAssumption DEF CepTypes, NaN
  <1>1. s \in Services
    <2>1. processed[n] \in Records
      BY OnRecord
    <2> QED BY <2>1 DEF Records, Signals, Service
  <1>2. \A i \in 0 .. Buckets - 1 :
          /\ maxes[s][i].epoch \in Nat /\ maxes[s][i].val \in Nat \union {NaN}
          /\ maxes[s][i].epoch <= epoch
          /\ maxes[s][i].epoch # 0 => maxes[s][i].epoch % Buckets = i
          /\ \A e \in 1 .. epoch : DurationsIn(s, e) # {} /\ e % Buckets = i => e <= maxes[s][i].epoch
    <2>1. \A i \in 0 .. Buckets - 1 :
            Placed(maxes[s][i], i, {e \in 1 .. epoch : DurationsIn(s, e) # {}})
      BY <1>1 DEF LatencySlots
    <2> QED BY <2>1, <1>1, DurationTypes DEF Placed
  <1>3. \A i \in 0 .. Buckets - 1 : maxes[s][i].epoch # 0 =>
          \E j \in seen(i) :
            /\ FirstOf(seen(i), j)
            /\ IF dur(j) = NaN THEN maxes[s][i].val = NaN
               ELSE /\ maxes[s][i].val # NaN /\ \E k \in seen(i) : dur(k) = maxes[s][i].val
                    /\ \A k \in seen(i) : dur(k) <= maxes[s][i].val
    BY <1>1 DEF LatencySlots
  <1>4. \A i : seen(i) = {j \in DOMAIN processed : /\ Evaluated(j) /\ Service(j) = s
                                                   /\ processed[j].epoch = maxes[s][i].epoch}
    BY DEF DurationsIn
  <1>5. ASSUME NEW j \in DOMAIN processed
        PROVE  j \in Window(n) <=> Service(j) = s /\ processed[j].epoch > epoch - Buckets
    BY <1>0 DEF Window
  <1>6. ASSUME NEW i \in 0 .. Buckets - 1, NEW f \in seen(i), FirstOf(seen(i), f), NEW j \in seen(i)
        PROVE  Blind(j) <=> dur(f) = NaN
    <2>1. Service(j) = s /\ processed[j].epoch = maxes[s][i].epoch /\ j \in DOMAIN processed
          /\ f \in DOMAIN processed
      BY <1>4, <1>6
    <2>2. Blind(j) <=> \E k \in 1 .. j : FirstOf(seen(i), k) /\ dur(k) = NaN
      BY <2>1 DEF Blind
    <2>3. f <= j /\ f \in 1 .. j
      <3>1. f <= j
        BY <1>6 DEF FirstOf
      <3> QED BY <3>1, <2>1, <1>0
    <2>4. \A k : FirstOf(seen(i), k) => k = f
      <3> HIDE DEF seen
      <3>1. \A k \in seen(i) : k \in Nat
        BY <1>4, <1>0
      <3> QED BY <3>1, <1>6 DEF FirstOf
    <2> HIDE DEF seen
    <2> QED BY <2>2, <2>3, <2>4, <1>6
  <1> HIDE DEF seen, s
  <1>7. ASSUME LatencyOver(n)
        PROVE  \E i \in 0 .. Buckets - 1 : Live(maxes[s][i]) /\ maxes[s][i].val >= LatThreshold
    <2>1. PICK j \in Window(n) : Evaluated(j) /\ ~Blind(j) /\ dur(j) >= LatThreshold
      BY <1>7 DEF LatencyOver
    <2>2. j \in DOMAIN processed /\ Service(j) = s /\ processed[j].epoch > epoch - Buckets
      <3>1. j \in DOMAIN processed
        BY <1>0 DEF Window
      <3> QED BY <3>1, <1>5
    <2> DEFINE e == processed[j].epoch
               i == e % Buckets
    <2>3. e \in 1 .. epoch /\ e \in Nat /\ i \in 0 .. Buckets - 1
      BY <1>0, <2>2, SlotNumbers
    <2>4. DurationsIn(s, e) # {}
      BY <2>1, <2>2 DEF DurationsIn
    <2>5. e <= maxes[s][i].epoch /\ maxes[s][i].epoch <= epoch /\ maxes[s][i].epoch \in Nat
      BY <1>2, <2>3, <2>4
    <2>6. maxes[s][i].epoch # 0 /\ maxes[s][i].epoch < e + Buckets /\ e > epoch - Buckets
      BY <2>2, <2>3, <2>5, <1>0
    <2>7. e % Buckets = maxes[s][i].epoch % Buckets
      BY <1>2, <2>3, <2>6
    <2>8. e = maxes[s][i].epoch
      <3> HIDE DEF e, i
      <3> QED BY <1>0, <2>3, <2>5, <2>6, <2>7, SlotsApart
    <2>9. Live(maxes[s][i])
      BY <2>5, <2>6, <2>8 DEF Live
    <2>10. j \in seen(i)
      BY <1>4, <2>1, <2>2, <2>8
    <2> HIDE DEF e, i
    <2>11. PICK f \in seen(i) :
             /\ FirstOf(seen(i), f)
             /\ IF dur(f) = NaN THEN maxes[s][i].val = NaN
                ELSE /\ maxes[s][i].val # NaN /\ \E k \in seen(i) : dur(k) = maxes[s][i].val
                     /\ \A k \in seen(i) : dur(k) <= maxes[s][i].val
      BY <1>3, <2>3, <2>6
    <2>12. dur(f) # NaN
      BY <1>6, <2>1, <2>3, <2>10, <2>11
    <2>13. maxes[s][i].val \in Nat /\ dur(j) <= maxes[s][i].val
      BY <1>2, <2>3, <2>10, <2>11, <2>12
    <2>14. dur(j) \in Nat \union {NaN}
      BY <2>1, <2>2, DurationTypes
    <2>15. maxes[s][i].val >= LatThreshold
      BY <2>1, <2>13, <2>14, <1>0
    <2> QED BY <2>3, <2>9, <2>15
  <1>8. ASSUME NEW i \in 0 .. Buckets - 1, Live(maxes[s][i]), maxes[s][i].val >= LatThreshold
        PROVE  LatencyOver(n)
    <2>1. maxes[s][i].epoch > epoch - Buckets /\ maxes[s][i].epoch # 0 /\ maxes[s][i].val # NaN
      BY <1>0, <1>2, <1>8 DEF Live
    <2>2. PICK f \in seen(i) :
             /\ FirstOf(seen(i), f)
             /\ IF dur(f) = NaN THEN maxes[s][i].val = NaN
                ELSE /\ maxes[s][i].val # NaN /\ \E k \in seen(i) : dur(k) = maxes[s][i].val
                     /\ \A k \in seen(i) : dur(k) <= maxes[s][i].val
      BY <1>3, <2>1
    <2>3. PICK k \in seen(i) : dur(k) = maxes[s][i].val
      BY <2>1, <2>2
    <2>4. ~Blind(k)
      BY <1>6, <2>1, <2>2
    <2>5. k \in DOMAIN processed /\ Evaluated(k) /\ k \in Window(n)
      BY <1>4, <1>5, <2>1, <2>3
    <2> QED BY <2>3, <2>4, <2>5, <1>8 DEF LatencyOver
  <1> QED BY <1>7, <1>8 DEF s

\* What a bucket remembers of the durations du of the signals D.
Remembers(v, D, du) ==
    \E j \in D : /\ FirstOf(D, j)
                 /\ IF du[j] = NaN THEN v = NaN
                    ELSE v # NaN /\ (\E k \in D : du[k] = v) /\ \A k \in D : du[k] <= v

LEMMA RemembersOne ==
  ASSUME NEW m \in Nat, NEW du, du[m] \in Nat \union {NaN}
  PROVE  Remembers(du[m], {m}, du)
  BY DEF Remembers, FirstOf, NaN

LEMMA RemembersMore ==
  ASSUME NEW D \in SUBSET Nat, NEW m \in Nat, NEW du, NEW v \in Nat \union {NaN},
         \A k \in D : k < m /\ du[k] \in Nat \union {NaN}, du[m] \in Nat \union {NaN},
         Remembers(v, D, du)
  PROVE  Remembers(IF v # NaN /\ du[m] > v THEN du[m] ELSE v, D \union {m}, du)
  <1> DEFINE w == IF v # NaN /\ du[m] > v THEN du[m] ELSE v
  <1>1. PICK j \in D : /\ FirstOf(D, j)
                       /\ IF du[j] = NaN THEN v = NaN
                          ELSE v # NaN /\ (\E k \in D : du[k] = v) /\ \A k \in D : du[k] <= v
    BY DEF Remembers
  <1>2. NaN = -2 /\ j <= m
    BY DEF NaN
  <1>3. FirstOf(D \union {m}, j)
    BY <1>1, <1>2 DEF FirstOf
  <1>4. CASE du[j] = NaN
    BY <1>1, <1>3, <1>4 DEF Remembers
  <1>5. CASE du[j] # NaN
    <2>1. v \in Nat /\ v # NaN /\ (\E k \in D : du[k] = v) /\ \A k \in D : du[k] <= v
      BY <1>1, <1>2, <1>5
    <2>2. w \in Nat /\ w # NaN /\ w >= v /\ w >= du[m] /\ (w = v \/ w = du[m])
      BY <2>1, <1>2
    <2>3. \E k \in D \union {m} : du[k] = w
      BY <2>1, <2>2
    <2>4. \A k \in D \union {m} : du[k] <= w
      <3>1. ASSUME NEW k \in D PROVE du[k] <= w
        <4>1. du[k] \in Int /\ du[k] <= v
          BY <2>1, <1>2
        <4> HIDE DEF w
        <4> QED BY <4>1, <2>1, <2>2
      <3>2. du[m] <= w
        <4>1. du[m] \in Int
          BY <1>2
        <4> HIDE DEF w
        <4> QED BY <4>1, <2>2
      <3> HIDE DEF w
      <3> QED BY <3>1, <3>2
    <2> HIDE DEF w
    <2>5. Remembers(w, D \union {m}, du)
      BY <1>3, <1>5, <2>2, <2>3, <2>4 DEF Remembers
    <2> QED BY <2>5 DEF w
  <1> QED BY <1>4, <1>5

LEMMA ObserveDoes ==
  ASSUME NEW V, NEW ring \in BucketsOf(V), NEW ms \in V, epoch \in Nat, Slot \in 0 .. Buckets - 1
  PROVE  /\ observe(ring, ms) \in BucketsOf(V)
         /\ observe(ring, ms)[Slot].epoch = epoch
         /\ observe(ring, ms)[Slot].val =
              IF ring[Slot].epoch = epoch
              THEN IF ring[Slot].val # NaN /\ ms > ring[Slot].val THEN ms ELSE ring[Slot].val
              ELSE ms
         /\ \A i \in 0 .. Buckets - 1 : i # Slot => observe(ring, ms)[i] = ring[i]
  <1>1. ring \in [0 .. Buckets - 1 -> [epoch : Nat, val : V]]
    BY DEF BucketsOf
  <1>2. CASE ring[Slot].epoch # epoch
    BY <1>1, <1>2 DEF observe, BucketsOf
  <1>3. CASE ring[Slot].epoch = epoch /\ ring[Slot].val # NaN /\ ms > ring[Slot].val
    <2>1. observe(ring, ms) = [ring EXCEPT ![Slot].val = ms]
      BY <1>3, Zenon DEF observe
    <2>2. [ring[Slot] EXCEPT !.val = ms] \in [epoch : Nat, val : V]
      BY <1>1
    <2> QED BY <1>1, <1>3, <2>1, <2>2 DEF BucketsOf
  <1>4. CASE ring[Slot].epoch = epoch /\ ~(ring[Slot].val # NaN /\ ms > ring[Slot].val)
    <2>1. observe(ring, ms) = ring
      BY <1>4, Zenon DEF observe
    <2> QED BY <1>1, <1>4, <2>1 DEF BucketsOf
  <1> QED BY <1>2, <1>3, <1>4

Durs == [j \in DOMAIN processed |-> processed[j].sig.dur]

\* LatencySlots, with what a bucket remembers named.
SlotsRemember ==
    \A s \in Services : \A i \in 0 .. Buckets - 1 :
      /\ Placed(maxes[s][i], i, {e \in 1 .. epoch : DurationsIn(s, e) # {}})
      /\ maxes[s][i].epoch # 0 =>
           Remembers(maxes[s][i].val, DurationsIn(s, maxes[s][i].epoch), Durs)

LEMMA LatencySlotsSay ==
  LatencySlots <=> SlotsRemember
  <1>1. ASSUME NEW s \in Services, NEW i \in 0 .. Buckets - 1
        PROVE  Remembers(maxes[s][i].val, DurationsIn(s, maxes[s][i].epoch), Durs) <=>
                 LET b    == maxes[s][i]
                     seen == DurationsIn(s, b.epoch)
                 IN  \E j \in seen :
                       /\ FirstOf(seen, j)
                       /\ IF processed[j].sig.dur = NaN THEN b.val = NaN
                          ELSE /\ b.val # NaN /\ \E k \in seen : processed[k].sig.dur = b.val
                               /\ \A k \in seen : processed[k].sig.dur <= b.val
    <2> DEFINE seen == DurationsIn(s, maxes[s][i].epoch)
    <2>1. \A k \in seen : Durs[k] = processed[k].sig.dur
      BY DEF DurationsIn, Durs
    <2> HIDE DEF seen
    <2>2. Remembers(maxes[s][i].val, seen, Durs) <=>
            \E j \in seen :
               /\ FirstOf(seen, j)
               /\ IF processed[j].sig.dur = NaN THEN maxes[s][i].val = NaN
                  ELSE /\ maxes[s][i].val # NaN
                       /\ \E k \in seen : processed[k].sig.dur = maxes[s][i].val
                       /\ \A k \in seen : processed[k].sig.dur <= maxes[s][i].val
      BY <2>1 DEF Remembers
    <2> QED BY <2>2 DEF seen
  <1> QED BY <1>1 DEF LatencySlots, SlotsRemember

\* observe keeps what each slot remembers.
LEMMA LatencySlotsKept ==
  ASSUME CepTypes, LatencySlots, NEW sig \in Signals, NEW ev \in Events, Recorded(sig, ev),
         NEW s, s = sig.service,
         maxes' = IF SeesLatency(sig) /\ ev # "error"
                  THEN [maxes EXCEPT ![s] = observe(maxes[s], sig.dur)] ELSE maxes
  PROVE  maxes' \in Rings(Durations \union {0, NaN}) /\ LatencySlots'
  <1> DEFINE rec == [sig |-> sig, epoch |-> epoch, event |-> ev]
             n == Len(processed) + 1
             V == Durations \union {0, NaN}
  <1>0. /\ rec \in Records /\ s \in Services /\ epoch \in 1 .. epoch /\ epoch \in Nat
        /\ epoch >= Buckets /\ Slot \in 0 .. Buckets - 1 /\ epoch # 0
    BY RecordIsTyped
  <1>1. PICK m : m = n
    OBVIOUS
  <1>2. /\ processed' = Append(processed, rec) /\ epoch' = epoch
        /\ rec.sig = sig /\ rec.epoch = epoch /\ rec.event = ev
    BY DEF Recorded
  <1> HIDE DEF rec
  <1>3. /\ Evaluated(m)' = (SeesLatency(sig) /\ ev # "error")
        /\ \A t, e : DurationsIn(t, e)' = DurationsIn(t, e) \union
             (IF Evaluated(m)' /\ s = t /\ epoch = e THEN {m} ELSE {})
    BY <1>0, <1>1, <1>2, Joins
  <1>4. /\ DOMAIN processed = 1 .. Len(processed) /\ Len(processed) \in Nat /\ m \in Nat
        /\ DOMAIN processed' = DOMAIN processed \union {m} /\ m \notin DOMAIN processed
        /\ processed'[m] = rec
        /\ \A j \in DOMAIN processed : processed'[j] = processed[j] /\ j < m
    <2>1. Len(processed) \in Nat
      BY <1>0, <1>2, Appended
    <2> QED BY <1>0, <1>1, <1>2, <2>1, Appended
  <1>5. Durs'[m] = sig.dur /\ \A j \in DOMAIN processed : Durs'[j] = Durs[j]
    BY <1>2, <1>4 DEF Durs
  <1>6. /\ maxes \in [Services -> BucketsOf(V)]
        /\ \A t \in Services : \A i \in 0 .. Buckets - 1 :
             maxes[t][i].epoch \in Nat /\ maxes[t][i].val \in Nat \union {NaN}
    BY DurationTypes DEF CepTypes, Rings, BucketsOf
  <1>7. \A t, e : DurationsIn(t, e) \subseteq DOMAIN processed
    BY DEF DurationsIn
  <1>8. \A t \in Services : \A i \in 0 .. Buckets - 1 :
          /\ maxes[t][i].epoch <= epoch
          /\ maxes[t][i].epoch # 0 => maxes[t][i].epoch % Buckets = i
          /\ \A e \in 1 .. epoch : DurationsIn(t, e) # {} /\ e % Buckets = i => e <= maxes[t][i].epoch
          /\ maxes[t][i].epoch # 0 =>
               Remembers(maxes[t][i].val, DurationsIn(t, maxes[t][i].epoch), Durs)
    BY LatencySlotsSay DEF SlotsRemember, Placed
  <1>9. \A D \in SUBSET DOMAIN processed : \A v : Remembers(v, D, Durs) => Remembers(v, D, Durs')
    BY <1>5 DEF Remembers
  <1>10. Evaluated(m)' => sig.dur \in V /\ sig.dur \in Nat \union {NaN}
    <2>1. sig.dur \in Durations \union {NoDuration, NaN} /\ Durations \subseteq Nat
      BY CepAssumption DEF Signals
    <2> QED BY <2>1, <1>3 DEF SeesLatency
  <1> HIDE DEF V
  <1>11. ASSUME Evaluated(m)'
         PROVE  /\ maxes' = [maxes EXCEPT ![s] = observe(maxes[s], sig.dur)]
                /\ maxes' \in [Services -> BucketsOf(V)]
                /\ maxes'[s] = observe(maxes[s], sig.dur)
                /\ \A t \in Services : t # s => maxes'[t] = maxes[t]
                /\ maxes'[s][Slot].epoch = epoch
                /\ maxes'[s][Slot].val =
                     IF maxes[s][Slot].epoch = epoch
                     THEN IF maxes[s][Slot].val # NaN /\ sig.dur > maxes[s][Slot].val
                          THEN sig.dur ELSE maxes[s][Slot].val
                     ELSE sig.dur
                /\ \A i \in 0 .. Buckets - 1 : i # Slot => maxes'[s][i] = maxes[s][i]
    <2>1. maxes' = [maxes EXCEPT ![s] = observe(maxes[s], sig.dur)]
      BY <1>3, <1>11
    <2>2. maxes[s] \in BucketsOf(V) /\ sig.dur \in V
      BY <1>0, <1>6, <1>10, <1>11
    <2>3. /\ observe(maxes[s], sig.dur) \in BucketsOf(V)
          /\ observe(maxes[s], sig.dur)[Slot].epoch = epoch
          /\ observe(maxes[s], sig.dur)[Slot].val =
               IF maxes[s][Slot].epoch = epoch
               THEN IF maxes[s][Slot].val # NaN /\ sig.dur > maxes[s][Slot].val
                    THEN sig.dur ELSE maxes[s][Slot].val
               ELSE sig.dur
          /\ \A i \in 0 .. Buckets - 1 : i # Slot => observe(maxes[s], sig.dur)[i] = maxes[s][i]
      BY <1>0, <2>2, ObserveDoes
    <2>4. /\ maxes' \in [Services -> BucketsOf(V)] /\ maxes'[s] = observe(maxes[s], sig.dur)
          /\ \A t \in Services : t # s => maxes'[t] = maxes[t]
      BY <1>0, <1>6, <2>1, <2>3
    <2> QED BY <2>1, <2>3, <2>4
  <1>12. maxes' \in [Services -> BucketsOf(V)]
    <2>1. ~Evaluated(m)' => maxes' = maxes
      BY <1>3
    <2> QED BY <2>1, <1>6, <1>11
  <1>13. ASSUME NEW t \in Services, NEW i \in 0 .. Buckets - 1,
                ~(Evaluated(m)' /\ t = s /\ i = Slot)
         PROVE  /\ maxes'[t][i].epoch <= epoch
                /\ maxes'[t][i].epoch # 0 => maxes'[t][i].epoch % Buckets = i
                /\ \A e \in 1 .. epoch : DurationsIn(t, e)' # {} /\ e % Buckets = i =>
                     e <= maxes'[t][i].epoch
                /\ \A e : e = maxes'[t][i].epoch /\ e # 0 =>
                     Remembers(maxes'[t][i].val, DurationsIn(t, e)', Durs')
    <2>0. maxes'[t][i] = maxes[t][i]
      <3>1. CASE ~Evaluated(m)'
        BY <3>1, <1>3
      <3>2. CASE Evaluated(m)'
        BY <3>2, <1>11, <1>13
      <3> QED BY <3>1, <3>2
    <2>1. epoch % Buckets = Slot
      BY DEF Slot
    <2>2. \A e \in 1 .. epoch : e % Buckets = i => DurationsIn(t, e)' = DurationsIn(t, e)
      BY <1>3, <1>13, <2>1
    <2>3. ASSUME NEW e, e = maxes[t][i].epoch, e # 0 PROVE DurationsIn(t, e)' = DurationsIn(t, e)
      <3>1. e % Buckets = i
        BY <2>3, <1>8
      <3>2. e = epoch => i = Slot
        BY <3>1, <2>1
      <3>3. ~(Evaluated(m)' /\ s = t /\ epoch = e)
        BY <3>2, <1>13
      <3> QED BY <3>3, <1>3
    <2>4. \A e \in 1 .. epoch : DurationsIn(t, e)' # {} /\ e % Buckets = i => e <= maxes'[t][i].epoch
      BY <1>8, <2>0, <2>2
    <2>5. ASSUME NEW e, e = maxes'[t][i].epoch, e # 0
          PROVE  Remembers(maxes'[t][i].val, DurationsIn(t, e)', Durs')
      <3>1. Remembers(maxes[t][i].val, DurationsIn(t, e), Durs)
        BY <2>0, <2>5, <1>8
      <3>2. Remembers(maxes[t][i].val, DurationsIn(t, e), Durs')
        BY <3>1, <1>7, <1>9
      <3> QED BY <3>2, <2>0, <2>3, <2>5
    <2> QED BY <1>8, <2>0, <2>4, <2>5
  <1>14. ASSUME Evaluated(m)'
         PROVE  Remembers(maxes'[s][Slot].val, DurationsIn(s, epoch) \union {m}, Durs')
    <2> DEFINE D == DurationsIn(s, epoch)
               v == maxes[s][Slot].val
    <2>0. /\ D \subseteq DOMAIN processed /\ D \in SUBSET Nat /\ Durs'[m] = sig.dur
          /\ \A k \in D : k < m
      BY <1>4, <1>5, <1>7
    <2>1. CASE maxes[s][Slot].epoch = epoch
      <3>1. Remembers(v, D, Durs')
        <4>1. Remembers(v, D, Durs)
          BY <1>0, <1>8, <2>1
        <4> QED BY <4>1, <2>0, <1>9
      <3>2. \A k \in D : Durs'[k] \in Nat \union {NaN}
        <4>1. \A k \in D : Evaluated(k) /\ Durs'[k] = processed[k].sig.dur
          BY <2>0, <1>5 DEF DurationsIn, Durs
        <4> QED BY <4>1, <2>0, DurationTypes
      <3>3. v \in Nat \union {NaN} /\ Durs'[m] \in Nat \union {NaN}
        BY <1>0, <1>5, <1>6, <1>10, <1>14
      <3>4. maxes'[s][Slot].val = IF v # NaN /\ Durs'[m] > v THEN Durs'[m] ELSE v
        BY <1>11, <1>14, <2>0, <2>1
      <3> HIDE DEF D, v
      <3>5. Remembers(IF v # NaN /\ Durs'[m] > v THEN Durs'[m] ELSE v, D \union {m}, Durs')
        BY <2>0, <3>1, <3>2, <3>3, <1>4, RemembersMore
      <3> QED BY <3>4, <3>5 DEF D
    <2>2. CASE maxes[s][Slot].epoch # epoch
      <3>1. D = {}
        <4>1. epoch % Buckets = Slot
          BY DEF Slot
        <4>2. maxes[s][Slot].epoch <= epoch /\ maxes[s][Slot].epoch \in Nat
          BY <1>0, <1>6, <1>8
        <4>3. D # {} => epoch <= maxes[s][Slot].epoch
          BY <1>0, <1>8, <4>1
        <4> QED BY <4>2, <4>3, <2>2, <1>0
      <3>2. maxes'[s][Slot].val = Durs'[m]
        BY <1>11, <1>14, <2>0, <2>2
      <3>3. Remembers(Durs'[m], {m}, Durs')
        BY <1>4, <1>5, <1>10, <1>14, RemembersOne
      <3>4. D \union {m} = {m}
        BY <3>1
      <3> QED BY <3>2, <3>3, <3>4
    <2> QED BY <2>1, <2>2
  <1>15. ASSUME NEW t \in Services, NEW i \in 0 .. Buckets - 1
         PROVE  /\ maxes'[t][i].epoch <= epoch
                /\ maxes'[t][i].epoch # 0 => maxes'[t][i].epoch % Buckets = i
                /\ \A e \in 1 .. epoch : DurationsIn(t, e)' # {} /\ e % Buckets = i =>
                     e <= maxes'[t][i].epoch
                /\ \A e : e = maxes'[t][i].epoch /\ e # 0 =>
                     Remembers(maxes'[t][i].val, DurationsIn(t, e)', Durs')
    <2>1. CASE Evaluated(m)' /\ t = s /\ i = Slot
      <3>1. maxes'[t][i].epoch = epoch /\ epoch % Buckets = i
        BY <2>1, <1>11 DEF Slot
      <3>2. \A e : e = epoch => DurationsIn(t, e)' = DurationsIn(s, epoch) \union {m}
        BY <2>1, <1>3
      <3>3. \A e \in 1 .. epoch : e <= epoch
        BY <1>0
      <3> QED BY <2>1, <3>1, <3>2, <3>3, <1>0, <1>14
    <2>2. CASE ~(Evaluated(m)' /\ t = s /\ i = Slot)
      BY <2>2, <1>13
    <2> QED BY <2>1, <2>2
  <1>16. LatencySlots'
    <2>1. LatencySlots' <=> SlotsRemember'
      BY LatencySlotsSay, PTL
    <2>2. ASSUME NEW t \in Services, NEW i \in 0 .. Buckets - 1
          PROVE  /\ Placed(maxes[t][i], i, {e \in 1 .. epoch : DurationsIn(t, e) # {}})'
                 /\ maxes'[t][i].epoch # 0 =>
                      Remembers(maxes[t][i].val, DurationsIn(t, maxes[t][i].epoch), Durs)'
      <3>1. Placed(maxes[t][i], i, {e \in 1 .. epoch : DurationsIn(t, e) # {}})'
        BY <1>2, <1>15 DEF Placed
      <3>2. PICK e : e = maxes'[t][i].epoch
        OBVIOUS
      <3>3. DurationsIn(t, maxes[t][i].epoch)' = DurationsIn(t, e)'
        BY <3>2 DEF DurationsIn
      <3>4. e # 0 => Remembers(maxes'[t][i].val, DurationsIn(t, e)', Durs')
        BY <3>2, <1>15
      <3>5. e # 0 => Remembers(maxes'[t][i].val, DurationsIn(t, maxes[t][i].epoch)', Durs')
        BY <3>3, <3>4
      <3> QED BY <3>1, <3>2, <3>5 DEF Remembers, FirstOf
    <2> QED BY <2>1, <2>2 DEF SlotsRemember
  <1> QED BY <1>12, <1>16 DEF Rings, BucketsOf, V

LEMMA CepTypesKept ==
  ASSUME CepTypes, NEW sig \in Signals, NEW ev \in Events, Recorded(sig, ev),
         errors' \in Rings(Nat), maxes' \in Rings(Durations \union {0, NaN}),
         firing' \in [{"error", "latency"} -> [Services -> BOOLEAN]]
  PROVE  CepTypes'
  <1> DEFINE rec == [sig |-> sig, epoch |-> epoch, event |-> ev]
  <1>1. rec \in Records /\ epoch \in 1 .. epoch /\ epoch \in Nat /\ epoch >= Buckets
        /\ rec.epoch = epoch /\ processed' = Append(processed, rec) /\ epoch' = epoch
    BY RecordIsTyped DEF Recorded
  <1> HIDE DEF rec
  <1>2. /\ processed' \in Seq(Records) /\ processed'[Len(processed) + 1] = rec
        /\ DOMAIN processed' = DOMAIN processed \union {Len(processed) + 1}
        /\ \A j \in DOMAIN processed : processed'[j] = processed[j]
    BY <1>1, Appended
  <1>3. \A j \in DOMAIN processed : processed[j].epoch \in 1 .. epoch
    BY DEF CepTypes
  <1>4. \A j \in DOMAIN processed' : processed'[j].epoch \in 1 .. epoch
    BY <1>1, <1>2, <1>3
  <1> QED BY <1>1, <1>2, <1>4 DEF CepTypes, Records

LEMMA LatencyRuleJudges ==
  ASSUME CepTypes, NEW sig \in Signals, NEW ev \in Events, Recorded(sig, ev),
         NEW s, s = sig.service, NEW n, n = Len(processed) + 1, CepTypes', LatencySlots'
  PROVE  maxIn(maxes'[s]) >= LatThreshold <=> LatencyOver(n)'
  <1> DEFINE rec == [sig |-> sig, epoch |-> epoch, event |-> ev]
  <1>1. /\ rec \in Records /\ s \in Services /\ rec.epoch = epoch /\ rec.sig = sig
        /\ processed' = Append(processed, rec) /\ epoch' = epoch
    BY RecordIsTyped DEF Recorded
  <1> HIDE DEF rec
  <1>2. n \in DOMAIN processed' /\ n = Len(processed') /\ processed'[n] = rec
    BY <1>1, Appended
  <1>3. Service(n)' = s /\ processed'[n].epoch = epoch'
    BY <1>1, <1>2 DEF Service
  <1>4. LastIsPeak'
    BY PeakIsOver, PTL
  <1>5. LatencyOver(n)' <=> \E i \in 0 .. Buckets - 1 :
          Live(maxes[Service(n)][i])' /\ maxes'[Service(n)'][i].val >= LatThreshold
    BY <1>2, <1>3, <1>4 DEF LastIsPeak
  <1>6. \A i : Live(maxes[Service(n)][i])' <=> Live(maxes'[s][i])
    BY <1>1, <1>3 DEF Live
  <1>7. maxes'[s] \in BucketsOf(Int)
    <2> DEFINE V == Durations \union {0, NaN}
    <2>1. maxes'[s] \in [0 .. Buckets - 1 -> [epoch : Nat, val : V]]
      BY <1>1 DEF CepTypes, Rings
    <2>2. V \subseteq Int
      BY CepAssumption DEF NaN
    <2> HIDE DEF V
    <2> QED BY <2>1, <2>2 DEF BucketsOf
  <1>8. maxIn(maxes'[s]) >= LatThreshold <=>
          \E i \in 0 .. Buckets - 1 : Live(maxes'[s][i]) /\ maxes'[s][i].val >= LatThreshold
    <2>1. LatThreshold \in Nat \ {0}
      BY CepAssumption
    <2> QED BY <1>7, <2>1, MaxReaches
  <1> QED BY <1>3, <1>5, <1>6, <1>8

\* Two maps of Booleans, changed at one service each.
LEMMA FiringDoes ==
  ASSUME firing \in [{"error", "latency"} -> [Services -> BOOLEAN]], NEW s \in Services,
         NEW a \in BOOLEAN, NEW b \in BOOLEAN, NEW askA \in BOOLEAN, NEW askB \in BOOLEAN,
         firing' = [firing EXCEPT !["error"][s] = IF askA THEN a ELSE @,
                                  !["latency"][s] = IF askB THEN b ELSE @]
  PROVE  /\ firing' \in [{"error", "latency"} -> [Services -> BOOLEAN]]
         /\ firing'["error"][s] = (IF askA THEN a ELSE firing["error"][s])
         /\ firing'["latency"][s] = (IF askB THEN b ELSE firing["latency"][s])
         /\ \A t \in Services \ {s} : /\ firing'["error"][t] = firing["error"][t]
                                      /\ firing'["latency"][t] = firing["latency"][t]
  OBVIOUS

\* A rule's last signal: the new one if it was asked, the former one otherwise.
LEMMA LastAfter ==
  ASSUME NEW D \in SUBSET Nat, NEW n \in Nat, \A k \in D : k < n
  PROVE  \A j : LastOf(D \union {n}, j) <=> j = n
  <1>1. \A k \in D : k <= n /\ ~(n <= k)
    OBVIOUS
  <1>2. LastOf(D \union {n}, n)
    BY <1>1 DEF LastOf
  <1>3. ASSUME NEW j, LastOf(D \union {n}, j) PROVE j = n
    BY <1>1, <1>3 DEF LastOf
  <1> QED BY <1>2, <1>3

\* The state of the rules after a signal, in terms of the record.
LEMMA FiringKept ==
  ASSUME CepTypes, FiringMeansOver, NEW sig \in Signals, NEW ev \in Events, Recorded(sig, ev),
         NEW s, s = sig.service, NEW n, n = Len(processed) + 1,
         NEW askA, askA = SeesErrors(sig), NEW askB, askB = (SeesLatency(sig) /\ ev # "error"),
         askA => (firing'["error"][s] <=> ErrorsOver(n)'),
         ~askA => firing'["error"][s] = firing["error"][s],
         askB => (firing'["latency"][s] <=> LatencyOver(n)'),
         ~askB => firing'["latency"][s] = firing["latency"][s],
         \A t \in Services \ {s} : /\ firing'["error"][t] = firing["error"][t]
                                   /\ firing'["latency"][t] = firing["latency"][t]
  PROVE  FiringMeansOver'
  <1> DEFINE rec == [sig |-> sig, epoch |-> epoch, event |-> ev]
  <1>1. /\ rec \in Records /\ s \in Services /\ rec.event = ev /\ rec.sig = sig
        /\ processed' = Append(processed, rec)
    BY RecordIsTyped DEF Recorded
  <1> HIDE DEF rec
  <1>2. /\ Len(processed) \in Nat /\ n \in Nat /\ DOMAIN processed = 1 .. Len(processed)
        /\ n \notin DOMAIN processed /\ \A i \in DOMAIN processed : i < n
    <2>1. Len(processed) \in Nat
      BY <1>1, Appended
    <2> QED BY <1>1, <2>1, Appended
  <1>3. /\ \A t : LoggedOf(t)' = LoggedOf(t) \union (IF askA /\ s = t THEN {n} ELSE {})
        /\ \A t : EvaluatedOf(t)' = EvaluatedOf(t) \union (IF askB /\ s = t THEN {n} ELSE {})
    BY <1>1, Joins
  <1>4. \A t : LoggedOf(t) \subseteq DOMAIN processed /\ EvaluatedOf(t) \subseteq DOMAIN processed
    BY DEF LoggedOf, EvaluatedOf
  <1>5. \A j \in DOMAIN processed : /\ ErrorsOver(j)' <=> ErrorsOver(j)
                                    /\ LatencyOver(j)' <=> LatencyOver(j)
    BY <1>1, Settled
  <1>6. ASSUME NEW t \in Services
        PROVE  firing'["error"][t] <=>
                 \E j \in LoggedOf(t)' : LastOf(LoggedOf(t)', j) /\ ErrorsOver(j)'
    <2>1. firing["error"][t] <=> \E j \in LoggedOf(t) : LastOf(LoggedOf(t), j) /\ ErrorsOver(j)
      BY DEF FiringMeansOver
    <2>2. CASE askA /\ t = s
      <3>1. LoggedOf(t)' = LoggedOf(t) \union {n}
        BY <2>2, <1>3
      <3>2. \A j : LastOf(LoggedOf(t)', j) <=> j = n
        <4>1. LoggedOf(t) \in SUBSET Nat /\ \A k \in LoggedOf(t) : k < n
          BY <1>2, <1>4
        <4>2. \A j : LastOf(LoggedOf(t) \union {n}, j) <=> j = n
          BY <4>1, <1>2, LastAfter
        <4> QED BY <3>1, <4>2, Zenon
      <3>3. n \in LoggedOf(t)'
        BY <3>1
      <3> QED BY <2>2, <3>2, <3>3
    <2>3. CASE ~(askA /\ t = s)
      <3>1. LoggedOf(t)' = LoggedOf(t)
        BY <2>3, <1>3
      <3>2. firing'["error"][t] = firing["error"][t]
        BY <2>3
      <3>3. \A j \in LoggedOf(t) : ErrorsOver(j)' <=> ErrorsOver(j)
        BY <1>4, <1>5
      <3> QED BY <2>1, <3>1, <3>2, <3>3
    <2> QED BY <2>2, <2>3
  <1>7. ASSUME NEW t \in Services
        PROVE  firing'["latency"][t] <=>
                 \E j \in EvaluatedOf(t)' : LastOf(EvaluatedOf(t)', j) /\ LatencyOver(j)'
    <2>1. firing["latency"][t] <=>
            \E j \in EvaluatedOf(t) : LastOf(EvaluatedOf(t), j) /\ LatencyOver(j)
      BY DEF FiringMeansOver
    <2>2. CASE askB /\ t = s
      <3>1. EvaluatedOf(t)' = EvaluatedOf(t) \union {n}
        BY <2>2, <1>3
      <3>2. \A j : LastOf(EvaluatedOf(t)', j) <=> j = n
        <4>1. EvaluatedOf(t) \in SUBSET Nat /\ \A k \in EvaluatedOf(t) : k < n
          BY <1>2, <1>4
        <4>2. \A j : LastOf(EvaluatedOf(t) \union {n}, j) <=> j = n
          BY <4>1, <1>2, LastAfter
        <4> QED BY <3>1, <4>2, Zenon
      <3>3. n \in EvaluatedOf(t)'
        BY <3>1
      <3> QED BY <2>2, <3>2, <3>3
    <2>3. CASE ~(askB /\ t = s)
      <3>1. EvaluatedOf(t)' = EvaluatedOf(t)
        BY <2>3, <1>3
      <3>2. firing'["latency"][t] = firing["latency"][t]
        BY <2>3
      <3>3. \A j \in EvaluatedOf(t) : LatencyOver(j)' <=> LatencyOver(j)
        BY <1>4, <1>5
      <3> QED BY <2>1, <3>1, <3>2, <3>3
    <2> QED BY <2>2, <2>3
  <1> QED BY <1>6, <1>7 DEF FiringMeansOver, LastOf

\* What an earlier signal raised stays an edge or none.
LEMMA EdgesSettled ==
  ASSUME CepTypes, NEW rec \in Records, processed' = Append(processed, rec),
         NEW i \in DOMAIN processed
  PROVE  (ErrorEdge(i)' <=> ErrorEdge(i)) /\ (LatencyEdge(i)' <=> LatencyEdge(i))
  <1> DEFINE le == {j \in 1 .. i - 1 : Logged(j) /\ Service(j) = Service(i)}
             ev == {j \in 1 .. i - 1 : Evaluated(j) /\ Service(j) = Service(i)}
  <1>1. \A j \in 1 .. i - 1 : j \in DOMAIN processed
    <2>1. DOMAIN processed = 1 .. Len(processed) /\ Len(processed) \in Nat
      BY Appended
    <2> QED BY <2>1
  <1>2. \A j \in DOMAIN processed :
          /\ Service(j)' = Service(j) /\ Logged(j)' = Logged(j) /\ Evaluated(j)' = Evaluated(j)
          /\ (ErrorsOver(j)' <=> ErrorsOver(j)) /\ (LatencyOver(j)' <=> LatencyOver(j))
    BY Settled
  <1>3. le' = le /\ ev' = ev
    BY <1>1, <1>2
  <1>4. /\ ErrorEdge(i) <=>
             Logged(i) /\ ErrorsOver(i) /\ \A j \in le : LastOf(le, j) => ~ErrorsOver(j)
        /\ LatencyEdge(i) <=>
             Evaluated(i) /\ LatencyOver(i) /\ \A j \in ev : LastOf(ev, j) => ~LatencyOver(j)
    BY DEF ErrorEdge, LatencyEdge
  <1>5. /\ ErrorEdge(i)' <=>
             Logged(i)' /\ ErrorsOver(i)' /\ \A j \in le' : LastOf(le', j) => ~ErrorsOver(j)'
        /\ LatencyEdge(i)' <=>
             Evaluated(i)' /\ LatencyOver(i)' /\ \A j \in ev' : LastOf(ev', j) => ~LatencyOver(j)'
    BY DEF ErrorEdge, LatencyEdge, LastOf
  <1>6. le \subseteq DOMAIN processed /\ ev \subseteq DOMAIN processed
    BY <1>1
  <1> HIDE DEF le, ev
  <1> QED BY <1>2, <1>3, <1>4, <1>5, <1>6

\* The new signal is an edge of a rule that saw it over and was not firing.
LEMMA EdgeIsNew ==
  ASSUME CepTypes, FiringMeansOver, NEW sig \in Signals, NEW ev \in Events, Recorded(sig, ev),
         NEW s, s = sig.service, NEW n, n = Len(processed) + 1
  PROVE  /\ ErrorEdge(n)' <=> SeesErrors(sig) /\ ErrorsOver(n)' /\ ~firing["error"][s]
         /\ LatencyEdge(n)' <=> /\ SeesLatency(sig) /\ ev # "error" /\ LatencyOver(n)'
                                /\ ~firing["latency"][s]
  <1> DEFINE rec == [sig |-> sig, epoch |-> epoch, event |-> ev]
  <1>1. /\ rec \in Records /\ s \in Services /\ rec.event = ev /\ rec.sig = sig
        /\ processed' = Append(processed, rec)
    BY RecordIsTyped DEF Recorded
  <1> HIDE DEF rec
  <1>2. DOMAIN processed = 1 .. n - 1
    <2>1. Len(processed) \in Nat /\ DOMAIN processed = 1 .. Len(processed)
      BY <1>1, Appended
    <2> QED BY <2>1
  <1>3. /\ Service(n)' = s /\ Logged(n)' = SeesErrors(sig)
        /\ Evaluated(n)' = (SeesLatency(sig) /\ ev # "error")
    BY <1>1, Joins
  <1>4. \A j \in DOMAIN processed :
          /\ Service(j)' = Service(j) /\ Logged(j)' = Logged(j) /\ Evaluated(j)' = Evaluated(j)
          /\ (ErrorsOver(j)' <=> ErrorsOver(j)) /\ (LatencyOver(j)' <=> LatencyOver(j))
    BY <1>1, Settled
  <1>5. /\ {j \in 1 .. n - 1 : Logged(j)' /\ Service(j)' = Service(n)'} = LoggedOf(s)
        /\ {j \in 1 .. n - 1 : Evaluated(j)' /\ Service(j)' = Service(n)'} = EvaluatedOf(s)
    BY <1>2, <1>3, <1>4 DEF LoggedOf, EvaluatedOf
  <1>6. LoggedOf(s) \subseteq DOMAIN processed /\ EvaluatedOf(s) \subseteq DOMAIN processed
    BY DEF LoggedOf, EvaluatedOf
  <1>7. ErrorEdge(n)' <=> /\ Logged(n)' /\ ErrorsOver(n)'
                          /\ \A j \in LoggedOf(s) : LastOf(LoggedOf(s), j) => ~ErrorsOver(j)'
    BY <1>5 DEF ErrorEdge, LastOf
  <1>8. LatencyEdge(n)' <=>
          /\ Evaluated(n)' /\ LatencyOver(n)'
          /\ \A j \in EvaluatedOf(s) : LastOf(EvaluatedOf(s), j) => ~LatencyOver(j)'
    BY <1>5 DEF LatencyEdge, LastOf
  <1>9. /\ firing["error"][s] <=> \E j \in LoggedOf(s) : LastOf(LoggedOf(s), j) /\ ErrorsOver(j)
        /\ firing["latency"][s] <=>
             \E j \in EvaluatedOf(s) : LastOf(EvaluatedOf(s), j) /\ LatencyOver(j)
    BY <1>1 DEF FiringMeansOver
  <1>10. (\A j \in LoggedOf(s) : LastOf(LoggedOf(s), j) => ~ErrorsOver(j)') <=> ~firing["error"][s]
    BY <1>4, <1>6, <1>9
  <1>11. (\A j \in EvaluatedOf(s) : LastOf(EvaluatedOf(s), j) => ~LatencyOver(j)')
           <=> ~firing["latency"][s]
    BY <1>4, <1>6, <1>9
  <1> QED BY <1>3, <1>7, <1>8, <1>10, <1>11

LEMMA ProcessKeepsCep ==
  ASSUME CepInv, NEW sig \in Signals, Process(sig)
  PROVE  CepInv'
  <1>1. CepTypes /\ ErrorSlots /\ LatencySlots /\ FiringMeansOver /\ EventsAreEdges
    BY DEF CepInv
  <1>2. PICK s, n : s = sig.service /\ n = Len(processed) + 1
    OBVIOUS
  <1>3. /\ epoch' = epoch
        /\ errors' = IF SeesErrors(sig) /\ sig.error
                     THEN [errors EXCEPT ![s] = add(errors[s], 1)] ELSE errors
    BY <1>1, <1>2, ProcessDoes
  <1>4. PICK ev \in Events :
          /\ processed' = Append(processed, [sig |-> sig, epoch |-> epoch, event |-> ev])
          /\ ev = "error" <=> /\ SeesErrors(sig) /\ sum(errors'[s]) >= ErrThreshold
                              /\ ~firing["error"][s]
          /\ maxes' = IF SeesLatency(sig) /\ ev # "error"
                      THEN [maxes EXCEPT ![s] = observe(maxes[s], sig.dur)] ELSE maxes
          /\ ev = "latency" <=> /\ SeesLatency(sig) /\ ev # "error"
                                /\ maxIn(maxes'[s]) >= LatThreshold /\ ~firing["latency"][s]
          /\ firing' = [firing EXCEPT
               !["error"][s] = IF SeesErrors(sig) THEN sum(errors'[s]) >= ErrThreshold ELSE @,
               !["latency"][s] = IF SeesLatency(sig) /\ ev # "error"
                                 THEN maxIn(maxes'[s]) >= LatThreshold ELSE @]
    BY <1>1, <1>2, ProcessDoes DEF Events
  <1>5. Recorded(sig, ev)
    BY <1>3, <1>4 DEF Recorded
  <1>6. errors' \in Rings(Nat) /\ ErrorSlots'
    BY <1>1, <1>2, <1>3, <1>5, ErrorSlotsKept
  <1>7. maxes' \in Rings(Durations \union {0, NaN}) /\ LatencySlots'
    BY <1>1, <1>2, <1>4, <1>5, LatencySlotsKept
  <1> DEFINE a == sum(errors'[s]) >= ErrThreshold
             b == maxIn(maxes'[s]) >= LatThreshold
             askA == SeesErrors(sig)
             askB == SeesLatency(sig) /\ ev # "error"
  <1>8. s \in Services
    BY <1>1, <1>2, RecordIsTyped
  <1>9. /\ firing' \in [{"error", "latency"} -> [Services -> BOOLEAN]]
        /\ firing'["error"][s] = (IF askA THEN a ELSE firing["error"][s])
        /\ firing'["latency"][s] = (IF askB THEN b ELSE firing["latency"][s])
        /\ \A t \in Services \ {s} : /\ firing'["error"][t] = firing["error"][t]
                                     /\ firing'["latency"][t] = firing["latency"][t]
    <2>1. a \in BOOLEAN /\ b \in BOOLEAN /\ askA \in BOOLEAN /\ askB \in BOOLEAN
      BY DEF SeesErrors, SeesLatency
    <2>2. firing \in [{"error", "latency"} -> [Services -> BOOLEAN]]
      BY <1>1 DEF CepTypes
    <2>3. firing' = [firing EXCEPT !["error"][s] = IF askA THEN a ELSE @,
                                   !["latency"][s] = IF askB THEN b ELSE @]
      BY <1>4
    <2> HIDE DEF a, b, askA, askB
    <2> QED BY <1>8, <2>1, <2>2, <2>3, FiringDoes
  <1>10. CepTypes'
    BY <1>1, <1>5, <1>6, <1>7, <1>9, CepTypesKept
  <1>11. a <=> ErrorsOver(n)'
    BY <1>1, <1>2, <1>5, <1>6, ErrorRuleJudges
  <1>12. b <=> LatencyOver(n)'
    BY <1>1, <1>2, <1>5, <1>7, <1>10, LatencyRuleJudges
  <1>13. FiringMeansOver'
    <2>1. PICK qa, qb : qa = SeesErrors(sig) /\ qb = (SeesLatency(sig) /\ ev # "error")
      OBVIOUS
    <2>2. /\ qa => (firing'["error"][s] <=> ErrorsOver(n)')
          /\ ~qa => firing'["error"][s] = firing["error"][s]
      <3> HIDE DEF a, b
      <3> QED BY <2>1, <1>9, <1>11
    <2>3. /\ qb => (firing'["latency"][s] <=> LatencyOver(n)')
          /\ ~qb => firing'["latency"][s] = firing["latency"][s]
      <3> HIDE DEF a, b
      <3> QED BY <2>1, <1>9, <1>12
    <2> QED BY <1>1, <1>2, <1>5, <1>9, <2>1, <2>2, <2>3, FiringKept
  <1>14. EventsAreEdges'
    <2> DEFINE rec == [sig |-> sig, epoch |-> epoch, event |-> ev]
    <2>1. rec \in Records /\ rec.event = ev /\ processed' = Append(processed, rec)
      BY <1>1, <1>4, RecordIsTyped
    <2> HIDE DEF rec
    <2>2. /\ DOMAIN processed' = DOMAIN processed \union {n} /\ processed'[n] = rec
          /\ \A i \in DOMAIN processed : processed'[i] = processed[i]
      BY <1>1, <1>2, <2>1, Appended
    <2>3. ASSUME NEW i \in DOMAIN processed
          PROVE  processed'[i].event = IF ErrorEdge(i)' THEN "error"
                                       ELSE IF LatencyEdge(i)' THEN "latency" ELSE "none"
      <3>1. (ErrorEdge(i)' <=> ErrorEdge(i)) /\ (LatencyEdge(i)' <=> LatencyEdge(i))
        BY <1>1, <2>1, EdgesSettled
      <3>2. processed[i].event = IF ErrorEdge(i) THEN "error"
                                 ELSE IF LatencyEdge(i) THEN "latency" ELSE "none"
        BY <1>1 DEF EventsAreEdges
      <3> QED BY <2>2, <3>1, <3>2
    <2>4. processed'[n].event = IF ErrorEdge(n)' THEN "error"
                                ELSE IF LatencyEdge(n)' THEN "latency" ELSE "none"
      <3>1. /\ ErrorEdge(n)' <=> SeesErrors(sig) /\ ErrorsOver(n)' /\ ~firing["error"][s]
            /\ LatencyEdge(n)' <=> /\ SeesLatency(sig) /\ ev # "error" /\ LatencyOver(n)'
                                   /\ ~firing["latency"][s]
        BY <1>1, <1>2, <1>5, EdgeIsNew
      <3>2. /\ ev = "error" <=> SeesErrors(sig) /\ a /\ ~firing["error"][s]
            /\ ev = "latency" <=> /\ SeesLatency(sig) /\ ev # "error" /\ b /\ ~firing["latency"][s]
            /\ ev \in {"error", "latency", "none"}
        BY <1>4 DEF Events
      <3> HIDE DEF a, b
      <3> QED BY <1>11, <1>12, <2>1, <2>2, <3>1, <3>2
    <2> QED BY <2>2, <2>3, <2>4 DEF EventsAreEdges
  <1> QED BY <1>6, <1>7, <1>10, <1>13, <1>14 DEF CepInv

\* The clock only makes buckets leave the window.
LEMMA ClockKeepsCep ==
  ASSUME CepInv, UNCHANGED <<errors, maxes, firing, processed>>, epoch' \in {epoch, epoch + 1}
  PROVE  CepInv'
  <1>1. /\ epoch' \in {epoch, epoch + 1} /\ epoch \in Nat
        /\ UNCHANGED <<errors, maxes, firing, processed>>
        /\ CepTypes /\ ErrorSlots /\ LatencySlots /\ FiringMeansOver /\ EventsAreEdges
    BY DEF CepInv, CepTypes
  <1>2. /\ \A s, e : ErrorsIn(s, e)' = ErrorsIn(s, e) /\ DurationsIn(s, e)' = DurationsIn(s, e)
        /\ \A i : /\ Service(i)' = Service(i) /\ Logged(i)' = Logged(i)
                  /\ Evaluated(i)' = Evaluated(i) /\ Failed(i)' = Failed(i)
                  /\ Window(i)' = Window(i)
    BY <1>1 DEF ErrorsIn, DurationsIn, Service, Logged, Evaluated, Failed, Window
  <1>3. CepTypes'
    <2>1. \A j \in DOMAIN processed : processed[j].epoch \in 1 .. epoch
      BY <1>1 DEF CepTypes
    <2>2. \A e \in 1 .. epoch : e \in 1 .. epoch'
      BY <1>1
    <2>3. epoch' \in Nat /\ epoch' >= Buckets
      BY <1>1, CepAssumption DEF CepTypes
    <2>4. \A j \in DOMAIN processed' : processed'[j].epoch \in 1 .. epoch'
      BY <1>1, <2>1, <2>2
    <2> QED BY <1>1, <2>3, <2>4 DEF CepTypes
  <1>4. \A s, e : e \in 1 .. epoch' /\ (ErrorsIn(s, e) # {} \/ DurationsIn(s, e) # {}) => e \in 1 .. epoch
    BY <1>1 DEF CepTypes, ErrorsIn, DurationsIn
  <1>5. ErrorSlots'
    <2> SUFFICES ASSUME NEW s \in Services, NEW i \in 0 .. Buckets - 1
                 PROVE  /\ Placed(errors[s][i], i, {e \in 1 .. epoch : ErrorsIn(s, e) # {}})'
                        /\ errors'[s][i].val = Cardinality(ErrorsIn(s, errors[s][i].epoch)')
      BY DEF ErrorSlots
    <2>1. /\ Placed(errors[s][i], i, {e \in 1 .. epoch : ErrorsIn(s, e) # {}})
          /\ errors[s][i].val = Cardinality(ErrorsIn(s, errors[s][i].epoch))
      BY <1>1 DEF ErrorSlots
    <2>2. errors[s][i].epoch \in Nat
      <3>1. errors \in [Services -> [0 .. Buckets - 1 -> [epoch : Nat, val : Nat]]]
        BY <1>1 DEF CepTypes, Rings
      <3>2. errors[s][i] \in [epoch : Nat, val : Nat]
        BY <3>1
      <3> QED BY <3>2
    <2>3. ErrorsIn(s, errors[s][i].epoch)' = ErrorsIn(s, errors[s][i].epoch)
      BY <1>1 DEF ErrorsIn, Failed, Logged, Service
    <2>4. Placed(errors[s][i], i, {e \in 1 .. epoch : ErrorsIn(s, e) # {}})'
      <3>1. /\ errors[s][i].epoch <= epoch
            /\ errors[s][i].epoch # 0 => errors[s][i].epoch % Buckets = i
            /\ \A e \in 1 .. epoch : ErrorsIn(s, e) # {} /\ e % Buckets = i => e <= errors[s][i].epoch
        BY <2>1 DEF Placed
      <3>2. errors[s][i].epoch <= epoch'
        BY <1>1, <2>2, <3>1
      <3>3. \A e \in 1 .. epoch' : ErrorsIn(s, e)' # {} /\ e % Buckets = i => e <= errors[s][i].epoch
        BY <1>2, <1>4, <3>1
      <3> QED BY <1>1, <3>1, <3>2, <3>3 DEF Placed
    <2> QED BY <1>1, <2>1, <2>3, <2>4
  <1>6. LatencySlots'
    <2>1. LatencySlots' <=> SlotsRemember'
      BY LatencySlotsSay, PTL
    <2>2. Durs' = Durs /\ SlotsRemember
      BY <1>1, LatencySlotsSay DEF Durs
    <2> SUFFICES ASSUME NEW s \in Services, NEW i \in 0 .. Buckets - 1
                 PROVE  /\ Placed(maxes[s][i], i, {e \in 1 .. epoch : DurationsIn(s, e) # {}})'
                        /\ maxes'[s][i].epoch # 0 =>
                             Remembers(maxes[s][i].val, DurationsIn(s, maxes[s][i].epoch), Durs)'
      BY <2>1 DEF SlotsRemember
    <2>3. /\ Placed(maxes[s][i], i, {e \in 1 .. epoch : DurationsIn(s, e) # {}})
          /\ maxes[s][i].epoch # 0 =>
               Remembers(maxes[s][i].val, DurationsIn(s, maxes[s][i].epoch), Durs)
      BY <2>2 DEF SlotsRemember
    <2>4. maxes[s][i].epoch \in Nat
      BY <1>1, DurationTypes
    <2>5. DurationsIn(s, maxes[s][i].epoch)' = DurationsIn(s, maxes[s][i].epoch)
      BY <1>1 DEF DurationsIn, Evaluated, Service
    <2>6. Placed(maxes[s][i], i, {e \in 1 .. epoch : DurationsIn(s, e) # {}})'
      <3>1. /\ maxes[s][i].epoch <= epoch
            /\ maxes[s][i].epoch # 0 => maxes[s][i].epoch % Buckets = i
            /\ \A e \in 1 .. epoch : DurationsIn(s, e) # {} /\ e % Buckets = i => e <= maxes[s][i].epoch
        BY <2>3 DEF Placed
      <3>2. maxes[s][i].epoch <= epoch'
        BY <1>1, <2>4, <3>1
      <3>3. \A e \in 1 .. epoch' : DurationsIn(s, e)' # {} /\ e % Buckets = i => e <= maxes[s][i].epoch
        BY <1>2, <1>4, <3>1
      <3> QED BY <1>1, <3>1, <3>2, <3>3 DEF Placed
    <2> QED BY <1>1, <2>2, <2>3, <2>5, <2>6 DEF Remembers, FirstOf
  <1>7. \A i : ErrorsOver(i)' <=> ErrorsOver(i)
    <2> SUFFICES ASSUME NEW i PROVE ErrorsOver(i)' <=> ErrorsOver(i)
      OBVIOUS
    <2>1. {j \in Window(i)' : Failed(j)'} = {j \in Window(i) : Failed(j)}
      BY <1>2
    <2> QED BY <2>1, Zenon DEF ErrorsOver
  <1>8. \A i : LatencyOver(i)' <=> LatencyOver(i)
    <2>1. \A i : Blind(i)' <=> Blind(i)
      <3> SUFFICES ASSUME NEW i PROVE Blind(i)' <=> Blind(i)
        OBVIOUS
      <3>1. DurationsIn(Service(i), processed[i].epoch)' = DurationsIn(Service(i), processed[i].epoch)
        BY <1>1 DEF DurationsIn, Evaluated, Service
      <3>2. Blind(i)' <=> \E j \in 1 .. i :
              /\ FirstOf(DurationsIn(Service(i), processed[i].epoch)', j)
              /\ processed'[j].sig.dur = NaN
        BY DEF Blind, FirstOf
      <3> QED BY <3>1, <3>2, <1>1 DEF Blind
    <2> SUFFICES ASSUME NEW i PROVE LatencyOver(i)' <=> LatencyOver(i)
      OBVIOUS
    <2>2. LatencyOver(i)' <=> \E j \in Window(i)' :
            Evaluated(j)' /\ ~Blind(j)' /\ processed'[j].sig.dur >= LatThreshold
      BY DEF LatencyOver
    <2> QED BY <1>1, <1>2, <2>1, <2>2 DEF LatencyOver
  <1>9. FiringMeansOver'
    <2>1. \A s : LoggedOf(s)' = LoggedOf(s) /\ EvaluatedOf(s)' = EvaluatedOf(s)
      BY <1>1, <1>2 DEF LoggedOf, EvaluatedOf
    <2>2. ASSUME NEW s \in Services
          PROVE  /\ firing'["error"][s] <=>
                      \E j \in LoggedOf(s)' : LastOf(LoggedOf(s)', j) /\ ErrorsOver(j)'
                 /\ firing'["latency"][s] <=>
                      \E j \in EvaluatedOf(s)' : LastOf(EvaluatedOf(s)', j) /\ LatencyOver(j)'
      BY <1>1, <1>7, <1>8, <2>1 DEF FiringMeansOver
    <2> QED BY <2>2 DEF FiringMeansOver, LastOf
  <1>10. \A i : (ErrorEdge(i)' <=> ErrorEdge(i)) /\ (LatencyEdge(i)' <=> LatencyEdge(i))
    <2> SUFFICES ASSUME NEW i
                 PROVE  (ErrorEdge(i)' <=> ErrorEdge(i)) /\ (LatencyEdge(i)' <=> LatencyEdge(i))
      OBVIOUS
    <2> DEFINE le == {j \in 1 .. i - 1 : Logged(j) /\ Service(j) = Service(i)}
               ev == {j \in 1 .. i - 1 : Evaluated(j) /\ Service(j) = Service(i)}
    <2>1. le' = le /\ ev' = ev
      BY <1>2
    <2>2. /\ ErrorEdge(i) <=>
               Logged(i) /\ ErrorsOver(i) /\ \A j \in le : LastOf(le, j) => ~ErrorsOver(j)
          /\ LatencyEdge(i) <=>
               Evaluated(i) /\ LatencyOver(i) /\ \A j \in ev : LastOf(ev, j) => ~LatencyOver(j)
      BY DEF ErrorEdge, LatencyEdge
    <2>3. /\ ErrorEdge(i)' <=>
               Logged(i)' /\ ErrorsOver(i)' /\ \A j \in le' : LastOf(le', j) => ~ErrorsOver(j)'
          /\ LatencyEdge(i)' <=>
               Evaluated(i)' /\ LatencyOver(i)' /\ \A j \in ev' : LastOf(ev', j) => ~LatencyOver(j)'
      BY DEF ErrorEdge, LatencyEdge, LastOf
    <2> HIDE DEF le, ev
    <2> QED BY <1>2, <1>7, <1>8, <2>1, <2>2, <2>3
  <1>11. EventsAreEdges'
    <2>1. \A i \in DOMAIN processed' :
            processed'[i].event = IF ErrorEdge(i)' THEN "error"
                                  ELSE IF LatencyEdge(i)' THEN "latency" ELSE "none"
      BY <1>1, <1>10 DEF EventsAreEdges
    <2> QED BY <2>1 DEF EventsAreEdges
  <1> QED BY <1>3, <1>5, <1>6, <1>9, <1>11 DEF CepInv

LEMMA CepInitInv ==
  CepInit => CepInv
  <1> SUFFICES ASSUME CepInit PROVE CepInv
    OBVIOUS
  <1>0. Buckets \in Nat /\ epoch = Buckets /\ DOMAIN processed = {} /\ processed = << >>
    BY CepAssumption DEF CepInit
  <1>1. \A s, e : ErrorsIn(s, e) = {} /\ DurationsIn(s, e) = {} /\ LoggedOf(s) = {} /\ EvaluatedOf(s) = {}
    BY <1>0 DEF ErrorsIn, DurationsIn, LoggedOf, EvaluatedOf
  <1>2. \A s \in Services : \A i \in 0 .. Buckets - 1 :
          errors[s][i] = [epoch |-> 0, val |-> 0] /\ maxes[s][i] = [epoch |-> 0, val |-> 0]
    BY DEF CepInit, Ring
  <1>3. CepTypes
    <2>1. errors \in Rings(Nat)
      BY DEF CepInit, Rings, Ring
    <2>2. maxes \in Rings(Durations \union {0, NaN})
      BY DEF CepInit, Rings, Ring
    <2>3. processed \in Seq([sig : Signals, epoch : Nat, event : {"error", "latency", "none"}])
      BY <1>0
    <2>4. firing \in [{"error", "latency"} -> [Services -> BOOLEAN]]
      BY DEF CepInit
    <2> QED BY <1>0, <2>1, <2>2, <2>3, <2>4 DEF CepTypes
  <1>4. ErrorSlots
    <2>1. Cardinality({}) = 0
      BY FS_EmptySet
    <2>2. ASSUME NEW s \in Services, NEW i \in 0 .. Buckets - 1
          PROVE  /\ Placed(errors[s][i], i, {e \in 1 .. epoch : ErrorsIn(s, e) # {}})
                 /\ errors[s][i].val = Cardinality(ErrorsIn(s, errors[s][i].epoch))
      <3>1. errors[s][i].epoch = 0 /\ errors[s][i].val = 0
        BY <1>2
      <3>2. Cardinality(ErrorsIn(s, errors[s][i].epoch)) = 0
        BY <1>1, <2>1, Zenon
      <3> QED BY <1>0, <1>1, <3>1, <3>2 DEF Placed
    <2> QED BY <2>2 DEF ErrorSlots
  <1>5. LatencySlots
    BY <1>0, <1>1, <1>2 DEF LatencySlots, Placed
  <1>6. FiringMeansOver
    <2>1. \A s \in Services : ~firing["error"][s] /\ ~firing["latency"][s]
      BY DEF CepInit
    <2> QED BY <1>1, <2>1 DEF FiringMeansOver
  <1>7. EventsAreEdges
    BY <1>0 DEF EventsAreEdges
  <1> QED BY <1>3, <1>4, <1>5, <1>6, <1>7 DEF CepInv

LEMMA CepStep ==
  ASSUME CepInv, [AlertPathNext]_<<cepVars, sinkVars>>
  PROVE  CepInv'
  <1>1. ASSUME NEW sig \in Signals, processSignal(sig) PROVE CepInv'
    BY <1>1, ProcessKeepsCep DEF processSignal
  <1>2. CASE CepTick
    BY <1>2, ClockKeepsCep DEF CepTick
  <1>3. CASE UNCHANGED cepVars
    BY <1>3, ClockKeepsCep DEF cepVars
  <1>4. \/ \E sig \in Signals : processSignal(sig)
        \/ CepTick
        \/ UNCHANGED cepVars
    BY DEF AlertPathNext, Publish, WorkerTake, Send, WorkerDone, Shutdown, SinkStop, EngineStop
  <1> QED BY <1>1, <1>2, <1>3, <1>4

LEMMA CepInvariance ==
  AlertPathSpec => []CepInv
  BY CepInitInv, CepStep, PTL DEF AlertPathSpec

(***************************************************************************)
(* HighErrorRateRule and HighLatencyRule raise an event exactly where a    *)
(* signal takes its service across the threshold: EventsAreEdges holds for *)
(* any number of buckets, services and signals, any thresholds and any     *)
(* pauses between signals.  The ring of buckets loses nothing that is      *)
(* still in the window and keeps nothing that has left it.                 *)
(***************************************************************************)
THEOREM RulesRaiseEdges ==
  AlertPathSpec => []EventsAreEdges
  <1>1. CepInv => EventsAreEdges
    BY DEF CepInv
  <1> QED BY <1>1, CepInvariance, PTL


-----------------------------------------------------------------------------
(* The alert sink *)

\* Process appends one record and decides the event in it.
LEMMA ProcessAppends ==
  ASSUME NEW sig, Process(sig)
  PROVE  /\ epoch' = epoch
         /\ \E ev \in {"error", "latency", "none"} :
              processed' = Append(processed, [sig |-> sig, epoch |-> epoch, event |-> ev])
  BY DEF Process

\* An event without a fate gets one: it joins that set and no other changes.
LEMMA FateJoins ==
  ASSUME SinkTypes, NEW e \in 1 .. MaxSignals, fate[e] = "none",
         NEW what \in Fates \ {"none"}, Fate(e, what)
  PROVE  /\ fate' \in [1 .. MaxSignals -> Fates]
         /\ e \notin With(what) /\ With(what)' = With(what) \union {e}
         /\ \A w \in Fates \ {"none", what} : With(w)' = With(w)
         /\ \A x \in 1 .. MaxSignals : x # e => fate'[x] = fate[x]
  BY DEF SinkTypes, Fate, With, Fates

LEMMA SinkSetsFinite ==
  ASSUME SinkInv
  PROVE  /\ IsFiniteSet(Buffered) /\ IsFiniteSet(Sending) /\ IsFiniteSet(With("sent"))
         /\ IsFiniteSet(With("dropped")) /\ IsFiniteSet(With("failed"))
         /\ Raised \subseteq 1 .. Len(processed) /\ Raised \subseteq 1 .. MaxSignals
  <1>1. Raised \subseteq 1 .. Len(processed) /\ Len(processed) \in Nat /\ Len(processed) <= MaxSignals
    BY DEF SinkInv, SinkTypes, Raised
  <1>2. IsFiniteSet(1 .. Len(processed))
    BY <1>1, FS_Interval
  <1>3. IsFiniteSet(Raised)
    BY <1>1, <1>2, FS_Subset
  <1>4. /\ Buffered \subseteq Raised /\ Sending \subseteq Raised /\ With("sent") \subseteq Raised
        /\ With("dropped") \subseteq Raised /\ With("failed") \subseteq Raised
    BY DEF SinkInv, SinkPlaces
  <1>5. Raised \subseteq 1 .. MaxSignals
    BY <1>1, CepAssumption
  <1> QED
    BY <1>1, <1>3, <1>4, <1>5, FS_Subset

LEMMA SinkCardinalities ==
  ASSUME SinkInv
  PROVE  /\ Cardinality(Buffered) \in Nat /\ Cardinality(Sending) \in Nat
         /\ Cardinality(With("sent")) \in Nat /\ Cardinality(With("dropped")) \in Nat
         /\ Cardinality(With("failed")) \in Nat
  BY SinkSetsFinite, FS_CardinalityType

\* What the actor holds is raised and has no fate.
LEMMA HeldEvents ==
  ASSUME SinkInv
  PROVE  /\ hand # 0 => /\ hand \in 1 .. MaxSignals /\ fate[hand] = "none"
                        /\ hand \notin Buffered /\ hand \notin Sending /\ hand \in Raised
                        /\ hand \notin reached
         /\ worker # Idle => /\ worker.ev # 0 /\ worker.ev \in 1 .. MaxSignals
                             /\ fate[worker.ev] = "none" /\ worker.ev \in Raised
                             /\ Sending = {worker.ev} /\ worker.ev \notin Buffered
                             /\ worker.ev # hand
         /\ worker = Idle => Sending = {}
  <1>1. hand # 0 => hand \in InHand
    BY DEF InHand
  <1>2. worker # Idle => worker.ev # 0 /\ Sending = {worker.ev}
    BY DEF SinkInv, SinkTypes, Sending
  <1>3. worker = Idle => Sending = {}
    BY DEF Sending, Idle
  <1>4. Raised \subseteq 1 .. MaxSignals
    BY SinkSetsFinite
  <1>5. hand # 0 => /\ hand \in Raised /\ fate[hand] = "none"
                    /\ hand \notin Buffered /\ hand \notin Sending
    BY <1>1 DEF SinkInv, SinkPlaces
  <1>6. hand # 0 => hand \notin reached
    BY <1>5 DEF SinkInv, SinkReached, With
  <1>7. worker # Idle => /\ worker.ev \in Raised /\ fate[worker.ev] = "none"
                         /\ worker.ev \notin Buffered
    BY <1>2 DEF SinkInv, SinkPlaces
  <1>8. worker # Idle => worker.ev # hand
    BY <1>2, <1>5
  <1> QED
    BY <1>2, <1>3, <1>4, <1>5, <1>6, <1>7, <1>8

LEMMA SinkInitInv ==
  CepInit /\ SinkInit => SinkInv
  <1> SUFFICES ASSUME CepInit, SinkInit PROVE SinkInv
    OBVIOUS
  <1>1. /\ InHand = {} /\ Buffered = {} /\ Sending = {} /\ Raised = {}
        /\ \A w \in Fates \ {"none"} : With(w) = {}
    BY DEF CepInit, SinkInit, InHand, Buffered, Sending, Raised, With, Idle, Fates
  <1>2. With("sent") = {} /\ With("dropped") = {} /\ With("failed") = {}
    BY <1>1 DEF Fates
  <1>3. SinkTypes
    <2>1. processed \in Seq([sig : Signals, epoch : Nat, event : {"error", "latency", "none"}])
          /\ Len(processed) = 0 /\ buf \in Seq(Nat \ {0})
      BY DEF CepInit, SinkInit
    <2>2. epoch \in Nat /\ Len(processed) <= MaxSignals
      BY <2>1, CepAssumption DEF CepInit
    <2>3. worker \in [ev : Nat, tries : Nat] /\ fate \in [1 .. MaxSignals -> Fates]
          /\ stats \in [published : Nat, dropped : Nat, failed : Nat]
      BY DEF SinkInit, Idle, Fates
    <2> QED
      BY <2>1, <2>2, <2>3 DEF SinkInit, SinkTypes
  <1>4. SinkPlaces
    BY <1>1, <1>2 DEF SinkPlaces, SinkInit
  <1>5. SinkCounts
    <2>1. /\ Cardinality(Buffered) = 0 /\ Cardinality(Sending) = 0 /\ Cardinality(With("sent")) = 0
          /\ Cardinality(With("dropped")) = 0 /\ Cardinality(With("failed")) = 0
      BY <1>1, <1>2, FS_EmptySet, Zenon
    <2> QED
      BY <2>1 DEF SinkCounts, SinkInit
  <1>6. SinkReached /\ SinkEnds
    BY <1>2 DEF SinkReached, SinkEnds, SinkInit
  <1> QED
    BY <1>3, <1>4, <1>5, <1>6 DEF SinkInv

\* A step that moves no event keeps everything but the ends.
LEMMA NoEventMoves ==
  ASSUME SinkInv, UNCHANGED <<hand, buf, worker, fate, reached, stats, processed>>,
         epoch' \in Nat, closed' \in BOOLEAN
  PROVE  SinkTypes' /\ SinkPlaces' /\ SinkCounts' /\ SinkReached'
  <1>1. SinkTypes'
    BY DEF SinkInv, SinkTypes, Idle
  <1>2. /\ InHand' = InHand /\ Buffered' = Buffered /\ Sending' = Sending /\ Raised' = Raised
        /\ With("sent")' = With("sent") /\ With("dropped")' = With("dropped")
        /\ With("failed")' = With("failed")
    BY DEF InHand, Buffered, Sending, Raised, With
  <1> QED
    BY <1>1, <1>2 DEF SinkInv, SinkPlaces, SinkCounts, SinkReached

LEMMA ProcessKeepsSink ==
  ASSUME SinkInv, NEW sig \in Signals, processSignal(sig)
  PROVE  SinkInv'
  <1> DEFINE n == Len(processed) + 1
  <1>1. /\ hand = 0 /\ Len(processed) < MaxSignals /\ Process(sig)
        /\ hand' = IF processed'[Len(processed')].event = "none" THEN 0 ELSE Len(processed')
        /\ UNCHANGED <<buf, closed, worker, done, fate, reached, stats, main, panicked>>
    BY DEF processSignal
  <1>2. epoch' = epoch
    BY <1>1, ProcessAppends
  <1>3. PICK ev \in {"error", "latency", "none"} :
          processed' = Append(processed, [sig |-> sig, epoch |-> epoch, event |-> ev])
    BY <1>1, ProcessAppends
  <1>4. /\ processed \in Seq([sig : Signals, epoch : Nat, event : {"error", "latency", "none"}])
        /\ Len(processed) \in Nat /\ epoch \in Nat
    BY DEF SinkInv, SinkTypes
  <1>5. /\ processed' \in Seq([sig : Signals, epoch : Nat, event : {"error", "latency", "none"}])
        /\ Len(processed') = n /\ processed'[n].event = ev
        /\ \A i \in 1 .. Len(processed) : processed'[i] = processed[i]
    BY <1>3, <1>4
  <1>6. hand' = IF ev = "none" THEN 0 ELSE n
    BY <1>1, <1>5
  <1>7. Raised' = Raised \union (IF ev = "none" THEN {} ELSE {n})
    <2>1. DOMAIN processed = 1 .. Len(processed) /\ DOMAIN processed' = 1 .. n
      BY <1>4, <1>5
    <2>2. 1 .. n = (1 .. Len(processed)) \union {n}
      BY <1>4
    <2> QED
      BY <2>1, <2>2, <1>5 DEF Raised
  <1>8. InHand = {} /\ InHand' = IF ev = "none" THEN {} ELSE {n}
    BY <1>1, <1>6, <1>4 DEF InHand
  <1>9. /\ Buffered' = Buffered /\ Sending' = Sending /\ With("sent")' = With("sent")
        /\ With("dropped")' = With("dropped") /\ With("failed")' = With("failed")
    BY <1>1 DEF Buffered, Sending, With
  <1>10. n \notin Raised /\ n \in 1 .. MaxSignals
    BY SinkSetsFinite, <1>1, <1>4, CepAssumption
  <1>11. n \notin Buffered /\ n \notin Sending /\ fate[n] = "none"
    <2>1. /\ n \notin With("sent") /\ n \notin With("dropped") /\ n \notin With("failed")
          /\ n \notin Buffered /\ n \notin Sending
      BY <1>10 DEF SinkInv, SinkPlaces
    <2>2. fate[n] \in Fates /\ DOMAIN fate = 1 .. MaxSignals
      BY <1>10 DEF SinkInv, SinkTypes
    <2> QED
      BY <2>1, <2>2, <1>10 DEF With, Fates
  <1>12. SinkTypes'
    BY <1>1, <1>2, <1>4, <1>5, <1>6, CepAssumption DEF SinkInv, SinkTypes, Idle
  <1>13. SinkPlaces'
    <2>1. buf' = buf /\ fate' = fate
      BY <1>1
    <2> QED
      BY <1>7, <1>8, <1>9, <1>11, <2>1 DEF SinkInv, SinkPlaces
  <1>14. SinkCounts'
    BY <1>1, <1>9 DEF SinkInv, SinkCounts
  <1>15. SinkReached'
    BY <1>1, <1>9 DEF SinkInv, SinkReached
  <1>16. SinkEnds'
    BY <1>1 DEF SinkInv, SinkEnds
  <1> QED
    BY <1>12, <1>13, <1>14, <1>15, <1>16 DEF SinkInv

LEMMA PublishKeepsSink ==
  ASSUME SinkInv, Publish
  PROVE  SinkInv'
  <1>1. /\ hand # 0 /\ panicked' = closed
        /\ UNCHANGED <<epoch, processed, closed, worker, done, reached, main>>
    BY DEF Publish, cepVars
  <1>2. SinkTypes /\ SinkPlaces /\ SinkCounts /\ SinkReached /\ SinkEnds
    BY DEF SinkInv
  <1>3. Raised' = Raised /\ Sending' = Sending /\ epoch' \in Nat /\ closed' \in BOOLEAN
    BY <1>1, <1>2 DEF Raised, Sending, SinkTypes
  <1>4. /\ hand \in 1 .. MaxSignals /\ fate[hand] = "none"
        /\ hand \notin Buffered /\ hand \notin Sending /\ hand \in Raised /\ hand \notin reached
    BY <1>1, HeldEvents
  <1>5. CASE closed
    <2>1. UNCHANGED <<hand, buf, worker, fate, reached, stats, processed>>
      BY <1>1, <1>5 DEF Publish
    <2>2. SinkTypes' /\ SinkPlaces' /\ SinkCounts' /\ SinkReached'
      BY <2>1, <1>3, NoEventMoves
    <2>3. SinkEnds'
      BY <1>1, <1>2, <1>5, <2>1 DEF SinkEnds
    <2> QED
      BY <2>2, <2>3 DEF SinkInv
  <1>6. CASE ~closed /\ Len(buf) < BufferSize
    <2>1. hand' = 0 /\ buf' = Append(buf, hand) /\ fate' = fate
          /\ stats' = [stats EXCEPT !.published = @ + 1]
      BY <1>6 DEF Publish, Counted
    <2>2. buf \in Seq(Nat \ {0}) /\ hand \in Nat \ {0} /\ Len(buf) \in Nat
      BY <1>1, <1>2 DEF SinkTypes
    <2>3. /\ Len(buf') = Len(buf) + 1 /\ buf'[Len(buf) + 1] = hand
          /\ \A i \in 1 .. Len(buf) : buf'[i] = buf[i]
          /\ buf' \in Seq(Nat \ {0}) /\ DOMAIN buf = 1 .. Len(buf)
          /\ DOMAIN buf' = (1 .. Len(buf)) \union {Len(buf) + 1}
      BY <2>1, <2>2
    <2>4. Buffered' = Buffered \union {hand}
      BY <2>3 DEF Buffered
    <2>5. InHand' = {} /\ InHand = {hand}
      BY <2>1, <1>1 DEF InHand
    <2>6. /\ With("sent")' = With("sent") /\ With("dropped")' = With("dropped")
          /\ With("failed")' = With("failed")
      BY <2>1 DEF With
    <2>7. SinkTypes'
      <3>1. stats' \in [published : Nat, dropped : Nat, failed : Nat]
        <4>1. stats \in [published : Nat, dropped : Nat, failed : Nat]
          BY <1>2 DEF SinkTypes
        <4> QED
          BY <4>1, <2>1
      <3>2. worker' \in [ev : Nat, tries : Nat] /\ (worker'.ev = 0 => worker' = Idle)
        BY <1>1, <1>2 DEF SinkTypes
      <3> QED
        BY <3>1, <3>2, <2>1, <2>3, <1>1, <1>2 DEF SinkTypes, Idle
    <2>8. SinkPlaces'
      <3>1. \A i, j \in DOMAIN buf' : buf'[i] = buf'[j] => i = j
        <4> SUFFICES ASSUME NEW i \in DOMAIN buf', NEW j \in DOMAIN buf', buf'[i] = buf'[j]
                     PROVE  i = j
          OBVIOUS
        <4>1. \A x \in 1 .. Len(buf) : buf[x] # hand
          BY <1>4, <2>3 DEF Buffered
        <4> QED
          BY <4>1, <2>3, <1>2 DEF SinkPlaces
      <3>2. /\ InHand' \union Buffered' \union Sending' \union With("sent")' \union With("dropped")'
                 \union With("failed")' = Raised'
            /\ InHand' \intersect (Buffered' \union Sending') = {}
            /\ Buffered' \intersect Sending' = {}
        BY <1>2, <1>3, <1>4, <2>4, <2>5, <2>6 DEF SinkPlaces
      <3>3. \A e \in InHand' \union Buffered' \union Sending' : fate'[e] = "none"
        BY <1>2, <1>3, <1>4, <2>1, <2>4, <2>5 DEF SinkPlaces
      <3> QED
        BY <3>1, <3>2, <3>3 DEF SinkPlaces
    <2>9. SinkCounts'
      <3>1. Cardinality(Buffered') = Cardinality(Buffered) + 1
        BY <2>4, <1>4, SinkSetsFinite, FS_AddElement
      <3>2. /\ stats'.published = stats.published + 1 /\ stats'.dropped = stats.dropped
            /\ stats'.failed = stats.failed
        BY <2>1, <1>2 DEF SinkTypes
      <3> QED
        BY <3>1, <3>2, <1>2, <1>3, <2>6, SinkCardinalities DEF SinkCounts
    <2>10. SinkReached' /\ SinkEnds'
      BY <1>1, <1>2, <1>3, <1>6, <2>6 DEF SinkReached, SinkEnds
    <2> QED
      BY <2>7, <2>8, <2>9, <2>10 DEF SinkInv
  <1>7. CASE ~closed /\ ~(Len(buf) < BufferSize)
    <2>1. hand' = 0 /\ buf' = buf /\ Fate(hand, "dropped")
          /\ stats' = [stats EXCEPT !.dropped = @ + 1]
      BY <1>7 DEF Publish, Counted
    <2>2. "dropped" \in Fates \ {"none"} /\ "sent" \in Fates \ {"none", "dropped"}
          /\ "failed" \in Fates \ {"none", "dropped"}
      BY DEF Fates
    <2>3. /\ fate' \in [1 .. MaxSignals -> Fates]
          /\ hand \notin With("dropped") /\ With("dropped")' = With("dropped") \union {hand}
          /\ With("sent")' = With("sent") /\ With("failed")' = With("failed")
          /\ \A x \in 1 .. MaxSignals : x # hand => fate'[x] = fate[x]
      BY <1>2, <1>4, <2>1, <2>2, FateJoins
    <2>4. Buffered' = Buffered /\ InHand' = {} /\ InHand = {hand}
      BY <2>1, <1>1 DEF InHand, Buffered
    <2>5. SinkTypes'
      <3>1. stats' \in [published : Nat, dropped : Nat, failed : Nat]
        BY <2>1, <1>2 DEF SinkTypes
      <3> QED
        BY <3>1, <2>1, <2>3, <1>1, <1>2 DEF SinkTypes, Idle
    <2>6. SinkPlaces'
      <3>1. /\ InHand' \union Buffered' \union Sending' \union With("sent")' \union With("dropped")'
                 \union With("failed")' = Raised'
            /\ InHand' \intersect (Buffered' \union Sending') = {}
            /\ Buffered' \intersect Sending' = {}
        BY <1>2, <1>3, <1>4, <2>3, <2>4 DEF SinkPlaces
      <3>2. \A e \in InHand' \union Buffered' \union Sending' : fate'[e] = "none"
        <4>1. \A e \in Buffered \union Sending : e \in 1 .. MaxSignals /\ e # hand /\ fate[e] = "none"
          BY <1>2, <1>4, SinkSetsFinite DEF SinkPlaces
        <4> QED
          BY <4>1, <1>3, <2>3, <2>4
      <3>3. \A i, j \in DOMAIN buf' : buf'[i] = buf'[j] => i = j
        BY <1>2, <2>1 DEF SinkPlaces
      <3> QED
        BY <3>1, <3>2, <3>3 DEF SinkPlaces
    <2>7. SinkCounts'
      <3>1. Cardinality(With("dropped")') = Cardinality(With("dropped")) + 1
        BY <2>3, SinkSetsFinite, FS_AddElement
      <3>2. /\ stats'.published = stats.published /\ stats'.dropped = stats.dropped + 1
            /\ stats'.failed = stats.failed
        BY <2>1, <1>2 DEF SinkTypes
      <3> QED
        BY <3>1, <3>2, <1>2, <1>3, <2>3, <2>4, SinkCardinalities DEF SinkCounts
    <2>8. SinkReached' /\ SinkEnds'
      BY <1>1, <1>2, <1>3, <1>7, <2>1, <2>3 DEF SinkReached, SinkEnds
    <2> QED
      BY <2>5, <2>6, <2>7, <2>8 DEF SinkInv
  <1> QED
    BY <1>5, <1>6, <1>7

LEMMA TakeKeepsSink ==
  ASSUME SinkInv, WorkerTake
  PROVE  SinkInv'
  <1>1. /\ worker = Idle /\ buf # << >> /\ worker' = [ev |-> Head(buf), tries |-> 0]
        /\ buf' = Tail(buf)
        /\ UNCHANGED <<epoch, processed, hand, closed, done, fate, reached, stats, main, panicked>>
        /\ ~done
    BY DEF WorkerTake, cepVars
  <1>2. SinkTypes /\ SinkPlaces /\ SinkCounts /\ SinkReached /\ SinkEnds
    BY DEF SinkInv
  <1>3. PICK e \in Nat \ {0} : e = Head(buf) /\ e = buf[1] /\ e \in Buffered
    BY <1>1, <1>2 DEF SinkTypes, Buffered
  <1>4. /\ buf \in Seq(Nat \ {0}) /\ Len(buf) \in Nat \ {0} /\ DOMAIN buf = 1 .. Len(buf)
        /\ buf' \in Seq(Nat \ {0}) /\ DOMAIN buf' = 1 .. Len(buf) - 1
        /\ \A i \in DOMAIN buf' : buf'[i] = buf[i + 1]
    BY <1>1, <1>2 DEF SinkTypes
  <1>5. \A i, j \in DOMAIN buf : buf[i] = buf[j] => i = j
    BY <1>2 DEF SinkPlaces
  <1>6. Buffered' = Buffered \ {e}
    <2>1. ASSUME NEW x \in Buffered' PROVE x \in Buffered /\ x # e
      <3>1. PICK i \in DOMAIN buf' : x = buf'[i]
        BY <2>1 DEF Buffered
      <3>2. x = buf[i + 1] /\ i + 1 \in DOMAIN buf /\ i + 1 # 1 /\ 1 \in DOMAIN buf
        BY <3>1, <1>4
      <3> QED
        BY <3>2, <1>3, <1>5 DEF Buffered
    <2>2. ASSUME NEW x \in Buffered, x # e PROVE x \in Buffered'
      <3>1. PICK i \in DOMAIN buf : x = buf[i]
        BY <2>2 DEF Buffered
      <3>2. i # 1 /\ i - 1 \in DOMAIN buf' /\ (i - 1) + 1 = i
        BY <3>1, <2>2, <1>3, <1>4
      <3>3. x = buf'[i - 1]
        BY <3>1, <3>2, <1>4
      <3> QED
        BY <3>2, <3>3 DEF Buffered
    <2> QED
      BY <2>1, <2>2
  <1>7. Sending = {} /\ Sending' = {e}
    BY <1>1, <1>3, HeldEvents DEF Sending
  <1>8. /\ Raised' = Raised /\ InHand' = InHand /\ With("sent")' = With("sent")
        /\ With("dropped")' = With("dropped") /\ With("failed")' = With("failed")
    BY <1>1 DEF Raised, InHand, With
  <1>9. SinkTypes'
    <2>1. worker' \in [ev : Nat, tries : Nat] /\ worker'.ev # 0
      BY <1>1, <1>3
    <2> QED
      BY <2>1, <1>1, <1>2, <1>4 DEF SinkTypes
  <1>10. SinkPlaces'
    <2>1. \A i, j \in DOMAIN buf' : buf'[i] = buf'[j] => i = j
      <3> SUFFICES ASSUME NEW i \in DOMAIN buf', NEW j \in DOMAIN buf', buf'[i] = buf'[j]
                   PROVE  i = j
        OBVIOUS
      <3>1. buf[i + 1] = buf[j + 1]
        BY <1>4, Zenon
      <3>2. i \in 1 .. Len(buf) - 1 /\ j \in 1 .. Len(buf) - 1 /\ Len(buf) \in Nat
        BY <1>4, Zenon
      <3>3. i + 1 \in 1 .. Len(buf) /\ j + 1 \in 1 .. Len(buf)
        BY <3>2
      <3>4. i + 1 = j + 1
        BY <3>1, <3>3, <1>4, <1>5, Zenon
      <3> QED
        BY <3>2, <3>4
    <2>2. /\ InHand' \union Buffered' \union Sending' \union With("sent")' \union With("dropped")'
               \union With("failed")' = Raised'
          /\ InHand' \intersect (Buffered' \union Sending') = {}
          /\ Buffered' \intersect Sending' = {}
      BY <1>2, <1>3, <1>6, <1>7, <1>8 DEF SinkPlaces
    <2>3. \A x \in InHand' \union Buffered' \union Sending' : fate'[x] = "none"
      BY <1>1, <1>2, <1>3, <1>6, <1>7, <1>8 DEF SinkPlaces
    <2> QED
      BY <2>1, <2>2, <2>3 DEF SinkPlaces
  <1>11. SinkCounts'
    <2>1. Cardinality(Buffered') = Cardinality(Buffered) - 1
      BY <1>3, <1>6, SinkSetsFinite, FS_RemoveElement
    <2>2. Cardinality(Sending') = 1 /\ Cardinality(Sending) = 0
      BY <1>7, FS_Singleton, FS_EmptySet, Zenon
    <2> QED
      BY <2>1, <2>2, <1>1, <1>2, <1>8, SinkCardinalities DEF SinkCounts
  <1>12. SinkReached' /\ SinkEnds'
    BY <1>1, <1>2, <1>7, <1>8 DEF SinkReached, SinkEnds
  <1> QED
    BY <1>9, <1>10, <1>11, <1>12 DEF SinkInv

\* The worker is through with an event: it leaves the worker for its fate.
LEMMA SettleKeepsSink ==
  ASSUME SinkInv, worker # Idle, worker' = Idle,
         NEW what \in {"sent", "failed"}, Fate(worker.ev, what),
         UNCHANGED <<epoch, processed, hand, buf, closed, done, main, panicked>>,
         reached \subseteq reached', reached' \subseteq reached \union {worker.ev},
         what = "sent" => worker.ev \in reached' /\ stats' = stats,
         what = "failed" => stats' = [stats EXCEPT !.failed = @ + 1]
  PROVE  SinkInv'
  <1>2. SinkTypes /\ SinkPlaces /\ SinkCounts /\ SinkReached /\ SinkEnds
    BY DEF SinkInv
  <1>3. PICK e \in 1 .. MaxSignals : /\ e = worker.ev /\ fate[e] = "none" /\ e \in Raised
                                     /\ Sending = {e} /\ e \notin Buffered /\ e # hand
    BY HeldEvents
  <1>4. /\ what \in Fates \ {"none"} /\ "dropped" \in Fates \ {"none", what}
        /\ what # "sent" => "sent" \in Fates \ {"none", what}
        /\ what # "failed" => "failed" \in Fates \ {"none", what}
    BY DEF Fates
  <1>5. /\ fate' \in [1 .. MaxSignals -> Fates]
        /\ e \notin With(what) /\ With(what)' = With(what) \union {e}
        /\ \A w \in Fates \ {"none", what} : With(w)' = With(w)
        /\ \A x \in 1 .. MaxSignals : x # e => fate'[x] = fate[x]
    BY <1>2, <1>3, <1>4, FateJoins
  <1>6. /\ With("dropped")' = With("dropped")
        /\ what = "sent" => /\ With("sent")' = With("sent") \union {e} /\ e \notin With("sent")
                            /\ With("failed")' = With("failed")
        /\ what = "failed" => /\ With("failed")' = With("failed") \union {e} /\ e \notin With("failed")
                              /\ With("sent")' = With("sent")
    BY <1>4, <1>5
  <1>7. Sending' = {} /\ Buffered' = Buffered /\ InHand' = InHand /\ Raised' = Raised
    BY DEF Sending, Idle, Buffered, InHand, Raised
  <1>8. /\ stats' \in [published : Nat, dropped : Nat, failed : Nat]
        /\ stats'.published = stats.published /\ stats'.dropped = stats.dropped
        /\ stats'.failed = stats.failed + IF what = "failed" THEN 1 ELSE 0
    <2>1. stats \in [published : Nat, dropped : Nat, failed : Nat]
      BY <1>2 DEF SinkTypes
    <2> QED
      BY <2>1
  <1>9. SinkTypes'
    <2>1. worker' \in [ev : Nat, tries : Nat]
      BY DEF Idle
    <2> QED
      BY <2>1, <1>2, <1>5, <1>8 DEF SinkTypes, Idle
  <1>10. SinkPlaces'
    <2>1. \A i, j \in DOMAIN buf' : buf'[i] = buf'[j] => i = j
      BY <1>2 DEF SinkPlaces
    <2>2. /\ InHand' \union Buffered' \union Sending' \union With("sent")' \union With("dropped")'
               \union With("failed")' = Raised'
          /\ InHand' \intersect (Buffered' \union Sending') = {}
          /\ Buffered' \intersect Sending' = {}
      BY <1>2, <1>3, <1>6, <1>7 DEF SinkPlaces
    <2>3. \A x \in InHand' \union Buffered' \union Sending' : fate'[x] = "none"
      <3>1. \A x \in InHand \union Buffered : x \in 1 .. MaxSignals /\ x # e /\ fate[x] = "none"
        BY <1>2, <1>3, SinkSetsFinite DEF SinkPlaces, InHand
      <3> QED
        BY <3>1, <1>5, <1>7
    <2> QED
      BY <2>1, <2>2, <2>3 DEF SinkPlaces
  <1>11. SinkCounts'
    <2>1. Cardinality(Sending) = 1 /\ Cardinality(Sending') = 0
      BY <1>3, <1>7, FS_Singleton, FS_EmptySet, Zenon
    <2>2. what = "sent" => Cardinality(With("sent")') = Cardinality(With("sent")) + 1
      BY <1>6, SinkSetsFinite, FS_AddElement
    <2>3. what = "failed" => Cardinality(With("failed")') = Cardinality(With("failed")) + 1
      BY <1>6, SinkSetsFinite, FS_AddElement
    <2> QED
      BY <2>1, <2>2, <2>3, <1>2, <1>6, <1>7, <1>8, SinkCardinalities DEF SinkCounts
  <1>12. SinkReached'
    BY <1>2, <1>3, <1>6, <1>7 DEF SinkReached
  <1>13. SinkEnds'
    BY <1>2 DEF SinkEnds
  <1> QED
    BY <1>9, <1>10, <1>11, <1>12, <1>13 DEF SinkInv

LEMMA SendKeepsSink ==
  ASSUME SinkInv, Send
  PROVE  SinkInv'
  <1>1. PICK outcome \in {"ok", "refused", "timedOut"} :
          /\ reached' = IF outcome = "refused" THEN reached ELSE reached \union {worker.ev}
          /\ IF outcome = "ok"
             THEN worker' = Idle /\ Fate(worker.ev, "sent") /\ UNCHANGED stats
             ELSE IF worker.tries + 1 = Attempts
                  THEN worker' = Idle /\ Fate(worker.ev, "failed") /\ Counted("failed")
                  ELSE worker' = [worker EXCEPT !.tries = @ + 1] /\ UNCHANGED <<fate, stats>>
    BY DEF Send
  <1>2. /\ worker # Idle
        /\ UNCHANGED <<epoch, processed, hand, buf, closed, done, main, panicked>>
    BY DEF Send, cepVars
  <1>3. reached \subseteq reached' /\ reached' \subseteq reached \union {worker.ev}
    BY <1>1
  <1>4. CASE outcome = "ok"
    BY <1>1, <1>2, <1>3, <1>4, SettleKeepsSink
  <1>5. CASE outcome # "ok" /\ worker.tries + 1 = Attempts
    BY <1>1, <1>2, <1>3, <1>5, SettleKeepsSink DEF Counted
  <1>6. CASE outcome # "ok" /\ worker.tries + 1 # Attempts
    <2>1. worker' = [worker EXCEPT !.tries = @ + 1] /\ UNCHANGED <<fate, stats>>
      BY <1>1, <1>6
    <2>2. SinkTypes /\ SinkPlaces /\ SinkCounts /\ SinkReached /\ SinkEnds
      BY DEF SinkInv
    <2>3. worker' \in [ev : Nat, tries : Nat] /\ worker'.ev = worker.ev
      <3>1. worker \in [ev : Nat, tries : Nat]
        BY <2>2 DEF SinkTypes
      <3> QED
        BY <3>1, <2>1
    <2>4. worker.ev # 0 /\ Sending = {worker.ev}
      BY <1>2, HeldEvents
    <2>5. /\ Sending' = Sending /\ Buffered' = Buffered /\ InHand' = InHand /\ Raised' = Raised
          /\ With("sent")' = With("sent") /\ With("dropped")' = With("dropped")
          /\ With("failed")' = With("failed")
      BY <1>2, <2>1, <2>3 DEF Sending, Buffered, InHand, Raised, With
    <2>6. SinkTypes'
      BY <1>2, <2>1, <2>2, <2>3, <2>4 DEF SinkTypes
    <2>7. SinkPlaces' /\ SinkCounts'
      BY <1>2, <2>1, <2>2, <2>5 DEF SinkPlaces, SinkCounts
    <2>8. SinkReached' /\ SinkEnds'
      BY <1>2, <1>3, <2>2, <2>4, <2>5 DEF SinkReached, SinkEnds
    <2> QED
      BY <2>6, <2>7, <2>8 DEF SinkInv
  <1> QED
    BY <1>4, <1>5, <1>6

LEMMA SinkStep ==
  ASSUME SinkInv, [AlertPathNext]_<<cepVars, sinkVars>>
  PROVE  SinkInv'
  <1>1. ASSUME NEW sig \in Signals, processSignal(sig) PROVE SinkInv'
    BY <1>1, ProcessKeepsSink
  <1>2. CASE Publish
    BY <1>2, PublishKeepsSink
  <1>3. CASE WorkerTake
    BY <1>3, TakeKeepsSink
  <1>4. CASE Send
    BY <1>4, SendKeepsSink
  <1>5. ASSUME \/ WorkerDone \/ Shutdown \/ SinkStop \/ EngineStop
               \/ CepTick /\ UNCHANGED sinkVars
               \/ UNCHANGED <<cepVars, sinkVars>>
        PROVE  SinkInv'
    <2>1. /\ UNCHANGED <<hand, buf, worker, fate, reached, stats, processed>>
          /\ epoch' \in Nat /\ closed' \in BOOLEAN
      <3>1. epoch \in Nat /\ closed \in BOOLEAN
        BY DEF SinkInv, SinkTypes
      <3>2. UNCHANGED <<hand, buf, worker, fate, reached, stats, processed>>
        BY <1>5 DEF WorkerDone, Shutdown, SinkStop, EngineStop, CepTick, sinkVars, cepVars
      <3>3. epoch' = epoch \/ epoch' = epoch + 1
        BY <1>5 DEF WorkerDone, Shutdown, SinkStop, EngineStop, CepTick, sinkVars, cepVars
      <3>4. closed' = closed \/ closed' = TRUE
        BY <1>5 DEF WorkerDone, Shutdown, SinkStop, EngineStop, CepTick, sinkVars, cepVars
      <3>5. closed' \in BOOLEAN
        BY <3>1, <3>4, Zenon
      <3> QED
        BY <3>1, <3>2, <3>3, <3>5
    <2>2. SinkTypes' /\ SinkPlaces' /\ SinkCounts' /\ SinkReached'
      BY <2>1, NoEventMoves
    <2>3. SinkEnds'
      BY <1>5 DEF SinkInv, SinkEnds, WorkerDone, Shutdown, SinkStop, EngineStop, sinkVars
    <2> QED
      BY <2>2, <2>3 DEF SinkInv
  <1> QED
    BY <1>1, <1>2, <1>3, <1>4, <1>5 DEF AlertPathNext

LEMMA SinkInvariance ==
  AlertPathSpec => []SinkInv
  BY SinkInitInv, SinkStep, PTL DEF AlertPathSpec

LEMMA SinkInvAccounts ==
  ASSUME SinkInv
  PROVE  EventAccounted
  <1> DEFINE places == << {hand} \ {0}, {buf[i] : i \in DOMAIN buf}, {worker.ev} \ {0},
                          With("sent"), With("dropped"), With("failed") >>
             n == [i \in DOMAIN places |-> Cardinality(places[i])]
  <1>1. SinkTypes /\ SinkPlaces /\ SinkCounts /\ SinkReached /\ SinkEnds
    BY DEF SinkInv
  <1>2. /\ DOMAIN places = 1 .. 6 /\ places[1] = InHand /\ places[2] = Buffered
        /\ places[3] = Sending /\ places[4] = With("sent") /\ places[5] = With("dropped")
        /\ places[6] = With("failed")
    BY DEF InHand, Buffered, Sending
  <1>3. 1 .. 6 = {1, 2, 3, 4, 5, 6}
    OBVIOUS
  <1>4. UNION {places[i] : i \in DOMAIN places} = Raised
    <2>1. UNION {places[i] : i \in DOMAIN places} =
            InHand \union Buffered \union Sending \union With("sent") \union With("dropped")
              \union With("failed")
      <3> HIDE DEF places
      <3> QED
        BY <1>2, <1>3
    <2> QED
      BY <2>1, <1>1 DEF SinkPlaces
  <1>5. \A i, j \in DOMAIN places : i # j => places[i] \intersect places[j] = {}
    <2>1. /\ InHand \intersect Buffered = {} /\ InHand \intersect Sending = {}
          /\ Buffered \intersect Sending = {}
      BY <1>1 DEF SinkPlaces
    <2>2. \A w \in {"sent", "dropped", "failed"} :
            /\ InHand \intersect With(w) = {} /\ Buffered \intersect With(w) = {}
            /\ Sending \intersect With(w) = {}
      BY <1>1 DEF SinkPlaces, With
    <2>3. /\ With("sent") \intersect With("dropped") = {} /\ With("sent") \intersect With("failed") = {}
          /\ With("dropped") \intersect With("failed") = {}
      BY DEF With
    <2> HIDE DEF places
    <2> QED
      BY <2>1, <2>2, <2>3, <1>2, <1>3
  <1>6. stats = [published |-> n[2] + n[3] + n[4] + n[6], dropped |-> n[5], failed |-> n[6]]
    <2>1. /\ n[2] = Cardinality(Buffered) /\ n[3] = Cardinality(Sending)
          /\ n[4] = Cardinality(With("sent")) /\ n[5] = Cardinality(With("dropped"))
          /\ n[6] = Cardinality(With("failed"))
      <3> HIDE DEF places
      <3> QED
        BY <1>2
    <2>2. stats = [published |-> stats.published, dropped |-> stats.dropped, failed |-> stats.failed]
      BY <1>1 DEF SinkTypes
    <2> HIDE DEF n
    <2> QED
      BY <2>1, <2>2, <1>1, SinkCardinalities DEF SinkCounts
  <1>7. reached \intersect ({hand} \union With("dropped")) = {}
    <2>1. hand \notin reached
      <3>1. 0 \notin reached
        <4>1. 0 \notin Raised
          BY SinkSetsFinite
        <4> QED
          BY <4>1, <1>1 DEF SinkReached, SinkPlaces
      <3> QED
        BY <3>1, HeldEvents
    <2>2. reached \intersect With("dropped") = {}
      <3>1. \A e \in Sending : fate[e] = "none"
        BY <1>1 DEF SinkPlaces
      <3> QED
        BY <3>1, <1>1 DEF SinkReached, With
    <2> QED
      BY <2>1, <2>2
  <1>8. /\ With("sent") \subseteq reached /\ (done => buf = << >>)
        /\ (panicked => main = "stoppingSink" \/ main = "ended")
    BY <1>1 DEF SinkReached, SinkEnds
  <1> QED
    BY <1>4, <1>5, <1>6, <1>7, <1>8 DEF EventAccounted

(***************************************************************************)
(* HTTPSink and the actor in front of it lose no event without a trace,    *)
(* whatever the size of the buffer and the number of attempts:             *)
(* EventAccounted holds along every interleaving of processSignal, Publish,*)
(* the worker's posts and main's shutdown.                                 *)
(***************************************************************************)
THEOREM NoEventLost ==
  AlertPathSpec => []EventAccounted
  BY SinkInvariance, SinkInvAccounts, PTL

----------------------------------------------------------------------------
(* The receivers *)

LEMMA RoutesApart ==
  /\ \A r \in Http : r \notin Grpc /\ r # "statsd" /\ r # "none" /\ r \in EndsEarly /\ r # "ingest.v1"
  /\ \A r \in Grpc : r # "statsd" /\ r # "none"
  /\ \A r \in EndsEarly : r # "statsd" /\ r # "none" /\ r # "ingest.v1"
  /\ "otlp/grpc" \in EndsEarly /\ "ingest.v1" \in Grpc /\ "ingest.v1" \notin Http
  BY DEF Http, Grpc, EndsEarly

\* The checks let a key in only where its row opens the route.
LEMMA RowOfThoseLetIn ==
  ASSUME NEW k, LetIn(k)
  PROVE  /\ k.route \in Http \union Grpc /\ k.cred \in Keys
         /\ KeyRow[k.cred].live /\ RowAllows(k.cred)
  <1>1. CASE k.route \in Http /\ ginAuth(k)
    BY <1>1 DEF ginAuth, Middleware, GinRequireScope, HasScope, ScopesFromContext, ScopesOf,
                ParseScopes, DefaultScopes, RowAllows
  <1>2. CASE k.route \in Grpc /\ authInterceptor(k)
    BY <1>2 DEF authInterceptor, Middleware, HasScope, ScopesOf, ParseScopes, DefaultScopes, RowAllows
  <1> QED
    BY <1>1, <1>2 DEF LetIn

LEMMA BatchOf ==
  ASSUME NEW c \in Calls, calls[c].route \in EndsEarly
  PROVE  SizeOf(c) \in Nat \ {0}
  BY ReceiversAssumption DEF SizeOf, EndsEarly, Http

\* One more signal is taken: one place more for that call and attempt.
LEMMA PlacesGrow ==
  ASSUME NEW c, NEW t, NEW p, NEW w,
         taken' = taken \union {[call |-> c, try |-> t, place |-> p, tenant |-> w]}
  PROVE  /\ Places(c, t)' = Places(c, t) \union {p}
         /\ \A d, n : d # c \/ n # t => Places(d, n)' = Places(d, n)
  <1> DEFINE new == [call |-> c, try |-> t, place |-> p, tenant |-> w]
  <1>1. new.call = c /\ new.try = t /\ new.place = p
    OBVIOUS
  <1>2. taken' = taken \union {new}
    OBVIOUS
  <1> HIDE DEF new
  <1> QED
    BY <1>1, <1>2 DEF Places

LEMMA PlacesStay ==
  ASSUME taken' = taken
  PROVE  \A d, n : Places(d, n)' = Places(d, n)
  BY DEF Places

\* A step that concerns other calls leaves this one's invariant alone.
LEMMA OtherCall ==
  ASSUME NEW d \in Calls, CallInv(d), Truthful(d), calls'[d] = calls[d],
         \A s \in taken' : s.call = d => s \in taken,
         \A n : Places(d, n)' = Places(d, n),
         calls[d].answer = "failed" => d \in overdue'
  PROVE  CallInv(d)' /\ Truthful(d)'
  <1>1. SizeOf(d)' = SizeOf(d)
    BY DEF SizeOf
  <1>2. CallInv(d)'
    BY <1>1 DEF CallInv
  <1>3. Truthful(d)'
    BY <1>1 DEF Truthful
  <1> QED
    BY <1>2, <1>3

\* Nothing of a call that has not arrived is in the queue.
LEMMA IdleTookNothing ==
  ASSUME ReceiversInv, NEW c \in Calls, calls[c].pc = "idle"
  PROVE  /\ calls[c] = NoCall
         /\ \A s \in taken : s.call # c
         /\ \A n : Places(c, n) = {}
  <1>1. \A s \in taken : s.call # c
    BY DEF ReceiversInv, CallInv
  <1> QED
    BY <1>1 DEF ReceiversInv, CallTypes, Places

\* The start of an attempt: k is the call as the checks leave it, before any of
\* its batch is taken; what earlier attempts have brought in stays.
StartsAttempt(c, k) ==
    /\ calls' = [calls EXCEPT ![c] = k] /\ taken' = taken
    /\ DOMAIN k = DOMAIN NoCall /\ k.try \in Nat \ {0} /\ k.next = 1 /\ k.accepted = 0
    /\ \/ k.pc = "answered" /\ k.answer = "refused"
       \/ /\ k.pc = "ingest" /\ k.answer = "none"
          /\ k.route # "statsd" => /\ k.route \in Http \union Grpc
                                   /\ KeyRow[k.cred].live /\ k.tenant = KeyRow[k.cred].tenant
                                   /\ RowAllows(k.cred)
    /\ \A s \in taken : s.call = c =>
          /\ s.try \in Nat /\ s.try < k.try /\ s.try <= k.try /\ s.place \in Nat
          /\ k.route # "statsd" => /\ KeyRow[k.cred].live /\ s.tenant = KeyRow[k.cred].tenant
                                   /\ RowAllows(k.cred)

LEMMA AttemptStarts ==
  ASSUME ReceiversInv, NEW c \in Calls, NEW k, StartsAttempt(c, k),
         \A n \in 1 .. k.try - 1 : Places(c, n) \in Prefixes(SizeOf(c)')
  PROVE  CallInv(c)' /\ Truthful(c)'
  <1>1. calls'[c] = k /\ taken' = taken
    BY DEF ReceiversInv, CallTypes, StartsAttempt
  <1>2. \A s \in taken : s.call = c => s.try # k.try
    BY DEF StartsAttempt
  <1>3. Places(c, k.try) = {}
    BY <1>2 DEF Places
  <1>4. \A n : Places(c, n)' = Places(c, n)
    BY <1>1, PlacesStay
  <1>5. Places(c, k.try)' = {} /\ Cardinality({}) = 0
    BY <1>3, <1>4, FS_EmptySet
  <1>6. k.pc = "ingest" /\ k.route \in EndsEarly => SizeOf(c)' \in Nat \ {0}
    BY <1>1, BatchOf, ReceiversAssumption DEF SizeOf, EndsEarly, Http
  <1>7. 1 .. k.next - 1 = {}
    BY DEF StartsAttempt
  <1>8. CallInv(c)'
    <2>1. \A s \in taken' : s.call = c =>
            s.try \in Nat /\ s.try <= k.try /\ k.pc # "idle" /\ s.place \in Nat
      BY <1>1 DEF StartsAttempt
    <2>2. k.pc = "ingest" /\ k.route \in EndsEarly => k.next <= SizeOf(c)' + 1
      BY <1>6 DEF StartsAttempt
    <2>3. k.pc = "ingest" /\ k.route # "statsd" =>
            /\ k.route \in Http \union Grpc
            /\ KeyRow[k.cred].live /\ k.tenant = KeyRow[k.cred].tenant
            /\ RowAllows(k.cred)
      BY DEF StartsAttempt
    <2> QED
      BY <2>1, <2>2, <2>3, <1>1, <1>5, <1>7, Zenon DEF CallInv
  <1>9. Truthful(c)'
    BY <1>1, <1>4, <1>5 DEF Truthful, StartsAttempt
  <1> QED
    BY <1>8, <1>9

\* A call's own fields at a step of its handler.
LEMMA CallFields ==
  ASSUME ReceiversInv, NEW c \in Calls
  PROVE  /\ c \in DOMAIN calls /\ DOMAIN calls[c] = DOMAIN NoCall
         /\ calls[c].next \in Nat \ {0} /\ calls[c].try \in Nat \ {0} /\ calls[c].accepted \in Nat
         /\ CallInv(c) /\ Truthful(c)
         /\ \A f \in {"route", "cred", "claim", "lines", "tenant", "pc", "next", "accepted", "try",
                      "answer"} : f \in DOMAIN calls[c]
  BY DEF ReceiversInv, CallTypes, NoCall

LEMMA TakenKeepsCall ==
  ASSUME ReceiversInv, NEW c \in Calls, More(c), Taken(c)
  PROVE  CallInv(c)' /\ Truthful(c)'
  <1>1. PICK k, t, p, w : k = calls[c] /\ t = k.try /\ p = k.next /\ w = k.tenant
    OBVIOUS
  <1>2. /\ p \in Nat \ {0} /\ t \in Nat \ {0} /\ k.accepted \in Nat
        /\ CallInv(c) /\ Truthful(c) /\ k.pc = "ingest"
    BY <1>1, CallFields DEF More
  <1>3. taken' = taken \union {[call |-> c, try |-> t, place |-> p, tenant |-> w]}
    BY <1>1 DEF Taken
  <1>4. /\ Places(c, t)' = Places(c, t) \union {p}
        /\ \A n : n # t => Places(c, n)' = Places(c, n)
    BY <1>3, PlacesGrow
  <1>5. /\ calls'[c].next = p + 1 /\ calls'[c].accepted = k.accepted + 1 /\ calls'[c].try = t
        /\ calls'[c].route = k.route /\ calls'[c].cred = k.cred /\ calls'[c].lines = k.lines
        /\ calls'[c].tenant = w /\ calls'[c].pc = "ingest" /\ calls'[c].answer = k.answer
    BY <1>1, <1>2, CallFields DEF Taken
  <1>6. SizeOf(c)' = SizeOf(c)
    BY <1>1, <1>5 DEF SizeOf
  <1>7. k.answer = "none"
    BY <1>1, <1>2 DEF ReceiversInv, CallTypes
  <1>8. Places(c, t) \subseteq 1 .. p - 1
    BY <1>1, <1>2 DEF CallInv
  <1>9. p \notin Places(c, t) /\ Places(c, t)' \subseteq 1 .. p
    BY <1>2, <1>4, <1>8
  <1>10. k.route # "statsd" => /\ KeyRow[k.cred].live /\ w = KeyRow[k.cred].tenant
                               /\ RowAllows(k.cred) /\ k.route \in Http \union Grpc
    BY <1>1, <1>2 DEF CallInv
  <1>11. CallInv(c)'
    <2>1. \A s \in taken' : s.call = c => s.try \in Nat /\ s.try <= t /\ s.place \in Nat
      BY <1>1, <1>2, <1>3 DEF CallInv
    <2>2. k.route \in EndsEarly => Places(c, t)' = 1 .. p /\ p <= SizeOf(c)
      <3>1. k.route \in EndsEarly => Places(c, t) = 1 .. p - 1
        BY <1>1, <1>2 DEF CallInv
      <3>2. (1 .. p - 1) \union {p} = 1 .. p
        BY <1>2
      <3> QED
        BY <3>1, <3>2, <1>1, <1>4 DEF More
    <2>3. k.route \in EndsEarly => p + 1 <= SizeOf(c) + 1
      BY <2>2, <1>1, <1>2, BatchOf
    <2> QED
      <3>1. \A s \in taken' : s.call = c =>
              s.try \in Nat /\ s.try <= calls'[c].try /\ calls'[c].pc # "idle" /\ s.place \in Nat
        BY <2>1, <1>5
      <3>2. calls'[c].next - 1 = p
        BY <1>2, <1>5
      <3>3. Places(c, calls[c].try)' = Places(c, t)'
        BY <1>5
      <3>4. Places(c, calls[c].try)' \subseteq 1 .. calls'[c].next - 1
        BY <3>2, <3>3, <1>9, Zenon
      <3>5. calls'[c].route \in EndsEarly =>
              Places(c, calls[c].try)' = 1 .. calls'[c].next - 1 /\ calls'[c].next <= SizeOf(c)' + 1
        BY <3>2, <3>3, <2>2, <2>3, <1>5, <1>6, Zenon
      <3>6. calls'[c].route # "statsd" =>
              /\ calls'[c].route \in Http \union Grpc
              /\ KeyRow[calls'[c].cred].live /\ calls'[c].tenant = KeyRow[calls'[c].cred].tenant
              /\ RowAllows(calls'[c].cred)
        BY <1>5, <1>10
      <3> QED
        BY <3>1, <3>4, <3>5, <3>6 DEF CallInv
  <1>12. Truthful(c)'
    <2>1. k.route = "ingest.v1" => Cardinality(Places(c, t)') = k.accepted + 1
      <3>1. IsFiniteSet(1 .. p - 1)
        BY <1>2, FS_Interval
      <3>2. IsFiniteSet(Places(c, t))
        BY <3>1, <1>8, FS_Subset
      <3>3. Cardinality(Places(c, t)') = Cardinality(Places(c, t)) + 1
        BY <3>2, <1>4, <1>9, FS_AddElement
      <3> QED
        BY <3>3, <1>1, <1>2 DEF Truthful
    <2>2. \A n \in 1 .. t - 1 : Places(c, n)' \in Prefixes(SizeOf(c))
      BY <1>1, <1>2, <1>4 DEF Truthful
    <2>3. \A s \in taken' : s.call = c /\ k.route # "statsd" =>
            /\ KeyRow[k.cred].live /\ s.tenant = KeyRow[k.cred].tenant /\ RowAllows(k.cred)
      BY <1>1, <1>2, <1>3, <1>10 DEF Truthful
    <2> QED
      BY <2>1, <2>2, <2>3, <1>5, <1>6, <1>7 DEF Truthful
  <1> QED
    BY <1>11, <1>12

LEMMA SkipKeepsCall ==
  ASSUME ReceiversInv, NEW c \in Calls, More(c), Skip(c), taken' = taken,
         calls[c].route \notin EndsEarly
  PROVE  CallInv(c)' /\ Truthful(c)'
  <1>1. PICK k, p : k = calls[c] /\ p = k.next
    OBVIOUS
  <1>2. p \in Nat \ {0} /\ CallInv(c) /\ Truthful(c) /\ k.pc = "ingest"
    BY <1>1, CallFields DEF More
  <1>3. /\ calls'[c].next = p + 1 /\ calls'[c].accepted = k.accepted /\ calls'[c].try = k.try
        /\ calls'[c].route = k.route /\ calls'[c].cred = k.cred /\ calls'[c].lines = k.lines
        /\ calls'[c].tenant = k.tenant /\ calls'[c].pc = "ingest" /\ calls'[c].answer = k.answer
    BY <1>1, <1>2, CallFields DEF Skip
  <1>4. SizeOf(c)' = SizeOf(c)
    BY <1>1, <1>3 DEF SizeOf
  <1>5. \A n : Places(c, n)' = Places(c, n)
    BY PlacesStay
  <1>6. k.answer = "none"
    BY <1>1, <1>2 DEF ReceiversInv, CallTypes
  <1>7. Places(c, k.try) \subseteq 1 .. p + 1 - 1
    <2>1. Places(c, k.try) \subseteq 1 .. p - 1
      BY <1>1, <1>2 DEF CallInv
    <2> QED
      BY <2>1, <1>2
  <1>8. CallInv(c)'
    BY <1>1, <1>2, <1>3, <1>4, <1>5, <1>7 DEF CallInv
  <1>9. Truthful(c)'
    BY <1>1, <1>2, <1>3, <1>4, <1>5, <1>6 DEF Truthful
  <1> QED
    BY <1>8, <1>9

\* The end of a handler: success at the end of the batch, an early answer before
\* it, and a failure only of a call that Shutdown has given up on.
LEMMA AnswerKeepsCall ==
  ASSUME ReceiversInv, NEW c \in Calls, calls[c].pc = "ingest", taken' = taken, overdue' = overdue,
         NEW what \in {"ok", "overloaded", "failed"}, Answer(c, what),
         what = "ok" => ~More(c),
         what # "ok" => More(c) /\ calls[c].route \in EndsEarly,
         what = "failed" => c \in overdue
  PROVE  CallInv(c)' /\ Truthful(c)'
  <1>1. PICK k, p : k = calls[c] /\ p = k.next
    OBVIOUS
  <1>2. p \in Nat \ {0} /\ CallInv(c) /\ Truthful(c) /\ k.pc = "ingest"
    BY <1>1, CallFields
  <1>3. /\ calls'[c].next = p /\ calls'[c].accepted = k.accepted /\ calls'[c].try = k.try
        /\ calls'[c].route = k.route /\ calls'[c].cred = k.cred /\ calls'[c].lines = k.lines
        /\ calls'[c].tenant = k.tenant /\ calls'[c].pc = "answered" /\ calls'[c].answer = what
    BY <1>1, <1>2, CallFields DEF Answer
  <1>4. SizeOf(c)' = SizeOf(c)
    BY <1>1, <1>3 DEF SizeOf
  <1>5. \A n : Places(c, n)' = Places(c, n)
    BY PlacesStay
  <1>6. k.route \in EndsEarly => /\ Places(c, k.try) = 1 .. p - 1 /\ p <= SizeOf(c) + 1
                                 /\ SizeOf(c) \in Nat \ {0}
    BY <1>1, <1>2, BatchOf DEF CallInv
  <1>7. what = "ok" /\ k.route \in EndsEarly => Places(c, k.try) = 1 .. SizeOf(c)
    <2> SUFFICES ASSUME what = "ok", k.route \in EndsEarly PROVE Places(c, k.try) = 1 .. SizeOf(c)
      OBVIOUS
    <2>1. ~(p <= SizeOf(c))
      BY <1>1, <1>2 DEF More
    <2>2. p - 1 = SizeOf(c)
      BY <2>1, <1>2, <1>6
    <2> QED
      BY <2>2, <1>6
  <1>8. what # "ok" => Places(c, k.try) \in Prefixes(SizeOf(c))
    <2> SUFFICES ASSUME what # "ok" PROVE Places(c, k.try) \in Prefixes(SizeOf(c))
      OBVIOUS
    <2>1. p <= SizeOf(c) /\ k.route \in EndsEarly
      BY <1>1 DEF More
    <2>2. p - 1 \in 0 .. SizeOf(c) - 1
      BY <2>1, <1>2, <1>6
    <2> QED
      BY <2>1, <2>2, <1>6 DEF Prefixes
  <1>9. CallInv(c)'
    BY <1>1, <1>2, <1>3, <1>5 DEF CallInv
  <1>10. Truthful(c)'
    BY <1>1, <1>2, <1>3, <1>4, <1>5, <1>7, <1>8 DEF Truthful, EndsEarly
  <1> QED
    BY <1>9, <1>10

\* The steps of one call: every call keeps its invariant if this one does.
LEMMA OneCall ==
  ASSUME ReceiversInv, NEW c \in Calls, CallInv(c)', Truthful(c)', overdue' = overdue,
         DOMAIN calls' = Calls, \A d \in Calls : d # c => calls'[d] = calls[d],
         DOMAIN calls'[c] = DOMAIN NoCall,
         /\ calls'[c].next \in Nat \ {0} /\ calls'[c].try \in Nat \ {0}
         /\ calls'[c].accepted \in Nat /\ calls'[c].pc \in {"ingest", "answered"}
         /\ calls'[c].pc = "answered" <=> calls'[c].answer # "none",
         \A s \in taken' : s.call # c => s \in taken,
         \A d, n : d # c => Places(d, n)' = Places(d, n),
         calls'[c].route \in Http /\ calls'[c].pc = "ingest" =>
            gateway \in {"serving", "cancelled"} \/ c \in HttpRunning,
         gateway' = gateway \/ (gateway = "closed" /\ gateway' = "crashed")
  PROVE  ReceiversInv'
  <1>1. CallTypes'
    BY DEF ReceiversInv, CallTypes
  <1>2. OverdueInv'
    <2>1. gateway' \in {"serving", "cancelled", "draining"} => gateway' = gateway
      OBVIOUS
    <2>2. gateway' \in {"serving", "cancelled", "draining"} => overdue' = {}
      BY <2>1 DEF ReceiversInv, OverdueInv
    <2>3. gateway' \notin {"serving", "cancelled", "draining"} => HttpRunning' \subseteq HttpRunning
      BY DEF HttpRunning, Running
    <2>4. gateway' \notin {"serving", "cancelled", "draining"} => HttpRunning \subseteq overdue
      BY DEF ReceiversInv, OverdueInv
    <2> QED
      BY <2>2, <2>3, <2>4 DEF OverdueInv
  <1>3. ASSUME NEW d \in Calls, d # c PROVE CallInv(d)' /\ Truthful(d)'
    <2>1. CallInv(d) /\ Truthful(d)
      BY DEF ReceiversInv
    <2>2. calls[d].answer = "failed" => d \in overdue'
      BY <2>1 DEF Truthful
    <2> QED
      BY <2>1, <2>2, <1>3, OtherCall
  <1> QED
    BY <1>1, <1>2, <1>3 DEF ReceiversInv

LEMMA AttemptKeepsInv ==
  ASSUME ReceiversInv, NEW c \in Calls, NEW k, StartsAttempt(c, k),
         \A n \in 1 .. k.try - 1 : Places(c, n) \in Prefixes(SizeOf(c)'),
         k.route \in Http => gateway \in {"serving", "cancelled"},
         overdue' = overdue, gateway' = gateway
  PROVE  ReceiversInv'
  <1>1. CallInv(c)' /\ Truthful(c)'
    BY AttemptStarts
  <1>2. /\ DOMAIN calls' = Calls /\ calls'[c] = k /\ taken' = taken
        /\ \A d \in Calls : d # c => calls'[d] = calls[d]
    BY DEF ReceiversInv, CallTypes, StartsAttempt
  <1>3. /\ DOMAIN k = DOMAIN NoCall /\ k.next \in Nat \ {0} /\ k.try \in Nat \ {0}
        /\ k.accepted \in Nat /\ k.pc \in {"ingest", "answered"}
        /\ k.pc = "answered" <=> k.answer # "none"
    BY DEF StartsAttempt
  <1>4. \A d, n : d # c => Places(d, n)' = Places(d, n)
    BY <1>2, PlacesStay
  <1>5. calls'[c].route \in Http => gateway \in {"serving", "cancelled"}
    BY <1>2
  <1>6. \A s \in taken' : s.call # c => s \in taken
    BY <1>2
  <1>7. /\ DOMAIN calls'[c] = DOMAIN NoCall /\ calls'[c].next \in Nat \ {0}
        /\ calls'[c].try \in Nat \ {0} /\ calls'[c].accepted \in Nat
        /\ calls'[c].pc \in {"ingest", "answered"}
        /\ calls'[c].pc = "answered" <=> calls'[c].answer # "none"
    BY <1>2, <1>3
  <1> QED
    BY <1>1, <1>2, <1>4, <1>5, <1>6, <1>7, OneCall

LEMMA ArriveKeepsInv ==
  ASSUME ReceiversInv, NEW c \in Calls, NEW route \in Http \union Grpc, NEW cred, NEW claim,
         Arrive(c, route, cred, claim)
  PROVE  ReceiversInv'
  <1> DEFINE k0 == [NoCall EXCEPT !.route = route, !.cred = cred, !.claim = claim]
  <1>1. PICK k \in Admitted(k0) : calls' = [calls EXCEPT ![c] = k]
    BY DEF Arrive
  <1>2. calls[c].pc = "idle" /\ Listening(route) /\ UNCHANGED <<gateway, overdue, taken>>
    BY DEF Arrive, Free
  <1>3. (\A s \in taken : s.call # c) /\ \A n : Places(c, n) = {}
    BY <1>2, IdleTookNothing
  <1>4. /\ DOMAIN k0 = DOMAIN NoCall /\ k0.route = route /\ k0.cred = cred /\ k0.next = 1
        /\ k0.accepted = 0 /\ k0.try = 1 /\ k0.answer = "none"
    BY DEF NoCall
  <1>5. \/ k = Refused(k0)
        \/ k = Enters(k0) /\ LetIn(k0)
    BY <1>1 DEF Admitted
  <1> HIDE DEF k0
  <1>6. CASE k = Refused(k0)
    <2>1. /\ DOMAIN k = DOMAIN NoCall /\ k.next = 1 /\ k.accepted = 0 /\ k.try = 1
          /\ k.pc = "answered" /\ k.answer = "refused" /\ k.route = "none"
      BY <1>4, <1>6 DEF Refused, NoCall
    <2>2. StartsAttempt(c, k)
      BY <2>1, <1>1, <1>2, <1>3 DEF StartsAttempt
    <2>3. "none" \notin Http
      BY DEF Http
    <2> QED
      BY <2>1, <2>2, <2>3, <1>2, AttemptKeepsInv
  <1>7. CASE k = Enters(k0) /\ LetIn(k0)
    <2>1. /\ DOMAIN k = DOMAIN NoCall /\ k.next = 1 /\ k.accepted = 0 /\ k.try = 1
          /\ k.pc = "ingest" /\ k.answer = "none" /\ k.route = route /\ k.cred = cred
          /\ k.tenant = KeyRow[cred].tenant
      BY <1>4, <1>7 DEF Enters, NoCall, SignalTenant
    <2>2. route \in Http \union Grpc /\ KeyRow[cred].live /\ RowAllows(cred)
      BY <1>4, <1>7, RowOfThoseLetIn
    <2>3. StartsAttempt(c, k)
      BY <2>1, <2>2, <1>1, <1>2, <1>3 DEF StartsAttempt
    <2>4. route \in Http => gateway \in {"serving", "cancelled"}
      BY <1>2, RoutesApart DEF Listening
    <2> QED
      BY <2>1, <2>3, <2>4, <1>2, AttemptKeepsInv
  <1> QED
    BY <1>5, <1>6, <1>7

LEMMA PacketKeepsInv ==
  ASSUME ReceiversInv, NEW c \in Calls, NEW lines, Packet(c, lines)
  PROVE  ReceiversInv'
  <1> DEFINE k == [NoCall EXCEPT !.route = "statsd", !.lines = lines,
                                 !.tenant = DefaultTenant, !.pc = "ingest"]
  <1>1. /\ calls' = [calls EXCEPT ![c] = k] /\ calls[c].pc = "idle"
        /\ UNCHANGED <<gateway, overdue, taken>>
    BY DEF Packet, Free
  <1>2. (\A s \in taken : s.call # c) /\ \A n : Places(c, n) = {}
    BY <1>1, IdleTookNothing
  <1>3. /\ DOMAIN k = DOMAIN NoCall /\ k.next = 1 /\ k.accepted = 0 /\ k.try = 1
        /\ k.pc = "ingest" /\ k.answer = "none" /\ k.route = "statsd" /\ k.route \notin Http
    BY DEF NoCall, Http
  <1> HIDE DEF k
  <1>4. StartsAttempt(c, k)
    BY <1>1, <1>2, <1>3 DEF StartsAttempt
  <1> QED
    BY <1>1, <1>3, <1>4, AttemptKeepsInv

LEMMA RetryKeepsInv ==
  ASSUME ReceiversInv, NEW c \in Calls, Retry(c)
  PROVE  ReceiversInv'
  <1> DEFINE k0 == [calls[c] EXCEPT !.answer = "none", !.next = 1, !.accepted = 0, !.try = @ + 1]
  <1>1. PICK k \in Admitted(k0) : calls' = [calls EXCEPT ![c] = k]
    BY DEF Retry
  <1>2. PICK old : old = calls[c]
    OBVIOUS
  <1>3. /\ old.answer = "overloaded" /\ Listening(old.route) /\ UNCHANGED <<gateway, overdue, taken>>
    BY <1>2 DEF Retry
  <1>4. /\ DOMAIN old = DOMAIN NoCall /\ old.try \in Nat \ {0} /\ CallInv(c) /\ Truthful(c)
    BY <1>2, CallFields
  <1>5. /\ DOMAIN k0 = DOMAIN NoCall /\ k0.route = old.route /\ k0.cred = old.cred /\ k0.next = 1
        /\ k0.accepted = 0 /\ k0.try = old.try + 1 /\ k0.answer = "none" /\ k0.lines = old.lines
    BY <1>2, <1>4 DEF NoCall
  <1>6. \/ k = Refused(k0)
        \/ k = Enters(k0) /\ LetIn(k0)
    BY <1>1 DEF Admitted
  <1> HIDE DEF k0
  <1>7. /\ DOMAIN k = DOMAIN NoCall /\ k.next = 1 /\ k.accepted = 0 /\ k.try = old.try + 1
        /\ k.route = old.route /\ k.cred = old.cred /\ k.lines = old.lines
        /\ \/ k.pc = "answered" /\ k.answer = "refused"
           \/ /\ k.pc = "ingest" /\ k.answer = "none" /\ LetIn(k0)
              /\ k.tenant = KeyRow[k0.cred].tenant
    <2>1. CASE k = Refused(k0)
      <3>1. k0.try # 1
        BY <1>4, <1>5
      <3>2. k = [k0 EXCEPT !.pc = "answered", !.answer = "refused"]
        BY <3>1, <2>1 DEF Refused
      <3> QED
        BY <3>2, <1>5 DEF NoCall
    <2>2. CASE k = Enters(k0) /\ LetIn(k0)
      <3>1. k = [k0 EXCEPT !.pc = "ingest", !.tenant = KeyRow[k0.cred].tenant]
        BY <2>2 DEF Enters, SignalTenant
      <3> QED
        BY <3>1, <2>2, <1>5 DEF NoCall
    <2> QED
      BY <2>1, <2>2, <1>6
  <1>8. StartsAttempt(c, k)
    <2>1. k.try \in Nat \ {0}
      BY <1>4, <1>7
    <2>2. LetIn(k0) => /\ k.route \in Http \union Grpc
                       /\ KeyRow[k.cred].live /\ RowAllows(k.cred)
      BY <1>5, <1>7, RowOfThoseLetIn
    <2>3. ASSUME NEW s \in taken, s.call = c
          PROVE  /\ s.try \in Nat /\ s.try < k.try /\ s.try <= k.try /\ s.place \in Nat
                 /\ k.route # "statsd" => /\ KeyRow[k.cred].live /\ s.tenant = KeyRow[k.cred].tenant
                                          /\ RowAllows(k.cred)
      <3>1. s.try \in Nat /\ s.try <= old.try /\ s.place \in Nat
        BY <2>3, <1>2, <1>4 DEF CallInv
      <3>2. s.try < k.try /\ s.try <= k.try
        BY <3>1, <1>4, <1>7
      <3>3. k.route # "statsd" => /\ KeyRow[k.cred].live /\ s.tenant = KeyRow[k.cred].tenant
                                  /\ RowAllows(k.cred)
        BY <2>3, <1>2, <1>4, <1>7 DEF Truthful
      <3> QED
        BY <3>1, <3>2, <3>3
    <2> QED
      BY <2>1, <2>2, <2>3, <1>1, <1>3, <1>5, <1>7 DEF StartsAttempt
  <1>9. SizeOf(c)' = SizeOf(c)
    <2>1. calls'[c] = k
      BY <1>1, CallFields
    <2> QED
      BY <2>1, <1>2, <1>7 DEF SizeOf
  <1>10. \A n \in 1 .. k.try - 1 : Places(c, n) \in Prefixes(SizeOf(c)')
    <2>1. Places(c, old.try) \in Prefixes(SizeOf(c))
      BY <1>2, <1>3, <1>4 DEF Truthful
    <2>2. \A n \in 1 .. old.try - 1 : Places(c, n) \in Prefixes(SizeOf(c))
      BY <1>2, <1>4 DEF Truthful
    <2>3. \A n \in 1 .. k.try - 1 : n = old.try \/ n \in 1 .. old.try - 1
      BY <1>4, <1>7
    <2> QED
      BY <2>1, <2>2, <2>3, <1>9
  <1>11. k.route \in Http => gateway \in {"serving", "cancelled"}
    BY <1>3, <1>7, RoutesApart DEF Listening
  <1> QED
    BY <1>3, <1>8, <1>10, <1>11, AttemptKeepsInv

\* What a step of a handler does: it takes or skips a signal, or answers.
LEMMA HandlerCases ==
  ASSUME NEW c \in Calls, Handle(c)
  PROVE  /\ calls[c].pc = "ingest" /\ overdue' = overdue
         /\ \/ More(c) /\ Taken(c)
            \/ /\ More(c) /\ calls[c].route \in EndsEarly
               /\ Answer(c, "overloaded") /\ UNCHANGED <<taken, gateway>>
            \/ /\ More(c) /\ calls[c].route \notin EndsEarly
               /\ Skip(c) /\ UNCHANGED <<taken, gateway>>
            \/ More(c) /\ Panics(c)
            \/ ~More(c) /\ Answer(c, "ok") /\ UNCHANGED <<taken, gateway>>
  <1>1. /\ ingestHandler(c) \/ handle(c) \/ OtlpExport(c) \/ Export(c) \/ processPacket(c) \/ Finish(c)
        /\ overdue' = overdue
    BY DEF Handle
  <1>2. "ingest.v1" \notin EndsEarly /\ "statsd" \notin EndsEarly /\ "otlp/http" \in EndsEarly
        /\ "otlp/grpc" \in EndsEarly /\ "/v1/ingest" \in EndsEarly
    BY DEF EndsEarly, Http
  <1>3. CASE ingestHandler(c) \/ handle(c) \/ OtlpExport(c)
    BY <1>1, <1>2, <1>3 DEF ingestHandler, handle, OtlpExport, ingestAll, More
  <1>4. CASE Export(c)
    BY <1>1, <1>2, <1>4 DEF Export, More
  <1>5. CASE processPacket(c)
    BY <1>1, <1>2, <1>5 DEF processPacket, More
  <1>6. CASE Finish(c)
    BY <1>1, <1>6 DEF Finish
  <1> QED
    BY <1>1, <1>3, <1>4, <1>5, <1>6

LEMMA HandleKeepsInv ==
  ASSUME ReceiversInv, NEW c \in Calls, Handle(c)
  PROVE  ReceiversInv'
  <1>1. calls[c].pc = "ingest" /\ overdue' = overdue
    BY HandlerCases
  <1>2. /\ DOMAIN calls = Calls /\ c \in DOMAIN calls /\ DOMAIN calls[c] = DOMAIN NoCall
        /\ calls[c].next \in Nat \ {0} /\ calls[c].try \in Nat \ {0} /\ calls[c].accepted \in Nat
        /\ calls[c].answer = "none"
    BY <1>1 DEF ReceiversInv, CallTypes
  <1>3. ASSUME NEW what \in {"ok", "overloaded", "failed"}, Answer(c, what),
               UNCHANGED <<taken, gateway>>, CallInv(c)' /\ Truthful(c)'
        PROVE  ReceiversInv'
    <2>1. /\ DOMAIN calls' = Calls /\ \A d \in Calls : d # c => calls'[d] = calls[d]
          /\ DOMAIN calls'[c] = DOMAIN NoCall /\ calls'[c].next = calls[c].next
          /\ calls'[c].try = calls[c].try /\ calls'[c].accepted = calls[c].accepted
          /\ calls'[c].pc = "answered" /\ calls'[c].answer = what
      BY <1>2, <1>3 DEF Answer, NoCall
    <2>2. \A d, n : d # c => Places(d, n)' = Places(d, n)
      BY <1>3, PlacesStay
    <2>3. /\ calls'[c].next \in Nat \ {0} /\ calls'[c].try \in Nat \ {0}
          /\ calls'[c].accepted \in Nat /\ calls'[c].pc \in {"ingest", "answered"}
          /\ calls'[c].pc = "answered" <=> calls'[c].answer # "none"
      BY <2>1, <1>2
    <2>4. \A s \in taken' : s.call # c => s \in taken
      BY <1>3
    <2> QED
      BY <2>1, <2>2, <2>3, <2>4, <1>1, <1>3, OneCall
  <1>4. CASE More(c) /\ Taken(c)
    <2>1. CallInv(c)' /\ Truthful(c)'
      BY <1>4, TakenKeepsCall
    <2>2. gateway' = gateway
      BY <1>4 DEF Taken
    <2>3. /\ DOMAIN calls' = Calls /\ \A d \in Calls : d # c => calls'[d] = calls[d]
          /\ DOMAIN calls'[c] = DOMAIN NoCall /\ calls'[c].next = calls[c].next + 1
          /\ calls'[c].try = calls[c].try /\ calls'[c].accepted = calls[c].accepted + 1
          /\ calls'[c].pc = "ingest" /\ calls'[c].answer = "none" /\ calls'[c].route = calls[c].route
      BY <1>1, <1>2, <1>4 DEF Taken, NoCall
    <2>4. /\ calls'[c].next \in Nat \ {0} /\ calls'[c].try \in Nat \ {0}
          /\ calls'[c].accepted \in Nat /\ calls'[c].pc \in {"ingest", "answered"}
          /\ calls'[c].pc = "answered" <=> calls'[c].answer # "none"
      BY <2>3, <1>2
    <2>5. PICK t, p, w : taken' = taken \union {[call |-> c, try |-> t, place |-> p, tenant |-> w]}
      BY <1>4 DEF Taken
    <2>6. /\ \A d, n : d # c => Places(d, n)' = Places(d, n)
          /\ \A s \in taken' : s.call # c => s \in taken
      <3>1. \A d, n : d # c => Places(d, n)' = Places(d, n)
        BY <2>5, PlacesGrow
      <3>2. \A s \in taken' : s.call # c => s \in taken
        BY <2>5
      <3> QED
        BY <3>1, <3>2
    <2>7. calls'[c].route \in Http => c \in HttpRunning
      BY <2>3, <1>1 DEF HttpRunning, Running
    <2> QED
      BY <2>1, <2>2, <2>3, <2>4, <2>6, <2>7, <1>1, OneCall
  <1>5. CASE /\ More(c) /\ calls[c].route \in EndsEarly
             /\ Answer(c, "overloaded") /\ UNCHANGED <<taken, gateway>>
    <2>1. CallInv(c)' /\ Truthful(c)'
      BY <1>1, <1>5, AnswerKeepsCall
    <2> QED
      BY <2>1, <1>3, <1>5
  <1>6. CASE /\ More(c) /\ calls[c].route \notin EndsEarly
             /\ Skip(c) /\ UNCHANGED <<taken, gateway>>
    <2>1. CallInv(c)' /\ Truthful(c)'
      BY <1>6, SkipKeepsCall
    <2>2. /\ DOMAIN calls' = Calls /\ \A d \in Calls : d # c => calls'[d] = calls[d]
          /\ DOMAIN calls'[c] = DOMAIN NoCall /\ calls'[c].next = calls[c].next + 1
          /\ calls'[c].try = calls[c].try /\ calls'[c].accepted = calls[c].accepted
          /\ calls'[c].pc = "ingest" /\ calls'[c].answer = "none" /\ calls'[c].route = calls[c].route
      BY <1>1, <1>2, <1>6 DEF Skip, NoCall
    <2>3. /\ calls'[c].next \in Nat \ {0} /\ calls'[c].try \in Nat \ {0}
          /\ calls'[c].accepted \in Nat /\ calls'[c].pc \in {"ingest", "answered"}
          /\ calls'[c].pc = "answered" <=> calls'[c].answer # "none"
      BY <2>2, <1>2
    <2>4. /\ \A d, n : d # c => Places(d, n)' = Places(d, n)
          /\ \A s \in taken' : s.call # c => s \in taken
      BY <1>6, PlacesStay
    <2>5. calls'[c].route \notin Http
      BY <2>2, <1>6, RoutesApart
    <2> QED
      BY <2>1, <2>2, <2>3, <2>4, <2>5, <1>1, <1>6, OneCall
  <1>7. CASE More(c) /\ Panics(c)
    <2>1. gateway = "closed" /\ taken' = taken
      BY <1>7 DEF Panics, ClosedIngestCh
    <2>2. CASE calls[c].route \in Http
      <3>1. Answer(c, "failed") /\ gateway' = gateway
        BY <2>2, <1>7 DEF Panics
      <3>2. c \in overdue
        BY <2>1, <2>2, <1>1 DEF ReceiversInv, OverdueInv, HttpRunning, Running
      <3>3. calls[c].route \in EndsEarly
        BY <2>2 DEF EndsEarly
      <3>4. CallInv(c)' /\ Truthful(c)'
        BY <3>1, <3>2, <3>3, <2>1, <1>1, <1>7, AnswerKeepsCall
      <3> QED
        BY <3>1, <3>4, <2>1, <1>3
    <2>3. CASE calls[c].route \notin Http
      <3>1. calls' = calls /\ gateway' = "crashed"
        BY <2>3, <1>7 DEF Panics
      <3>2. \A d, n : Places(d, n)' = Places(d, n)
        BY <2>1, PlacesStay
      <3>3. CallInv(c) /\ Truthful(c) /\ calls'[c] = calls[c]
        BY <3>1 DEF ReceiversInv
      <3>4. calls[c].answer = "failed" => c \in overdue'
        BY <1>2
      <3>5. CallInv(c)' /\ Truthful(c)'
        BY <2>1, <3>2, <3>3, <3>4, OtherCall
      <3>6. /\ calls'[c].pc \in {"ingest", "answered"}
            /\ calls'[c].pc = "answered" <=> calls'[c].answer # "none"
        BY <3>1, <1>1, <1>2
      <3> QED
        BY <3>1, <3>2, <3>5, <3>6, <2>1, <2>3, <1>1, <1>2, OneCall
    <2> QED
      BY <2>2, <2>3
  <1>8. CASE ~More(c) /\ Answer(c, "ok") /\ UNCHANGED <<taken, gateway>>
    <2>1. CallInv(c)' /\ Truthful(c)'
      BY <1>1, <1>8, AnswerKeepsCall
    <2> QED
      BY <2>1, <1>3, <1>8
  <1> QED
    BY <1>4, <1>5, <1>6, <1>7, <1>8, HandlerCases

\* The steps of main, of the servers and of the pipeline touch no call.
LEMMA StopKeepsInv ==
  ASSUME ReceiversInv,
         \/ PipelineReceives
         \/ Cancel
         \/ StopStep
         \/ UNCHANGED receiverVars
  PROVE  ReceiversInv'
  <1>1. calls' = calls /\ taken' = taken
    BY DEF PipelineReceives, Cancel, StopStep, ShutdownBegins, ShutdownReturns, GracefulStop,
           GrpcReturns, StatsdReturns, EngineCloses, MainReturns, receiverVars
  <1>2. HttpRunning' = HttpRunning
    BY <1>1 DEF HttpRunning, Running
  <1>3. \/ gateway' = gateway /\ overdue' = overdue
        \/ /\ gateway \in {"serving", "cancelled"} /\ gateway' \in {"cancelled", "draining"}
           /\ overdue' = overdue
        \/ /\ gateway = "draining" /\ gateway' = "httpDown" /\ overdue' = HttpRunning
        \/ /\ gateway \in {"httpDown", "closed"} /\ gateway' \in {"closed", "ended"}
           /\ overdue' = overdue
    BY DEF PipelineReceives, Cancel, StopStep, ShutdownBegins, ShutdownReturns, GracefulStop,
           GrpcReturns, StatsdReturns, EngineCloses, MainReturns, receiverVars, Main
  <1>4. OverdueInv'
    BY <1>2, <1>3 DEF ReceiversInv, OverdueInv
  <1>5. overdue \subseteq overdue'
    BY <1>3 DEF ReceiversInv, OverdueInv
  <1>6. CallTypes'
    BY <1>1 DEF ReceiversInv, CallTypes
  <1>7. ASSUME NEW c \in Calls PROVE CallInv(c)' /\ Truthful(c)'
    <2>1. CallInv(c) /\ Truthful(c)
      BY DEF ReceiversInv
    <2>2. calls[c].answer = "failed" => c \in overdue'
      BY <2>1, <1>5 DEF Truthful
    <2> QED
      BY <2>1, <2>2, <1>1, PlacesStay, OtherCall
  <1> QED
    BY <1>4, <1>6, <1>7 DEF ReceiversInv

LEMMA ReceiversInitInv ==
  ReceiversInit => ReceiversInv
  <1> SUFFICES ASSUME ReceiversInit PROVE ReceiversInv
    OBVIOUS
  <1>1. taken = {} /\ gateway = "serving" /\ overdue = {} /\ DOMAIN calls = Calls
        /\ \A c \in Calls : calls[c] = NoCall
    BY DEF ReceiversInit
  <1>2. /\ NoCall.route = "none" /\ NoCall.pc = "idle" /\ NoCall.next = 1 /\ NoCall.accepted = 0
        /\ NoCall.try = 1 /\ NoCall.answer = "none"
    BY DEF NoCall
  <1>3. CallTypes
    BY <1>1, <1>2 DEF CallTypes
  <1>4. OverdueInv
    BY <1>1 DEF OverdueInv
  <1>5. ASSUME NEW c \in Calls PROVE CallInv(c) /\ Truthful(c)
    <2>1. Places(c, 1) = {} /\ 1 .. 1 - 1 = {} /\ 1 - 1 = 0
      BY <1>1 DEF Places
    <2>2. CallInv(c)
      BY <1>1, <1>2, <2>1 DEF CallInv
    <2>3. "none" # "ingest.v1" /\ 1 .. NoCall.try - 1 = {}
      BY <1>2
    <2>4. Truthful(c)
      BY <1>1, <1>2, <2>3 DEF Truthful
    <2> QED
      BY <2>2, <2>4
  <1> QED
    BY <1>3, <1>4, <1>5 DEF ReceiversInv

LEMMA ReceiversStep ==
  ASSUME ReceiversInv, [ReceiversNext]_receiverVars
  PROVE  ReceiversInv'
  <1>1. ASSUME NEW c \in Calls, NEW route \in Http \union Grpc,
               NEW cred \in Keys \union {"none", "basic"}, NEW claim \in Claims,
               Arrive(c, route, cred, claim)
        PROVE  ReceiversInv'
    BY <1>1, ArriveKeepsInv
  <1>2. ASSUME NEW c \in Calls, NEW lines \in Packets, Packet(c, lines) PROVE ReceiversInv'
    BY <1>2, PacketKeepsInv
  <1>3. ASSUME NEW c \in Calls, Retry(c) PROVE ReceiversInv'
    BY <1>3, RetryKeepsInv
  <1>4. ASSUME NEW c \in Calls, Handle(c) PROVE ReceiversInv'
    BY <1>4, HandleKeepsInv
  <1>5. CASE PipelineReceives \/ Cancel \/ StopStep \/ UNCHANGED receiverVars
    BY <1>5, StopKeepsInv
  <1> QED
    BY <1>1, <1>2, <1>3, <1>4, <1>5 DEF ReceiversNext, CallStep

LEMMA ReceiversInvariance ==
  ReceiversSpec => []ReceiversInv
  BY ReceiversInitInv, ReceiversStep, PTL DEF ReceiversSpec

(***************************************************************************)
(* ingestHandler, the OTLP handlers, the legacy Export and processPacket   *)
(* tell their clients what the engine has, and everything a key brings in  *)
(* has the key's tenant: AnswersTruthful holds for any calls, key rows,    *)
(* batch and queue sizes and numbers of retries, through main's shutdown.  *)
(***************************************************************************)
THEOREM ClientsAreToldTheTruth ==
  ReceiversSpec => []AnswersTruthful
  <1>1. ReceiversInv => AnswersTruthful
    BY DEF ReceiversInv, AnswersTruthful
  <1> QED
    BY <1>1, ReceiversInvariance, PTL
=============================================================================
