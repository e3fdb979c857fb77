----------------------------- MODULE WalProofs ------------------------------
(* The write-ahead log for every segment size, every number of writers and any
   sequence of rotations, failed opens, torn writes and crashes: Walk returns
   the log, Close makes what this process wrote durable, and the whole
   implements DurableLog. Callers write no empty payloads. *)
EXTENDS Wal, FiniteSetTheorems, WellFoundedInduction, NaturalsInduction, TLAPS

-----------------------------------------------------------------------------
(* Scans: what the recursive functions of the model compute *)

\* Every nonempty set of naturals has a least element.
LEMMA LeastIn ==
  ASSUME NEW T \in SUBSET Nat, T # {}
  PROVE  \E x \in T : \A y \in T : x <= y
  <1> DEFINE R == {p \in Nat \X Nat : p[1] < p[2]}
  <1>1. IsWellFoundedOn(R, Nat)
    <2>1. IsWellFoundedOn(OpToRel(<,Nat), Nat)
      BY NatLessThanWellFounded
    <2>2. R \cap (Nat \X Nat) \subseteq OpToRel(<,Nat)
      BY DEF OpToRel
    <2> HIDE DEF R
    <2> QED BY <2>1, <2>2, IsWellFoundedOnSubrelation
  <1>2. PICK x \in T : \A y \in T : ~(<<y, x>> \in R)
    <2> HIDE DEF R
    <2> QED BY <1>1, WFMin
  <1>3. ASSUME NEW y \in T PROVE x <= y
    <2>1. ~(<<y, x>> \in R) /\ x \in Nat /\ y \in Nat
      BY <1>2
    <2>2. ~(y < x)
      BY <2>1
    <2> QED BY <2>1, <2>2
  <1> QED BY <1>3

\* Induction from m + 1 down to 0, on the numbers of a set.
LEMMA Downward ==
  ASSUME NEW m \in Nat, NEW T, m + 1 \in T,
         \A k \in 0..m : k + 1 \in T => k \in T
  PROVE  \A k \in 0..m + 1 : k \in T
  <1> DEFINE bad == {j \in 0..m + 1 : m + 1 - j \notin T}
  <1>1. SUFFICES ASSUME bad # {} PROVE FALSE
    <2>1. ASSUME NEW k \in 0..m + 1, k \notin T PROVE bad # {}
      <3>1. m + 1 - k \in 0..m + 1 /\ m + 1 - (m + 1 - k) = k
        OBVIOUS
      <3>2. m + 1 - k \in bad
        BY <2>1, <3>1
      <3> QED BY <3>2
    <2> QED BY <2>1
  <1>2. bad \in SUBSET Nat
    OBVIOUS
  <1>3. PICK j \in bad : \A i \in bad : j <= i
    <2> HIDE DEF bad
    <2> QED BY <1>1, <1>2, LeastIn
  <1>4. j \in 0..m + 1 /\ m + 1 - j \notin T
    BY <1>3
  <1>5. j # 0
    <2>1. m + 1 - 0 = m + 1
      OBVIOUS
    <2> QED BY <1>4, <2>1
  <1>6. j - 1 \notin bad
    <2>1. ~(j <= j - 1)
      BY <1>4
    <2> QED BY <1>3, <2>1
  <1>7. m + 1 - (j - 1) \in T
    <2>1. j - 1 \in 0..m + 1
      BY <1>4, <1>5
    <2> QED BY <1>6, <2>1
  <1>8. m + 1 - j \in 0..m /\ (m + 1 - j) + 1 = m + 1 - (j - 1)
    BY <1>4, <1>5
  <1> QED BY <1>4, <1>7, <1>8

\* The shape of both scans: where the entry at o is valid the scan goes on behind
\* it, otherwise it stops.
Jumps(m, valid, next) == \A o \in 0..m : valid[o] => next[o] \in o + 1..m
Unrolled(m, f, valid, next, step, stop) ==
    \A o \in 0..m : f[o] = IF valid[o] THEN step[o][f[next[o]]] ELSE stop[o]
Agree(m, f, g, valid, next) ==
    \A o \in 0..m : (valid[o] => f[next[o]] = g[next[o]]) => f[o] = g[o]

\* A function that is defined at o from its value at some larger number exists.
LEMMA Unrolls ==
  ASSUME NEW m \in Nat, NEW T, NEW valid \in [0..m -> BOOLEAN],
         NEW next \in [0..m -> Nat], NEW stop \in [0..m -> T],
         NEW step \in [0..m -> [T -> T]], Jumps(m, valid, next)
  PROVE  \E f \in [0..m -> T] : Unrolled(m, f, valid, next, step, stop)
  <1> DEFINE Ok(f, o) == f[o] = IF valid[o] THEN step[o][f[next[o]]] ELSE stop[o]
             Has(k) == \E f \in [k..m -> T] : \A o \in k..m : Ok(f, o)
             good == {k \in 0..m + 1 : Has(k)}
  <1>1. m + 1 \in good
    <2> DEFINE e == [o \in m + 1..m |-> stop[o]]
    <2>1. e \in [m + 1..m -> T] /\ \A o \in m + 1..m : Ok(e, o)
      OBVIOUS
    <2>2. Has(m + 1)
      <3> HIDE DEF e, Ok
      <3> QED BY <2>1, Zenon
    <2>3. m + 1 \in 0..m + 1
      OBVIOUS
    <2> HIDE DEF Has
    <2> QED BY <2>2, <2>3
  <1>2. ASSUME NEW k \in 0..m, k + 1 \in good PROVE k \in good
    <2>1. PICK f \in [k + 1..m -> T] : \A o \in k + 1..m : Ok(f, o)
      BY <1>2
    <2> DEFINE g == [o \in k..m |-> IF o = k THEN IF valid[k] THEN step[k][f[next[k]]] ELSE stop[k]
                                            ELSE f[o]]
    <2>2. valid[k] => next[k] \in k + 1..m
      BY DEF Jumps
    <2>3. g \in [k..m -> T]
      <3>1. valid[k] => step[k][f[next[k]]] \in T
        BY <2>2
      <3>2. stop[k] \in T
        OBVIOUS
      <3>3. \A o \in k..m : o # k => o \in k + 1..m
        OBVIOUS
      <3> QED BY <3>1, <3>2, <3>3
    <2>4. \A o \in k + 1..m : g[o] = f[o]
      OBVIOUS
    <2>5. Ok(g, k)
      <3>1. g[k] = IF valid[k] THEN step[k][f[next[k]]] ELSE stop[k]
        OBVIOUS
      <3> HIDE DEF g
      <3> QED BY <2>2, <2>4, <3>1
    <2>6. ASSUME NEW o \in k + 1..m PROVE Ok(g, o)
      <3>1. Ok(f, o)
        BY <2>1
      <3>2. valid[o] => next[o] \in k + 1..m
        BY DEF Jumps
      <3> HIDE DEF g
      <3> QED BY <2>4, <3>1, <3>2
    <2>7. \A o \in k..m : o = k \/ o \in k + 1..m
      OBVIOUS
    <2>8. \A o \in k..m : Ok(g, o)
      <3> HIDE DEF g, Ok
      <3> QED BY <2>5, <2>6, <2>7
    <2>9. Has(k)
      <3> HIDE DEF g, Ok
      <3> QED BY <2>3, <2>8
    <2>10. k \in 0..m + 1
      OBVIOUS
    <2> HIDE DEF Has
    <2> QED BY <2>9, <2>10
  <1>3. \A k \in 0..m + 1 : k \in good
    <2> HIDE DEF good
    <2>1. \A k \in 0..m : k + 1 \in good => k \in good
      BY <1>2
    <2> QED BY <1>1, <2>1, Downward
  <1>4. 0 \in good
    <2>1. 0 \in 0..m + 1
      OBVIOUS
    <2> HIDE DEF good
    <2> QED BY <1>3, <2>1
  <1>5. Has(0)
    <2> HIDE DEF Has
    <2> QED BY <1>4
  <1> QED BY <1>5 DEF Unrolled

\* Two functions with such a definition are the same.
LEMMA SameScan ==
  ASSUME NEW m \in Nat, NEW f, NEW g, NEW valid, NEW next,
         Jumps(m, valid, next), Agree(m, f, g, valid, next)
  PROVE  \A o \in 0..m : f[o] = g[o]
  <1> DEFINE good == {k \in 0..m + 1 : \A o \in k..m : f[o] = g[o]}
  <1>1. m + 1 \in good
    OBVIOUS
  <1>2. ASSUME NEW k \in 0..m, k + 1 \in good PROVE k \in good
    <2>1. \A o \in k + 1..m : f[o] = g[o]
      BY <1>2
    <2>2. f[k] = g[k]
      BY <2>1 DEF Jumps, Agree
    <2>3. \A o \in k..m : o = k \/ o \in k + 1..m
      OBVIOUS
    <2>4. k \in 0..m + 1
      OBVIOUS
    <2> QED BY <2>1, <2>2, <2>3, <2>4
  <1>3. \A k \in 0..m + 1 : k \in good
    <2> HIDE DEF good
    <2>1. \A k \in 0..m : k + 1 \in good => k \in good
      BY <1>2
    <2> QED BY <1>1, <2>1, Downward
  <1>4. 0 \in 0..m + 1
    OBVIOUS
  <1>5. 0 \in good
    <2> HIDE DEF good
    <2> QED BY <1>3, <1>4
  <1> QED BY <1>5

\* A valid entry has a payload and ends within the segment.
LEMMA ValidFacts ==
  ASSUME NEW c \in Cells, NEW o \in 0..MaxSegmentBytes, ValidAt(c, o)
  PROVE  /\ o \in Offsets /\ c[o][1] = "header" /\ c[o][2] \in Nat /\ c[o][3] \in Nat \ {0}
         /\ After(c, o) \in 0..MaxSegmentBytes /\ o + 1 < After(c, o)
         /\ \A k \in 1..c[o][3] : c[o + k] = Payload(c[o][2], k)
  <1>1. MaxSegmentBytes \in Nat /\ o \in Offsets
    BY WalAssumption DEF ValidAt, Offsets
  <1>2. c[o] \in {"zero", "header", "payload"} \X Nat \X Nat
    BY <1>1 DEF Cells
  <1>3. c[o][2] \in Nat /\ c[o][3] \in Nat
    BY <1>2
  <1>4. c[o][1] = "header" /\ c[o][3] # 0 /\ o + 1 + c[o][3] <= MaxSegmentBytes
    BY DEF ValidAt
  <1>5. \A k \in 1..c[o][3] : c[o + k] = Payload(c[o][2], k)
    BY DEF ValidAt
  <1>6. o \in Nat
    BY <1>1
  <1> QED BY <1>1, <1>3, <1>4, <1>5, <1>6 DEF After

\* scanValidOffset, unrolled.
LEMMA ScanUnrolls ==
  ASSUME NEW c \in Cells
  PROVE  \E end \in [0..MaxSegmentBytes -> 0..MaxSegmentBytes] :
            /\ scanValidOffset(c) = end[0]
            /\ \A o \in 0..MaxSegmentBytes :
                  end[o] = IF ValidAt(c, o) THEN end[After(c, o)] ELSE o
  <1> DEFINE D == 0..MaxSegmentBytes
             Def(f, off) == IF ValidAt(c, off) THEN f[off + 1 + c[off][3]] ELSE off
             from[off \in D] == Def(from, off)
  <1>1. MaxSegmentBytes \in Nat
    BY WalAssumption
  <1>2. scanValidOffset(c) = from[0]
    BY DEF scanValidOffset
  <1>3. \E f \in [D -> D] : \A o \in D : f[o] = Def(f, o)
    <2> DEFINE valid == [o \in D |-> ValidAt(c, o)]
               next == [o \in D |-> IF ValidAt(c, o) THEN After(c, o) ELSE 0]
               stop == [o \in D |-> o]
               step == [o \in D |-> [x \in D |-> x]]
    <2>1. valid \in [D -> BOOLEAN]
      BY Zenon DEF ValidAt
    <2>2. next \in [D -> Nat] /\ Jumps(MaxSegmentBytes, valid, next)
      BY <1>1, ValidFacts DEF Jumps
    <2>3. stop \in [D -> D] /\ step \in [D -> [D -> D]]
      OBVIOUS
    <2>4. PICK f \in [D -> D] : Unrolled(MaxSegmentBytes, f, valid, next, step, stop)
      <3> HIDE DEF valid, next, stop, step
      <3> QED BY <1>1, <2>1, <2>2, <2>3, Unrolls
    <2>5. \A o \in D : f[o] = IF valid[o] THEN step[o][f[next[o]]] ELSE stop[o]
      <3> HIDE DEF valid, next, stop, step
      <3> QED BY <2>4 DEF Unrolled
    <2>6. ASSUME NEW o \in D PROVE f[o] = Def(f, o)
      <3>1. CASE ValidAt(c, o)
        <4>1. After(c, o) \in D /\ After(c, o) = o + 1 + c[o][3]
          BY <3>1, ValidFacts DEF After
        <4>2. f[o] = step[o][f[next[o]]] /\ next[o] = After(c, o)
          BY <2>5, <3>1
        <4> QED BY <3>1, <4>1, <4>2
      <3>2. CASE ~ValidAt(c, o)
        BY <2>5, <3>2
      <3> QED BY <3>1, <3>2
    <2> QED BY <2>6
  <1>4. PICK f \in [D -> D] : \A o \in D : f[o] = Def(f, o)
    BY <1>3
  <1>5. f = [o \in D |-> Def(f, o)]
    <2> HIDE DEF Def
    <2> QED BY <1>4
  <1>6. from = [o \in D |-> Def(from, o)]
    <2> HIDE DEF Def
    <2> QED BY <1>5, Zenon
  <1>7. \A o \in D : from[o] = Def(from, o)
    <2> HIDE DEF Def, from
    <2> QED BY <1>6
  <1>8. \A o \in D : f[o] = from[o]
    <2> DEFINE valid == [o \in D |-> ValidAt(c, o)]
               next == [o \in D |-> After(c, o)]
    <2> HIDE DEF from
    <2>1. Jumps(MaxSegmentBytes, valid, next)
      BY <1>1, ValidFacts DEF Jumps
    <2>2. Agree(MaxSegmentBytes, f, from, valid, next)
      BY <1>4, <1>7 DEF After, Agree
    <2> HIDE DEF valid, next
    <2> QED BY <1>1, <2>1, <2>2, SameScan
  <1>9. 0 \in D
    BY <1>1
  <1>10. scanValidOffset(c) = f[0]
    <2> HIDE DEF from
    <2> QED BY <1>2, <1>8, <1>9
  <1>11. \A o \in D : f[o] = IF ValidAt(c, o) THEN f[After(c, o)] ELSE o
    BY <1>4 DEF After
  <1> QED BY <1>10, <1>11

\* Induction along a scan: from the end of every valid entry back to its start.
LEMMA ScanInduction ==
  ASSUME NEW c \in Cells, NEW T,
         \A o \in 0..MaxSegmentBytes : (ValidAt(c, o) => After(c, o) \in T) => o \in T
  PROVE  \A o \in 0..MaxSegmentBytes : o \in T
  <1> DEFINE D == 0..MaxSegmentBytes
             f == [o \in D |-> o \in T]
             g == [o \in D |-> TRUE]
             valid == [o \in D |-> ValidAt(c, o)]
             next == [o \in D |-> After(c, o)]
  <1>1. MaxSegmentBytes \in Nat
    BY WalAssumption
  <1>2. Jumps(MaxSegmentBytes, valid, next)
    BY <1>1, ValidFacts DEF Jumps
  <1>3. Agree(MaxSegmentBytes, f, g, valid, next)
    <2>1. ASSUME NEW o \in D, valid[o] => f[next[o]] = g[next[o]] PROVE o \in T
      <3>1. ASSUME ValidAt(c, o) PROVE After(c, o) \in T
        <4>1. After(c, o) \in D
          BY <3>1, ValidFacts
        <4> QED BY <2>1, <3>1, <4>1
      <3> QED BY <3>1
    <2> QED BY <2>1 DEF Agree
  <1>4. \A o \in D : f[o] = g[o]
    <2> HIDE DEF f, g, valid, next
    <2> QED BY <1>1, <1>2, <1>3, SameScan
  <1> QED BY <1>4

LEMMA ReachedZero == ASSUME NEW c PROVE Reached(c, 0)
  BY DEF Reached

\* Behind a valid entry the scan goes on.
LEMMA ReachedAfter ==
  ASSUME NEW c, NEW o, Reached(c, o), ValidAt(c, o)
  PROVE  Reached(c, After(c, o))
  BY DEF Reached

\* The end that scanValidOffset finds is where the scan stops, behind all the rest.
LEMMA ScanEnds ==
  ASSUME NEW c \in Cells
  PROVE  /\ scanValidOffset(c) \in 0..MaxSegmentBytes
         /\ Reached(c, scanValidOffset(c))
         /\ \A o \in 0..MaxSegmentBytes : Reached(c, o) => o <= scanValidOffset(c)
  <1> DEFINE D == 0..MaxSegmentBytes
  <1>1. PICK end \in [D -> D] :
            /\ scanValidOffset(c) = end[0]
            /\ \A o \in D : end[o] = IF ValidAt(c, o) THEN end[After(c, o)] ELSE o
    BY ScanUnrolls
  <1>2. MaxSegmentBytes \in Nat /\ 0 \in D
    BY WalAssumption
  <1>3. \A o \in D : o <= end[o] /\ (Reached(c, o) => Reached(c, end[o]))
    <2> DEFINE T == {o \in D : o <= end[o] /\ (Reached(c, o) => Reached(c, end[o]))}
    <2>1. ASSUME NEW o \in D, ValidAt(c, o) => After(c, o) \in T PROVE o \in T
      <3>1. CASE ValidAt(c, o)
        <4>1. After(c, o) \in D /\ o < After(c, o)
          BY <1>2, <3>1, ValidFacts
        <4>2. end[o] = end[After(c, o)]
          BY <1>1, <3>1
        <4>3. After(c, o) <= end[After(c, o)]
          BY <2>1, <3>1
        <4>4. end[After(c, o)] \in D
          BY <4>1
        <4>5. o <= end[o]
          BY <1>2, <4>1, <4>2, <4>3, <4>4
        <4>6. Reached(c, o) => Reached(c, end[o])
          BY <2>1, <3>1, <4>2, ReachedAfter
        <4> QED BY <4>5, <4>6
      <3>2. CASE ~ValidAt(c, o)
        BY <1>1, <3>2
      <3> QED BY <3>1, <3>2
    <2>2. \A o \in D : o \in T
      <3> HIDE DEF T
      <3> QED BY <2>1, ScanInduction
    <2> QED BY <2>2
  <1>4. ASSUME NEW o \in D, Reached(c, o) PROVE o <= end[0]
    <2> DEFINE S == {x \in D : end[x] = end[0]}
    <2>1. S \in SUBSET D /\ 0 \in S
      BY <1>2
    <2>2. ASSUME NEW x \in S, ValidAt(c, x) PROVE After(c, x) \in S
      <3>1. After(c, x) \in D
        BY <2>2, ValidFacts
      <3> QED BY <1>1, <2>2, <3>1
    <2>3. o \in S
      <3> HIDE DEF S
      <3> QED BY <1>4, <2>1, <2>2 DEF Reached
    <2>4. o <= end[o] /\ end[o] = end[0]
      BY <1>3, <2>3
    <2> QED BY <2>4
  <1>5. end[0] \in D /\ Reached(c, end[0])
    BY <1>2, <1>3, ReachedZero
  <1> QED BY <1>1, <1>4, <1>5

\* walkSegment, unrolled.
LEMMA WalkUnrolls ==
  ASSUME NEW c \in Cells
  PROVE  \E from \in [0..MaxSegmentBytes -> Seq(Nat)] :
            /\ walkSegment(c) = from[0]
            /\ \A o \in 0..MaxSegmentBytes :
                  from[o] = IF ValidAt(c, o) THEN <<c[o][2]>> \o from[After(c, o)] ELSE <<>>
  <1> DEFINE D == 0..MaxSegmentBytes
             Def(f, off) == IF ValidAt(c, off) THEN <<c[off][2]>> \o f[off + 1 + c[off][3]]
                                               ELSE <<>>
             from[off \in D] == Def(from, off)
  <1>1. MaxSegmentBytes \in Nat
    BY WalAssumption
  <1>2. walkSegment(c) = from[0]
    BY DEF walkSegment
  <1>3. \E f \in [D -> Seq(Nat)] : \A o \in D : f[o] = Def(f, o)
    <2> DEFINE valid == [o \in D |-> ValidAt(c, o)]
               next == [o \in D |-> IF ValidAt(c, o) THEN After(c, o) ELSE 0]
               stop == [o \in D |-> <<>>]
               step == [o \in D |-> [x \in Seq(Nat) |->
                                        IF ValidAt(c, o) THEN <<c[o][2]>> \o x ELSE x]]
    <2>1. valid \in [D -> BOOLEAN]
      BY Zenon DEF ValidAt
    <2>2. next \in [D -> Nat] /\ Jumps(MaxSegmentBytes, valid, next)
      BY <1>1, ValidFacts DEF Jumps
    <2>3. stop \in [D -> Seq(Nat)]
      OBVIOUS
    <2>4. step \in [D -> [Seq(Nat) -> Seq(Nat)]]
      <3>1. ASSUME NEW o \in D, NEW x \in Seq(Nat), ValidAt(c, o)
            PROVE  <<c[o][2]>> \o x \in Seq(Nat)
        <4>1. c[o][2] \in Nat
          BY <3>1, ValidFacts
        <4> QED BY <4>1
      <3> QED BY <3>1
    <2>5. PICK f \in [D -> Seq(Nat)] : Unrolled(MaxSegmentBytes, f, valid, next, step, stop)
      <3> HIDE DEF valid, next, stop, step
      <3> QED BY <1>1, <2>1, <2>2, <2>3, <2>4, Unrolls
    <2>6. \A o \in D : f[o] = IF valid[o] THEN step[o][f[next[o]]] ELSE stop[o]
      <3> HIDE DEF valid, next, stop, step
      <3> QED BY <2>5 DEF Unrolled
    <2>7. ASSUME NEW o \in D PROVE f[o] = Def(f, o)
      <3>1. CASE ValidAt(c, o)
        <4>1. After(c, o) \in D /\ After(c, o) = o + 1 + c[o][3]
          BY <3>1, ValidFacts DEF After
        <4>2. f[o] = step[o][f[next[o]]] /\ next[o] = After(c, o)
          BY <2>6, <3>1
        <4>3. f[After(c, o)] \in Seq(Nat)
          BY <4>1
        <4>4. step[o][f[After(c, o)]] = <<c[o][2]>> \o f[After(c, o)]
          BY <3>1, <4>3
        <4> QED BY <3>1, <4>1, <4>2, <4>4
      <3>2. CASE ~ValidAt(c, o)
        BY <2>6, <3>2
      <3> QED BY <3>1, <3>2
    <2> QED BY <2>7
  <1>4. PICK f \in [D -> Seq(Nat)] : \A o \in D : f[o] = Def(f, o)
    BY <1>3
  <1>5. f = [o \in D |-> Def(f, o)]
    <2> HIDE DEF Def
    <2> QED BY <1>4
  <1>6. from = [o \in D |-> Def(from, o)]
    <2> HIDE DEF Def
    <2> QED BY <1>5, Zenon
  <1>7. \A o \in D : from[o] = Def(from, o)
    <2> HIDE DEF Def, from
    <2> QED BY <1>6
  <1>8. \A o \in D : f[o] = from[o]
    <2> DEFINE valid == [o \in D |-> ValidAt(c, o)]
               next == [o \in D |-> After(c, o)]
    <2> HIDE DEF from
    <2>1. Jumps(MaxSegmentBytes, valid, next)
      BY <1>1, ValidFacts DEF Jumps
    <2>2. Agree(MaxSegmentBytes, f, from, valid, next)
      BY <1>4, <1>7 DEF After, Agree
    <2> HIDE DEF valid, next
    <2> QED BY <1>1, <2>1, <2>2, SameScan
  <1>9. 0 \in D
    BY <1>1
  <1>10. walkSegment(c) = f[0]
    <2> HIDE DEF from
    <2> QED BY <1>2, <1>8, <1>9
  <1>11. \A o \in D : f[o] = IF ValidAt(c, o) THEN <<c[o][2]>> \o f[After(c, o)] ELSE <<>>
    BY <1>4 DEF After
  <1> QED BY <1>10, <1>11

\* p are the offsets of the entries w that a scan from o accepts, and of its end.
Path(c, o, w, p) ==
    /\ p \in [1..Len(w) + 1 -> 0..MaxSegmentBytes] /\ p[1] = o
    /\ \A k \in 1..Len(w) : ValidAt(c, p[k]) /\ w[k] = c[p[k]][2] /\ p[k + 1] = After(c, p[k])
    /\ ~ValidAt(c, p[Len(w) + 1])
    /\ \A k, l \in 1..Len(w) + 1 : k < l => p[k] < p[l]
    /\ Reached(c, o) => \A k \in 1..Len(w) + 1 : Reached(c, p[k])

\* One entry in front of a scan.
LEMMA PathExtends ==
  ASSUME NEW c \in Cells, NEW o \in 0..MaxSegmentBytes, ValidAt(c, o),
         NEW v \in Seq(Nat), NEW q, Path(c, After(c, o), v, q)
  PROVE  \E p : Path(c, o, <<c[o][2]>> \o v, p)
  <1> DEFINE D == 0..MaxSegmentBytes
             w == <<c[o][2]>> \o v
             p == [k \in 1..Len(w) + 1 |-> IF k = 1 THEN o ELSE q[k - 1]]
  <1>1. /\ o \in Offsets /\ c[o][2] \in Nat /\ After(c, o) \in D /\ o < After(c, o)
        /\ MaxSegmentBytes \in Nat /\ Len(v) \in Nat
    BY ValidFacts, WalAssumption
  <1>2. Len(w) = Len(v) + 1 /\ w[1] = c[o][2] /\ \A k \in 2..Len(w) : w[k] = v[k - 1]
    BY <1>1
  <1>3. q \in [1..Len(v) + 1 -> D] /\ q[1] = After(c, o)
    BY DEF Path
  <1> HIDE DEF w
  <1>4. \A k \in 2..Len(w) + 1 : k - 1 \in 1..Len(v) + 1 /\ p[k] = q[k - 1]
    BY <1>1, <1>2
  <1>5. p[1] = o /\ p \in [1..Len(w) + 1 -> D]
    <2>1. 1 \in 1..Len(w) + 1 /\ \A k \in 1..Len(w) + 1 : k # 1 => k - 1 \in 1..Len(v) + 1
      BY <1>1, <1>2
    <2> QED BY <1>3, <2>1
  <1> HIDE DEF p
  <1>6. ASSUME NEW k \in 1..Len(w)
        PROVE  ValidAt(c, p[k]) /\ w[k] = c[p[k]][2] /\ p[k + 1] = After(c, p[k])
    <2>1. CASE k = 1
      <3>1. p[2] = q[1]
        BY <1>1, <1>2, <1>4
      <3> QED BY <1>2, <1>3, <1>5, <2>1, <3>1
    <2>2. CASE k # 1
      <3>1. k \in 2..Len(w) /\ k \in 2..Len(w) + 1 /\ k + 1 \in 2..Len(w) + 1
            /\ k - 1 \in 1..Len(v) /\ (k + 1) - 1 = (k - 1) + 1
        BY <1>1, <1>2, <2>2
      <3>2. p[k] = q[k - 1] /\ p[k + 1] = q[(k - 1) + 1] /\ w[k] = v[k - 1]
        BY <1>2, <1>4, <3>1
      <3> QED BY <3>1, <3>2 DEF Path
    <2> QED BY <2>1, <2>2
  <1>7. ~ValidAt(c, p[Len(w) + 1])
    <2>1. Len(w) + 1 \in 2..Len(w) + 1 /\ (Len(w) + 1) - 1 = Len(v) + 1
      BY <1>1, <1>2
    <2>2. p[Len(w) + 1] = q[Len(v) + 1]
      BY <1>4, <2>1
    <2> QED BY <2>2 DEF Path
  <1>8. ASSUME NEW k \in 1..Len(w) + 1, NEW l \in 1..Len(w) + 1, k < l PROVE p[k] < p[l]
    <2>0. l \in 2..Len(w) + 1 /\ l - 1 \in 1..Len(v) + 1 /\ p[l] = q[l - 1]
      BY <1>1, <1>2, <1>4, <1>8
    <2>1. CASE k = 1
      <3>1. l - 1 = 1 \/ 1 < l - 1
        BY <1>8, <2>1
      <3>2. 1 \in 1..Len(v) + 1
        BY <1>1
      <3>3. q[l - 1] = q[1] \/ q[1] < q[l - 1]
        BY <2>0, <3>1, <3>2 DEF Path
      <3>4. q[l - 1] \in D
        BY <1>3, <2>0
      <3> QED BY <1>1, <1>3, <1>5, <2>0, <2>1, <3>3, <3>4
    <2>2. CASE k # 1
      <3>1. k \in 2..Len(w) + 1 /\ k - 1 \in 1..Len(v) + 1 /\ k - 1 < l - 1 /\ p[k] = q[k - 1]
        BY <1>1, <1>2, <1>4, <1>8, <2>2
      <3> QED BY <2>0, <3>1 DEF Path
    <2> QED BY <2>1, <2>2
  <1>9. ASSUME Reached(c, o), NEW k \in 1..Len(w) + 1 PROVE Reached(c, p[k])
    <2>1. Reached(c, After(c, o))
      BY <1>9, ReachedAfter
    <2>2. CASE k = 1
      BY <1>5, <1>9, <2>2
    <2>3. CASE k # 1
      <3>1. k \in 2..Len(w) + 1
        BY <1>1, <1>2, <2>3
      <3> QED BY <1>4, <2>1, <3>1 DEF Path
    <2> QED BY <2>2, <2>3
  <1>10. Path(c, o, w, p)
    BY <1>5, <1>6, <1>7, <1>8, <1>9 DEF Path
  <1> QED BY <1>10 DEF w

\* walkSegment returns exactly the entries a scan comes by, in their order.
LEMMA WalkLists ==
  ASSUME NEW c \in Cells
  PROVE  /\ walkSegment(c) \in Seq(Nat)
         /\ \E p \in [DOMAIN walkSegment(c) -> Offsets] :
              /\ \A k \in DOMAIN walkSegment(c) : Intact(c, p[k], walkSegment(c)[k])
              /\ \A k, l \in DOMAIN walkSegment(c) : k < l => p[k] < p[l]
              /\ \A o \in Offsets : Reached(c, o) /\ ValidAt(c, o) =>
                    \E k \in DOMAIN walkSegment(c) : p[k] = o
  <1> DEFINE D == 0..MaxSegmentBytes
             w == walkSegment(c)
  <1>1. PICK from \in [D -> Seq(Nat)] :
            /\ walkSegment(c) = from[0]
            /\ \A o \in D : from[o] = IF ValidAt(c, o) THEN <<c[o][2]>> \o from[After(c, o)]
                                                       ELSE <<>>
    BY WalkUnrolls
  <1>2. MaxSegmentBytes \in Nat /\ 0 \in D
    BY WalAssumption
  <1>3. \A o \in D : \E p : Path(c, o, from[o], p)
    <2> DEFINE T == {o \in D : \E p : Path(c, o, from[o], p)}
    <2>1. ASSUME NEW o \in D, ValidAt(c, o) => After(c, o) \in T PROVE o \in T
      <3>1. CASE ValidAt(c, o)
        <4>1. After(c, o) \in D
          BY <3>1, ValidFacts
        <4>2. PICK q : Path(c, After(c, o), from[After(c, o)], q)
          BY <2>1, <3>1
        <4>3. from[o] = <<c[o][2]>> \o from[After(c, o)] /\ from[After(c, o)] \in Seq(Nat)
          BY <1>1, <3>1, <4>1
        <4>4. \E p : Path(c, o, <<c[o][2]>> \o from[After(c, o)], p)
          BY <3>1, <4>2, <4>3, PathExtends
        <4> QED BY <4>3, <4>4
      <3>2. CASE ~ValidAt(c, o)
        <4>1. from[o] = <<>>
          BY <1>1, <3>2
        <4> DEFINE p == [k \in 1..1 |-> o]
        <4>2. Len(<<>>) = 0 /\ 1..Len(<<>>) = {} /\ 1..Len(<<>>) + 1 = 1..1
          OBVIOUS
        <4>3. Path(c, o, <<>>, p)
          BY <3>2, <4>2 DEF Path
        <4> QED BY <4>1, <4>3
      <3> QED BY <3>1, <3>2
    <2>2. \A o \in D : o \in T
      <3> HIDE DEF T
      <3> QED BY <2>1, ScanInduction
    <2> QED BY <2>2
  <1>4. PICK q : Path(c, 0, w, q)
    BY <1>1, <1>2, <1>3
  <1>5. w \in Seq(Nat) /\ Len(w) \in Nat /\ DOMAIN w = 1..Len(w)
    BY <1>1, <1>2
  <1> HIDE DEF w
  <1> DEFINE p == [k \in 1..Len(w) |-> q[k]]
  <1>6. ASSUME NEW k \in 1..Len(w) PROVE p[k] = q[k] /\ p[k] \in Offsets /\ Intact(c, p[k], w[k])
    <2>1. k \in 1..Len(w) + 1
      BY <1>5
    <2>2. q[k] \in D /\ ValidAt(c, q[k]) /\ Reached(c, q[k]) /\ w[k] = c[q[k]][2]
      BY <1>4, <2>1, ReachedZero DEF Path
    <2> QED BY <2>2, ValidFacts DEF Intact
  <1>7. ASSUME NEW k \in 1..Len(w), NEW l \in 1..Len(w), k < l PROVE p[k] < p[l]
    <2>1. k \in 1..Len(w) + 1 /\ l \in 1..Len(w) + 1
      BY <1>5
    <2> QED BY <1>4, <1>7, <2>1 DEF Path
  <1>8. ASSUME NEW o \in Offsets, Reached(c, o), ValidAt(c, o)
        PROVE  \E k \in 1..Len(w) : p[k] = o
    <2> DEFINE S == {q[k] : k \in 1..Len(w) + 1}
    <2>1. S \in SUBSET D /\ 0 \in S
      <3>1. 1 \in 1..Len(w) + 1
        BY <1>5
      <3> QED BY <1>4, <3>1 DEF Path
    <2>2. ASSUME NEW x \in S, ValidAt(c, x) PROVE After(c, x) \in S
      <3>1. PICK k \in 1..Len(w) + 1 : x = q[k]
        OBVIOUS
      <3>2. k # Len(w) + 1
        BY <1>4, <2>2, <3>1 DEF Path
      <3>3. k \in 1..Len(w) /\ k + 1 \in 1..Len(w) + 1
        BY <1>5, <3>2
      <3>4. q[k + 1] = After(c, x)
        BY <1>4, <3>1, <3>3 DEF Path
      <3> QED BY <3>3, <3>4
    <2>3. o \in S
      <3> HIDE DEF S
      <3> QED BY <1>8, <2>1, <2>2 DEF Reached
    <2>4. PICK k \in 1..Len(w) + 1 : q[k] = o
      BY <2>3
    <2>5. k # Len(w) + 1
      BY <1>4, <1>8, <2>4 DEF Path
    <2>6. k \in 1..Len(w)
      BY <1>5, <2>5
    <2> QED BY <1>6, <2>4, <2>6
  <1>9. p \in [1..Len(w) -> Offsets]
    <2> HIDE DEF p
    <2>1. p = [k \in 1..Len(w) |-> p[k]]
      BY DEF p
    <2> QED BY <1>6, <2>1
  <1> HIDE DEF p
  <1> QED BY <1>5, <1>6, <1>7, <1>8, <1>9 DEF w

\* Induction from 0 up to m, on the numbers of a set.
LEMMA Upward ==
  ASSUME NEW m \in Nat, NEW T, 0 \in T,
         \A k \in 1..m : k - 1 \in T => k \in T
  PROVE  \A k \in 0..m : k \in T
  <1> DEFINE bad == {j \in 0..m : j \notin T}
  <1>1. SUFFICES ASSUME bad # {} PROVE FALSE
    OBVIOUS
  <1>2. bad \in SUBSET Nat
    OBVIOUS
  <1>3. PICK j \in bad : \A i \in bad : j <= i
    <2> HIDE DEF bad
    <2> QED BY <1>1, <1>2, LeastIn
  <1>4. j \in 1..m /\ j - 1 \in 0..m /\ ~(j <= j - 1)
    BY <1>3
  <1>5. j - 1 \in T
    BY <1>3, <1>4
  <1> QED BY <1>3, <1>4, <1>5

\* Walk, unrolled.
LEMMA DirUnrolls ==
  ASSUME NEW dir \in [SegIds -> Segments]
  PROVE  \E upTo \in [0..MaxSegments -> Seq(Nat)] :
            /\ Walk(dir) = upTo[MaxSegments] /\ upTo[0] = <<>>
            /\ \A i \in SegIds :
                  upTo[i] = IF i \in discoverSegments(dir)
                            THEN upTo[i - 1] \o walkSegment(dir[i].cache)
                            ELSE upTo[i - 1]
  <1> DEFINE m == MaxSegments
             D == 0..m
             Def(f, i) == IF i = 0 THEN <<>>
                          ELSE IF i \in discoverSegments(dir)
                               THEN f[i - 1] \o walkSegment(dir[i].cache)
                               ELSE f[i - 1]
             upTo[i \in D] == Def(upTo, i)
             valid == [j \in D |-> j < m]
             next == [j \in D |-> j + 1]
             stop == [j \in D |-> <<>>]
             step == [j \in D |-> [x \in Seq(Nat) |->
                          IF m - j \in discoverSegments(dir)
                          THEN x \o walkSegment(dir[m - j].cache) ELSE x]]
  <1>1. m \in Nat
    BY WalAssumption
  <1>2. Walk(dir) = upTo[m]
    BY DEF Walk
  <1>0. \A j \in D : valid[j] <=> j < m
    BY Zenon
  <1>3. valid \in [D -> BOOLEAN] /\ next \in [D -> Nat] /\ Jumps(m, valid, next)
        /\ stop \in [D -> Seq(Nat)]
    <2>1. valid \in [D -> BOOLEAN] /\ next \in [D -> Nat]
      BY <1>1
    <2>2. stop \in [D -> Seq(Nat)]
      OBVIOUS
    <2>3. Jumps(m, valid, next)
      <3>1. \A j \in D : next[j] = j + 1
        OBVIOUS
      <3> HIDE DEF valid, next
      <3>2. ASSUME NEW j \in D, valid[j] PROVE next[j] \in j + 1..m
        <4>1. j < m
          BY <1>0, <3>2
        <4> QED BY <1>1, <3>1, <4>1
      <3> QED BY <3>2 DEF Jumps
    <2> HIDE DEF valid, next, stop
    <2> QED BY <2>1, <2>2, <2>3
  <1>4. step \in [D -> [Seq(Nat) -> Seq(Nat)]]
    <2>1. ASSUME NEW i \in discoverSegments(dir), NEW x \in Seq(Nat)
          PROVE  x \o walkSegment(dir[i].cache) \in Seq(Nat)
      <3>1. dir[i].cache \in Cells
        BY DEF discoverSegments, Segments
      <3>2. walkSegment(dir[i].cache) \in Seq(Nat)
        BY <3>1, WalkLists
      <3> QED BY <3>2
    <2> QED BY <2>1
  <1>5. PICK f \in [D -> Seq(Nat)] : Unrolled(m, f, valid, next, step, stop)
    <2> HIDE DEF valid, next, stop, step
    <2> QED BY <1>1, <1>3, <1>4, Unrolls
  <1>6. \A j \in D : f[j] = IF valid[j] THEN step[j][f[next[j]]] ELSE stop[j]
    <2> HIDE DEF valid, next, stop, step
    <2> QED BY <1>5 DEF Unrolled
  <1> DEFINE g == [i \in D |-> f[m - i]]
  <1>7. g \in [D -> Seq(Nat)]
    BY <1>1
  <1>8. ASSUME NEW i \in D PROVE g[i] = Def(g, i)
    <2>0. m - i \in D /\ g[i] = f[m - i]
      BY <1>1
    <2>1. CASE i = 0
      <3>1. ~valid[m - i] /\ stop[m - i] = <<>>
        <4>1. ~(m - i < m)
          BY <1>1, <2>1
        <4>2. stop[m - i] = <<>>
          BY <2>0
        <4> HIDE DEF valid, stop
        <4> QED BY <1>0, <2>0, <4>1, <4>2
      <3>2. g[i] = <<>>
        <4> HIDE DEF valid, step, stop, next, g
        <4> QED BY <1>6, <2>0, <3>1
      <3> QED BY <2>1, <3>2
    <2>2. CASE i # 0
      <3>1. m - i < m /\ i - 1 \in D /\ (m - i) + 1 = m - (i - 1) /\ m - (m - i) = i
        BY <1>1, <2>2
      <3>2. f[m - i] = step[m - i][f[m - (i - 1)]]
        <4>1. next[m - i] = m - (i - 1)
          BY <2>0, <3>1
        <4>2. valid[m - i]
          <5> HIDE DEF valid
          <5> QED BY <1>0, <2>0, <3>1
        <4> HIDE DEF valid, step, stop, next, g
        <4> QED BY <1>6, <2>0, <4>1, <4>2
      <3>3. f[m - (i - 1)] = g[i - 1] /\ g[i - 1] \in Seq(Nat)
        BY <1>7, <3>1
      <3>4. step[m - i][g[i - 1]] = IF i \in discoverSegments(dir)
                                    THEN g[i - 1] \o walkSegment(dir[i].cache)
                                    ELSE g[i - 1]
        BY <2>0, <3>1, <3>3
      <3> HIDE DEF g, step
      <3> QED BY <2>0, <2>2, <3>2, <3>3, <3>4
    <2> QED BY <2>1, <2>2
  <1>9. g = [i \in D |-> Def(g, i)]
    <2> HIDE DEF Def, g
    <2>1. g = [i \in D |-> g[i]]
      BY <1>7
    <2> QED BY <1>8, <2>1
  <1>10. upTo = [i \in D |-> Def(upTo, i)]
    <2> HIDE DEF Def, g
    <2> QED BY <1>9, Zenon
  <1>11. \A i \in D : upTo[i] = Def(upTo, i)
    <2> HIDE DEF Def, upTo
    <2> QED BY <1>10
  <1>12. \A i \in D : g[i] = upTo[i]
    <2> DEFINE T == {i \in D : g[i] = upTo[i]}
    <2> HIDE DEF upTo, g
    <2>1. 0 \in T
      BY <1>1, <1>8, <1>11
    <2>2. ASSUME NEW k \in 1..m, k - 1 \in T PROVE k \in T
      <3>1. k \in D /\ k # 0 /\ g[k - 1] = upTo[k - 1]
        BY <1>1, <2>2
      <3>2. g[k] = Def(g, k) /\ upTo[k] = Def(upTo, k)
        <4> HIDE DEF Def
        <4> QED BY <1>8, <1>11, <3>1
      <3> QED BY <3>1, <3>2
    <2>3. \A i \in D : i \in T
      <3> HIDE DEF T
      <3> QED BY <1>1, <2>1, <2>2, Upward
    <2> QED BY <2>3
  <1>13. ASSUME NEW i \in SegIds
         PROVE  g[i] = IF i \in discoverSegments(dir)
                       THEN g[i - 1] \o walkSegment(dir[i].cache)
                       ELSE g[i - 1]
    <2>1. i \in D /\ i # 0
      BY <1>1 DEF SegIds
    <2> HIDE DEF g
    <2> QED BY <1>8, <2>1
  <1>14. Walk(dir) = g[m] /\ g[0] = <<>>
    <2>1. 0 \in D /\ m \in D
      BY <1>1
    <2> HIDE DEF g, upTo
    <2> QED BY <1>2, <1>8, <1>12, <2>1
  <1> HIDE DEF g
  <1> QED BY <1>7, <1>13, <1>14

\* The entries w, at the places at, are those a scan of the segments up to i
\* accepts, oldest first.
Listing(dir, i, w, at) ==
    /\ w \in Seq(Nat) /\ at \in [1..Len(w) -> SegIds \X Offsets]
    /\ \A k \in 1..Len(w) : at[k][1] <= i /\ Intact(dir[at[k][1]].cache, at[k][2], w[k])
    /\ \A k, l \in 1..Len(w) : k < l => Before(at[k], at[l])
    /\ \A s \in SegIds, o \in Offsets :
          s <= i /\ Reached(dir[s].cache, o) /\ ValidAt(dir[s].cache, o)
            => \E k \in 1..Len(w) : at[k] = <<s, o>>

\* A file without data holds no entry.
LEMMA EmptyInvalid == \A o \in Offsets : ~ValidAt(Empty, o)
  BY DEF ValidAt, Empty, Zero

\* One more segment.
LEMMA ListingExtends ==
  ASSUME NEW dir \in [SegIds -> Segments], NEW i \in SegIds,
         NEW u, NEW at, Listing(dir, i - 1, u, at)
  PROVE  \E to : Listing(dir, i, u \o walkSegment(dir[i].cache), to)
  <1> DEFINE c == dir[i].cache
             w == walkSegment(c)
             v == u \o w
  <1>1. c \in Cells
    BY DEF Segments
  <1>2. PICK p \in [DOMAIN w -> Offsets] :
              /\ \A k \in DOMAIN w : Intact(c, p[k], w[k])
              /\ \A k, l \in DOMAIN w : k < l => p[k] < p[l]
              /\ \A o \in Offsets : Reached(c, o) /\ ValidAt(c, o) =>
                    \E k \in DOMAIN w : p[k] = o
    BY <1>1, WalkLists
  <1>3. u \in Seq(Nat) /\ w \in Seq(Nat) /\ at \in [1..Len(u) -> SegIds \X Offsets]
    BY <1>1, WalkLists DEF Listing
  <1>4. /\ DOMAIN w = 1..Len(w) /\ Len(u) \in Nat /\ Len(w) \in Nat /\ i \in Nat
        /\ v \in Seq(Nat) /\ Len(v) = Len(u) + Len(w)
        /\ \A k \in 1..Len(u) : v[k] = u[k]
        /\ \A k \in 1..Len(w) : v[Len(u) + k] = w[k]
    <2>1. i \in Nat
      BY DEF SegIds
    <2> HIDE DEF w
    <2> QED BY <1>3, <2>1
  <1> DEFINE to == [k \in 1..Len(v) |-> IF k <= Len(u) THEN at[k] ELSE <<i, p[k - Len(u)]>>]
  <1> HIDE DEF c, w, v
  <1>5. \A k \in 1..Len(v) : k <= Len(u) => k \in 1..Len(u) /\ to[k] = at[k]
    BY <1>4
  <1>6. \A k \in 1..Len(v) : ~(k <= Len(u)) => k - Len(u) \in 1..Len(w) /\ to[k] = <<i, p[k - Len(u)]>>
    BY <1>4
  <1>7. to \in [1..Len(v) -> SegIds \X Offsets]
    <2>1. ASSUME NEW k \in 1..Len(v) PROVE to[k] \in SegIds \X Offsets
      <3>1. CASE k <= Len(u)
        BY <1>3, <1>5, <3>1
      <3>2. CASE ~(k <= Len(u))
        <4>1. p[k - Len(u)] \in Offsets
          BY <1>2, <1>4, <1>6, <3>2
        <4> QED BY <1>6, <3>2, <4>1
      <3> QED BY <3>1, <3>2
    <2>2. to = [k \in 1..Len(v) |-> to[k]]
      OBVIOUS
    <2> HIDE DEF to
    <2> QED BY <2>1, <2>2
  <1> HIDE DEF to
  <1>8. ASSUME NEW k \in 1..Len(v)
        PROVE  to[k][1] <= i /\ Intact(dir[to[k][1]].cache, to[k][2], v[k])
    <2>1. CASE k <= Len(u)
      <3>1. k \in 1..Len(u) /\ to[k] = at[k] /\ v[k] = u[k]
        BY <1>4, <1>5, <2>1
      <3>2. at[k][1] <= i - 1 /\ Intact(dir[at[k][1]].cache, at[k][2], u[k])
        BY <3>1 DEF Listing
      <3>3. at[k][1] \in Nat
        BY <1>3, <3>1 DEF SegIds
      <3> QED BY <1>4, <3>1, <3>2, <3>3
    <2>2. CASE ~(k <= Len(u))
      <3>1. k - Len(u) \in 1..Len(w) /\ to[k][1] = i /\ to[k][2] = p[k - Len(u)]
        BY <1>6, <2>2
      <3>2. v[k] = w[k - Len(u)]
        <4>1. k = Len(u) + (k - Len(u))
          BY <1>4
        <4> QED BY <1>4, <3>1, <4>1
      <3>3. Intact(c, p[k - Len(u)], w[k - Len(u)])
        BY <1>2, <1>4, <3>1
      <3> QED BY <1>4, <3>1, <3>2, <3>3 DEF c
    <2> QED BY <2>1, <2>2
  <1>9. ASSUME NEW k \in 1..Len(v), NEW l \in 1..Len(v), k < l PROVE Before(to[k], to[l])
    <2>1. CASE l <= Len(u)
      <3>1. k <= Len(u)
        BY <1>4, <1>9, <2>1
      <3>2. k \in 1..Len(u) /\ l \in 1..Len(u) /\ to[k] = at[k] /\ to[l] = at[l]
        BY <1>5, <2>1, <3>1
      <3> QED BY <1>9, <3>2 DEF Listing
    <2>2. CASE k <= Len(u) /\ ~(l <= Len(u))
      <3>1. k \in 1..Len(u) /\ to[k] = at[k] /\ to[l][1] = i
        BY <1>5, <1>6, <2>2
      <3>2. at[k][1] <= i - 1 /\ at[k][1] \in Nat
        <4>1. at[k][1] <= i - 1
          BY <3>1 DEF Listing
        <4>2. at[k] \in SegIds \X Offsets
          BY <1>3, <3>1
        <4> QED BY <4>1, <4>2 DEF SegIds
      <3>3. to[k][1] < to[l][1]
        BY <1>4, <3>1, <3>2
      <3> QED BY <3>3 DEF Before
    <2>3. CASE ~(k <= Len(u)) /\ ~(l <= Len(u))
      <3>1. /\ k - Len(u) \in 1..Len(w) /\ to[k][1] = i /\ to[k][2] = p[k - Len(u)]
            /\ l - Len(u) \in 1..Len(w) /\ to[l][1] = i /\ to[l][2] = p[l - Len(u)]
        BY <1>6, <2>3
      <3>2. k - Len(u) < l - Len(u)
        BY <1>4, <1>9
      <3>3. p[k - Len(u)] < p[l - Len(u)]
        BY <1>2, <1>4, <3>1, <3>2
      <3> QED BY <3>1, <3>3 DEF Before
    <2>4. l <= Len(u) => k <= Len(u)
      BY <1>4, <1>9
    <2> QED BY <2>1, <2>2, <2>3, <2>4
  <1>10. ASSUME NEW s \in SegIds, NEW o \in Offsets, s <= i, Reached(dir[s].cache, o),
                ValidAt(dir[s].cache, o)
         PROVE  \E k \in 1..Len(v) : to[k] = <<s, o>>
    <2>1. CASE s <= i - 1
      <3>1. PICK k \in 1..Len(u) : at[k] = <<s, o>>
        BY <1>10, <2>1 DEF Listing
      <3>2. k \in 1..Len(v) /\ k <= Len(u)
        BY <1>4
      <3> QED BY <1>5, <3>1, <3>2
    <2>2. CASE s = i
      <3>1. PICK k \in 1..Len(w) : p[k] = o
        BY <1>2, <1>4, <1>10, <2>2 DEF c
      <3>2. Len(u) + k \in 1..Len(v) /\ ~(Len(u) + k <= Len(u)) /\ (Len(u) + k) - Len(u) = k
        BY <1>4
      <3> QED BY <1>6, <2>2, <3>1, <3>2
    <2>3. s <= i - 1 \/ s = i
      BY <1>4, <1>10 DEF SegIds
    <2> QED BY <2>1, <2>2, <2>3
  <1>11. Listing(dir, i, v, to)
    BY <1>4, <1>7, <1>8, <1>9, <1>10 DEF Listing
  <1> QED BY <1>11 DEF v, w, c

\* Walk returns exactly the entries that scans of the segments accept, oldest
\* segment first and in the order of their offsets.
LEMMA DirWalk ==
  ASSUME NEW dir \in [SegIds -> Segments],
         \A i \in SegIds : dir[i].state = "absent" => dir[i] = Absent
  PROVE  \E at : Listing(dir, MaxSegments, Walk(dir), at)
  <1>1. PICK upTo \in [0..MaxSegments -> Seq(Nat)] :
            /\ Walk(dir) = upTo[MaxSegments] /\ upTo[0] = <<>>
            /\ \A i \in SegIds :
                  upTo[i] = IF i \in discoverSegments(dir)
                            THEN upTo[i - 1] \o walkSegment(dir[i].cache)
                            ELSE upTo[i - 1]
    BY DirUnrolls
  <1>2. MaxSegments \in Nat
    BY WalAssumption
  <1> DEFINE T == {i \in 0..MaxSegments : \E at : Listing(dir, i, upTo[i], at)}
  <1>3. 0 \in T
    <2> DEFINE e == [k \in 1..0 |-> <<1, 0>>]
    <2>1. Len(<<>>) = 0 /\ <<>> \in Seq(Nat) /\ 1..0 = {} /\ \A s \in SegIds : ~(s <= 0)
      BY DEF SegIds
    <2>2. e \in [1..0 -> SegIds \X Offsets]
      BY <2>1
    <2> HIDE DEF e
    <2>3. Listing(dir, 0, <<>>, e)
      BY <2>1, <2>2 DEF Listing
    <2> QED BY <1>1, <1>2, <2>3
  <1>4. ASSUME NEW i \in 1..MaxSegments, i - 1 \in T PROVE i \in T
    <2>0. i \in SegIds /\ i \in 0..MaxSegments /\ i \in Nat
      BY <1>2 DEF SegIds
    <2>1. PICK at : Listing(dir, i - 1, upTo[i - 1], at)
      BY <1>4
    <2>2. CASE i \in discoverSegments(dir)
      <3>1. upTo[i] = upTo[i - 1] \o walkSegment(dir[i].cache)
        BY <1>1, <2>0, <2>2
      <3>2. \E to : Listing(dir, i, upTo[i - 1] \o walkSegment(dir[i].cache), to)
        BY <2>0, <2>1, ListingExtends
      <3> QED BY <2>0, <3>1, <3>2
    <2>3. CASE i \notin discoverSegments(dir)
      <3>1. upTo[i] = upTo[i - 1] /\ dir[i].cache = Empty
        BY <1>1, <2>0, <2>3 DEF discoverSegments, Absent
      <3>2. \A s \in SegIds : s <= i => s <= i - 1 \/ s = i
        BY <2>0 DEF SegIds
      <3>3. \A k \in 1..Len(upTo[i - 1]) : at[k][1] <= i
        <4>1. ASSUME NEW k \in 1..Len(upTo[i - 1]) PROVE at[k][1] <= i
          <5>1. at[k][1] <= i - 1 /\ at[k] \in SegIds \X Offsets
            BY <2>1 DEF Listing
          <5>2. at[k][1] \in Nat
            BY <5>1 DEF SegIds
          <5> QED BY <2>0, <5>1, <5>2
        <4> QED BY <4>1
      <3>4. Listing(dir, i, upTo[i - 1], at)
        BY <2>1, <3>1, <3>2, <3>3, EmptyInvalid DEF Listing
      <3> QED BY <2>0, <3>1, <3>4
    <2> QED BY <2>2, <2>3
  <1>5. \A i \in 0..MaxSegments : i \in T
    <2> HIDE DEF T
    <2>1. \A i \in 1..MaxSegments : i - 1 \in T => i \in T
      BY <1>4
    <2> QED BY <1>2, <1>3, <2>1, Upward
  <1> QED BY <1>1, <1>2, <1>5

-----------------------------------------------------------------------------
(* Which writes leave which entries alone *)

\* Both have the same cells in front of offset end.
Same(c, d, end) == \A x \in Offsets : x < end => c[x] = d[x]

\* An entry that ends where the cells still agree is valid in both.
LEMMA SameValid ==
  ASSUME NEW c \in Cells, NEW d \in Cells, NEW end \in 0..MaxSegmentBytes, Same(c, d, end),
         NEW o \in 0..MaxSegmentBytes, ValidAt(c, o), After(c, o) <= end
  PROVE  ValidAt(d, o) /\ After(d, o) = After(c, o) /\ d[o] = c[o]
  <1>1. /\ o \in Offsets /\ c[o][1] = "header" /\ c[o][2] \in Nat /\ c[o][3] \in Nat \ {0}
        /\ After(c, o) \in 0..MaxSegmentBytes /\ o + 1 < After(c, o)
        /\ \A k \in 1..c[o][3] : c[o + k] = Payload(c[o][2], k)
    BY ValidFacts
  <1>2. MaxSegmentBytes \in Nat /\ o \in Nat /\ end \in Nat
    BY WalAssumption
  <1>3. d[o] = c[o]
    <2>1. o < end
      BY <1>1, <1>2
    <2> QED BY <1>1, <2>1 DEF Same
  <1>4. ASSUME NEW k \in 1..c[o][3] PROVE d[o + k] = c[o + k]
    <2>1. o + k \in Offsets /\ o + k < end
      BY <1>1, <1>2 DEF After, Offsets
    <2> QED BY <2>1 DEF Same
  <1>5. o + 1 <= MaxSegmentBytes /\ o + 1 + c[o][3] <= MaxSegmentBytes
    BY DEF ValidAt
  <1> QED BY <1>1, <1>3, <1>4, <1>5 DEF ValidAt, After

\* A scan reaches what it reached before a write behind it.
LEMMA SameReached ==
  ASSUME NEW c \in Cells, NEW d \in Cells, NEW end \in 0..MaxSegmentBytes, Same(c, d, end),
         NEW o \in 0..MaxSegmentBytes, Reached(c, o), o <= end
  PROVE  Reached(d, o)
  <1> DEFINE D == 0..MaxSegmentBytes
  <1>1. SUFFICES ASSUME NEW S \in SUBSET D, 0 \in S,
                        \A x \in S : ValidAt(d, x) => After(d, x) \in S
                 PROVE  o \in S
    BY DEF Reached
  <1>2. MaxSegmentBytes \in Nat
    BY WalAssumption
  <1> DEFINE T == {x \in D : x \in S \/ end < x}
  <1>3. T \in SUBSET D /\ 0 \in T
    BY <1>1, <1>2
  <1>4. ASSUME NEW x \in T, ValidAt(c, x) PROVE After(c, x) \in T
    <2>1. After(c, x) \in D /\ x < After(c, x)
      BY <1>2, <1>4, ValidFacts
    <2>2. CASE After(c, x) <= end
      <3>1. ValidAt(d, x) /\ After(d, x) = After(c, x)
        BY <1>4, <2>2, SameValid
      <3>2. x \in S
        BY <1>2, <2>1, <2>2
      <3> QED BY <1>1, <2>1, <3>1, <3>2
    <2>3. CASE ~(After(c, x) <= end)
      BY <1>2, <2>1, <2>3
    <2> QED BY <2>2, <2>3
  <1>5. o \in T
    <2> HIDE DEF T
    <2> QED BY <1>3, <1>4 DEF Reached
  <1> QED BY <1>2, <1>5

LEMMA SameIntact ==
  ASSUME NEW c \in Cells, NEW d \in Cells, NEW end \in 0..MaxSegmentBytes, Same(c, d, end),
         NEW o \in 0..MaxSegmentBytes, NEW e, Intact(c, o, e), After(c, o) <= end
  PROVE  Intact(d, o, e) /\ After(d, o) = After(c, o)
  <1>1. Reached(c, o) /\ ValidAt(c, o) /\ c[o][2] = e
    BY DEF Intact
  <1>2. ValidAt(d, o) /\ After(d, o) = After(c, o) /\ d[o] = c[o]
    BY <1>1, SameValid
  <1>3. o <= end
    <2>1. o < After(c, o) /\ After(c, o) \in Nat /\ MaxSegmentBytes \in Nat
      BY <1>1, ValidFacts, WalAssumption
    <2> QED BY <2>1
  <1>4. Reached(d, o)
    BY <1>1, <1>3, SameReached
  <1> QED BY <1>1, <1>2, <1>4 DEF Intact

\* What an entry's place says of it.
LEMMA IntactFacts ==
  ASSUME NEW c \in Cells, NEW o \in 0..MaxSegmentBytes, NEW e, Intact(c, o, e)
  PROVE  /\ o \in Offsets /\ c[o][1] = "header" /\ c[o][2] = e
         /\ After(c, o) \in 0..MaxSegmentBytes /\ o < After(c, o)
         /\ Reached(c, After(c, o))
  <1>1. Reached(c, o) /\ ValidAt(c, o) /\ c[o][2] = e
    BY DEF Intact
  <1>2. /\ o \in Offsets /\ c[o][1] = "header"
        /\ After(c, o) \in 0..MaxSegmentBytes /\ o + 1 < After(c, o)
    BY <1>1, ValidFacts
  <1>3. o < After(c, o)
    <2>1. MaxSegmentBytes \in Nat
      BY WalAssumption
    <2> QED BY <1>2, <2>1
  <1> QED BY <1>1, <1>2, <1>3, ReachedAfter

\* A store at off changes nothing in front of off and makes no other header.
LEMMA StoredFacts ==
  ASSUME NEW c \in Cells, NEW off \in Offsets, NEW e \in Nat, NEW n \in Nat,
         NEW k \in 1..(1 + n)
  PROVE  /\ Stored(c, off, e, n, k) \in Cells
         /\ Same(c, Stored(c, off, e, n, k), off)
         /\ \A o \in Offsets : Stored(c, off, e, n, k)[o][1] = "header" =>
               \/ o = off /\ Stored(c, off, e, n, k)[o][2] = e
               \/ Stored(c, off, e, n, k)[o] = c[o]
  <1> DEFINE d == Stored(c, off, e, n, k)
  <1>1. off \in Nat /\ MaxSegmentBytes \in Nat /\ k > 0
    BY WalAssumption DEF Offsets
  <1>2. ASSUME NEW o \in Offsets
        PROVE  /\ o = off => d[o] = Header(e, n)
               /\ o < off => d[o] = c[o]
               /\ d[o] = c[o] \/ o = off \/ d[o] = Payload(e, o - off)
    BY <1>1 DEF Stored, Offsets
  <1>3. ASSUME NEW o \in Offsets PROVE d[o] \in {"zero", "header", "payload"} \X Nat \X Nat
    <2>1. c[o] \in {"zero", "header", "payload"} \X Nat \X Nat
      BY DEF Cells
    <2>2. o > off /\ o < off + k => o - off \in Nat
      BY <1>1 DEF Offsets
    <2> QED BY <2>1, <2>2 DEF Stored, Header, Payload
  <1>4. d \in Cells
    <2>1. d = [o \in Offsets |-> d[o]]
      BY DEF Stored
    <2> HIDE DEF d
    <2> QED BY <1>3, <2>1 DEF Cells
  <1> HIDE DEF d
  <1>5. Same(c, d, off)
    BY <1>2 DEF Same
  <1>6. ASSUME NEW o \in Offsets, d[o][1] = "header"
        PROVE  (o = off /\ d[o][2] = e) \/ d[o] = c[o]
    BY <1>2, <1>6 DEF Header, Payload
  <1> QED BY <1>4, <1>5, <1>6 DEF d

\* An entry that was stored whole is valid and ends where the next one goes.
LEMMA StoredValid ==
  ASSUME NEW c \in Cells, NEW off \in Offsets, NEW e \in Nat, NEW n \in Nat \ {0},
         off + 1 + n <= MaxSegmentBytes, Reached(c, off)
  PROVE  /\ Intact(Stored(c, off, e, n, 1 + n), off, e)
         /\ After(Stored(c, off, e, n, 1 + n), off) = off + 1 + n
  <1> DEFINE d == Stored(c, off, e, n, 1 + n)
  <1>1. off \in Nat /\ MaxSegmentBytes \in Nat
    BY WalAssumption DEF Offsets
  <1>2. d[off] = Header(e, n)
    BY <1>1 DEF Stored
  <1>3. ASSUME NEW k \in 1..n PROVE d[off + k] = Payload(e, k)
    <2>1. off + k \in Offsets /\ off + k > off /\ off + k < off + (1 + n) /\ off + k <= off + n
          /\ (off + k) - off = k /\ off + k # off
      BY <1>1 DEF Offsets
    <2> QED BY <2>1 DEF Stored
  <1>4. d \in Cells /\ Same(c, d, off)
    <2>1. 1 + n \in 1..(1 + n)
      OBVIOUS
    <2> QED BY <2>1, StoredFacts
  <1> HIDE DEF d
  <1>5. d[off][1] = "header" /\ d[off][2] = e /\ d[off][3] = n
    BY <1>2 DEF Header
  <1>6. ValidAt(d, off)
    BY <1>1, <1>3, <1>5 DEF ValidAt
  <1>7. Reached(d, off)
    <2>1. off \in 0..MaxSegmentBytes /\ off <= off
      BY <1>1 DEF Offsets
    <2> QED BY <1>4, <2>1, SameReached
  <1> QED BY <1>5, <1>6, <1>7 DEF Intact, After, d

\* The newest segment.
LEMMA MaxIn ==
  ASSUME NEW S \in SUBSET SegIds, S # {}
  PROVE  Max(S) \in S /\ \A y \in S : y <= Max(S)
  <1> DEFINE T == {MaxSegments - y : y \in S}
  <1>1. MaxSegments \in Nat /\ \A y \in S : y \in Nat /\ y <= MaxSegments
    BY WalAssumption DEF SegIds
  <1>2. T \in SUBSET Nat /\ T # {}
    BY <1>1
  <1>3. PICK t \in T : \A z \in T : t <= z
    <2> HIDE DEF T
    <2> QED BY <1>2, LeastIn
  <1>4. PICK x \in S : t = MaxSegments - x
    BY <1>3
  <1>5. ASSUME NEW y \in S PROVE x >= y
    <2>1. MaxSegments - y \in T
      OBVIOUS
    <2>2. MaxSegments - x <= MaxSegments - y
      BY <1>3, <1>4, <2>1
    <2> QED BY <1>1, <2>2
  <1>6. \A y \in S : Max(S) \in S /\ Max(S) >= y
    BY <1>5, Zenon DEF Max
  <1> QED BY <1>1, <1>6

-----------------------------------------------------------------------------
(* What the invariant says of recovery *)

LEMMA SeqTypes ==
  ASSUME NEW S, NEW s \in Seq(S)
  PROVE  /\ Len(s) \in Nat /\ DOMAIN s = 1..Len(s) /\ s = [k \in 1..Len(s) |-> s[k]]
         /\ \A k \in 1..Len(s) : s[k] \in S
         /\ \A x \in Range(s) : x \in S /\ \E k \in 1..Len(s) : s[k] = x
  <1>1. Len(s) \in Nat /\ DOMAIN s = 1..Len(s) /\ \A k \in 1..Len(s) : s[k] \in S
    OBVIOUS
  <1>2. s = [k \in 1..Len(s) |-> s[k]]
    OBVIOUS
  <1>3. \A x \in Range(s) : x \in S /\ \E k \in 1..Len(s) : s[k] = x
    BY <1>1 DEF Range
  <1> QED BY <1>1, <1>2, <1>3

LEMMA SeqNarrows ==
  ASSUME NEW S, NEW T, NEW s \in Seq(T), \A k \in 1..Len(s) : s[k] \in S
  PROVE  s \in Seq(S)
  <1>1. Len(s) \in Nat /\ s = [k \in 1..Len(s) |-> s[k]]
    BY SeqTypes
  <1>2. \A n \in Nat : \A f : f = [k \in 1..n |-> f[k]] /\ (\A k \in 1..n : f[k] \in S) => f \in Seq(S)
    OBVIOUS
  <1> QED BY <1>1, <1>2

\* A scan of the file that entry e was written to accepts e where it was written.
Seen(dir, at, e) == Intact(dir[at[e][1]].cache, at[e][2], e)

LEMMA PlaceTypes ==
  ASSUME WalTypes
  PROVE  /\ ever \in Nat /\ DOMAIN places = 1..ever
         /\ \A e \in 1..ever : /\ places[e] \in SegIds \X Offsets
                               /\ places[e][1] \in SegIds /\ places[e][2] \in Offsets
                               /\ places[e][2] \in 0..MaxSegmentBytes
                               /\ places[e] = <<places[e][1], places[e][2]>>
         /\ \A i \in SegIds : segs[i] \in Segments /\ segs[i].cache \in Cells
                              /\ segs[i].disk \in Cells
  <1>1. places \in Seq(SegIds \X Offsets) /\ segs \in [SegIds -> Segments]
    BY DEF WalTypes
  <1>2. ever \in Nat /\ DOMAIN places = 1..ever
    BY <1>1 DEF ever
  <1>3. \A e \in 1..ever : places[e] \in SegIds \X Offsets
    BY <1>1, <1>2 DEF ever
  <1>4. ASSUME NEW e \in 1..ever
        PROVE  /\ places[e][1] \in SegIds /\ places[e][2] \in Offsets
               /\ places[e] = <<places[e][1], places[e][2]>>
    BY <1>3
  <1>5. \A o \in Offsets : o \in 0..MaxSegmentBytes
    BY WalAssumption DEF Offsets
  <1>6. \A i \in SegIds : segs[i] \in Segments
    BY <1>1
  <1>7. \A i \in SegIds : segs[i].cache \in Cells /\ segs[i].disk \in Cells
    BY <1>6 DEF Segments
  <1> QED BY <1>2, <1>3, <1>4, <1>5, <1>6, <1>7

LEMMA BeforeOrder ==
  ASSUME NEW p \in SegIds \X Offsets, NEW q \in SegIds \X Offsets, Before(p, q)
  PROVE  p # q /\ ~Before(q, p)
  <1>1. p[1] \in Int /\ q[1] \in Int /\ p[2] \in Int /\ q[2] \in Int
    BY DEF SegIds, Offsets
  <1> QED BY <1>1 DEF Before

\* Walk returns the entries that scans accept, each once, in the order of places.
LEMMA Walked ==
  ASSUME WalTypes, FilesInOrder, HeadersInPlace
  PROVE  /\ Walk(segs) \in Seq(1..ever)
         /\ \A k \in DOMAIN Walk(segs) : Seen(segs, places, Walk(segs)[k])
         /\ \A k, l \in DOMAIN Walk(segs) :
               k < l => Before(places[Walk(segs)[k]], places[Walk(segs)[l]])
         /\ \A e \in 1..ever : Seen(segs, places, e) => e \in Range(Walk(segs))
  <1> DEFINE W == Walk(segs)
  <1>1. segs \in [SegIds -> Segments]
    BY DEF WalTypes
  <1>2. PICK at : Listing(segs, MaxSegments, W, at)
    BY <1>1, DirWalk DEF FilesInOrder
  <1> HIDE DEF W
  <1>3. W \in Seq(Nat) /\ at \in [1..Len(W) -> SegIds \X Offsets] /\ DOMAIN W = 1..Len(W)
    BY <1>2 DEF Listing
  <1>4. ASSUME NEW k \in 1..Len(W)
        PROVE  W[k] \in 1..ever /\ places[W[k]] = at[k] /\ Seen(segs, places, W[k])
    <2>1. at[k] \in SegIds \X Offsets
      BY <1>3
    <2>2. at[k][1] \in SegIds /\ at[k][2] \in Offsets /\ at[k] = <<at[k][1], at[k][2]>>
      BY <2>1
    <2>3. Intact(segs[at[k][1]].cache, at[k][2], W[k])
      BY <1>2 DEF Listing
    <2>4. segs[at[k][1]].cache \in Cells /\ at[k][2] \in 0..MaxSegmentBytes
      BY <2>2, WalAssumption, PlaceTypes DEF Offsets
    <2>5. segs[at[k][1]].cache[at[k][2]][1] = "header" /\ segs[at[k][1]].cache[at[k][2]][2] = W[k]
      BY <2>3, <2>4, IntactFacts
    <2>6. W[k] \in 1..ever /\ places[W[k]] = <<at[k][1], at[k][2]>>
      BY <2>2, <2>5 DEF HeadersInPlace
    <2>7. places[W[k]] = at[k]
      BY <2>2, <2>6
    <2> QED BY <2>3, <2>6, <2>7 DEF Seen
  <1>5. W \in Seq(1..ever)
    <2>1. \A k \in 1..Len(W) : W[k] \in 1..ever
      BY <1>4
    <2> QED BY <1>3, <2>1, SeqNarrows
  <1>6. \A k, l \in 1..Len(W) : k < l => Before(places[W[k]], places[W[l]])
    BY <1>2, <1>4 DEF Listing
  <1>7. ASSUME NEW e \in 1..ever, Seen(segs, places, e) PROVE e \in Range(W)
    <2>1. places[e][1] \in SegIds /\ places[e][2] \in Offsets /\ places[e][1] <= MaxSegments
      BY PlaceTypes, WalAssumption DEF SegIds
    <2>2. Reached(segs[places[e][1]].cache, places[e][2]) /\ ValidAt(segs[places[e][1]].cache, places[e][2])
          /\ segs[places[e][1]].cache[places[e][2]][2] = e
      BY <1>7 DEF Seen, Intact
    <2>3. PICK k \in 1..Len(W) : at[k] = <<places[e][1], places[e][2]>>
      BY <1>2, <2>1, <2>2 DEF Listing
    <2>4. W[k] = segs[at[k][1]].cache[at[k][2]][2]
      BY <1>2 DEF Listing, Intact
    <2>5. W[k] = e
      BY <2>2, <2>3, <2>4
    <2> QED BY <1>3, <2>5 DEF Range
  <1> QED BY <1>3, <1>4, <1>5, <1>6, <1>7 DEF W

\* walkSegment of one file returns the entries that were written to it and that
\* a scan accepts.
LEMMA SegmentWalked ==
  ASSUME WalTypes, HeadersInPlace, NEW i \in SegIds
  PROVE  Range(walkSegment(segs[i].cache))
            = {e \in 1..ever : places[e][1] = i /\ Seen(segs, places, e)}
  <1> DEFINE c == segs[i].cache
             w == walkSegment(c)
  <1>1. c \in Cells
    BY PlaceTypes
  <1>2. PICK p \in [DOMAIN w -> Offsets] :
              /\ \A k \in DOMAIN w : Intact(c, p[k], w[k])
              /\ \A o \in Offsets : Reached(c, o) /\ ValidAt(c, o) =>
                    \E k \in DOMAIN w : p[k] = o
    BY <1>1, WalkLists
  <1> HIDE DEF w
  <1>3. ASSUME NEW k \in DOMAIN w
        PROVE  w[k] \in 1..ever /\ places[w[k]][1] = i /\ Seen(segs, places, w[k])
    <2>1. p[k] \in Offsets /\ Intact(c, p[k], w[k])
      BY <1>2
    <2>2. p[k] \in 0..MaxSegmentBytes
      BY <2>1, WalAssumption DEF Offsets
    <2>3. c[p[k]][1] = "header" /\ c[p[k]][2] = w[k]
      BY <1>1, <2>1, <2>2, IntactFacts
    <2>4. w[k] \in 1..ever /\ places[w[k]] = <<i, p[k]>>
      BY <2>1, <2>3 DEF HeadersInPlace
    <2> QED BY <2>1, <2>4 DEF Seen
  <1>4. ASSUME NEW e \in 1..ever, places[e][1] = i, Seen(segs, places, e) PROVE e \in Range(w)
    <2>1. places[e][2] \in Offsets /\ Intact(c, places[e][2], e)
      BY <1>4, PlaceTypes DEF Seen
    <2>2. PICK k \in DOMAIN w : p[k] = places[e][2]
      BY <1>2, <2>1 DEF Intact
    <2>3. w[k] = e
      BY <1>2, <2>1, <2>2 DEF Intact
    <2> QED BY <2>3 DEF Range
  <1>5. ASSUME NEW e \in Range(w)
        PROVE  e \in 1..ever /\ places[e][1] = i /\ Seen(segs, places, e)
    BY <1>3 DEF Range
  <1> QED BY <1>4, <1>5 DEF w

\* The invariant gives what Walk promises.
LEMMA InvWalkReturnsLog ==
  ASSUME WalInv PROVE WalkReturnsLog
  <1> SUFFICES ASSUME up PROVE
          /\ IsInjective(Walk(segs)) /\ Range(log) \subseteq Range(Walk(segs))
          /\ \A i, j \in DOMAIN log, k, l \in DOMAIN Walk(segs) :
                i < j /\ Walk(segs)[k] = log[i] /\ Walk(segs)[l] = log[j] => k < l
    BY DEF WalkReturnsLog
  <1> DEFINE W == Walk(segs)
  <1>0. WalTypes /\ FilesInOrder /\ HeadersInPlace /\ LogInOrder /\ LogIntact
    BY DEF WalInv
  <1>1. /\ W \in Seq(1..ever)
        /\ \A k, l \in DOMAIN W : k < l => Before(places[W[k]], places[W[l]])
        /\ \A e \in 1..ever : Seen(segs, places, e) => e \in Range(W)
    BY <1>0, Walked
  <1> HIDE DEF W
  <1>2. /\ DOMAIN W \subseteq Nat
        /\ \A k \in DOMAIN W : W[k] \in 1..ever /\ places[W[k]] \in SegIds \X Offsets
    <2>1. DOMAIN W = 1..Len(W) /\ \A k \in DOMAIN W : W[k] \in 1..ever
      BY <1>1, SeqTypes
    <2> QED BY <1>0, <2>1, PlaceTypes
  <1>3. ASSUME NEW k \in DOMAIN W, NEW l \in DOMAIN W, W[k] = W[l] PROVE k = l
    <2>1. ~(k < l)
      BY <1>1, <1>2, <1>3, BeforeOrder
    <2>2. ~(l < k)
      BY <1>1, <1>2, <1>3, BeforeOrder
    <2> QED BY <1>2, <2>1, <2>2
  <1>4. IsInjective(W)
    BY <1>3 DEF IsInjective
  <1>5. Range(log) \subseteq Range(W)
    <2>1. ASSUME NEW e \in Range(log) PROVE e \in Range(W)
      <3>1. e \in 1..ever
        BY <1>0, SeqTypes DEF WalTypes
      <3>2. Seen(segs, places, e)
        BY <1>0 DEF LogIntact, Seen
      <3> QED BY <1>1, <3>1, <3>2
    <2> QED BY <2>1
  <1>6. ASSUME NEW i \in DOMAIN log, NEW j \in DOMAIN log, NEW k \in DOMAIN W,
               NEW l \in DOMAIN W, i < j, W[k] = log[i], W[l] = log[j]
        PROVE  k < l
    <2>1. Before(places[W[k]], places[W[l]])
      BY <1>0, <1>6 DEF LogInOrder
    <2>2. k # l
      BY <1>2, <2>1, BeforeOrder
    <2>3. ~(l < k)
      BY <1>1, <1>2, <2>1, BeforeOrder
    <2> QED BY <1>2, <2>2, <2>3
  <1> QED BY <1>4, <1>5, <1>6 DEF W

-----------------------------------------------------------------------------
(* The steps *)

\* Entry e is on disk up to its end, and the page cache agrees with it.
Safe(dir, at, e) ==
    /\ dir[at[e][1]].state = "linked"
    /\ Intact(dir[at[e][1]].disk, at[e][2], e)
    /\ Same(dir[at[e][1]].cache, dir[at[e][1]].disk, After(dir[at[e][1]].disk, at[e][2]))

LEMMA DurableIsSafe ==
  DurableIntact <=> durable \subseteq Range(log) /\ \A e \in durable : Safe(segs, places, e)
  BY DEF DurableIntact, Safe, Same

\* The same of the next state.
LEMMA DurableIsSafeNext ==
  DurableIntact' <=> durable' \subseteq Range(log') /\ \A e \in durable' : Safe(segs', places', e)
  BY DEF DurableIntact, Safe, Same

LEMMA SafeSeen ==
  ASSUME NEW dir, NEW at, NEW e, Safe(dir, at, e),
         dir[at[e][1]].cache \in Cells, dir[at[e][1]].disk \in Cells,
         at[e][2] \in 0..MaxSegmentBytes
  PROVE  /\ Seen(dir, at, e)
         /\ After(dir[at[e][1]].cache, at[e][2]) = After(dir[at[e][1]].disk, at[e][2])
  <1> DEFINE c == dir[at[e][1]].cache
             d == dir[at[e][1]].disk
             o == at[e][2]
             end == After(d, o)
  <1>1. Intact(d, o, e) /\ Same(c, d, end)
    BY DEF Safe
  <1>2. Same(d, c, end)
    BY <1>1 DEF Same
  <1>3. end \in 0..MaxSegmentBytes /\ end <= end
    <2>1. end \in 0..MaxSegmentBytes
      BY <1>1, IntactFacts
    <2>2. MaxSegmentBytes \in Nat
      BY WalAssumption
    <2> HIDE DEF end
    <2> QED BY <2>1, <2>2
  <1> HIDE DEF c, d, o
  <1>4. Intact(c, o, e) /\ After(c, o) = After(d, o)
    <2>1. c \in Cells /\ d \in Cells /\ o \in 0..MaxSegmentBytes
      BY DEF c, d, o
    <2> QED BY <1>1, <1>2, <1>3, <2>1, SameIntact
  <1> QED BY <1>4 DEF Seen, c, d, o

\* The entries that wait for the lock.
Waiting(p) == {w \in Callers : p[w] # Idle}

LEMMA WaitingCounts ==
  /\ \A p : IsFiniteSet(Waiting(p)) /\ Cardinality(Waiting(p)) \in Nat
  /\ \A p, n : \A w \in Callers : p \in [Callers -> Int] /\ p[w] = Idle /\ n # Idle =>
        Cardinality(Waiting([p EXCEPT ![w] = n])) = Cardinality(Waiting(p)) + 1
  /\ \A p : \A w \in Callers : p \in [Callers -> Int] /\ p[w] # Idle =>
        Cardinality(Waiting([p EXCEPT ![w] = Idle])) = Cardinality(Waiting(p)) - 1
  /\ Cardinality(Waiting([w \in Callers |-> Idle])) = 0
  <1>1. ASSUME NEW p PROVE IsFiniteSet(Waiting(p)) /\ Cardinality(Waiting(p)) \in Nat
    <2>1. Waiting(p) \subseteq Callers /\ IsFiniteSet(Callers)
      BY WalAssumption DEF Waiting
    <2> QED BY <2>1, FS_Subset, FS_CardinalityType
  <1>2. ASSUME NEW p \in [Callers -> Int], NEW n, NEW w \in Callers, p[w] = Idle, n # Idle
        PROVE  Cardinality(Waiting([p EXCEPT ![w] = n])) = Cardinality(Waiting(p)) + 1
    <2>1. Waiting([p EXCEPT ![w] = n]) = Waiting(p) \cup {w} /\ w \notin Waiting(p)
      BY <1>2 DEF Waiting
    <2> QED BY <1>1, <2>1, FS_AddElement
  <1>3. ASSUME NEW p \in [Callers -> Int], NEW w \in Callers, p[w] # Idle
        PROVE  Cardinality(Waiting([p EXCEPT ![w] = Idle])) = Cardinality(Waiting(p)) - 1
    <2>1. Waiting([p EXCEPT ![w] = Idle]) = Waiting(p) \ {w} /\ w \in Waiting(p)
      BY <1>3 DEF Waiting
    <2> QED BY <1>1, <2>1, FS_RemoveElement
  <1>4. Cardinality(Waiting([w \in Callers |-> Idle])) = 0
    <2>1. Waiting([w \in Callers |-> Idle]) = {}
      BY DEF Waiting
    <2> QED BY <2>1, FS_EmptySet
  <1> QED BY <1>1, <1>2, <1>3, <1>4

PendingLens == {n \in Lens : n < MaxSegmentBytes} \cup {Idle}

LEMMA PendingTypes ==
  ASSUME WalTypes
  PROVE  /\ pending \in [Callers -> PendingLens] /\ pending \in [Callers -> Int]
         /\ MaxEntries \in Nat /\ ever \in Nat
         /\ \A w \in Callers : pending[w] # Idle =>
               pending[w] \in Lens /\ pending[w] \in Nat /\ 1 + pending[w] <= MaxSegmentBytes
  <1>1. Lens \subseteq Nat /\ MaxEntries \in Nat /\ MaxSegmentBytes \in Nat
    BY WalAssumption
  <1>2. pending \in [Callers -> PendingLens]
    BY DEF WalTypes, PendingLens
  <1>3. PendingLens \subseteq Int
    <2>1. Idle \in Int
      BY DEF Idle
    <2>2. \A n \in Lens : n \in Int
      BY <1>1
    <2> QED BY <2>1, <2>2 DEF PendingLens
  <1>4. \A n \in PendingLens : n # Idle => n \in Lens /\ n \in Nat /\ 1 + n <= MaxSegmentBytes
    BY <1>1 DEF PendingLens, Idle
  <1> QED BY <1>1, <1>2, <1>3, <1>4, PlaceTypes

\* EntryBound in terms of Waiting.
LEMMA BoundMeans ==
  /\ EntryBound <=> ever + (IF up THEN Cardinality(Waiting(pending)) ELSE 0) <= MaxEntries
  /\ EntryBound' <=> ever' + (IF up' THEN Cardinality(Waiting(pending')) ELSE 0) <= MaxEntries
  BY DEF EntryBound, Waiting

\* A Write that returns, with at most one entry started.
LEMMA BoundReturns ==
  ASSUME WalTypes, EntryBound, up, NEW w \in Callers, pending[w] # Idle,
         WriteReturns(w), ever' \in {ever, ever + 1}
  PROVE  EntryBound' /\ pending' \in [Callers -> PendingLens]
  <1>1. pending' = [pending EXCEPT ![w] = Idle]
    BY DEF WriteReturns
  <1>2. /\ pending \in [Callers -> PendingLens] /\ pending \in [Callers -> Int]
        /\ MaxEntries \in Nat /\ ever \in Nat
    BY PendingTypes
  <1> DEFINE n == Cardinality(Waiting(pending))
             m == Cardinality(Waiting(pending'))
  <1>3. n \in Nat /\ m \in Nat /\ m = n - 1
    BY <1>1, <1>2, WaitingCounts
  <1>4. ever + n <= MaxEntries
    BY BoundMeans
  <1> HIDE DEF n, m
  <1>5. \A x \in {ever, ever + 1} : x + m <= MaxEntries /\ x + 0 <= MaxEntries
    BY <1>2, <1>3, <1>4
  <1>6. ever' + m <= MaxEntries /\ ever' + 0 <= MaxEntries
    BY <1>5
  <1>7. pending' \in [Callers -> PendingLens]
    <2>1. Idle \in PendingLens
      BY DEF PendingLens
    <2> QED BY <1>1, <1>2, <2>1
  <1> QED BY <1>6, <1>7, BoundMeans DEF m

\* Steps that touch neither the files nor the log.
LEMMA QuietStep ==
  ASSUME WalInv, UNCHANGED <<segs, segmentID, writeOffset, dirty, histVars>>,
         file' = file, up' \in BOOLEAN, up' => up,
         pending' \in [Callers -> PendingLens], EntryBound'
  PROVE  WalInv'
  <1>1. UNCHANGED <<segs, segmentID, writeOffset, dirty, log, active, own, durable, places, ever>>
    BY DEF histVars, ever
  <1>2. WalTypes'
    BY <1>1 DEF WalInv, WalTypes, PendingLens
  <1>3. FilesInOrder' /\ HeadersInPlace' /\ LogInOrder'
    BY <1>1 DEF WalInv, FilesInOrder, HeadersInPlace, LogInOrder
  <1>4. LogIntact' /\ DurableIntact' /\ OwnCovered'
    BY <1>1 DEF WalInv, LogIntact, DurableIntact, OwnCovered, syncLocked
  <1> QED BY <1>2, <1>3, <1>4 DEF WalInv

LEMMA QuietSteps ==
  ASSUME WalInv,
         \/ \E w \in Callers : \/ \E n \in Lens : WriteBegin(w, n)
                               \/ WriteRotateFails(w) \/ WritePanics(w)
         \/ GroupCommitStop \/ WalCloseBegin \/ ProcessCrash \/ UNCHANGED walVars
  PROVE  WalInv'
  <1>0. WalTypes /\ EntryBound
    BY DEF WalInv
  <1>1. /\ pending \in [Callers -> PendingLens] /\ pending \in [Callers -> Int]
        /\ MaxEntries \in Nat /\ ever \in Nat /\ up \in BOOLEAN
    BY <1>0, PendingTypes DEF WalTypes
  <1>2. ASSUME UNCHANGED <<pending, places>>, up' = up \/ ~up' PROVE EntryBound'
    <2>1. ever' = ever
      BY <1>2 DEF ever
    <2>2. Cardinality(Waiting(pending)) \in Nat
      BY WaitingCounts
    <2>3. CASE up
      <3>1. ever + Cardinality(Waiting(pending)) <= MaxEntries
        BY <1>0, <2>3, BoundMeans
      <3>2. ever + 0 <= MaxEntries
        BY <1>1, <2>2, <3>1
      <3> QED BY <1>2, <2>1, <3>1, <3>2, BoundMeans
    <2>4. CASE ~up
      BY <1>0, <1>2, <2>1, <2>4, BoundMeans
    <2> QED BY <2>3, <2>4
  <1>3. ASSUME NEW w \in Callers, NEW n \in Lens, WriteBegin(w, n) PROVE WalInv'
    <2>1. /\ UNCHANGED <<segs, segmentID, writeOffset, dirty, histVars, file, up, places>>
          /\ up /\ pending' = [pending EXCEPT ![w] = n] /\ pending[w] = Idle
          /\ 1 + n <= MaxSegmentBytes
          /\ ever + Cardinality(Waiting(pending)) < MaxEntries
      BY <1>3 DEF WriteBegin, histVars, Waiting
    <2>2. n \in Nat /\ MaxSegmentBytes \in Nat
      BY WalAssumption
    <2>3. n \in PendingLens /\ n # Idle
      BY <2>1, <2>2 DEF PendingLens, Idle
    <2>4. Cardinality(Waiting(pending')) = Cardinality(Waiting(pending)) + 1
          /\ Cardinality(Waiting(pending)) \in Nat
      BY <1>1, <2>1, <2>3, WaitingCounts
    <2>5. ever' = ever
      BY <2>1 DEF ever
    <2>6. ever + Cardinality(Waiting(pending')) <= MaxEntries
      BY <1>1, <2>1, <2>4
    <2>7. EntryBound'
      BY <2>1, <2>5, <2>6, BoundMeans
    <2>8. pending' \in [Callers -> PendingLens]
      BY <1>1, <2>1, <2>3
    <2> QED BY <1>1, <2>1, <2>7, <2>8, QuietStep
  <1>4. ASSUME NEW w \in Callers, WriteRotateFails(w) PROVE WalInv'
    <2>1. /\ UNCHANGED <<segs, segmentID, writeOffset, dirty, histVars, file, up, places>>
          /\ up /\ pending[w] # Idle /\ WriteReturns(w)
      BY <1>4 DEF WriteRotateFails, histVars
    <2>2. ever' = ever
      BY <2>1 DEF ever
    <2>3. EntryBound' /\ pending' \in [Callers -> PendingLens]
      BY <1>0, <2>1, <2>2, BoundReturns
    <2> QED BY <1>1, <2>1, <2>3, QuietStep
  <1>5. ASSUME \/ \E w \in Callers : WritePanics(w)
               \/ GroupCommitStop \/ WalCloseBegin \/ ProcessCrash \/ UNCHANGED walVars
        PROVE  WalInv'
    <2>1. /\ UNCHANGED <<segs, segmentID, writeOffset, dirty, histVars, pending, places>>
          /\ file' = file /\ (up' = up \/ up' = FALSE)
      BY <1>5 DEF WritePanics, GroupCommitStop, WalCloseBegin, ProcessCrash, walVars, procVars, histVars
    <2>2. EntryBound'
      BY <1>2, <2>1
    <2>3. up' \in BOOLEAN /\ (up' => up)
      <3>1. CASE up' = up
        BY <1>1, <3>1, Zenon
      <3>2. CASE up' = FALSE
        BY <3>2, Zenon
      <3> QED BY <2>1, <3>1, <3>2
    <2>4. pending' \in [Callers -> PendingLens]
      BY <1>1, <2>1
    <2> QED BY <2>1, <2>2, <2>3, <2>4, QuietStep
  <1> QED BY <1>3, <1>4, <1>5

\* An entry is started at offset off of segment id.
LEMMA StartsFacts ==
  ASSUME WalTypes, NEW id \in SegIds, NEW off \in Offsets, Starts(id, off)
  PROVE  /\ ever' = ever + 1 /\ ever \in Nat /\ ever + 1 \in 1..ever'
         /\ places' \in Seq(SegIds \X Offsets)
         /\ \A e \in 1..ever : e \in 1..ever' /\ e # ever + 1 /\ places'[e] = places[e]
         /\ places'[ever + 1] = <<id, off>>
  <1>1. places' = Append(places, <<id, off>>) /\ places \in Seq(SegIds \X Offsets)
    BY DEF Starts, WalTypes
  <1>2. Len(places') = Len(places) + 1 /\ Len(places) \in Nat /\ places' \in Seq(SegIds \X Offsets)
        /\ \A e \in 1..Len(places) : places'[e] = places[e]
    BY <1>1
  <1>3. places'[Len(places) + 1] = <<id, off>>
    BY <1>1
  <1>4. ever' = Len(places') /\ ever = Len(places)
    BY DEF ever
  <1>5. \A n \in Nat : n + 1 \in 1..(n + 1) /\ \A e \in 1..n : e \in 1..(n + 1) /\ e # n + 1
    OBVIOUS
  <1> QED BY <1>2, <1>3, <1>4, <1>5

\* What an fsync of the active segment leaves, and what it makes durable.
LEMMA SyncedFacts ==
  ASSUME WalInv, up
  PROVE  /\ SyncedSegs \in [SegIds -> Segments]
         /\ \A i \in SegIds :
               /\ SyncedSegs[i].cache = segs[i].cache
               /\ SyncedSegs[i].disk \in {segs[i].disk, segs[i].cache}
               /\ SyncedSegs[i].state = "absent" <=> segs[i].state = "absent"
               /\ i # segmentID => SyncedSegs[i] = segs[i]
         /\ SyncedDurable \subseteq Range(log) /\ durable \subseteq SyncedDurable
         /\ \A e \in SyncedDurable : Safe(SyncedSegs, places, e)
         /\ own \subseteq SyncedDurable
  <1>0. WalTypes /\ LogIntact /\ DurableIntact /\ OwnCovered
    BY DEF WalInv
  <1>1. segs \in [SegIds -> Segments] /\ segmentID \in SegIds
    BY <1>0 DEF WalTypes
  <1>2. durable \subseteq Range(log) /\ active \subseteq Range(log)
        /\ \A e \in durable : Safe(segs, places, e)
    BY <1>0, DurableIsSafe DEF LogIntact
  <1>3. CASE ~syncLocked
    <2>1. SyncedSegs = segs /\ SyncedDurable = durable
      BY <1>3 DEF SyncedSegs, SyncedDurable
    <2> QED BY <1>0, <1>1, <1>2, <1>3, <2>1 DEF OwnCovered
  <1>4. CASE syncLocked
    <2>0. file # "nil" /\ segs[segmentID].state # "absent"
      BY <1>0, <1>4 DEF syncLocked, LogIntact
    <2>1. SyncedSegs = [segs EXCEPT ![segmentID] = Fsynced(segs[segmentID])]
          /\ SyncedDurable = durable \cup active
      BY <1>4 DEF SyncedSegs, SyncedDurable
    <2>2. segs[segmentID] \in Segments
      BY <1>1
    <2> DEFINE F == Fsynced(segs[segmentID])
    <2>3. F \in Segments /\ F.cache = segs[segmentID].cache /\ F.disk = segs[segmentID].cache
          /\ F.state = "linked"
      BY <2>2 DEF Fsynced, Segments
    <2> HIDE DEF F
    <2>4. SyncedSegs \in [SegIds -> Segments] /\ SyncedSegs[segmentID] = F
          /\ \A i \in SegIds : i # segmentID => SyncedSegs[i] = segs[i]
      BY <1>1, <2>1, <2>3 DEF F
    <2>5. ASSUME NEW i \in SegIds
          PROVE  /\ SyncedSegs[i].cache = segs[i].cache
                 /\ SyncedSegs[i].disk \in {segs[i].disk, segs[i].cache}
                 /\ SyncedSegs[i].state = "absent" <=> segs[i].state = "absent"
      BY <2>0, <2>3, <2>4
    <2>6. ASSUME NEW e \in durable \cup active PROVE Safe(SyncedSegs, places, e)
      <3>1. e \in Range(log) /\ e \in 1..ever
        BY <1>0, <1>2, SeqTypes DEF WalTypes
      <3>2. places[e][1] \in SegIds /\ places[e][2] \in 0..MaxSegmentBytes
            /\ segs[places[e][1]].cache \in Cells
        BY <1>0, <3>1, PlaceTypes
      <3>3. CASE places[e][1] = segmentID
        <4>1. Intact(segs[segmentID].cache, places[e][2], e)
          BY <1>0, <3>1, <3>3 DEF LogIntact
        <4> QED BY <2>3, <2>4, <3>3, <4>1 DEF Safe, Same
      <3>4. CASE places[e][1] # segmentID
        <4>1. e \in durable
          BY <1>0, <3>1, <3>4 DEF LogIntact
        <4> QED BY <1>2, <2>4, <3>2, <3>4, <4>1 DEF Safe
      <3> QED BY <3>3, <3>4
    <2>7. own \subseteq SyncedDurable
      BY <1>0, <1>4, <2>1 DEF OwnCovered
    <2> QED BY <1>2, <2>1, <2>4, <2>5, <2>6, <2>7
  <1> QED BY <1>3, <1>4

\* An fsync, of Sync, the ticker or Close.
LEMMA SyncStep ==
  ASSUME WalInv, up, up' = up, segs' = SyncedSegs, durable' = SyncedDurable,
         dirty' = SyncedDirty, file' \in {"open", "nil", "closed"},
         file = "nil" => file' = "nil",
         UNCHANGED <<segmentID, writeOffset, pending, log, active, own, places>>
  PROVE  WalInv'
  <1>0. /\ WalTypes /\ EntryBound /\ FilesInOrder /\ HeadersInPlace /\ LogInOrder /\ LogIntact
        /\ ever' = ever
    BY DEF WalInv, ever
  <1>1. /\ segs' \in [SegIds -> Segments]
        /\ \A i \in SegIds :
               /\ segs'[i].cache = segs[i].cache
               /\ segs'[i].disk \in {segs[i].disk, segs[i].cache}
               /\ segs'[i].state = "absent" <=> segs[i].state = "absent"
               /\ i # segmentID => segs'[i] = segs[i]
        /\ durable' \subseteq Range(log)
        /\ \A e \in durable' : Safe(segs', places, e)
        /\ own \subseteq durable'
    BY SyncedFacts
  <1>2. segmentID \in SegIds /\ segmentID' = segmentID
    BY <1>0 DEF WalTypes
  <1>3. WalTypes'
    <2>1. dirty' \in BOOLEAN
      BY <1>0, Zenon DEF SyncedDirty, WalTypes
    <2> QED BY <1>0, <1>1, <2>1 DEF WalTypes
  <1>4. EntryBound' /\ LogInOrder'
    BY <1>0, BoundMeans DEF LogInOrder
  <1>5. FilesInOrder'
    <2>1. ASSUME NEW i \in SegIds, segs'[i].state = "absent" PROVE segs'[i] = Absent
      <3>1. segs[i] = Absent
        BY <1>0, <1>1, <2>1 DEF FilesInOrder
      <3>2. segs'[i].cache = Empty /\ segs'[i].disk = Empty /\ segs'[i] \in Segments
        BY <1>1, <3>1 DEF Absent
      <3> QED BY <2>1, <3>2 DEF Segments, Absent
    <2>2. \A i \in SegIds : i > segmentID' => segs'[i].state = "absent"
      BY <1>0, <1>1, <1>2 DEF FilesInOrder
    <2> QED BY <2>1, <2>2 DEF FilesInOrder
  <1>6. HeadersInPlace'
    <2>1. ASSUME NEW i \in SegIds, NEW o \in Offsets, NEW c \in {segs'[i].cache, segs'[i].disk},
                 c[o][1] = "header"
          PROVE  c[o][2] \in 1..ever' /\ places'[c[o][2]] = <<i, o>>
      <3>1. c \in {segs[i].cache, segs[i].disk}
        BY <1>1
      <3> QED BY <1>0, <2>1, <3>1 DEF HeadersInPlace
    <2> QED BY <2>1 DEF HeadersInPlace
  <1>7. LogIntact'
    <2>1. file' # "nil" => segs'[segmentID].state # "absent" /\ Reached(segs'[segmentID].cache, writeOffset)
      BY <1>0, <1>1, <1>2 DEF LogIntact
    <2>2. active \subseteq Range(log)
      BY <1>0 DEF LogIntact
    <2>3. ASSUME NEW e \in Range(log)
          PROVE  LET i == places[e][1]  o == places[e][2]
                 IN  /\ i <= segmentID /\ Intact(segs'[i].cache, o, e)
                     /\ e \in active <=> i = segmentID
                     /\ i = segmentID => After(segs'[i].cache, o) <= writeOffset
      <3>1. e \in 1..ever
        BY <1>0, SeqTypes DEF WalTypes
      <3>2. places[e][1] \in SegIds
        BY <1>0, <3>1, PlaceTypes
      <3>3. segs'[places[e][1]].cache = segs[places[e][1]].cache
        BY <1>1, <3>2
      <3> QED BY <1>0, <3>3 DEF LogIntact
    <2> QED BY <1>2, <2>1, <2>2, <2>3 DEF LogIntact
  <1>8. DurableIntact'
    BY <1>1, DurableIsSafeNext
  <1>9. OwnCovered'
    BY <1>1 DEF OwnCovered
  <1> QED BY <1>3, <1>4, <1>5, <1>6, <1>7, <1>8, <1>9 DEF WalInv

\* The files after a store at writeOffset, whole or torn: entries in front of it
\* stay as they were.
LEMMA StoredStep ==
  ASSUME WalInv, up, file = "open", NEW n \in Nat, Fits(n), NEW k \in 1..(1 + n),
         segs' = [segs EXCEPT ![segmentID].cache = Stored(@, writeOffset, ever + 1, n, k)],
         Starts(segmentID, writeOffset), segmentID' = segmentID
  PROVE  /\ segmentID \in SegIds /\ writeOffset \in Offsets
         /\ segs[segmentID].cache \in Cells
         /\ segs' \in [SegIds -> Segments]
         /\ segs'[segmentID].cache = Stored(segs[segmentID].cache, writeOffset, ever + 1, n, k)
         /\ segs'[segmentID].state = segs[segmentID].state
         /\ FilesInOrder' /\ HeadersInPlace'
         /\ \A e \in durable : Safe(segs', places', e)
         /\ \A e \in Range(log) :
               /\ e \in 1..ever /\ places'[e] = places[e] /\ Seen(segs', places', e)
               /\ places[e][1] = segmentID =>
                     After(segs'[segmentID].cache, places[e][2]) <= writeOffset
               /\ Before(places[e], <<segmentID, writeOffset>>)
  <1>0. WalTypes /\ FilesInOrder /\ HeadersInPlace /\ LogIntact /\ DurableIntact
    BY DEF WalInv
  <1>1. MaxSegmentBytes \in Nat /\ segmentID \in SegIds /\ writeOffset \in 0..MaxSegmentBytes
        /\ segs \in [SegIds -> Segments]
    BY <1>0, WalAssumption DEF WalTypes
  <1>2. writeOffset \in Offsets
    BY <1>1 DEF Fits, Offsets
  <1> DEFINE c == segs[segmentID].cache
             d == Stored(c, writeOffset, ever + 1, n, k)
  <1>3. c \in Cells /\ segs[segmentID] \in Segments /\ segs[segmentID].disk \in Cells
    BY <1>0, <1>1, PlaceTypes
  <1>4. /\ ever' = ever + 1 /\ ever \in Nat /\ ever + 1 \in 1..ever'
        /\ \A e \in 1..ever : e \in 1..ever' /\ e # ever + 1 /\ places'[e] = places[e]
        /\ places'[ever + 1] = <<segmentID, writeOffset>>
    BY <1>0, <1>1, <1>2, StartsFacts
  <1>5. /\ d \in Cells /\ Same(c, d, writeOffset)
        /\ \A o \in Offsets : d[o][1] = "header" =>
               (o = writeOffset /\ d[o][2] = ever + 1) \/ d[o] = c[o]
    <2>1. ever + 1 \in Nat
      BY <1>4
    <2> QED BY <1>2, <1>3, <2>1, StoredFacts
  <1>6. /\ segs' \in [SegIds -> Segments] /\ segs'[segmentID].cache = d
        /\ segs'[segmentID].disk = segs[segmentID].disk
        /\ segs'[segmentID].state = segs[segmentID].state
        /\ \A i \in SegIds : i # segmentID => segs'[i] = segs[i]
    <2>1. segs' = [segs EXCEPT ![segmentID] = [segs[segmentID] EXCEPT !.cache = d]]
      OBVIOUS
    <2> HIDE DEF d
    <2>2. [segs[segmentID] EXCEPT !.cache = d] \in Segments
      BY <1>3, <1>5 DEF Segments
    <2> QED BY <1>1, <1>3, <2>1, <2>2 DEF Segments
  <1> HIDE DEF d, c
  <1>7. FilesInOrder'
    <2>1. segs[segmentID].state # "absent"
      BY <1>0 DEF LogIntact
    <2>2. \A i \in SegIds : segs'[i].state = "absent" => segs'[i] = Absent
      BY <1>0, <1>6, <2>1 DEF FilesInOrder
    <2>3. \A i \in SegIds : i > segmentID => segs'[i].state = "absent"
      <3>1. ~(segmentID > segmentID)
        BY <1>1 DEF SegIds
      <3> QED BY <1>0, <1>6, <3>1 DEF FilesInOrder
    <2> QED BY <2>2, <2>3 DEF FilesInOrder
  <1>8. HeadersInPlace'
    <2>1. ASSUME NEW i \in SegIds, NEW o \in Offsets, NEW x \in {segs'[i].cache, segs'[i].disk},
                 x[o][1] = "header"
          PROVE  x[o][2] \in 1..ever' /\ places'[x[o][2]] = <<i, o>>
      <3>1. CASE i = segmentID /\ x = d /\ o = writeOffset /\ d[o][2] = ever + 1
        BY <1>4, <3>1
      <3>2. CASE \E y \in {segs[i].cache, segs[i].disk} : x[o] = y[o]
        <4>1. x[o][2] \in 1..ever /\ places[x[o][2]] = <<i, o>>
          BY <1>0, <2>1, <3>2 DEF HeadersInPlace
        <4> QED BY <1>4, <4>1
      <3>3. CASE i # segmentID
        BY <1>6, <2>1, <3>2, <3>3
      <3>4. CASE i = segmentID
        <4>1. x = d \/ x = segs[i].disk
          BY <1>6, <3>4
        <4>2. CASE x = segs[i].disk
          BY <3>2, <4>2
        <4>3. CASE x = d
          <5>1. (o = writeOffset /\ d[o][2] = ever + 1) \/ d[o] = c[o]
            BY <1>5, <2>1, <4>3
          <5>2. d[o] = c[o] => \E y \in {segs[i].cache, segs[i].disk} : x[o] = y[o]
            BY <3>4, <4>3 DEF c
          <5> QED BY <3>1, <3>2, <3>4, <4>3, <5>1, <5>2
        <4> QED BY <4>1, <4>2, <4>3
      <3> QED BY <3>3, <3>4
    <2> QED BY <2>1 DEF HeadersInPlace
  <1>9. ASSUME NEW e \in Range(log)
        PROVE  /\ e \in 1..ever /\ places'[e] = places[e] /\ Seen(segs', places', e)
               /\ places[e][1] = segmentID =>
                     After(d, places[e][2]) = After(c, places[e][2])
                     /\ After(d, places[e][2]) <= writeOffset
               /\ Before(places[e], <<segmentID, writeOffset>>)
    <2>1. e \in 1..ever /\ places'[e] = places[e]
      BY <1>0, <1>4, SeqTypes DEF WalTypes
    <2>2. places[e][1] \in SegIds /\ places[e][2] \in 0..MaxSegmentBytes
      BY <1>0, <2>1, PlaceTypes
    <2>3. places[e][1] <= segmentID /\ Intact(segs[places[e][1]].cache, places[e][2], e)
          /\ (places[e][1] = segmentID => After(c, places[e][2]) <= writeOffset)
      BY <1>0 DEF LogIntact, c
    <2>4. CASE places[e][1] = segmentID
      <3>1. Intact(c, places[e][2], e) /\ After(c, places[e][2]) <= writeOffset
        BY <2>3, <2>4 DEF c
      <3>2. c \in Cells
        BY <1>3 DEF c
      <3>3. Intact(d, places[e][2], e) /\ After(d, places[e][2]) = After(c, places[e][2])
        BY <1>1, <1>5, <2>2, <3>1, <3>2, SameIntact
      <3>4. After(c, places[e][2]) \in 0..MaxSegmentBytes /\ places[e][2] < After(c, places[e][2])
        BY <2>2, <3>1, <3>2, IntactFacts
      <3>5. places[e][2] < writeOffset
        BY <1>1, <2>2, <3>1, <3>4
      <3> QED BY <1>6, <2>1, <2>4, <3>1, <3>3, <3>5 DEF Seen, Before
    <2>5. CASE places[e][1] # segmentID
      <3>1. places[e][1] < segmentID
        BY <1>1, <2>2, <2>3, <2>5 DEF SegIds
      <3> QED BY <1>6, <2>1, <2>2, <2>3, <2>5, <3>1 DEF Seen, Before
    <2> QED BY <2>4, <2>5
  <1>10. ASSUME NEW e \in durable PROVE Safe(segs', places', e)
    <2>1. e \in Range(log) /\ Safe(segs, places, e)
      BY <1>0, DurableIsSafe
    <2>2. e \in 1..ever /\ places'[e] = places[e]
      BY <1>9, <2>1
    <2>3. places[e][1] \in SegIds /\ places[e][2] \in 0..MaxSegmentBytes
          /\ segs[places[e][1]].cache \in Cells /\ segs[places[e][1]].disk \in Cells
      BY <1>0, <2>2, PlaceTypes
    <2>4. CASE places[e][1] = segmentID
      <3> DEFINE g == segs[segmentID].disk
                 end == After(g, places[e][2])
      <3>1. After(c, places[e][2]) = end
        BY <2>1, <2>3, <2>4, SafeSeen DEF c
      <3>2. end <= writeOffset
        BY <1>9, <2>1, <2>4, <3>1
      <3>3. Intact(g, places[e][2], e) /\ Same(c, g, end) /\ segs[segmentID].state = "linked"
        BY <2>1, <2>4 DEF Safe, c
      <3>4. end \in 0..MaxSegmentBytes
        BY <2>3, <2>4, <3>3, IntactFacts
      <3>5. Same(d, g, end)
        <4> HIDE DEF g, end
        <4>1. ASSUME NEW x \in Offsets, x < end PROVE d[x] = g[x]
          <5>1. x < writeOffset
            BY <1>1, <3>2, <3>4, <4>1 DEF Offsets
          <5>2. d[x] = c[x]
            BY <1>5, <5>1 DEF Same
          <5> QED BY <3>3, <4>1, <5>2 DEF Same
        <4> QED BY <4>1 DEF Same
      <3> QED BY <1>6, <2>2, <2>4, <3>3, <3>5 DEF Safe
    <2>5. CASE places[e][1] # segmentID
      BY <1>6, <2>1, <2>2, <2>3, <2>5 DEF Safe
    <2> QED BY <2>4, <2>5
  <1> QED BY <1>1, <1>2, <1>3, <1>6, <1>7, <1>8, <1>9, <1>10 DEF c, d

LEMMA AppendSeq ==
  ASSUME NEW T, NEW s \in Seq(T), NEW x \in T
  PROVE  /\ Append(s, x) \in Seq(T) /\ Append(s, x)[Len(s) + 1] = x
         /\ DOMAIN Append(s, x) = 1..(Len(s) + 1) /\ DOMAIN s = 1..Len(s) /\ Len(s) \in Nat
         /\ \A k \in 1..Len(s) : Append(s, x)[k] = s[k]
         /\ Range(Append(s, x)) = Range(s) \cup {x}
  <1> DEFINE t == Append(s, x)
  <1>1. /\ t \in Seq(T) /\ t[Len(s) + 1] = x
        /\ DOMAIN t = 1..(Len(s) + 1) /\ DOMAIN s = 1..Len(s) /\ Len(s) \in Nat
        /\ \A k \in 1..Len(s) : t[k] = s[k]
    OBVIOUS
  <1> HIDE DEF t
  <1>2. ASSUME NEW y \in Range(t) PROVE y \in Range(s) \cup {x}
    <2>1. PICK k \in 1..(Len(s) + 1) : y = t[k]
      BY <1>1 DEF Range
    <2>2. k = Len(s) + 1 \/ k \in 1..Len(s)
      BY <1>1
    <2> QED BY <1>1, <2>1, <2>2 DEF Range
  <1>3. ASSUME NEW y \in Range(s) PROVE y \in Range(t)
    <2>1. PICK k \in 1..Len(s) : y = s[k]
      BY <1>1 DEF Range
    <2>2. k \in 1..(Len(s) + 1)
      BY <1>1
    <2> QED BY <1>1, <2>1, <2>2 DEF Range
  <1>4. x \in Range(t)
    <2>1. Len(s) + 1 \in 1..(Len(s) + 1)
      BY <1>1
    <2> QED BY <1>1, <2>1 DEF Range
  <1> QED BY <1>1, <1>2, <1>3, <1>4 DEF t

\* The log with one entry more, behind all the others.
LEMMA LogGrows ==
  ASSUME WalTypes, LogInOrder, NEW id \in SegIds, NEW off \in Offsets, Starts(id, off),
         log' = Append(log, ever + 1),
         \A e \in Range(log) : Before(places[e], <<id, off>>)
  PROVE  /\ LogInOrder' /\ log' \in Seq(1..ever')
         /\ Range(log') = Range(log) \cup {ever + 1}
  <1>1. /\ ever' = ever + 1 /\ ever \in Nat /\ ever + 1 \in 1..ever'
        /\ \A e \in 1..ever : e \in 1..ever' /\ e # ever + 1 /\ places'[e] = places[e]
        /\ places'[ever + 1] = <<id, off>>
    BY StartsFacts
  <1>2. log \in Seq(1..ever) /\ 1..ever \subseteq 1..ever'
    BY <1>1 DEF WalTypes
  <1>3. /\ log' \in Seq(1..ever') /\ log'[Len(log) + 1] = ever + 1
        /\ DOMAIN log' = 1..(Len(log) + 1) /\ DOMAIN log = 1..Len(log) /\ Len(log) \in Nat
        /\ \A k \in 1..Len(log) : log'[k] = log[k]
        /\ Range(log') = Range(log) \cup {ever + 1}
    <2> DEFINE T == 1..ever'
               E == ever + 1
    <2>1. log \in Seq(T) /\ E \in T
      <3>1. \A k \in 1..Len(log) : log[k] \in T
        BY <1>2, SeqTypes
      <3> QED BY <1>1, <1>2, <3>1, SeqNarrows
    <2> HIDE DEF T, E
    <2>2. log' = Append(log, E)
      BY DEF E
    <2>3. /\ log' \in Seq(T) /\ log'[Len(log) + 1] = E
          /\ DOMAIN log' = 1..(Len(log) + 1) /\ DOMAIN log = 1..Len(log) /\ Len(log) \in Nat
          /\ \A k \in 1..Len(log) : log'[k] = log[k]
          /\ Range(log') = Range(log) \cup {E}
      BY <2>1, <2>2, AppendSeq
    <2> QED BY <2>3 DEF T, E
  <1>4. ASSUME NEW i \in DOMAIN log', NEW j \in DOMAIN log', i < j
        PROVE  Before(places'[log'[i]], places'[log'[j]])
    <2>1. i \in 1..Len(log) /\ (j \in 1..Len(log) \/ j = Len(log) + 1)
      BY <1>3, <1>4
    <2>2. log[i] \in 1..ever /\ log[i] \in Range(log) /\ log'[i] = log[i]
          /\ places'[log[i]] = places[log[i]]
      BY <1>1, <1>2, <1>3, <2>1, SeqTypes DEF Range
    <2>3. CASE j = Len(log) + 1
      <3>1. places'[log'[j]] = <<id, off>>
        BY <1>1, <1>3, <2>3
      <3> QED BY <2>2, <3>1
    <2>4. CASE j \in 1..Len(log)
      <3>1. log[j] \in 1..ever /\ log'[j] = log[j] /\ places'[log[j]] = places[log[j]]
        BY <1>1, <1>2, <1>3, <2>4, SeqTypes
      <3>2. Before(places[log[i]], places[log[j]])
        BY <1>3, <1>4, <2>1, <2>4 DEF LogInOrder
      <3> QED BY <2>2, <3>1, <3>2
    <2> QED BY <2>1, <2>3, <2>4
  <1> QED BY <1>3, <1>4 DEF LogInOrder

LEMMA AppendStep ==
  ASSUME 0 \notin Lens, WalInv, NEW w \in Callers, WriteAppend(w)
  PROVE  WalInv'
  <1> DEFINE n == pending[w]
             E == ever + 1
  <1>0. WalTypes /\ EntryBound /\ LogInOrder /\ LogIntact /\ DurableIntact /\ OwnCovered
    BY DEF WalInv
  <1>1. /\ up /\ n # Idle /\ file = "open" /\ Fits(n)
        /\ segs' = [segs EXCEPT ![segmentID].cache = Stored(@, writeOffset, E, n, 1 + n)]
        /\ writeOffset' = writeOffset + 1 + n /\ dirty' = TRUE
        /\ Starts(segmentID, writeOffset) /\ log' = Append(log, E) /\ own' = own \cup {E}
        /\ active' = active \cup {E} /\ WriteReturns(w)
        /\ UNCHANGED <<up, file, segmentID, durable>>
    BY DEF WriteAppend
  <1>2. n \in Nat \ {0} /\ 1 + n \in 1..(1 + n)
    BY <1>0, <1>1, PendingTypes
  <1> HIDE DEF n
  <1>3. /\ segmentID \in SegIds /\ writeOffset \in Offsets
        /\ segs[segmentID].cache \in Cells
        /\ segs' \in [SegIds -> Segments]
        /\ segs'[segmentID].cache = Stored(segs[segmentID].cache, writeOffset, E, n, 1 + n)
        /\ segs'[segmentID].state = segs[segmentID].state
        /\ FilesInOrder' /\ HeadersInPlace'
        /\ \A e \in durable : Safe(segs', places', e)
        /\ \A e \in Range(log) :
               /\ e \in 1..ever /\ places'[e] = places[e] /\ Seen(segs', places', e)
               /\ places[e][1] = segmentID =>
                     After(segs'[segmentID].cache, places[e][2]) <= writeOffset
               /\ Before(places[e], <<segmentID, writeOffset>>)
    BY <1>1, <1>2, StoredStep
  <1>4. /\ ever' = ever + 1 /\ ever \in Nat /\ ever + 1 \in 1..ever'
        /\ places' \in Seq(SegIds \X Offsets)
        /\ \A e \in 1..ever : e \in 1..ever' /\ e # ever + 1 /\ places'[e] = places[e]
        /\ places'[ever + 1] = <<segmentID, writeOffset>>
    BY <1>0, <1>1, <1>3, StartsFacts
  <1>5. LogInOrder' /\ log' \in Seq(1..ever') /\ Range(log') = Range(log) \cup {E}
    BY <1>0, <1>1, <1>3, LogGrows
  <1>6. EntryBound' /\ pending' \in [Callers -> PendingLens]
    <2>1. pending[w] # Idle /\ ever' \in {ever, ever + 1}
      BY <1>1, <1>4 DEF n
    <2> QED BY <1>0, <1>1, <2>1, BoundReturns
  <1>7. writeOffset' \in 0..MaxSegmentBytes /\ writeOffset + 1 + n <= MaxSegmentBytes
        /\ writeOffset \in Nat
    BY <1>1, <1>2, <1>3, WalAssumption DEF Fits, Offsets
  <1>8. WalTypes'
    <2>1. own' \subseteq 1..ever'
      BY <1>0, <1>1, <1>4 DEF WalTypes
    <2>2. up' \in BOOLEAN /\ file' \in {"open", "nil", "closed"} /\ dirty' \in BOOLEAN
          /\ segmentID' \in Nat /\ segmentID' \in SegIds
      BY <1>0, <1>1, <1>3 DEF WalTypes, SegIds
    <2> QED BY <1>3, <1>4, <1>5, <1>6, <1>7, <2>1, <2>2 DEF WalTypes, PendingLens
  <1>9. /\ Intact(segs'[segmentID].cache, writeOffset, E)
        /\ After(segs'[segmentID].cache, writeOffset) = writeOffset'
        /\ Reached(segs'[segmentID].cache, writeOffset')
    <2>1. Reached(segs[segmentID].cache, writeOffset)
      BY <1>0, <1>1 DEF LogIntact
    <2>2. /\ Intact(segs'[segmentID].cache, writeOffset, E)
          /\ After(segs'[segmentID].cache, writeOffset) = writeOffset'
      <3>1. E \in Nat
        BY <1>4
      <3> HIDE DEF E
      <3> QED BY <1>1, <1>2, <1>3, <1>7, <2>1, <3>1, StoredValid
    <2> QED BY <2>2, ReachedAfter DEF Intact
  <1>10. LogIntact'
    <2>1. segs'[segmentID].state # "absent"
      BY <1>0, <1>1, <1>3 DEF LogIntact
    <2>2. active' \subseteq Range(log')
      BY <1>0, <1>1, <1>5 DEF LogIntact
    <2>3. ASSUME NEW e \in Range(log')
          PROVE  LET i == places'[e][1]  o == places'[e][2]
                 IN  /\ i <= segmentID /\ Intact(segs'[i].cache, o, e)
                     /\ e \in active' <=> i = segmentID
                     /\ i = segmentID => After(segs'[i].cache, o) <= writeOffset'
      <3>1. CASE e = E
        <4>1. places'[e][1] = segmentID /\ places'[e][2] = writeOffset
          BY <1>4, <3>1
        <4>2. segmentID <= segmentID /\ writeOffset' <= writeOffset'
          BY <1>3, <1>7 DEF SegIds
        <4> QED BY <1>1, <1>9, <3>1, <4>1, <4>2
      <3>2. CASE e # E
        <4>1. e \in Range(log)
          BY <1>5, <3>2
        <4>2. places'[e] = places[e] /\ Intact(segs'[places[e][1]].cache, places[e][2], e)
          BY <1>3, <4>1 DEF Seen
        <4>3. places[e][1] <= segmentID /\ (e \in active <=> places[e][1] = segmentID)
          BY <1>0, <1>1, <4>1 DEF LogIntact
        <4>4. ASSUME places[e][1] = segmentID
              PROVE  After(segs'[segmentID].cache, places[e][2]) <= writeOffset'
          <5>1. After(segs'[segmentID].cache, places[e][2]) <= writeOffset
            BY <1>3, <4>1, <4>4
          <5>2. places[e][2] \in 0..MaxSegmentBytes /\ segs'[segmentID].cache \in Cells
            BY <1>0, <1>3, <4>1, PlaceTypes DEF Segments
          <5>3. After(segs'[segmentID].cache, places[e][2]) \in 0..MaxSegmentBytes
            BY <4>2, <4>4, <5>2, IntactFacts
          <5>4. MaxSegmentBytes \in Nat
            BY WalAssumption
          <5> QED BY <1>1, <1>2, <1>7, <5>1, <5>3, <5>4
        <4> QED BY <1>1, <3>2, <4>2, <4>3, <4>4
      <3> QED BY <3>1, <3>2
    <2> QED BY <1>1, <1>9, <2>1, <2>2, <2>3 DEF LogIntact
  <1>11. DurableIntact'
    <2>1. durable' \subseteq Range(log')
      BY <1>0, <1>1, <1>5 DEF DurableIntact
    <2> QED BY <1>1, <1>3, <2>1, DurableIsSafeNext
  <1>12. OwnCovered'
    <2>1. own \subseteq durable \cup active
      BY <1>0, <1>1 DEF OwnCovered
    <2>2. syncLocked'
      BY <1>1 DEF syncLocked
    <2> QED BY <1>1, <2>1, <2>2 DEF OwnCovered
  <1> QED BY <1>3, <1>5, <1>6, <1>8, <1>10, <1>11, <1>12 DEF WalInv

LEMMA TornStep ==
  ASSUME WalInv, NEW w \in Callers, WriteTorn(w)
  PROVE  WalInv'
  <1>0. WalTypes /\ EntryBound /\ LogInOrder /\ DurableIntact
    BY DEF WalInv
  <1> DEFINE n == pending[w]
  <1>1. /\ up /\ pending[w] # Idle /\ file = "open" /\ Fits(n)
        /\ Starts(segmentID, writeOffset) /\ up' = FALSE
        /\ UNCHANGED <<file, segmentID, writeOffset, dirty, pending, log, own, durable>>
    BY DEF WriteTorn, procVars
  <1>2. PICK k \in 1..(1 + n) :
           segs' = [segs EXCEPT ![segmentID].cache = Stored(@, writeOffset, ever + 1, n, k)]
    BY DEF WriteTorn
  <1>3. n \in Nat
    BY <1>0, <1>1, PendingTypes
  <1>4. /\ segmentID \in SegIds /\ writeOffset \in Offsets
        /\ segs' \in [SegIds -> Segments] /\ FilesInOrder' /\ HeadersInPlace'
        /\ \A e \in durable : Safe(segs', places', e)
        /\ \A e \in Range(log) : e \in 1..ever /\ places'[e] = places[e]
    BY <1>1, <1>2, <1>3, StoredStep
  <1>5. /\ ever' = ever + 1 /\ ever \in Nat
        /\ places' \in Seq(SegIds \X Offsets)
        /\ \A e \in 1..ever : e \in 1..ever'
    BY <1>0, <1>1, <1>4, StartsFacts
  <1>6. log' \in Seq(1..ever') /\ own' \subseteq 1..ever'
    <2>1. log \in Seq(1..ever) /\ own \subseteq 1..ever
      BY <1>0 DEF WalTypes
    <2>2. \A k2 \in 1..Len(log) : log[k2] \in 1..ever'
      BY <1>5, <2>1, SeqTypes
    <2> QED BY <1>1, <1>5, <2>1, <2>2, SeqNarrows
  <1>7. WalTypes'
    BY <1>0, <1>1, <1>4, <1>5, <1>6 DEF WalTypes
  <1>8. EntryBound'
    <2> DEFINE c == Cardinality(Waiting(pending))
    <2>1. c \in Nat /\ c # 0 /\ MaxEntries \in Nat
      <3>1. w \in Waiting(pending)
        BY <1>1 DEF Waiting
      <3> QED BY <1>0, <3>1, PendingTypes, WaitingCounts, FS_EmptySet
    <2>2. ever + c <= MaxEntries
      BY <1>0, <1>1, BoundMeans
    <2> HIDE DEF c
    <2>3. ever' + 0 <= MaxEntries
      BY <1>5, <2>1, <2>2
    <2> QED BY <1>1, <2>3, BoundMeans
  <1>9. LogInOrder'
    <2>1. \A i \in DOMAIN log : places'[log[i]] = places[log[i]]
      BY <1>4 DEF Range
    <2> QED BY <1>0, <1>1, <2>1 DEF LogInOrder
  <1>10. DurableIntact'
    <2>1. durable' \subseteq Range(log')
      BY <1>0, <1>1 DEF DurableIntact
    <2> QED BY <1>1, <1>4, <2>1, DurableIsSafeNext
  <1>11. LogIntact' /\ OwnCovered'
    BY <1>1 DEF LogIntact, OwnCovered
  <1> QED BY <1>4, <1>7, <1>8, <1>9, <1>10, <1>11 DEF WalInv

\* rotate: the active segment is synced and segment segmentID + 1 becomes X.
LEMMA RotatedFiles ==
  ASSUME WalInv, up, segmentID + 1 \in SegIds, NEW X \in Segments,
         X.state = "absent" => X = Absent,
         segs' = [SyncedSegs EXCEPT ![segmentID + 1] = X],
         segmentID' = segmentID + 1, durable' = SyncedDurable,
         \A e \in 1..ever : e \in 1..ever' /\ places'[e] = places[e],
         \A o \in Offsets : \A c \in {X.cache, X.disk} :
            c[o][1] = "header" => c[o][2] \in 1..ever' /\ places'[c[o][2]] = <<segmentID + 1, o>>
  PROVE  /\ segs' \in [SegIds -> Segments] /\ segs'[segmentID + 1] = X
         /\ FilesInOrder' /\ HeadersInPlace'
         /\ \A e \in durable' : Safe(segs', places', e)
         /\ durable' \subseteq Range(log) /\ own \subseteq durable'
         /\ \A e \in Range(log) :
               /\ e \in 1..ever /\ places'[e] = places[e] /\ Seen(segs', places', e)
               /\ places[e][1] \in SegIds /\ places[e][1] < segmentID + 1
  <1> DEFINE j == segmentID + 1
  <1>0. WalTypes /\ FilesInOrder /\ HeadersInPlace /\ LogIntact
    BY DEF WalInv
  <1>1. /\ SyncedSegs \in [SegIds -> Segments]
        /\ \A i \in SegIds :
               /\ SyncedSegs[i].cache = segs[i].cache
               /\ SyncedSegs[i].disk \in {segs[i].disk, segs[i].cache}
               /\ SyncedSegs[i].state = "absent" <=> segs[i].state = "absent"
        /\ durable' \subseteq Range(log)
        /\ \A e \in durable' : Safe(SyncedSegs, places, e)
        /\ own \subseteq durable'
    BY SyncedFacts
  <1>2. segmentID \in SegIds /\ segmentID \in Nat /\ \A i \in SegIds : i \in Nat
    BY <1>0 DEF WalTypes, SegIds
  <1>3. /\ segs' \in [SegIds -> Segments] /\ segs'[j] = X
        /\ \A i \in SegIds : i # j => segs'[i] = SyncedSegs[i]
    BY <1>1
  <1>4. FilesInOrder'
    <2>1. ASSUME NEW i \in SegIds, segs'[i].state = "absent" PROVE segs'[i] = Absent
      <3>1. CASE i = j
        BY <1>3, <2>1, <3>1
      <3>2. CASE i # j
        <4>1. segs[i] = Absent
          BY <1>0, <1>1, <1>3, <2>1, <3>2 DEF FilesInOrder
        <4>2. segs'[i].cache = Empty /\ segs'[i].disk = Empty /\ segs'[i] \in Segments
          BY <1>1, <1>3, <3>2, <4>1 DEF Absent
        <4> QED BY <2>1, <4>2 DEF Segments, Absent
      <3> QED BY <3>1, <3>2
    <2>2. ASSUME NEW i \in SegIds, i > segmentID' PROVE segs'[i].state = "absent"
      <3>1. i # j /\ i > segmentID
        <4>1. \A a, b \in Nat : a > b + 1 => a # b + 1 /\ a > b
          OBVIOUS
        <4> QED BY <1>2, <2>2, <4>1
      <3>2. segs[i].state = "absent"
        BY <1>0, <3>1 DEF FilesInOrder
      <3> QED BY <1>1, <1>3, <3>1, <3>2
    <2> QED BY <2>1, <2>2 DEF FilesInOrder
  <1>5. HeadersInPlace'
    <2>1. ASSUME NEW i \in SegIds, NEW o \in Offsets, NEW c \in {segs'[i].cache, segs'[i].disk},
                 c[o][1] = "header"
          PROVE  c[o][2] \in 1..ever' /\ places'[c[o][2]] = <<i, o>>
      <3>1. CASE i = j
        BY <1>3, <2>1, <3>1
      <3>2. CASE i # j
        <4>1. c \in {segs[i].cache, segs[i].disk}
          BY <1>1, <1>3, <3>2
        <4>2. c[o][2] \in 1..ever /\ places[c[o][2]] = <<i, o>>
          BY <1>0, <2>1, <4>1 DEF HeadersInPlace
        <4> QED BY <4>2
      <3> QED BY <3>1, <3>2
    <2> QED BY <2>1 DEF HeadersInPlace
  <1>6. ASSUME NEW e \in Range(log)
        PROVE  /\ e \in 1..ever /\ places'[e] = places[e] /\ Seen(segs', places', e)
               /\ places[e][1] \in SegIds /\ places[e][1] < segmentID + 1
    <2>1. e \in 1..ever /\ places'[e] = places[e]
      BY <1>0, SeqTypes DEF WalTypes
    <2>2. places[e][1] \in SegIds
      BY <1>0, <2>1, PlaceTypes
    <2>3. places[e][1] <= segmentID /\ Intact(segs[places[e][1]].cache, places[e][2], e)
      BY <1>0 DEF LogIntact
    <2>4. places[e][1] < j /\ places[e][1] # j
      <3>1. \A a, b \in Nat : a <= b => a < b + 1 /\ a # b + 1
        OBVIOUS
      <3> QED BY <1>2, <2>2, <2>3, <3>1
    <2>5. segs'[places[e][1]].cache = segs[places[e][1]].cache
      BY <1>1, <1>3, <2>2, <2>4
    <2> QED BY <2>1, <2>2, <2>3, <2>4, <2>5 DEF Seen
  <1>7. ASSUME NEW e \in durable' PROVE Safe(segs', places', e)
    <2>1. e \in Range(log) /\ Safe(SyncedSegs, places, e)
      BY <1>1
    <2>2. places'[e] = places[e] /\ places[e][1] \in SegIds /\ places[e][1] # j
      BY <1>2, <1>6, <2>1
    <2> QED BY <1>3, <2>1, <2>2 DEF Safe
  <1> QED BY <1>1, <1>3, <1>4, <1>5, <1>6, <1>7

\* A new segment file.
LEMMA OpenedFacts ==
  ASSUME WalInv, up, segmentID + 1 \in SegIds
  PROVE  /\ SyncedSegs[segmentID + 1] = Absent
         /\ Opened(SyncedSegs[segmentID + 1]) = [state |-> "created", cache |-> Empty, disk |-> Empty]
         /\ Empty \in Cells /\ \A o \in Offsets : Empty[o][1] # "header"
  <1>1. segmentID \in SegIds /\ segmentID + 1 > segmentID /\ segmentID + 1 # segmentID
    BY DEF WalInv, WalTypes, SegIds
  <1>2. segs[segmentID + 1] = Absent
    BY <1>1 DEF WalInv, FilesInOrder
  <1>3. SyncedSegs[segmentID + 1] = segs[segmentID + 1]
    BY <1>1, SyncedFacts
  <1>4. Empty \in Cells /\ \A o \in Offsets : Empty[o][1] # "header"
    BY DEF Empty, Cells, Zero
  <1>5. Opened(Absent) = [state |-> "created", cache |-> Empty, disk |-> Empty]
    BY DEF Opened, Absent
  <1> QED BY <1>2, <1>3, <1>4, <1>5

LEMMA RotateStep ==
  ASSUME 0 \notin Lens, WalInv, NEW w \in Callers, WriteRotate(w)
  PROVE  WalInv'
  <1> DEFINE n == pending[w]
             E == ever + 1
             j == segmentID + 1
             cells == Stored(Empty, 0, E, n, 1 + n)
             X == [state |-> "created", cache |-> cells, disk |-> Empty]
  <1>0. WalTypes /\ EntryBound /\ LogInOrder /\ LogIntact /\ DurableIntact /\ OwnCovered
    BY DEF WalInv
  <1>1. /\ up /\ pending[w] # Idle /\ j \in SegIds
        /\ segs' = [SyncedSegs EXCEPT ![j] = [Opened(SyncedSegs[j]) EXCEPT
                      !.cache = Stored(Opened(SyncedSegs[j]).cache, 0, E, n, 1 + n)]]
        /\ segmentID' = j /\ file' = "open" /\ writeOffset' = 1 + n /\ dirty' = TRUE
        /\ durable' = SyncedDurable /\ Starts(j, 0)
        /\ log' = Append(log, E) /\ own' = own \cup {E} /\ active' = {E}
        /\ WriteReturns(w) /\ up' = up
    BY DEF WriteRotate
  <1>2. /\ n \in Nat \ {0} /\ 1 + n \in 1..(1 + n) /\ 1 + n <= MaxSegmentBytes
        /\ MaxSegmentBytes \in Nat /\ 0 \in Offsets
    <2>1. n \in Nat \ {0} /\ 1 + n <= MaxSegmentBytes
      BY <1>0, <1>1, PendingTypes
    <2> HIDE DEF n
    <2> QED BY <2>1, WalAssumption DEF Offsets
  <1> HIDE DEF n
  <1>3. /\ SyncedSegs[j] = Absent
        /\ Opened(SyncedSegs[j]) = [state |-> "created", cache |-> Empty, disk |-> Empty]
        /\ Empty \in Cells /\ \A o \in Offsets : Empty[o][1] # "header"
    BY <1>1, OpenedFacts
  <1>4. /\ ever' = ever + 1 /\ ever \in Nat /\ ever + 1 \in 1..ever'
        /\ places' \in Seq(SegIds \X Offsets)
        /\ \A e \in 1..ever : e \in 1..ever' /\ e # ever + 1 /\ places'[e] = places[e]
        /\ places'[ever + 1] = <<j, 0>>
    BY <1>0, <1>1, <1>2, StartsFacts
  <1>5. /\ cells \in Cells
        /\ \A o \in Offsets : cells[o][1] = "header" =>
               (o = 0 /\ cells[o][2] = E) \/ cells[o] = Empty[o]
    <2>1. E \in Nat /\ n \in Nat
      BY <1>2, <1>4
    <2> HIDE DEF E
    <2> DEFINE k == 1 + n
    <2>2. k \in 1..(1 + n)
      BY <1>2
    <2> HIDE DEF k
    <2>3. /\ Stored(Empty, 0, E, n, k) \in Cells
          /\ \A o \in Offsets : Stored(Empty, 0, E, n, k)[o][1] = "header" =>
               \/ o = 0 /\ Stored(Empty, 0, E, n, k)[o][2] = E
               \/ Stored(Empty, 0, E, n, k)[o] = Empty[o]
      BY <1>2, <1>3, <2>1, <2>2, StoredFacts
    <2> QED BY <2>3 DEF k
  <1>6. /\ Intact(cells, 0, E) /\ After(cells, 0) = 1 + n /\ Reached(cells, 1 + n)
    <2>1. E \in Nat /\ 0 + 1 + n = 1 + n
      BY <1>2, <1>4
    <2>2. Reached(Empty, 0)
      BY ReachedZero
    <2> HIDE DEF E
    <2>3. /\ Intact(cells, 0, E) /\ After(cells, 0) = 1 + n
      BY <1>2, <1>3, <2>1, <2>2, StoredValid
    <2> HIDE DEF cells
    <2> QED BY <2>3, ReachedAfter DEF Intact
  <1> HIDE DEF cells
  <1>7. segs' = [SyncedSegs EXCEPT ![j] = X]
    <2>1. SyncedSegs \in [SegIds -> Segments]
      BY <1>1, SyncedFacts
    <2>2. [Opened(SyncedSegs[j]) EXCEPT !.cache = Stored(Opened(SyncedSegs[j]).cache, 0, E, n, 1 + n)] = X
      BY <1>3 DEF cells
    <2>3. segs' = [SyncedSegs EXCEPT ![j] =
              [Opened(SyncedSegs[j]) EXCEPT !.cache = Stored(Opened(SyncedSegs[j]).cache, 0, E, n, 1 + n)]]
      BY <1>1, Zenon
    <2> HIDE DEF X
    <2> QED BY <2>2, <2>3
  <1>8. X \in Segments /\ X.state # "absent" /\ X.cache = cells /\ X.disk = Empty
    BY <1>3, <1>5 DEF Segments
  <1>9. \A o \in Offsets : \A c \in {X.cache, X.disk} :
            c[o][1] = "header" => c[o][2] \in 1..ever' /\ places'[c[o][2]] = <<j, o>>
    <2> HIDE DEF X
    <2>1. ASSUME NEW o \in Offsets, cells[o][1] = "header"
          PROVE  cells[o][2] \in 1..ever' /\ places'[cells[o][2]] = <<j, o>>
      <3>1. o = 0 /\ cells[o][2] = E
        BY <1>3, <1>5, <2>1
      <3> QED BY <1>4, <3>1
    <2> QED BY <1>3, <1>8, <2>1
  <1> HIDE DEF X
  <1>10. /\ segs' \in [SegIds -> Segments] /\ segs'[j] = X
         /\ FilesInOrder' /\ HeadersInPlace'
         /\ \A e \in durable' : Safe(segs', places', e)
         /\ durable' \subseteq Range(log) /\ own \subseteq durable'
         /\ \A e \in Range(log) :
               /\ e \in 1..ever /\ places'[e] = places[e] /\ Seen(segs', places', e)
               /\ places[e][1] \in SegIds /\ places[e][1] < j
    BY <1>1, <1>4, <1>7, <1>8, <1>9, RotatedFiles
  <1>11. LogInOrder' /\ log' \in Seq(1..ever') /\ Range(log') = Range(log) \cup {E}
    <2>1. \A e \in Range(log) : Before(places[e], <<j, 0>>)
      BY <1>10 DEF Before
    <2> QED BY <1>0, <1>1, <1>2, <2>1, LogGrows
  <1>12. EntryBound' /\ pending' \in [Callers -> PendingLens]
    <2>1. ever' \in {ever, ever + 1}
      BY <1>4
    <2> QED BY <1>0, <1>1, <2>1, BoundReturns
  <1>13. WalTypes'
    <2>1. own' \subseteq 1..ever'
      BY <1>0, <1>1, <1>4 DEF WalTypes
    <2>2. up' \in BOOLEAN /\ segmentID' \in Nat /\ segmentID' \in SegIds
      BY <1>0, <1>1 DEF WalTypes, SegIds
    <2>3. writeOffset' \in 0..MaxSegmentBytes
      BY <1>1, <1>2
    <2>4. file' \in {"open", "nil", "closed"} /\ dirty' \in BOOLEAN
      BY <1>1
    <2> QED BY <1>4, <1>10, <1>11, <1>12, <2>1, <2>2, <2>3, <2>4 DEF WalTypes, PendingLens
  <1>14. LogIntact'
    <2>1. segs'[j].state # "absent" /\ Reached(segs'[j].cache, writeOffset')
      BY <1>1, <1>6, <1>8, <1>10
    <2>2. active' \subseteq Range(log')
      BY <1>1, <1>11
    <2>3. ASSUME NEW e \in Range(log')
          PROVE  LET i == places'[e][1]  o == places'[e][2]
                 IN  /\ i <= j /\ Intact(segs'[i].cache, o, e)
                     /\ e \in active' <=> i = j
                     /\ i = j => After(segs'[i].cache, o) <= writeOffset'
      <3>1. CASE e = E
        <4>1. places'[e][1] = j /\ places'[e][2] = 0
          BY <1>4, <3>1
        <4>2. j <= j /\ writeOffset' <= writeOffset'
          BY <1>1, <1>2 DEF SegIds
        <4>3. segs'[j].cache = cells
          BY <1>8, <1>10
        <4> QED BY <1>1, <1>6, <3>1, <4>1, <4>2, <4>3
      <3>2. CASE e # E
        <4>1. e \in Range(log)
          BY <1>11, <3>2
        <4>2. places'[e] = places[e] /\ Intact(segs'[places[e][1]].cache, places[e][2], e)
              /\ places[e][1] \in SegIds /\ places[e][1] < j
          BY <1>10, <4>1 DEF Seen
        <4>3. places[e][1] <= j /\ places[e][1] # j
          BY <1>1, <4>2 DEF SegIds
        <4> QED BY <1>1, <3>2, <4>2, <4>3
      <3> QED BY <3>1, <3>2
    <2> QED BY <1>1, <2>1, <2>2, <2>3 DEF LogIntact
  <1>15. DurableIntact'
    <2>1. durable' \subseteq Range(log')
      BY <1>10, <1>11
    <2> QED BY <1>10, <2>1, DurableIsSafeNext
  <1>16. OwnCovered'
    <2>1. syncLocked'
      BY <1>1 DEF syncLocked
    <2> QED BY <1>1, <1>10, <2>1 DEF OwnCovered
  <1> QED BY <1>10, <1>11, <1>12, <1>13, <1>14, <1>15, <1>16 DEF WalInv

LEMMA OpenFailsStep ==
  ASSUME WalInv, NEW w \in Callers, WriteOpenFails(w)
  PROVE  WalInv'
  <1> DEFINE j == segmentID + 1
  <1>0. WalTypes /\ EntryBound /\ LogInOrder /\ LogIntact /\ DurableIntact
    BY DEF WalInv
  <1>1. /\ up /\ pending[w] # Idle /\ j \in SegIds
        /\ segmentID' = j /\ file' = "nil" /\ dirty' = SyncedDirty
        /\ durable' = SyncedDurable /\ active' = {}
        /\ WriteReturns(w) /\ UNCHANGED <<up, writeOffset, log, own, places>>
    BY DEF WriteOpenFails
  <1>2. PICK made \in BOOLEAN :
            segs' = [SyncedSegs EXCEPT ![j] = IF made THEN Opened(@) ELSE @]
    BY DEF WriteOpenFails
  <1> DEFINE X == IF made THEN Opened(SyncedSegs[j]) ELSE SyncedSegs[j]
  <1>3. segs' = [SyncedSegs EXCEPT ![j] = X]
    BY <1>2
  <1>4. /\ SyncedSegs[j] = Absent
        /\ Opened(SyncedSegs[j]) = [state |-> "created", cache |-> Empty, disk |-> Empty]
        /\ Empty \in Cells /\ \A o \in Offsets : Empty[o][1] # "header"
    BY <1>1, OpenedFacts
  <1>5. X \in Segments /\ X.cache = Empty /\ X.disk = Empty
        /\ (X.state = "absent" => X = Absent)
    BY <1>4 DEF Segments, Absent
  <1>6. ever' = ever
    BY <1>1 DEF ever
  <1> HIDE DEF X
  <1>7. /\ segs' \in [SegIds -> Segments]
        /\ FilesInOrder' /\ HeadersInPlace'
        /\ \A e \in durable' : Safe(segs', places', e)
        /\ durable' \subseteq Range(log) /\ own \subseteq durable'
        /\ \A e \in Range(log) :
               /\ Seen(segs', places', e)
               /\ places[e][1] \in SegIds /\ places[e][1] < j
    <2>1. \A e \in 1..ever : e \in 1..ever' /\ places'[e] = places[e]
      BY <1>1, <1>6
    <2>2. \A o \in Offsets : \A c \in {X.cache, X.disk} :
            c[o][1] = "header" => c[o][2] \in 1..ever' /\ places'[c[o][2]] = <<j, o>>
      BY <1>4, <1>5
    <2> QED BY <1>1, <1>3, <1>5, <2>1, <2>2, RotatedFiles
  <1>8. EntryBound' /\ pending' \in [Callers -> PendingLens]
    BY <1>0, <1>1, <1>6, BoundReturns
  <1>9. WalTypes'
    <2>1. dirty' \in BOOLEAN
      BY <1>0, <1>1, Zenon DEF SyncedDirty, WalTypes
    <2>2. segmentID' \in Nat /\ segmentID' \in SegIds
      BY <1>1 DEF SegIds
    <2> QED BY <1>0, <1>1, <1>6, <1>7, <1>8, <2>1, <2>2 DEF WalTypes, PendingLens
  <1>10. LogIntact'
    <2>1. ASSUME NEW e \in Range(log)
          PROVE  LET i == places[e][1]  o == places[e][2]
                 IN  i <= j /\ Intact(segs'[i].cache, o, e) /\ i # j
      <3>1. Intact(segs'[places[e][1]].cache, places[e][2], e)
            /\ places[e][1] \in SegIds /\ places[e][1] < j
        BY <1>1, <1>7 DEF Seen
      <3>2. places[e][1] <= j /\ places[e][1] # j
        BY <1>1, <3>1 DEF SegIds
      <3> QED BY <3>1, <3>2
    <2> QED BY <1>1, <2>1 DEF LogIntact
  <1>11. LogInOrder' /\ DurableIntact'
    BY <1>0, <1>1, <1>7, DurableIsSafeNext DEF LogInOrder
  <1>12. OwnCovered'
    BY <1>1, <1>7 DEF OwnCovered
  <1> QED BY <1>7, <1>8, <1>9, <1>10, <1>11, <1>12 DEF WalInv

\* Recovery: the log is what Walk finds, and the scan of the newest segment ends
\* behind every entry of it.
LEMMA NewWALStep ==
  ASSUME WalInv, NewWAL
  PROVE  WalInv'
  <1> DEFINE ids == discoverSegments(segs)
             id == IF ids = {} THEN 1 ELSE Max(ids)
  <1>0. WalTypes /\ EntryBound /\ FilesInOrder /\ HeadersInPlace /\ LogInOrder /\ DurableIntact
        /\ segs \in [SegIds -> Segments]
    BY DEF WalInv, WalTypes
  <1>1. /\ ~up /\ segmentID' = id /\ segs' = [segs EXCEPT ![id] = Opened(segs[id])]
        /\ writeOffset' = scanValidOffset(segs[id].cache)
        /\ log' = Walk(segs) /\ active' = Range(walkSegment(segs[id].cache))
        /\ up' = TRUE /\ file' = "open" /\ dirty' = FALSE
        /\ pending' = [w \in Callers |-> Idle] /\ own' = {}
        /\ UNCHANGED <<durable, places>>
    BY DEF NewWAL
  <1>2. /\ id \in SegIds /\ id \in Nat
        /\ \A i \in SegIds : segs[i].state # "absent" => i <= id
    <2>1. CASE ids = {}
      <3>1. 1 \in SegIds
        BY WalAssumption DEF SegIds
      <3> QED BY <2>1, <3>1 DEF discoverSegments
    <2>2. CASE ids # {}
      <3>1. ids \in SUBSET SegIds
        BY DEF discoverSegments
      <3> HIDE DEF ids
      <3>2. Max(ids) \in ids /\ \A y \in ids : y <= Max(ids)
        BY <2>2, <3>1, MaxIn
      <3> QED BY <2>2, <3>1, <3>2 DEF ids, discoverSegments, SegIds
    <2> QED BY <2>1, <2>2
  <1> HIDE DEF id, ids
  <1>3. /\ segs' \in [SegIds -> Segments]
        /\ \A i \in SegIds : /\ segs'[i].cache = segs[i].cache /\ segs'[i].disk = segs[i].disk
                             /\ segs[i].state = "linked" => segs'[i].state = "linked"
                             /\ i # id => segs'[i] = segs[i]
        /\ segs'[id].state # "absent"
    <2>1. segs[id] \in Segments
      BY <1>0, <1>2
    <2>2. /\ Opened(segs[id]) \in Segments /\ Opened(segs[id]).cache = segs[id].cache
          /\ Opened(segs[id]).disk = segs[id].disk
          /\ Opened(segs[id]).state # "absent"
          /\ segs[id].state = "linked" => Opened(segs[id]).state = "linked"
      <3>1. CASE segs[id].state = "absent"
        <4>1. segs[id] = Absent
          BY <1>0, <1>2, <3>1 DEF FilesInOrder
        <4>2. Opened(Absent) = [state |-> "created", cache |-> Empty, disk |-> Empty]
          BY DEF Opened, Absent
        <4>3. Empty \in Cells
          BY DEF Empty, Cells, Zero
        <4> QED BY <3>1, <4>1, <4>2, <4>3 DEF Segments, Absent
      <3>2. CASE segs[id].state # "absent"
        BY <2>1, <3>2 DEF Opened
      <3> QED BY <3>1, <3>2
    <2>3. segs'[id] = Opened(segs[id]) /\ \A i \in SegIds : i # id => segs'[i] = segs[i]
      BY <1>0, <1>1, <1>2
    <2>4. segs' \in [SegIds -> Segments]
      BY <1>0, <1>1, <2>2
    <2>5. ASSUME NEW i \in SegIds
          PROVE  /\ segs'[i].cache = segs[i].cache /\ segs'[i].disk = segs[i].disk
                 /\ segs[i].state = "linked" => segs'[i].state = "linked"
      BY <2>2, <2>3
    <2> QED BY <2>2, <2>3, <2>4, <2>5
  <1>4. /\ log' \in Seq(1..ever) /\ ever' = ever
        /\ \A k \in DOMAIN log' : Seen(segs, places, log'[k])
        /\ \A k, l \in DOMAIN log' : k < l => Before(places[log'[k]], places[log'[l]])
        /\ \A e \in 1..ever : Seen(segs, places, e) => e \in Range(log')
    <2>1. ever' = ever
      BY <1>1 DEF ever
    <2> QED BY <1>0, <1>1, <2>1, Walked
  <1>5. active' = {e \in 1..ever : places[e][1] = id /\ Seen(segs, places, e)}
    BY <1>0, <1>1, <1>2, SegmentWalked
  <1>6. /\ segs[id].cache \in Cells /\ writeOffset' \in 0..MaxSegmentBytes
        /\ Reached(segs[id].cache, writeOffset')
        /\ \A o \in 0..MaxSegmentBytes : Reached(segs[id].cache, o) => o <= writeOffset'
    <2>1. segs[id].cache \in Cells
      BY <1>0, <1>2, PlaceTypes
    <2> QED BY <1>1, <2>1, ScanEnds
  <1>7. WalTypes'
    <2>1. pending' \in [Callers -> PendingLens]
      BY <1>1 DEF PendingLens
    <2> QED BY <1>0, <1>1, <1>2, <1>3, <1>4, <1>6, <2>1 DEF WalTypes, PendingLens
  <1>8. EntryBound'
    <2>1. Cardinality(Waiting(pending')) = 0
      BY <1>1, WaitingCounts
    <2> QED BY <1>0, <1>1, <1>4, <2>1, BoundMeans
  <1>9. FilesInOrder'
    <2>1. \A i \in SegIds : segs'[i].state = "absent" => segs'[i] = Absent
      BY <1>0, <1>3 DEF FilesInOrder
    <2>2. ASSUME NEW i \in SegIds, i > id PROVE segs'[i].state = "absent"
      <3>1. i # id /\ ~(i <= id)
        BY <1>2, <2>2 DEF SegIds
      <3> QED BY <1>2, <1>3, <3>1
    <2> QED BY <1>1, <2>1, <2>2 DEF FilesInOrder
  <1>10. HeadersInPlace'
    <2>1. ASSUME NEW i \in SegIds, NEW o \in Offsets, NEW c \in {segs'[i].cache, segs'[i].disk},
                 c[o][1] = "header"
          PROVE  c[o][2] \in 1..ever' /\ places'[c[o][2]] = <<i, o>>
      <3>1. c \in {segs[i].cache, segs[i].disk}
        BY <1>3
      <3> QED BY <1>0, <1>1, <1>4, <2>1, <3>1 DEF HeadersInPlace
    <2> QED BY <2>1 DEF HeadersInPlace
  <1>11. LogInOrder'
    BY <1>1, <1>4 DEF LogInOrder
  <1>12. LogIntact'
    <2>1. segs'[id].state # "absent" /\ Reached(segs'[id].cache, writeOffset')
      BY <1>2, <1>3, <1>6
    <2>2. active' \subseteq Range(log')
      BY <1>4, <1>5
    <2>3. ASSUME NEW e \in Range(log')
          PROVE  LET i == places'[e][1]  o == places'[e][2]
                 IN  /\ i <= id /\ Intact(segs'[i].cache, o, e)
                     /\ e \in active' <=> i = id
                     /\ i = id => After(segs'[i].cache, o) <= writeOffset'
      <3>1. e \in 1..ever /\ Seen(segs, places, e) /\ places'[e] = places[e]
        BY <1>1, <1>4, SeqTypes DEF Range
      <3>2. places[e][1] \in SegIds /\ places[e][2] \in Offsets
            /\ places[e][2] \in 0..MaxSegmentBytes /\ segs[places[e][1]].cache \in Cells
        BY <1>0, <3>1, PlaceTypes
      <3>3. Intact(segs[places[e][1]].cache, places[e][2], e)
            /\ segs'[places[e][1]].cache = segs[places[e][1]].cache
        BY <1>3, <3>1, <3>2 DEF Seen
      <3>4. segs[places[e][1]].state # "absent"
        <4>1. SUFFICES ASSUME segs[places[e][1]] = Absent PROVE FALSE
          BY <1>0, <3>2 DEF FilesInOrder
        <4>2. Intact(Empty, places[e][2], e)
          BY <3>3, <4>1 DEF Absent
        <4> QED BY <3>2, <4>2, EmptyInvalid DEF Intact
      <3>5. places[e][1] <= id
        BY <1>2, <3>2, <3>4
      <3>6. places[e][1] = id => After(segs[id].cache, places[e][2]) <= writeOffset'
        BY <1>6, <3>2, <3>3, IntactFacts
      <3>7. e \in active' <=> places[e][1] = id
        BY <1>5, <3>1
      <3> QED BY <3>1, <3>3, <3>5, <3>6, <3>7
    <2> QED BY <1>1, <2>1, <2>2, <2>3 DEF LogIntact
  <1>13. DurableIntact'
    <2>1. ASSUME NEW e \in durable' PROVE e \in Range(log') /\ Safe(segs', places', e)
      <3>1. e \in Range(log) /\ Safe(segs, places, e) /\ places' = places
        BY <1>0, <1>1, <2>1, DurableIsSafe
      <3>2. e \in 1..ever
        BY <1>0, <3>1, SeqTypes DEF WalTypes
      <3>3. places[e][1] \in SegIds /\ places[e][2] \in 0..MaxSegmentBytes
            /\ segs[places[e][1]].cache \in Cells /\ segs[places[e][1]].disk \in Cells
        BY <1>0, <3>2, PlaceTypes
      <3>4. Seen(segs, places, e)
        BY <3>1, <3>3, SafeSeen
      <3>5. Safe(segs', places', e)
        BY <1>3, <3>1, <3>3 DEF Safe
      <3> QED BY <1>4, <3>2, <3>4, <3>5
    <2> QED BY <2>1, DurableIsSafeNext
  <1>14. OwnCovered'
    BY <1>1 DEF OwnCovered
  <1> QED BY <1>7, <1>8, <1>9, <1>10, <1>11, <1>12, <1>13, <1>14 DEF WalInv

LEMMA WritebackStep ==
  ASSUME WalInv, Writeback
  PROVE  WalInv'
  <1>0. /\ WalTypes /\ EntryBound /\ FilesInOrder /\ HeadersInPlace /\ LogInOrder /\ LogIntact
        /\ DurableIntact /\ OwnCovered /\ segs \in [SegIds -> Segments]
    BY DEF WalInv, WalTypes
  <1>1. PICK i \in SegIds, p \in Offsets :
          /\ segs[i].state # "absent"
          /\ segs' = [segs EXCEPT ![i].disk[p] = segs[i].cache[p]]
    BY DEF Writeback
  <1>2. UNCHANGED <<up, file, segmentID, writeOffset, dirty, pending, log, active, own, durable,
                    places, ever>>
    BY DEF Writeback, procVars, histVars, ever
  <1> DEFINE c == segs[i].cache
             g == segs[i].disk
             d == [g EXCEPT ![p] = c[p]]
  <1>3. segs[i] \in Segments /\ c \in Cells /\ g \in Cells
    BY <1>0, PlaceTypes
  <1>4. d \in Cells /\ \A o \in Offsets : d[o] = g[o] \/ (o = p /\ d[o] = c[o])
    BY <1>3 DEF Cells
  <1>5. /\ segs' \in [SegIds -> Segments] /\ segs'[i].cache = c /\ segs'[i].disk = d
        /\ segs'[i].state = segs[i].state
        /\ \A x \in SegIds : x # i => segs'[x] = segs[x]
    <2>1. segs' = [segs EXCEPT ![i] = [segs[i] EXCEPT !.disk = d]]
      BY <1>1
    <2> HIDE DEF d
    <2>2. [segs[i] EXCEPT !.disk = d] \in Segments
      BY <1>3, <1>4 DEF Segments
    <2> QED BY <1>0, <1>3, <2>1, <2>2 DEF Segments
  <1> HIDE DEF c, g, d
  <1>6. \A x \in SegIds : segs'[x].cache = segs[x].cache /\ segs'[x].state = segs[x].state
    BY <1>5 DEF c
  <1>7. WalTypes' /\ EntryBound' /\ LogInOrder' /\ OwnCovered'
    BY <1>0, <1>2, <1>5, BoundMeans DEF WalTypes, LogInOrder, OwnCovered, syncLocked
  <1>8. FilesInOrder'
    BY <1>0, <1>1, <1>2, <1>5, <1>6 DEF FilesInOrder
  <1>9. HeadersInPlace'
    <2>1. ASSUME NEW x \in SegIds, NEW o \in Offsets, NEW y \in {segs'[x].cache, segs'[x].disk},
                 y[o][1] = "header"
          PROVE  y[o][2] \in 1..ever' /\ places'[y[o][2]] = <<x, o>>
      <3>1. \E z \in {segs[x].cache, segs[x].disk} : y[o] = z[o]
        BY <1>4, <1>5 DEF c, g
      <3> QED BY <1>0, <1>2, <2>1, <3>1 DEF HeadersInPlace
    <2> QED BY <2>1 DEF HeadersInPlace
  <1>10. LogIntact'
    <2>1. \A e \in Range(log) : places[e][1] \in SegIds
      BY <1>0, PlaceTypes, SeqTypes DEF WalTypes
    <2>2. up => segmentID \in SegIds
      BY <1>0 DEF WalTypes
    <2> QED BY <1>0, <1>2, <1>6, <2>1, <2>2 DEF LogIntact
  <1>11. DurableIntact'
    <2>1. ASSUME NEW e \in durable' PROVE e \in Range(log') /\ Safe(segs', places', e)
      <3>1. e \in Range(log) /\ Safe(segs, places, e) /\ places' = places /\ log' = log
        BY <1>0, <1>2, <2>1, DurableIsSafe
      <3>2. e \in 1..ever
        BY <1>0, <3>1, SeqTypes DEF WalTypes
      <3>3. places[e][1] \in SegIds /\ places[e][2] \in 0..MaxSegmentBytes
        BY <1>0, <3>2, PlaceTypes
      <3>4. CASE places[e][1] # i
        BY <1>5, <3>1, <3>3, <3>4 DEF Safe
      <3>5. CASE places[e][1] = i
        <4> DEFINE end == After(g, places[e][2])
        <4>1. Intact(g, places[e][2], e) /\ Same(c, g, end) /\ segs[i].state = "linked"
          BY <3>1, <3>5 DEF Safe, c, g
        <4>2. g \in Cells /\ c \in Cells
          BY <1>3
        <4>3. end \in 0..MaxSegmentBytes /\ end <= end
          <5>1. end \in 0..MaxSegmentBytes
            BY <3>3, <4>1, <4>2, IntactFacts
          <5>2. MaxSegmentBytes \in Nat
            BY WalAssumption
          <5> HIDE DEF end
          <5> QED BY <5>1, <5>2
        <4>4. Same(g, d, end) /\ Same(c, d, end)
          <5> HIDE DEF end
          <5> QED BY <1>4, <4>1 DEF Same
        <4>5. Intact(d, places[e][2], e) /\ After(d, places[e][2]) = end
          BY <1>4, <3>3, <4>1, <4>2, <4>3, <4>4, SameIntact
        <4> HIDE DEF end
        <4> QED BY <1>5, <3>1, <3>5, <4>1, <4>4, <4>5 DEF Safe
      <3> QED BY <3>1, <3>4, <3>5
    <2> QED BY <2>1, DurableIsSafeNext
  <1> QED BY <1>7, <1>8, <1>9, <1>10, <1>11 DEF WalInv

LEMMA HostCrashStep ==
  ASSUME WalInv, HostCrash
  PROVE  WalInv'
  <1>0. /\ WalTypes /\ EntryBound /\ FilesInOrder /\ HeadersInPlace /\ LogInOrder
        /\ DurableIntact /\ segs \in [SegIds -> Segments]
    BY DEF WalInv, WalTypes
  <1>1. PICK lost \in SUBSET {i \in SegIds : segs[i].state = "created"} :
          segs' = [i \in SegIds |-> IF i \in lost THEN Absent
                                    ELSE [segs[i] EXCEPT !.cache = segs[i].disk]]
    BY DEF HostCrash
  <1>2. up' = FALSE /\ UNCHANGED <<file, segmentID, writeOffset, dirty, pending, log, active, own,
                                   durable, places, ever>>
    BY DEF HostCrash, procVars, histVars, ever
  <1>3. Absent \in Segments /\ Absent.state = "absent" /\ Absent.cache = Empty /\ Absent.disk = Empty
        /\ \A o \in Offsets : Empty[o][1] # "header"
    BY DEF Absent, Segments, Empty, Cells, Zero
  <1>4. ASSUME NEW i \in SegIds
        PROVE  /\ segs'[i] \in Segments
               /\ segs'[i] = Absent \/ /\ segs'[i].cache = segs[i].disk
                                       /\ segs'[i].disk = segs[i].disk
                                       /\ segs'[i].state = segs[i].state
               /\ segs'[i] = Absent => segs[i].state # "linked"
    <2>1. segs[i] \in Segments
      BY <1>0
    <2>2. CASE i \in lost
      BY <1>1, <1>3, <2>2
    <2>3. CASE i \notin lost
      BY <1>1, <1>3, <2>1, <2>3 DEF Segments
    <2> QED BY <2>2, <2>3
  <1>5. segs' \in [SegIds -> Segments]
    BY <1>1, <1>4
  <1>6. WalTypes'
    BY <1>0, <1>2, <1>5 DEF WalTypes
  <1>7. EntryBound'
    <2>1. Cardinality(Waiting(pending)) \in Nat /\ ever \in Nat /\ MaxEntries \in Nat
      BY <1>0, WaitingCounts, PendingTypes
    <2>2. ever + 0 <= MaxEntries
      <3>1. \A a, b, m \in Nat : a + b <= m => a + 0 <= m
        OBVIOUS
      <3>2. ever + Cardinality(Waiting(pending)) <= MaxEntries \/ ever + 0 <= MaxEntries
        BY <1>0, BoundMeans
      <3> QED BY <2>1, <3>1, <3>2
    <2> QED BY <1>2, <2>2, BoundMeans
  <1>8. FilesInOrder'
    <2>1. ASSUME NEW i \in SegIds, segs'[i].state = "absent" PROVE segs'[i] = Absent
      <3>1. CASE segs'[i] # Absent
        <4>1. segs[i] = Absent
          BY <1>0, <1>4, <2>1, <3>1 DEF FilesInOrder
        <4>2. segs'[i].cache = Empty /\ segs'[i].disk = Empty /\ segs'[i] \in Segments
          BY <1>3, <1>4, <3>1, <4>1
        <4> QED BY <2>1, <4>2 DEF Segments, Absent
      <3> QED BY <3>1
    <2> QED BY <1>2, <2>1 DEF FilesInOrder
  <1>9. HeadersInPlace'
    <2>1. ASSUME NEW i \in SegIds, NEW o \in Offsets, NEW y \in {segs'[i].cache, segs'[i].disk},
                 y[o][1] = "header"
          PROVE  y[o][2] \in 1..ever' /\ places'[y[o][2]] = <<i, o>>
      <3>1. y = segs[i].disk
        BY <1>3, <1>4, <2>1
      <3> QED BY <1>0, <1>2, <2>1, <3>1 DEF HeadersInPlace
    <2> QED BY <2>1 DEF HeadersInPlace
  <1>10. LogInOrder' /\ LogIntact' /\ OwnCovered'
    BY <1>0, <1>2 DEF LogInOrder, LogIntact, OwnCovered
  <1>11. DurableIntact'
    <2>1. ASSUME NEW e \in durable' PROVE e \in Range(log') /\ Safe(segs', places', e)
      <3>1. e \in Range(log) /\ Safe(segs, places, e) /\ places' = places /\ log' = log
        BY <1>0, <1>2, <2>1, DurableIsSafe
      <3>2. places[e][1] \in SegIds
        BY <1>0, <3>1, SeqTypes, PlaceTypes DEF WalTypes
      <3> DEFINE i == places[e][1]
      <3>3. segs'[i].cache = segs[i].disk /\ segs'[i].disk = segs[i].disk /\ segs'[i].state = "linked"
        BY <1>4, <3>1, <3>2 DEF Safe
      <3> QED BY <3>1, <3>3 DEF Safe, Same
    <2> QED BY <2>1, DurableIsSafeNext
  <1> QED BY <1>6, <1>7, <1>8, <1>9, <1>10, <1>11 DEF WalInv

\* Sync, the ticker and Close: an fsync that succeeds or one that fails.
LEMMA SyncSteps ==
  ASSUME WalInv, Sync \/ GroupCommitTick \/ CloseLocked
  PROVE  WalInv'
  <1>0. WalTypes /\ EntryBound
    BY DEF WalInv
  <1>1. ASSUME UNCHANGED <<segs, segmentID, writeOffset, dirty, histVars, pending, up, file>>
        PROVE  WalInv'
    <2>1. ever' = ever /\ pending' \in [Callers -> PendingLens] /\ up \in BOOLEAN
      BY <1>0, <1>1, PendingTypes DEF histVars, ever, WalTypes
    <2>2. EntryBound'
      BY <1>0, <1>1, <2>1, BoundMeans
    <2> QED BY <1>1, <2>1, <2>2, QuietStep
  <1>2. ASSUME Sync \/ GroupCommitTick PROVE WalInv'
    <2>1. /\ up /\ syncLocked /\ file = "open"
          /\ \/ segs' = SyncedSegs /\ dirty' = FALSE /\ durable' = SyncedDurable
             \/ UNCHANGED <<segs, dirty, durable>>
          /\ UNCHANGED <<up, file, segmentID, writeOffset, pending, log, active, own, places>>
      BY <1>2 DEF Sync, GroupCommitTick, SyncLocked
    <2>2. CASE segs' = SyncedSegs /\ dirty' = FALSE /\ durable' = SyncedDurable
      <3>1. dirty' = SyncedDirty
        BY <2>1, <2>2 DEF SyncedDirty
      <3> QED BY <2>1, <2>2, <3>1, SyncStep
    <2>3. CASE UNCHANGED <<segs, dirty, durable>>
      BY <1>1, <2>1, <2>3 DEF histVars
    <2> QED BY <2>1, <2>2, <2>3
  <1>3. ASSUME CloseLocked PROVE WalInv'
    <2>1. /\ up
          /\ \/ /\ segs' = SyncedSegs /\ dirty' = SyncedDirty /\ durable' = SyncedDurable
                /\ file' = IF file = "open" THEN "closed" ELSE file
             \/ UNCHANGED <<segs, dirty, durable, file>>
          /\ UNCHANGED <<up, segmentID, writeOffset, pending, log, active, own, places>>
      BY <1>3 DEF CloseLocked
    <2>2. CASE /\ segs' = SyncedSegs /\ dirty' = SyncedDirty /\ durable' = SyncedDurable
               /\ file' = IF file = "open" THEN "closed" ELSE file
      <3>1. file' \in {"open", "nil", "closed"} /\ (file = "nil" => file' = "nil")
        BY <1>0, <2>2 DEF WalTypes
      <3> QED BY <2>1, <2>2, <3>1, SyncStep
    <2>3. CASE UNCHANGED <<segs, dirty, durable, file>>
      BY <1>1, <2>1, <2>3 DEF histVars
    <2> QED BY <2>1, <2>2, <2>3
  <1> QED BY <1>2, <1>3

LEMMA WalInitInv == WalInit => WalInv
  <1> SUFFICES ASSUME WalInit PROVE WalInv
    OBVIOUS
  <1>1. /\ up = FALSE /\ segs = [i \in SegIds |-> Absent] /\ file = "nil" /\ segmentID = 0
        /\ writeOffset = 0 /\ dirty = FALSE /\ pending = [w \in Callers |-> Idle]
        /\ log = <<>> /\ active = {} /\ own = {} /\ durable = {} /\ places = <<>>
    BY DEF WalInit
  <1>2. /\ ever = 0 /\ MaxSegmentBytes \in Nat /\ MaxEntries \in Nat
        /\ \A S : log \in Seq(S) /\ Range(log) = {} /\ DOMAIN log = {}
        /\ \A S : places \in Seq(S)
    <2>1. MaxSegmentBytes \in Nat /\ MaxEntries \in Nat
      BY WalAssumption
    <2>2. ever = 0
      BY <1>1 DEF ever
    <2>3. \A S : log \in Seq(S) /\ places \in Seq(S)
      BY <1>1
    <2>4. DOMAIN log = {}
      BY <1>1
    <2>5. Range(log) = {}
      BY <2>4 DEF Range
    <2> QED BY <2>1, <2>2, <2>3, <2>4, <2>5
  <1>3. Absent \in Segments /\ Absent.cache = Empty /\ Absent.disk = Empty
        /\ \A o \in Offsets : Empty[o][1] # "header"
    BY DEF Absent, Segments, Empty, Cells, Zero
  <1>4. WalTypes
    <2>1. segs \in [SegIds -> Segments]
      BY <1>1, <1>3
    <2>2. pending \in [Callers -> PendingLens]
      BY <1>1 DEF PendingLens
    <2>3. writeOffset \in 0..MaxSegmentBytes
      BY <1>1, <1>2
    <2> QED BY <1>1, <1>2, <2>1, <2>2, <2>3 DEF WalTypes, PendingLens
  <1>5. EntryBound
    <2>1. ever + 0 <= MaxEntries
      BY <1>2
    <2> QED BY <1>1, <2>1, BoundMeans
  <1>6. FilesInOrder /\ HeadersInPlace
    BY <1>1, <1>3 DEF FilesInOrder, HeadersInPlace
  <1>7. LogInOrder /\ LogIntact /\ DurableIntact /\ OwnCovered
    BY <1>1, <1>2 DEF LogInOrder, LogIntact, DurableIntact, OwnCovered
  <1> QED BY <1>4, <1>5, <1>6, <1>7 DEF WalInv

LEMMA WalStep ==
  ASSUME 0 \notin Lens, WalInv, [WalNext]_walVars
  PROVE  WalInv'
  <1>1. CASE NewWAL
    BY <1>1, NewWALStep
  <1>2. ASSUME NEW w \in Callers, WriteAppend(w) PROVE WalInv'
    BY <1>2, AppendStep
  <1>3. ASSUME NEW w \in Callers, WriteRotate(w) PROVE WalInv'
    BY <1>3, RotateStep
  <1>4. ASSUME NEW w \in Callers, WriteOpenFails(w) PROVE WalInv'
    BY <1>4, OpenFailsStep
  <1>5. ASSUME NEW w \in Callers, WriteTorn(w) PROVE WalInv'
    BY <1>5, TornStep
  <1>6. CASE \/ \E w \in Callers : \/ \E n \in Lens : WriteBegin(w, n)
                                   \/ WriteRotateFails(w) \/ WritePanics(w)
             \/ GroupCommitStop \/ WalCloseBegin \/ ProcessCrash \/ UNCHANGED walVars
    BY <1>6, QuietSteps
  <1>7. CASE Sync \/ GroupCommitTick \/ CloseLocked
    BY <1>7, SyncSteps
  <1>8. CASE Writeback
    BY <1>8, WritebackStep
  <1>9. CASE HostCrash
    BY <1>9, HostCrashStep
  <1> QED BY <1>1, <1>2, <1>3, <1>4, <1>5, <1>6, <1>7, <1>8, <1>9 DEF WalNext

-----------------------------------------------------------------------------
(* Theorems *)

\* wal.go: headers stay where they were written, the log keeps its order, every
\* entry in front of writeOffset stays valid, and a durable entry is the same on
\* disk and in the page cache, whatever rotations, failed opens, failed fsyncs,
\* torn writes, write-backs and crashes interleave.
THEOREM WalInvariance ==
  ASSUME 0 \notin Lens
  PROVE  WalSpec => []WalInv
  <1>1. WalInit => WalInv
    BY WalInitInv
  <1>2. WalInv /\ [WalNext]_walVars => WalInv'
    BY WalStep
  <1> QED BY <1>1, <1>2, PTL DEF WalSpec

\* Walk: while the process runs it returns every entry that was recovered or
\* appended, once and in order, for every segment size and any history of crashes.
THEOREM WalkReturnsTheLog ==
  ASSUME 0 \notin Lens
  PROVE  WalSpec => []WalkReturnsLog
  <1>1. WalInv => WalkReturnsLog
    BY InvWalkReturnsLog
  <1> QED BY <1>1, WalInvariance, PTL

\* Close: when it returns nil, every entry this process appended is on disk, also
\* those written while Close waited for the group-commit loop.
THEOREM CloseIsDurable ==
  ASSUME 0 \notin Lens
  PROVE  WalSpec => CloseMakesOwnDurable
  <1>1. ASSUME WalInv, [WalNext]_walVars, closeState # "ok", closeState' = "ok"
        PROVE  own \subseteq durable'
    <2>1. CloseLocked
      BY <1>1 DEF WalNext, walVars, procVars, NewWAL, WriteBegin, WriteAppend, WriteRotate,
                  WriteRotateFails, WriteOpenFails, WritePanics, WriteTorn, Sync, SyncLocked,
                  GroupCommitTick, GroupCommitStop, WalCloseBegin, Writeback, ProcessCrash, HostCrash
    <2>2. up /\ durable' = SyncedDurable
      BY <1>1, <2>1 DEF CloseLocked
    <2> QED BY <1>1, <2>2, SyncedFacts
  <1>2. WalInv /\ [WalNext]_walVars =>
            [closeState # "ok" /\ closeState' = "ok" => own \subseteq durable']_walVars
    BY <1>1
  <1> QED BY <1>2, WalInvariance, PTL DEF WalSpec, CloseMakesOwnDurable

-----------------------------------------------------------------------------
(* The log implements DurableLog *)

\* DurableLog has its own copy of the operators on functions.
LEMMA AbsOperators ==
  ASSUME NEW f PROVE Abs!Range(f) = Range(f) /\ Abs!IsInjective(f) = IsInjective(f)
  BY DEF Range, IsInjective, Abs!Range, Abs!IsInjective

LEMMA SuffixRange ==
  ASSUME NEW S, NEW s \in Seq(S), NEW i \in 1..Len(s)
  PROVE  Range(SubSeq(s, i, Len(s))) = {s[k] : k \in i..Len(s)}
  <1> DEFINE t == SubSeq(s, i, Len(s))
  <1>1. Len(s) \in Nat /\ i \in Nat
    OBVIOUS
  <1>2. DOMAIN t = 1..(Len(s) - i + 1) /\ \A k \in 1..(Len(s) - i + 1) : t[k] = s[k + i - 1]
    BY <1>1
  <1> HIDE DEF t
  <1>3. ASSUME NEW x \in Range(t) PROVE x \in {s[k] : k \in i..Len(s)}
    <2>1. PICK k \in 1..(Len(s) - i + 1) : x = t[k]
      BY <1>2 DEF Range
    <2>2. k + i - 1 \in i..Len(s)
      BY <1>1
    <2> QED BY <1>2, <2>1, <2>2
  <1>4. ASSUME NEW k \in i..Len(s) PROVE s[k] \in Range(t)
    <2>1. k - i + 1 \in 1..(Len(s) - i + 1) /\ (k - i + 1) + i - 1 = k
      BY <1>1
    <2> QED BY <1>2, <2>1 DEF Range
  <1> QED BY <1>3, <1>4 DEF t

\* The entries of the active segment are the last ones of the log: an fsync
\* makes a suffix of it durable.
LEMMA SyncIsAbstract ==
  ASSUME WalInv, up, durable' = SyncedDurable, UNCHANGED <<log, places>>
  PROVE  Abs!AbsSync \/ UNCHANGED Abs!absVars
  <1>0. WalTypes /\ LogInOrder /\ LogIntact /\ ever' = ever
    BY DEF WalInv, ever
  <1>1. CASE ~syncLocked \/ active = {}
    BY <1>0, <1>1 DEF SyncedDurable, Abs!absVars
  <1>2. CASE syncLocked /\ active # {}
    <2>1. log \in Seq(1..ever) /\ DOMAIN log = 1..Len(log) /\ Len(log) \in Nat
      BY <1>0, SeqTypes DEF WalTypes
    <2>2. active \subseteq Range(log) /\ segmentID \in SegIds
      BY <1>0 DEF LogIntact, WalTypes
    <2> DEFINE T == {k \in 1..Len(log) : log[k] \in active}
    <2>3. T \in SUBSET Nat /\ T # {}
      BY <1>2, <2>1, <2>2 DEF Range
    <2>4. PICK i \in T : \A k \in T : i <= k
      <3> HIDE DEF T
      <3> QED BY <2>3, LeastIn
    <2>5. i \in 1..Len(log) /\ log[i] \in active
      BY <2>4
    <2>6. ASSUME NEW k \in i..Len(log) PROVE log[k] \in active
      <3>1. k \in 1..Len(log) /\ (k = i \/ i < k)
        BY <2>1, <2>5
      <3>2. CASE k = i
        BY <2>5, <3>2
      <3>3. CASE i < k
        <4>1. log[i] \in Range(log) /\ log[k] \in Range(log)
          BY <2>1, <2>5, <3>1 DEF Range
        <4>2. Before(places[log[i]], places[log[k]])
          BY <1>0, <2>1, <2>5, <3>1, <3>3 DEF LogInOrder
        <4>3. places[log[i]][1] = segmentID /\ places[log[k]][1] <= segmentID
          BY <1>0, <2>5, <4>1 DEF LogIntact
        <4>4. places[log[i]][1] \in SegIds /\ places[log[k]][1] \in SegIds
          BY <1>0, <2>1, <2>5, <3>1, SeqTypes, PlaceTypes
        <4>5. places[log[k]][1] = segmentID
          BY <2>2, <4>2, <4>3, <4>4 DEF Before, SegIds
        <4> QED BY <1>0, <4>1, <4>5 DEF LogIntact
      <3> QED BY <3>1, <3>2, <3>3
    <2>7. ASSUME NEW e \in active PROVE \E k \in i..Len(log) : log[k] = e
      <3>1. PICK k \in 1..Len(log) : log[k] = e
        BY <2>1, <2>2 DEF Range
      <3>2. i <= k
        BY <2>4, <3>1
      <3>3. k \in i..Len(log)
        BY <2>1, <2>5, <3>2
      <3> QED BY <3>1, <3>3
    <2> DEFINE R == {log[k] : k \in i..Len(log)}
    <2>8. R = active
      BY <2>6, <2>7
    <2>9. Range(SubSeq(log, i, Len(log))) = R
      BY <2>1, <2>5, SuffixRange
    <2> HIDE DEF R, T
    <2>10. durable' = durable \cup Range(SubSeq(log, i, Len(log)))
      BY <1>2, <2>8, <2>9 DEF SyncedDurable
    <2>11. UNCHANGED <<log, 1..ever>>
      BY <1>0
    <2> QED BY <2>5, <2>10, <2>11, AbsOperators DEF Abs!AbsSync
  <1> QED BY <1>1, <1>2

\* One more entry, in the numbering of the model.
LEMMA NextEntry ==
  ASSUME WalTypes, WalTypes', EntryBound', ever' = ever + 1
  PROVE  /\ ever + 1 \in (1..MaxEntries) \ (1..ever)
         /\ 1..ever' = (1..ever) \cup {ever + 1}
  <1>1. ever \in Nat /\ MaxEntries \in Nat
    BY PlaceTypes, WalAssumption
  <1>2. Cardinality(Waiting(pending')) \in Nat
    BY WaitingCounts
  <1>3. \A a, b, m \in Nat : (a + 1) + b <= m \/ (a + 1) + 0 <= m => a + 1 \in 1..m
    OBVIOUS
  <1>4. (ever + 1) + Cardinality(Waiting(pending')) <= MaxEntries \/ (ever + 1) + 0 <= MaxEntries
    BY BoundMeans
  <1>5. ever + 1 \in 1..MaxEntries
    BY <1>1, <1>2, <1>3, <1>4
  <1>6. ever + 1 \notin 1..ever /\ 1..(ever + 1) = (1..ever) \cup {ever + 1}
    BY <1>1
  <1> QED BY <1>5, <1>6

\* Recovery brings back the durable entries in their order.
LEMMA RecoverIsAbstract ==
  ASSUME WalInv, WalInv', NewWAL
  PROVE  Abs!AbsRecover
  <1>1. log' = Walk(segs) /\ UNCHANGED <<durable, places, ever>>
    BY DEF NewWAL, ever
  <1>2. /\ WalTypes /\ LogInOrder /\ FilesInOrder /\ HeadersInPlace
        /\ durable \subseteq Range(log) /\ durable \subseteq Range(log')
    BY <1>1 DEF WalInv, DurableIntact
  <1>3. /\ log' \in Seq(1..ever)
        /\ \A k, l \in DOMAIN log' : k < l => Before(places[log'[k]], places[log'[l]])
    BY <1>1, <1>2, Walked
  <1>4. /\ DOMAIN log' \subseteq Nat /\ Range(log') \subseteq 1..ever
        /\ \A k \in DOMAIN log' : log'[k] \in 1..ever /\ places[log'[k]] \in SegIds \X Offsets
    <2>1. DOMAIN log' = 1..Len(log') /\ \A k \in DOMAIN log' : log'[k] \in 1..ever
      BY <1>3, SeqTypes
    <2>2. Range(log') \subseteq 1..ever
      BY <2>1 DEF Range
    <2> QED BY <1>2, <2>1, <2>2, PlaceTypes
  <1>5. ASSUME NEW k \in DOMAIN log', NEW l \in DOMAIN log', log'[k] = log'[l] PROVE k = l
    <2>1. ~(k < l)
      BY <1>3, <1>4, <1>5, BeforeOrder
    <2>2. ~(l < k)
      BY <1>3, <1>4, <1>5, BeforeOrder
    <2> QED BY <1>4, <2>1, <2>2
  <1>6. IsInjective(log')
    BY <1>5 DEF IsInjective
  <1>7. Range(log') \cap durable = Range(log) \cap durable
    BY <1>2
  <1>8. ASSUME NEW i \in DOMAIN log, NEW j \in DOMAIN log, NEW k \in DOMAIN log',
               NEW l \in DOMAIN log', i < j, log'[k] = log[i], log'[l] = log[j]
        PROVE  k < l
    <2>1. Before(places[log'[k]], places[log'[l]])
      BY <1>2, <1>8 DEF LogInOrder
    <2>2. k # l
      BY <1>4, <2>1, BeforeOrder
    <2>3. ~(l < k)
      BY <1>3, <1>4, <2>1, BeforeOrder
    <2> QED BY <1>4, <2>2, <2>3
  <1>9. UNCHANGED <<durable, 1..ever>>
    BY <1>1
  <1> QED BY <1>4, <1>6, <1>7, <1>8, <1>9, AbsOperators DEF Abs!AbsRecover

\* Every step is a step of DurableLog or leaves it alone.
LEMMA WalStepIsAbstract ==
  ASSUME WalInv, WalInv', [WalNext]_walVars
  PROVE  [Abs!AbsNext]_Abs!absVars
  <1>0. WalTypes /\ WalTypes' /\ EntryBound'
    BY DEF WalInv
  <1>1. CASE NewWAL
    BY <1>1, RecoverIsAbstract DEF Abs!AbsNext
  <1>2. ASSUME UNCHANGED <<log, durable, places>> PROVE UNCHANGED Abs!absVars
    BY <1>2 DEF Abs!absVars, ever
  <1>3. ASSUME NEW w \in Callers, WriteAppend(w) \/ WriteRotate(w) PROVE Abs!AbsAppend
    <2>1. log' = Append(log, ever + 1) /\ up /\ (durable' = durable \/ durable' = SyncedDurable)
          /\ \E id, off : Starts(id, off)
      BY <1>3 DEF WriteAppend, WriteRotate
    <2>2. ever' = ever + 1
      <3>1. PICK id, off : places' = Append(places, <<id, off>>)
        BY <2>1 DEF Starts
      <3>2. places \in Seq(SegIds \X Offsets)
        BY <1>0 DEF WalTypes
      <3>3. Len(places') = Len(places) + 1
        BY <3>1, <3>2
      <3> QED BY <3>3 DEF ever
    <2>3. ever + 1 \in (1..MaxEntries) \ (1..ever) /\ 1..ever' = (1..ever) \cup {ever + 1}
      BY <1>0, <2>2, NextEntry
    <2>4. durable \subseteq durable' /\ durable' \subseteq durable \cup Range(log)
      BY <2>1, SyncedFacts
    <2> QED BY <2>1, <2>3, <2>4, AbsOperators DEF Abs!AbsAppend
  <1>4. ASSUME NEW w \in Callers, WriteOpenFails(w) PROVE [Abs!AbsNext]_Abs!absVars
    <2>1. up /\ durable' = SyncedDurable /\ UNCHANGED <<log, places>>
      BY <1>4 DEF WriteOpenFails
    <2> QED BY <2>1, SyncIsAbstract DEF Abs!AbsNext
  <1>5. ASSUME Sync \/ GroupCommitTick \/ CloseLocked PROVE [Abs!AbsNext]_Abs!absVars
    <2>1. up /\ (durable' = SyncedDurable \/ durable' = durable) /\ UNCHANGED <<log, places>>
      BY <1>5 DEF Sync, GroupCommitTick, SyncLocked, CloseLocked
    <2>2. CASE durable' = SyncedDurable
      BY <2>1, <2>2, SyncIsAbstract DEF Abs!AbsNext
    <2>3. CASE durable' = durable
      BY <1>2, <2>1, <2>3
    <2> QED BY <2>1, <2>2, <2>3
  <1>6. ASSUME NEW w \in Callers, WriteTorn(w) PROVE Abs!AbsTorn
    <2>1. UNCHANGED <<log, durable>> /\ places' = Append(places, <<segmentID, writeOffset>>)
      BY <1>6 DEF WriteTorn, Starts
    <2>2. ever' = ever + 1
      <3>1. places \in Seq(SegIds \X Offsets)
        BY <1>0 DEF WalTypes
      <3>2. Len(places') = Len(places) + 1
        BY <2>1, <3>1
      <3> QED BY <3>2 DEF ever
    <2>3. ever + 1 \in (1..MaxEntries) \ (1..ever) /\ 1..ever' = (1..ever) \cup {ever + 1}
      BY <1>0, <2>2, NextEntry
    <2> QED BY <2>1, <2>3 DEF Abs!AbsTorn
  <1>7. CASE \/ \E w \in Callers : \/ \E n \in Lens : WriteBegin(w, n)
                                   \/ WriteRotateFails(w) \/ WritePanics(w)
             \/ GroupCommitStop \/ WalCloseBegin \/ ProcessCrash \/ Writeback \/ HostCrash
             \/ UNCHANGED walVars
    <2>1. UNCHANGED <<log, durable, places>>
      BY <1>7 DEF WriteBegin, WriteRotateFails, WritePanics, GroupCommitStop, WalCloseBegin,
                  ProcessCrash, Writeback, HostCrash, walVars, histVars
    <2> QED BY <1>2, <2>1
  <1> QED BY <1>1, <1>3, <1>4, <1>5, <1>6, <1>7 DEF WalNext, Abs!AbsNext

\* The write-ahead log implements DurableLog: through any sequence of rotations,
\* failures, crashes and recoveries an entry that was fsynced is never lost,
\* duplicated or moved.
THEOREM WalImplementsDurableLog ==
  ASSUME 0 \notin Lens
  PROVE  WalSpec => ImplementsDurableLog
  <1>1. WalInit => Abs!AbsInit
    <2> SUFFICES ASSUME WalInit PROVE Abs!AbsInit
      OBVIOUS
    <2>1. log = <<>> /\ durable = {} /\ ever = 0
      BY DEF WalInit, ever
    <2> QED BY <2>1 DEF Abs!AbsInit
  <1>2. WalInv /\ WalInv' /\ [WalNext]_walVars => [Abs!AbsNext]_Abs!absVars
    BY WalStepIsAbstract
  <1> QED BY <1>1, <1>2, WalInvariance, PTL DEF WalSpec, ImplementsDurableLog, Abs!AbsSpec
=============================================================================
