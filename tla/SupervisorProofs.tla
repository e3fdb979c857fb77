-------------------------- MODULE SupervisorProofs --------------------------
(* For every number of tenants, signals, crashes and late goroutines: a running
   actor is the one its managedActor points to, and a quarantined one is down. *)
EXTENDS Supervisor, WellFoundedInduction, TLAPS

\* A step that starts and stops no actor and quarantines nobody.
LEMMA QuietInv ==
  ASSUME SupervisorInv, UNCHANGED <<made, current, running, quarantined>>,
         Mapped', WaitsMade'
  PROVE  SupervisorInv'
  BY DEF SupervisorInv, Numbered, OnlyCurrentRuns, QuarantinedStaysDown, IsRunning

\* A step that only stops actors.
LEMMA StopInv ==
  ASSUME SupervisorInv, UNCHANGED <<made, current, quarantined>>,
         Mapped', WaitsMade', running' \in [Actors -> BOOLEAN],
         \A a \in Actors : running'[a] => running[a]
  PROVE  SupervisorInv'
  <1> USE SupervisorAssumption DEF SupervisorInv
  <1>1. Numbered' /\ OnlyCurrentRuns'
    BY DEF Numbered, OnlyCurrentRuns
  <1>2. \A m \in Managed : current[m] # None => current[m] \in Actors
    BY DEF Numbered, Actors, None
  <1>3. QuarantinedStaysDown'
    BY <1>2 DEF QuarantinedStaysDown, IsRunning
  <1> QED BY <1>1, <1>3

\* A new actor for a managedActor that has no running one and is not
\* quarantined. The other managedActors keep their actors.
LEMMA StartInv ==
  ASSUME SupervisorInv, NEW m \in Managed, StartActor(m), ~IsRunning(m), ~quarantined[m],
         UNCHANGED quarantined, Mapped', WaitsMade',
         made'.a = made.a + 1, made' \in [m : 0..MaxManaged, a : 0..MaxActors],
         \/ made'.m = made.m /\ m <= made.m
         \/ made'.m = m /\ m = made.m + 1
  PROVE  SupervisorInv'
  <1> USE SupervisorAssumption DEF SupervisorInv
  <1> DEFINE b == made.a + 1
  <1>1. /\ b \in Actors /\ current' = [current EXCEPT ![m] = b]
        /\ running' = [running EXCEPT ![b] = TRUE]
    BY DEF StartActor
  <1>2. /\ \A n \in Managed : current'[n] = IF n = m THEN b ELSE current[n]
        /\ \A c \in Actors : c # b => running'[c] = running[c]
        /\ made.a \in 0..MaxActors /\ made.m \in 0..MaxManaged /\ b > made.a
    BY <1>1 DEF Numbered
  <1>3. Numbered'
    <2>1. current' \in [Managed -> 0..MaxActors] /\ running' \in [Actors -> BOOLEAN]
      BY <1>1 DEF Numbered, Actors
    <2>2. \A n \in Managed : current'[n] <= made'.a /\ (current'[n] = None <=> n > made'.m)
      BY <1>2 DEF Numbered, Managed, None
    <2>3. \A n \in Managed : n > made'.m => ~quarantined'[n]
      BY <1>2 DEF Numbered, Managed
    <2>4. \A c \in Actors : running'[c] => c <= made'.a
      BY <1>2 DEF Numbered, Actors
    <2> QED BY <2>1, <2>2, <2>3, <2>4 DEF Numbered
  <1>4. OnlyCurrentRuns'
    <2> SUFFICES ASSUME NEW c \in Actors, running'[c]
                 PROVE  \E n \in Managed : current'[n] = c
      BY DEF OnlyCurrentRuns
    <2>1. CASE c = b
      BY <1>2, <2>1
    <2>2. CASE c # b
      <3>1. running[c] /\ c # None
        BY <1>2, <2>2 DEF Actors, None
      <3>2. PICK n \in Managed : current[n] = c
        BY <3>1 DEF OnlyCurrentRuns
      <3>3. n # m
        BY <3>1, <3>2 DEF IsRunning
      <3> QED BY <1>2, <3>2, <3>3
    <2> QED BY <2>1, <2>2
  <1>5. QuarantinedStaysDown'
    <2> SUFFICES ASSUME NEW n \in Managed, quarantined[n]
                 PROVE  ~IsRunning(n)'
      BY DEF QuarantinedStaysDown
    <2>1. n # m /\ current'[n] = current[n] /\ current[n] # b
      BY <1>2 DEF Numbered
    <2>2. current[n] # None => current[n] \in Actors
      BY DEF Numbered, Actors, None
    <2>3. ~IsRunning(n)
      BY DEF QuarantinedStaysDown
    <2> QED BY <1>2, <2>1, <2>2, <2>3 DEF IsRunning
  <1> QED BY <1>3, <1>4, <1>5

\* One more at one place of a function to the naturals.
LEMMA OneMore ==
  ASSUME NEW D, NEW w \in [D -> Nat], NEW x
  PROVE  [w EXCEPT ![x] = @ + 1] \in [D -> Nat]
  <1>1. CASE x \in D
    BY <1>1
  <1>2. CASE x \notin D
    BY <1>2
  <1> QED BY <1>1, <1>2

\* Only an actor that is down is quarantined.
LEMMA SweepInv == ASSUME SupervisorInv, Sweep PROVE SupervisorInv'
  <1> USE DEF SupervisorInv, Sweep, mapVars, actorVars
  <1>1. quarantined' \in [Managed -> BOOLEAN]
    BY Zenon
  <1>2. \A m \in Managed : quarantined'[m] => quarantined[m] \/ m \in Flooded
    OBVIOUS
  <1>3. \A m \in Flooded : ~IsRunning(m) /\ \E t \in Tenants : actors[t] = m
    BY DEF Flooded, Down, Swept
  <1>4. \A m \in Managed : m \in Flooded => ~(m > made.m)
    BY <1>3 DEF Managed, Numbered, Mapped
  <1> HIDE DEF Sweep
  <1>5. UNCHANGED <<actors, made, current, running>>
    BY DEF Sweep
  <1>6. Numbered' /\ OnlyCurrentRuns'
    BY <1>1, <1>2, <1>4, <1>5 DEF Numbered, Mapped, OnlyCurrentRuns
  <1>8. WaitsMade'
    <2>1. waits' = [m \in Managed |-> IF m \in Down \ Flooded
                                      THEN [waits[m] EXCEPT ![backoffNext[m]] = @ + 1]
                                      ELSE waits[m]]
      BY DEF Sweep
    <2>2. \A m \in Down : m <= made.m
      BY DEF Down, Swept, Managed, Numbered, Mapped
    <2>3. \A m \in Managed : waits[m] \in [Delays -> Nat]
      BY DEF WaitsMade
    <2>4. ASSUME NEW m \in Managed PROVE waits'[m] \in [Delays -> Nat]
      <3>1. [waits[m] EXCEPT ![backoffNext[m]] = @ + 1] \in [Delays -> Nat]
        BY <2>3, OneMore
      <3> QED BY <2>1, <2>3, <3>1
    <2>5. \A m \in Managed, d \in Delays : waits'[m][d] > 0 => m <= made.m
      BY <2>1, <2>2 DEF WaitsMade
    <2> QED BY <1>5, <2>1, <2>4, <2>5 DEF WaitsMade
  <1>7. QuarantinedStaysDown'
    BY <1>2, <1>3, <1>5 DEF QuarantinedStaysDown, IsRunning
  <1> QED BY <1>6, <1>7, <1>8

\* A backoff goroutine less.
LEMMA WaitedInv ==
  ASSUME WaitsMade, NEW m \in Managed, NEW d \in Delays, waits[m][d] > 0, Waited(m, d)
  PROVE  /\ waits' \in [Managed -> [Delays -> Nat]]
         /\ \A n \in Managed, e \in Delays : waits'[n][e] > 0 => waits[n][e] > 0
  <1>1. waits[m] \in [Delays -> Nat] /\ waits[m][d] - 1 \in Nat
    BY DEF WaitsMade
  <1>2. waits' = [waits EXCEPT ![m] = [waits[m] EXCEPT ![d] = waits[m][d] - 1]]
    BY DEF Waited
  <1>3. [waits[m] EXCEPT ![d] = waits[m][d] - 1] \in [Delays -> Nat]
    BY <1>1
  <1> QED BY <1>1, <1>2, <1>3 DEF WaitsMade

\* getOrCreate, and the backoff goroutine's restart.
LEMMA CreateInv == ASSUME SupervisorInv, NEW s \in Signals, Create(s) PROVE SupervisorInv'
  <1> USE SupervisorAssumption DEF SupervisorInv
  <1> DEFINE m == made.m + 1
  <1>1. /\ m \in Managed /\ StartActor(m) /\ made' = [m |-> m, a |-> made.a + 1]
        /\ actors' = [actors EXCEPT ![TenantOf[s]] = m] /\ UNCHANGED quarantined
    BY DEF Create
  <1>2. made.m \in 0..MaxManaged /\ made.a \in 0..MaxActors /\ made.a + 1 \in Actors
    BY <1>1 DEF Numbered, StartActor
  <1>3. ~IsRunning(m) /\ ~quarantined[m]
    BY <1>1, <1>2 DEF Numbered, Managed, IsRunning
  <1>4. made' \in [m : 0..MaxManaged, a : 0..MaxActors]
    BY <1>1, <1>2 DEF Managed, Actors
  <1>5. Mapped' /\ WaitsMade'
    <2>1. UNCHANGED waits
      BY DEF Create
    <2> QED BY <1>1, <1>2, <2>1 DEF Numbered, Mapped, Managed, WaitsMade
  <1> HIDE DEF m
  <1>6. made'.m = m /\ made'.a = made.a + 1 /\ m = made.m + 1
    BY <1>1 DEF m
  <1> QED BY <1>1, <1>3, <1>4, <1>5, <1>6, StartInv

LEMMA RestartInv == ASSUME SupervisorInv, NEW m \in Managed, Restart(m) PROVE SupervisorInv'
  <1> USE SupervisorAssumption DEF SupervisorInv
  <1>0. /\ waits' \in [Managed -> [Delays -> Nat]] /\ 0 \in Delays /\ waits[m][0] > 0
        /\ \A n \in Managed, e \in Delays : waits'[n][e] > 0 => waits[n][e] > 0
    BY WaitedInv DEF Restart, Delays
  <1>1. UNCHANGED <<actors, quarantined>>
    BY DEF Restart
  <1>2. CASE ~Due(m)
    <2>1. UNCHANGED <<made, current, running>>
      BY <1>2 DEF Restart, actorVars
    <2> QED BY <1>0, <1>1, <2>1, QuietInv DEF Numbered, Mapped, WaitsMade
  <1>3. CASE Due(m)
    <2>1. StartActor(m) /\ made' = [made EXCEPT !.a = @ + 1]
      BY <1>3 DEF Restart
    <2>2. made.m \in 0..MaxManaged /\ made.a \in 0..MaxActors /\ made.a + 1 \in Actors
      BY <2>1 DEF Numbered, StartActor
    <2>3. /\ made'.a = made.a + 1 /\ made'.m = made.m
          /\ made' \in [m : 0..MaxManaged, a : 0..MaxActors]
      BY <2>1, <2>2 DEF Numbered, Actors
    <2>4. Mapped' /\ WaitsMade'
      BY <1>0, <1>1, <2>3 DEF Numbered, Mapped, WaitsMade
    <2>5. m <= made.m
      BY <1>0 DEF WaitsMade
    <2> QED BY <1>1, <1>3, <2>1, <2>3, <2>4, <2>5, StartInv DEF Due
  <1> QED BY <1>2, <1>3

\* Time moves delays, and makes none.
LEMMA TickInv == ASSUME SupervisorInv, Tick PROVE SupervisorInv'
  <1> USE SupervisorAssumption DEF SupervisorInv
  <1>1. UNCHANGED <<actors, made, current, running, quarantined>>
    BY DEF Tick, mapVars, actorVars
  <1> DEFINE next(m, d) == IF d < BackoffMax THEN waits[m][d + 1] ELSE 0
  <1>2. waits' = [m \in Managed |-> [d \in Delays |->
                    IF d = 0 THEN waits[m][0] + next(m, d) ELSE next(m, d)]]
    BY DEF Tick
  <1>3. ASSUME NEW m \in Managed, NEW d \in Delays
        PROVE  /\ waits[m][0] \in Nat /\ next(m, d) \in Nat
               /\ next(m, d) > 0 \/ waits[m][0] > 0 => m <= made.m
    <2>1. 0 \in Delays /\ (d < BackoffMax => d + 1 \in Delays)
      BY DEF Delays
    <2> QED BY <2>1 DEF WaitsMade
  <1> HIDE DEF next
  <1>4. WaitsMade'
    <2>1. waits' \in [Managed -> [Delays -> Nat]]
      BY <1>2, <1>3
    <2>2. \A m \in Managed, d \in Delays : waits'[m][d] > 0 => m <= made.m
      BY <1>2, <1>3
    <2> QED BY <1>1, <2>1, <2>2 DEF WaitsMade
  <1>5. Mapped'
    BY <1>1 DEF Numbered, Mapped
  <1> QED BY <1>1, <1>4, <1>5, QuietInv

\* The steps that stop actors.
LEMMA StopsInv ==
  ASSUME SupervisorInv, StopActors \/ \E a \in Actors : ActorStop(a) PROVE SupervisorInv'
  <1> USE DEF SupervisorInv
  <1>1. running' \in [Actors -> BOOLEAN] /\ \A a \in Actors : running'[a] => running[a]
    <2>1. CASE StopActors
      <3>1. running' \in [Actors -> BOOLEAN]
        BY <2>1, Zenon DEF StopActors
      <3> QED BY <2>1, <3>1 DEF StopActors
    <2>2. CASE \E a \in Actors : ActorStop(a)
      BY <2>2 DEF ActorStop, Numbered
    <2> QED BY <2>1, <2>2
  <1>2. UNCHANGED <<made, current, quarantined, waits>>
    BY DEF StopActors, ActorStop, mapVars, bookVars
  <1>3. Mapped'
    <2>1. made.m \in 0..MaxManaged
      BY DEF Numbered
    <2>2. actors' = actors \/ actors' = [t \in Tenants |-> 0]
      BY DEF StopActors, ActorStop, mapVars, None
    <2> QED BY <1>2, <2>1, <2>2, SupervisorAssumption DEF Numbered, Mapped
  <1> QED BY <1>1, <1>2, <1>3, StopInv DEF WaitsMade

\* ReleaseQuarantine forgets the entry and clears its flag.
LEMMA ReleaseInv ==
  ASSUME SupervisorInv, NEW t \in Tenants, ReleaseQuarantine(t) PROVE SupervisorInv'
  <1> USE DEF SupervisorInv
  <1>1. /\ UNCHANGED <<made, current, running, waits>>
        /\ actors' = [actors EXCEPT ![t] = None]
        /\ quarantined' = [quarantined EXCEPT ![actors[t]] = FALSE]
    BY DEF ReleaseQuarantine, actorVars
  <1>2. \A m \in Managed : quarantined'[m] => quarantined[m]
    BY <1>1 DEF Numbered
  <1>3. Numbered'
    <2>1. quarantined' \in [Managed -> BOOLEAN]
      BY <1>1 DEF Numbered
    <2>2. Mapped'
      <3>1. made.m \in 0..MaxManaged
        BY DEF Numbered
      <3> QED BY <1>1, <3>1, SupervisorAssumption DEF Numbered, Mapped, None
    <2> QED BY <1>1, <1>2, <2>1, <2>2 DEF Numbered
  <1> QED BY <1>1, <1>2, <1>3 DEF WaitsMade, OnlyCurrentRuns, QuarantinedStaysDown, IsRunning

\* The steps that change neither the map nor the books.
LEMMA OtherInv ==
  ASSUME SupervisorInv,
         \/ \E s \in Signals : LookUp(s) \/ Send(s) \/ Process(s)
         \/ \E a \in Actors : ActorReturns(a)
         \/ MonitorReturns \/ StopCancels
  PROVE  SupervisorInv'
  <1>1. UNCHANGED <<actors, made, current, running, quarantined, waits>>
    BY DEF LookUp, Send, Process, ActorReturns, MonitorReturns, StopCancels,
       mapVars, bookVars, actorVars
  <1> QED BY <1>1, QuietInv DEF SupervisorInv, Numbered, Mapped, WaitsMade

\* A backoff goroutine that the cancelled context ends.
LEMMA WaitCancelledInv ==
  ASSUME SupervisorInv, NEW m \in Managed, WaitCancelled(m) PROVE SupervisorInv'
  <1> USE DEF SupervisorInv
  <1>1. UNCHANGED <<actors, made, current, running, quarantined>>
    BY DEF WaitCancelled, mapVars, actorVars
  <1>2. PICK d \in Delays : waits[m][d] > 0 /\ Waited(m, d)
    BY DEF WaitCancelled
  <1>3. WaitsMade'
    BY <1>1, <1>2, WaitedInv DEF WaitsMade
  <1> QED BY <1>1, <1>3, QuietInv DEF Numbered, Mapped

LEMMA SupervisorStepInv == SupervisorInv /\ [Next]_vars => SupervisorInv'
  <1> SUFFICES ASSUME SupervisorInv, [Next]_vars PROVE SupervisorInv'
    OBVIOUS
  <1>1. CASE \E s \in Signals : Deliver(s) \/ Process(s)
    BY <1>1, CreateInv, OtherInv DEF Deliver
  <1>2. CASE \E a \in Actors : ActorReturns(a) \/ ActorStop(a)
    BY <1>2, OtherInv, StopsInv
  <1>3. CASE \E m \in Managed : Restart(m) \/ WaitCancelled(m)
    BY <1>3, RestartInv, WaitCancelledInv
  <1>4. CASE \E t \in Tenants : ReleaseQuarantine(t)
    BY <1>4, ReleaseInv
  <1>5. CASE Sweep \/ MonitorReturns \/ Tick \/ StopCancels \/ StopActors
    BY <1>5, SweepInv, OtherInv, TickInv, StopsInv
  <1>6. CASE UNCHANGED vars
    BY <1>6, QuietInv DEF vars, mapVars, bookVars, actorVars, SupervisorInv, Numbered,
       Mapped, WaitsMade
  <1> QED BY <1>1, <1>2, <1>3, <1>4, <1>5, <1>6 DEF Next, Step

\* The supervisor's inductive invariant holds of every behaviour.
THEOREM SupervisorInvariance == Spec => []SupervisorInv
  <1>1. Init => SupervisorInv
    <2> SUFFICES ASSUME Init PROVE SupervisorInv
      OBVIOUS
    <2>1. running \in [Actors -> BOOLEAN] /\ quarantined \in [Managed -> BOOLEAN]
      BY Zenon DEF Init
    <2>2. (\A a \in Actors : ~running[a]) /\ \A m \in Managed : ~quarantined[m]
      BY Zenon DEF Init
    <2>3. /\ made = [m |-> 0, a |-> 0] /\ actors = [t \in Tenants |-> 0]
          /\ current = [m \in Managed |-> 0]
          /\ waits = [m \in Managed |-> [d \in Delays |-> 0]]
      BY Zenon DEF Init, None
    <2>4. Numbered
      BY <2>1, <2>2, <2>3, SupervisorAssumption DEF Numbered, Mapped, Managed, None
    <2>5. WaitsMade
      BY <2>3 DEF WaitsMade
    <2>6. OnlyCurrentRuns /\ QuarantinedStaysDown
      BY <2>2 DEF OnlyCurrentRuns, QuarantinedStaysDown
    <2> QED BY <2>4, <2>5, <2>6 DEF SupervisorInv
  <1> QED BY <1>1, SupervisorStepInv, PTL DEF Spec

\* However many sweeps have counted the same stopped actor and whatever the
\* order in which their backoff goroutines end, no restart leaves a running
\* actor that its managedActor does not point to.
THEOREM RestartsLeaveNoActor == Spec => []OnlyCurrentRuns
  <1>1. SupervisorInv => OnlyCurrentRuns
    BY DEF SupervisorInv
  <1> QED BY <1>1, SupervisorInvariance, PTL

\* No backoff goroutine brings a quarantined actor back.
THEOREM QuarantineHolds == Spec => []QuarantinedStaysDown
  <1>1. SupervisorInv => QuarantinedStaysDown
    BY DEF SupervisorInv
  <1> QED BY <1>1, SupervisorInvariance, PTL

-----------------------------------------------------------------------------
(* The restart history. *)

\* A set of naturals that is not empty has a least element.
LEMMA LeastNat ==
  ASSUME NEW T \in SUBSET Nat, T # {}
  PROVE  \E x \in T : \A y \in T : x <= y
  <1> DEFINE R == {p \in Nat \X Nat : p[1] < p[2]}
  <1>1. IsWellFoundedOn(R, Nat)
    <2>1. IsWellFoundedOn(OpToRel(<,Nat), Nat)
      BY NatLessThanWellFounded
    <2>2. R \cap (Nat \X Nat) \subseteq OpToRel(<,Nat)
      BY DEF OpToRel
    <2> HIDE DEF R
    <2> QED BY <2>1, <2>2, IsWellFoundedOnSubrelation
  <1>2. \E x \in T : \A y \in T : ~(<<y, x>> \in R)
    <2> HIDE DEF R
    <2> QED BY <1>1, WFMin
  <1>3. PICK x \in T : \A y \in T : ~(<<y, x>> \in R)
    BY <1>2
  <1>4. ASSUME NEW y \in T PROVE x <= y
    <2>1. ~(<<y, x>> \in R) /\ x \in Nat /\ y \in Nat
      BY <1>3
    <2>2. ~(y < x)
      BY <2>1
    <2> QED BY <2>1, <2>2
  <1> QED BY <1>4

\* What trimBefore leaves of a history that is in order: its end, all of it
\* within the window.
LEMMA TrimFacts ==
  ASSUME NEW ages \in Seq(0..RestartWindow + 1), Ordered(ages)
  PROVE  /\ trimBefore(ages) \in Seq(0..RestartWindow + 1) /\ Ordered(trimBefore(ages))
         /\ Len(trimBefore(ages)) <= Len(ages)
         /\ \A i \in DOMAIN trimBefore(ages) : trimBefore(ages)[i] <= RestartWindow
  <1> USE SupervisorAssumption
  <1> DEFINE fresh == {i \in DOMAIN ages : ages[i] <= RestartWindow}
             first == CHOOSE i \in fresh : \A j \in fresh : i <= j
             kept == SubSeq(ages, first, Len(ages))
  <1>1. CASE fresh = {}
    <2>1. trimBefore(ages) = <<>>
      BY <1>1 DEF trimBefore
    <2> QED BY <2>1 DEF Ordered
  <1>2. CASE fresh # {}
    <2>1. trimBefore(ages) = kept
      BY <1>2 DEF trimBefore
    <2>2. fresh \in SUBSET Nat
      OBVIOUS
    <2>3. \E i \in fresh : \A j \in fresh : i <= j
      <3> HIDE DEF fresh
      <3> QED BY <1>2, <2>2, LeastNat
    <2>4. first \in fresh
      BY <2>3
    <2>5. first \in 1..Len(ages) /\ ages[first] <= RestartWindow /\ Len(ages) \in Nat
      BY <2>4
    <2> HIDE DEF first
    <2>6. /\ kept \in Seq(0..RestartWindow + 1) /\ Len(kept) = Len(ages) - first + 1
          /\ DOMAIN kept = 1..Len(ages) - first + 1
          /\ \A i \in 1..Len(ages) - first + 1 : kept[i] = ages[first + i - 1]
      BY <2>5
    <2>7. \A i \in DOMAIN kept : first + i - 1 \in 1..Len(ages) /\ first <= first + i - 1
      BY <2>5, <2>6
    <2>8. ASSUME NEW i \in DOMAIN kept PROVE kept[i] <= RestartWindow
      <3>1. first \in DOMAIN ages /\ first + i - 1 \in DOMAIN ages
        BY <2>5, <2>7
      <3>2. ages[first + i - 1] <= ages[first]
        BY <2>7, <3>1 DEF Ordered
      <3>3. ages[first] \in Nat /\ ages[first + i - 1] \in Nat
        BY <3>1
      <3> QED BY <2>5, <2>6, <3>2, <3>3
    <2>9. ASSUME NEW i \in DOMAIN kept, NEW j \in DOMAIN kept, i <= j
          PROVE  kept[j] <= kept[i]
      <3>1. first + i - 1 \in DOMAIN ages /\ first + j - 1 \in DOMAIN ages
        BY <2>7
      <3>2. first + i - 1 <= first + j - 1
        BY <2>5, <2>6, <2>9
      <3> QED BY <2>6, <3>1, <3>2 DEF Ordered
    <2>10. Ordered(kept)
      BY <2>9 DEF Ordered
    <2> QED BY <2>1, <2>5, <2>6, <2>8, <2>10
  <1> QED BY <1>1, <1>2

LEMMA CountedFacts ==
  ASSUME NEW m \in Managed, Histories
  PROVE  /\ Counted(m) \in Seq(0..RestartWindow + 1) /\ Ordered(Counted(m))
         /\ Len(Counted(m)) <= Len(restarts[m]) + 1
         /\ \A i \in DOMAIN Counted(m) : Counted(m)[i] <= RestartWindow
  <1> USE SupervisorAssumption
  <1> DEFINE t == trimBefore(restarts[m])
  <1>1. restarts[m] \in Seq(0..RestartWindow + 1) /\ Ordered(restarts[m])
    BY DEF Histories
  <1>2. /\ t \in Seq(0..RestartWindow + 1) /\ Ordered(t) /\ Len(t) <= Len(restarts[m])
        /\ \A i \in DOMAIN t : t[i] <= RestartWindow
    BY <1>1, TrimFacts
  <1> HIDE DEF t
  <1>3. /\ Append(t, 0) \in Seq(0..RestartWindow + 1) /\ Len(Append(t, 0)) = Len(t) + 1
        /\ DOMAIN Append(t, 0) = 1..Len(t) + 1 /\ Append(t, 0)[Len(t) + 1] = 0
        /\ DOMAIN t = 1..Len(t) /\ Len(t) \in Nat /\ Len(restarts[m]) \in Nat
        /\ \A i \in 1..Len(t) : Append(t, 0)[i] = t[i] /\ t[i] \in Nat
    BY <1>1, <1>2
  <1>4. \A i \in DOMAIN Append(t, 0) : Append(t, 0)[i] <= RestartWindow
    BY <1>2, <1>3
  <1>5. Ordered(Append(t, 0))
    <2> SUFFICES ASSUME NEW i \in 1..Len(t) + 1, NEW j \in 1..Len(t) + 1, i <= j
                 PROVE  Append(t, 0)[j] <= Append(t, 0)[i]
      BY <1>3 DEF Ordered
    <2>1. CASE j = Len(t) + 1
      BY <1>3, <2>1
    <2>2. CASE j # Len(t) + 1
      <3>1. i \in 1..Len(t) /\ j \in 1..Len(t)
        BY <1>3, <2>2
      <3> QED BY <1>2, <1>3, <3>1 DEF Ordered
    <2> QED BY <2>1, <2>2
  <1>6. Counted(m) = Append(t, 0)
    BY DEF Counted, t
  <1> QED BY <1>2, <1>3, <1>4, <1>5, <1>6

\* Time makes a history older and keeps it in order.
LEMMA OlderFacts ==
  ASSUME NEW ages \in Seq(0..RestartWindow + 1), Ordered(ages)
  PROVE  /\ Older(ages) \in Seq(0..RestartWindow + 1) /\ Ordered(Older(ages))
         /\ Len(Older(ages)) = Len(ages)
  <1> USE SupervisorAssumption
  <1> DEFINE old == [i \in 1..Len(ages) |->
                       IF ages[i] <= RestartWindow THEN ages[i] + 1 ELSE ages[i]]
  <1>1. Older(ages) = old /\ DOMAIN ages = 1..Len(ages) /\ Len(ages) \in Nat
    BY DEF Older
  <1>2. \A i \in 1..Len(ages) : ages[i] \in 0..RestartWindow + 1
    OBVIOUS
  <1>3. \A i \in 1..Len(ages) : old[i] \in 0..RestartWindow + 1
    BY <1>2
  <1>4. old \in Seq(0..RestartWindow + 1) /\ Len(old) = Len(ages) /\ DOMAIN old = 1..Len(ages)
    BY <1>1, <1>3
  <1>5. ASSUME NEW i \in 1..Len(ages), NEW j \in 1..Len(ages), i <= j
        PROVE  old[j] <= old[i]
    <2>1. ages[j] <= ages[i]
      BY <1>1, <1>5 DEF Ordered
    <2> QED BY <1>2, <2>1
  <1> HIDE DEF old
  <1> QED BY <1>1, <1>4, <1>5 DEF Ordered

\* A step that leaves the books of every managedActor alone, or clears one.
LEMMA HistoryKept ==
  ASSUME HistoryInv, UNCHANGED <<restarts, quarantined>>
  PROVE  HistoryInv'
  BY DEF HistoryInv, Histories, QuarantinedInWindow

LEMMA SweepHistory == ASSUME SupervisorInv, HistoryInv, Sweep PROVE HistoryInv'
  <1> USE SupervisorAssumption DEF HistoryInv
  <1>1. /\ restarts' = [m \in Managed |-> CASE m \in Down -> Counted(m)
                                            [] m \in Swept \ Down -> trimBefore(restarts[m])
                                            [] OTHER -> restarts[m]]
        /\ quarantined' = [m \in Managed |-> quarantined[m] \/ m \in Flooded]
    BY DEF Sweep
  <1>2. Down \subseteq Swept /\ Flooded \subseteq Down
    BY DEF Down, Flooded
  <1>3. ASSUME NEW m \in Managed
        PROVE  /\ restarts'[m] \in Seq(0..RestartWindow + 1) /\ Ordered(restarts'[m])
               /\ ~quarantined'[m] => Len(restarts'[m]) <= MaxRestarts
               /\ quarantined'[m] => /\ Len(restarts'[m]) = MaxRestarts + 1
                                     /\ \A i \in DOMAIN restarts'[m] : restarts'[m][i] <= RestartWindow
    <2>0. restarts[m] \in Seq(0..RestartWindow + 1) /\ Ordered(restarts[m])
      BY DEF Histories
    <2>1. quarantined'[m] <=> quarantined[m] \/ m \in Flooded
      BY <1>1
    <2>2. CASE m \in Down
      <3>1. restarts'[m] = Counted(m)
        BY <1>1, <2>2
      <3>2. ~quarantined[m]
        BY <2>2 DEF Down, Swept
      <3>3. Len(restarts[m]) <= MaxRestarts
        BY <3>2 DEF Histories
      <3>4. /\ Counted(m) \in Seq(0..RestartWindow + 1) /\ Ordered(Counted(m))
            /\ Len(Counted(m)) <= Len(restarts[m]) + 1
            /\ \A i \in DOMAIN Counted(m) : Counted(m)[i] <= RestartWindow
        BY CountedFacts
      <3>5. m \in Flooded <=> Len(Counted(m)) > MaxRestarts
        BY <2>2 DEF Flooded
      <3>6. Len(Counted(m)) \in Nat /\ Len(restarts[m]) \in Nat
        BY <2>0, <3>4
      <3> QED BY <2>1, <3>1, <3>2, <3>3, <3>4, <3>5, <3>6
    <2>3. CASE m \in Swept \ Down
      <3>1. restarts'[m] = trimBefore(restarts[m])
        BY <1>1, <2>3
      <3>2. ~quarantined[m] /\ m \notin Flooded
        BY <1>2, <2>3 DEF Swept
      <3>3. Len(restarts[m]) <= MaxRestarts
        BY <3>2 DEF Histories
      <3>4. /\ trimBefore(restarts[m]) \in Seq(0..RestartWindow + 1)
            /\ Ordered(trimBefore(restarts[m]))
            /\ Len(trimBefore(restarts[m])) <= Len(restarts[m])
        BY <2>0, TrimFacts
      <3>5. Len(trimBefore(restarts[m])) \in Nat /\ Len(restarts[m]) \in Nat
        BY <2>0, <3>4
      <3> QED BY <2>1, <3>1, <3>2, <3>3, <3>4, <3>5
    <2>4. CASE m \notin Swept
      <3>1. restarts'[m] = restarts[m] /\ quarantined'[m] = quarantined[m]
        <4>1. restarts'[m] = restarts[m]
          BY <1>1, <1>2, <2>4
        <4>2. quarantined[m] \in BOOLEAN
          BY DEF SupervisorInv, Numbered
        <4> QED BY <1>2, <2>1, <2>4, <4>1, <4>2, <1>1
      <3> QED BY <2>0, <3>1 DEF Histories, QuarantinedInWindow
    <2> QED BY <2>2, <2>3, <2>4
  <1>4. restarts' \in [Managed -> Seq(0..RestartWindow + 1)]
    <2>1. restarts' = [m \in Managed |-> restarts'[m]]
      BY <1>1
    <2> QED BY <1>3, <2>1
  <1> QED BY <1>3, <1>4 DEF Histories, QuarantinedInWindow

LEMMA TickHistory == ASSUME HistoryInv, Tick PROVE HistoryInv'
  <1> USE DEF HistoryInv
  <1>1. /\ restarts' = [m \in Managed |-> IF m \in Swept THEN Older(restarts[m]) ELSE restarts[m]]
        /\ UNCHANGED quarantined
    BY DEF Tick
  <1>2. ASSUME NEW m \in Managed
        PROVE  /\ restarts'[m] \in Seq(0..RestartWindow + 1) /\ Ordered(restarts'[m])
               /\ Len(restarts'[m]) = Len(restarts[m])
               /\ quarantined[m] => restarts'[m] = restarts[m]
    <2>0. restarts[m] \in Seq(0..RestartWindow + 1) /\ Ordered(restarts[m])
      BY DEF Histories
    <2>1. /\ Older(restarts[m]) \in Seq(0..RestartWindow + 1) /\ Ordered(Older(restarts[m]))
          /\ Len(Older(restarts[m])) = Len(restarts[m])
      BY <2>0, OlderFacts
    <2>2. quarantined[m] => m \notin Swept
      BY DEF Swept
    <2> QED BY <1>1, <2>0, <2>1, <2>2
  <1>3. restarts' \in [Managed -> Seq(0..RestartWindow + 1)]
    <2>1. restarts' = [m \in Managed |-> restarts'[m]]
      BY <1>1
    <2> QED BY <1>2, <2>1
  <1> QED BY <1>1, <1>2, <1>3 DEF Histories, QuarantinedInWindow

LEMMA ReleaseHistory ==
  ASSUME SupervisorInv, HistoryInv, NEW t \in Tenants, ReleaseQuarantine(t) PROVE HistoryInv'
  <1> USE SupervisorAssumption DEF HistoryInv
  <1> DEFINE n == actors[t]
  <1>1. /\ n \in Managed /\ quarantined' = [quarantined EXCEPT ![n] = FALSE]
        /\ restarts' = [restarts EXCEPT ![n] = <<>>]
    BY DEF ReleaseQuarantine, SupervisorInv, Numbered, Mapped, Managed, None
  <1> HIDE DEF n
  <1>2. <<>> \in Seq(0..RestartWindow + 1) /\ Ordered(<<>>) /\ Len(<<>>) <= MaxRestarts
    BY DEF Ordered
  <1>3. /\ restarts' \in [Managed -> Seq(0..RestartWindow + 1)]
        /\ \A m \in Managed : restarts'[m] = IF m = n THEN <<>> ELSE restarts[m]
    BY <1>1, <1>2 DEF Histories
  <1>4. \A m \in Managed : quarantined'[m] = IF m = n THEN FALSE ELSE quarantined[m]
    BY <1>1 DEF SupervisorInv, Numbered
  <1> QED BY <1>2, <1>3, <1>4 DEF Histories, QuarantinedInWindow

LEMMA HistoryStep == SupervisorInv /\ HistoryInv /\ [Next]_vars => HistoryInv'
  <1> SUFFICES ASSUME SupervisorInv, HistoryInv, [Next]_vars PROVE HistoryInv'
    OBVIOUS
  <1> USE DEF bookVars
  <1>1. CASE \E s \in Signals : Deliver(s) \/ Process(s)
    BY <1>1, HistoryKept DEF Deliver, LookUp, Create, Send, Process
  <1>2. CASE \E a \in Actors : ActorReturns(a) \/ ActorStop(a)
    BY <1>2, HistoryKept DEF ActorReturns, ActorStop
  <1>3. CASE \E m \in Managed : Restart(m) \/ WaitCancelled(m)
    BY <1>3, HistoryKept DEF Restart, WaitCancelled
  <1>4. CASE \E t \in Tenants : ReleaseQuarantine(t)
    BY <1>4, ReleaseHistory
  <1>5. CASE Sweep \/ Tick
    BY <1>5, SweepHistory, TickHistory
  <1>6. CASE MonitorReturns \/ StopCancels \/ StopActors \/ UNCHANGED vars
    BY <1>6, HistoryKept DEF MonitorReturns, StopCancels, StopActors, vars
  <1> QED BY <1>1, <1>2, <1>3, <1>4, <1>5, <1>6 DEF Next, Step

\* A quarantine is never for restarts that are spread over more than one window,
\* however late the sweeps come, and never for fewer than MaxRestarts + 1.
THEOREM QuarantineWithinWindow == Spec => []QuarantinedInWindow
  <1>1. Init => HistoryInv
    <2> SUFFICES ASSUME Init PROVE HistoryInv
      OBVIOUS
    <2>1. (\A m \in Managed : ~quarantined[m]) /\ restarts = [m \in Managed |-> <<>>]
      BY Zenon DEF Init
    <2>2. <<>> \in Seq(0..RestartWindow + 1) /\ Ordered(<<>>) /\ Len(<<>>) <= MaxRestarts
      BY SupervisorAssumption DEF Ordered
    <2> QED BY <2>1, <2>2 DEF HistoryInv, Histories, QuarantinedInWindow
  <1>2. HistoryInv => QuarantinedInWindow
    BY DEF HistoryInv
  <1> QED BY <1>1, <1>2, HistoryStep, SupervisorInvariance, PTL DEF Spec

-----------------------------------------------------------------------------
(* Inboxes. *)

\* Where a signal may go keeps the signals' places well typed.
LEMMA GoesFacts ==
  ASSUME SignalsPlaced, NEW s \in Signals, NEW where \in 0..MaxManaged \cup 0..MaxActors,
         NEW state \in {"new", "found", "queued", "processed", "dropped", "spilled", "panicked"},
         Goes(s, state, where)
  PROVE  /\ pc' \in [Signals -> {"new", "found", "queued", "processed", "dropped", "spilled",
                                 "panicked"}]
         /\ at' \in [Signals -> 0..MaxManaged \cup 0..MaxActors]
         /\ \A r \in Signals : /\ pc'[r] = IF r = s THEN state ELSE pc[r]
                               /\ at'[r] = IF r = s THEN where ELSE at[r]
  BY DEF Goes, SignalsPlaced

\* The ways of a signal, with what the inbox and the routing invariants need.
LEMMA SignalMoves ==
  ASSUME SupervisorInv, SignalsPlaced, RoutedToMade, NEW s \in Signals, Deliver(s) \/ Process(s)
  PROVE  \E state \in {"found", "queued", "processed", "dropped", "spilled", "panicked"},
            where \in 0..MaxManaged \cup 0..MaxActors :
           /\ Goes(s, state, where) /\ pc[s] \in {"new", "found", "queued"}
           /\ state = "found" => where \in Managed /\ where <= made'.m
           /\ state = "queued" => where \in Actors /\ running[where]
           /\ UNCHANGED <<stopping, crashes>>
  <1> USE SupervisorAssumption DEF SupervisorInv
  <1> DEFINE Places == 0..MaxManaged \cup 0..MaxActors
  <1>0. None \in Places /\ made.m \in 0..MaxManaged /\ made.a \in 0..MaxActors
    BY DEF None, Numbered
  <1>1. CASE LookUp(s)
    <2> DEFINE m == actors[TenantOf[s]]
    <2>1. m # None /\ pc[s] = "new" /\ UNCHANGED <<made, stopping, crashes>>
      BY <1>1 DEF LookUp, mapVars
    <2>2. m \in Managed /\ m <= made.m /\ m \in Places
      BY <2>1 DEF Numbered, Mapped, Managed, None
    <2>3. CASE ~quarantined[m]
      <3>1. Goes(s, "found", m)
        BY <1>1, <2>3 DEF LookUp
      <3> QED BY <2>1, <2>2, <3>1
    <2>4. CASE quarantined[m]
      <3>1. Goes(s, "dropped", None) \/ Goes(s, "panicked", None)
        BY <1>1, <2>4 DEF LookUp
      <3> QED BY <1>0, <2>1, <2>2, <2>4, <3>1
    <2> QED BY <2>3, <2>4
  <1>2. CASE Create(s)
    <2>1. /\ pc[s] = "new" /\ made.m + 1 \in Managed /\ Goes(s, "found", made.m + 1)
          /\ made'.m = made.m + 1 /\ UNCHANGED <<stopping, crashes>>
      BY <1>2 DEF Create
    <2>2. made.m + 1 \in Places
      BY <2>1 DEF Managed
    <2> QED BY <2>1, <2>2, <1>0
  <1>3. CASE Send(s)
    <2> DEFINE a == current[at[s]]
    <2>1. pc[s] = "found" /\ UNCHANGED <<made, stopping, crashes>>
      BY <1>3 DEF Send, mapVars
    <2>2. at[s] \in Managed /\ at[s] <= made.m
      BY <2>1 DEF RoutedToMade
    <2>3. a \in Actors /\ a # None /\ a \in Places
      BY <1>0, <2>2 DEF Numbered, Managed, Actors, None
    <2>4. \/ ~running[a] /\ Goes(s, "panicked", a)
          \/ running[a] /\ Goes(s, "queued", a)
          \/ Goes(s, "dropped", None)
          \/ Goes(s, "spilled", None)
      BY <1>3 DEF Send
    <2>5. ~running[a] => ~IsRunning(at[s])
      BY DEF IsRunning
    <2> QED BY <1>0, <2>1, <2>2, <2>3, <2>4, <2>5
  <1>4. CASE Process(s)
    <2>1. Goes(s, "processed", None) /\ pc[s] = "queued" /\ UNCHANGED <<stopping, crashes>>
      BY <1>4 DEF Process
    <2> QED BY <1>0, <2>1
  <1> QED BY <1>1, <1>2, <1>3, <1>4 DEF Deliver

\* Only getOrCreate and restartActor start a goroutine, in an actor that is new.
LEMMA StartedLoops ==
  ASSUME LoopsTyped, NEW m, StartActor(m)
  PROVE  LoopsTyped' /\ \A a \in Actors : loop'[a] = loop[a] \/ loop'[a] = "run"
  BY DEF LoopsTyped, StartActor

\* A signal goes to an inbox that is open; and the one that leaves an inbox
\* leaves no other signal behind that was not there.
LEMMA DeliverInbox ==
  ASSUME SupervisorInv, InboxInv, RoutedToMade, NEW s \in Signals, Deliver(s) \/ Process(s)
  PROVE  InboxInv'
  <1> USE SupervisorAssumption DEF InboxInv
  <1>1. PICK state \in {"found", "queued", "processed", "dropped", "spilled", "panicked"},
             where \in 0..MaxManaged \cup 0..MaxActors :
           /\ Goes(s, state, where)
           /\ state = "queued" => where \in Actors /\ running[where]
           /\ UNCHANGED <<stopping, crashes>>
    BY SignalMoves
  <1>2. /\ SignalsPlaced'
        /\ \A r \in Signals : /\ pc'[r] = IF r = s THEN state ELSE pc[r]
                              /\ at'[r] = IF r = s THEN where ELSE at[r]
    BY <1>1, GoesFacts DEF SignalsPlaced
  <1>3. /\ LoopsTyped'
        /\ \A a \in Actors : loop'[a] = "ended" => loop[a] = "ended" /\ running'[a] = running[a]
    <2>1. CASE LookUp(s) \/ Send(s) \/ Process(s)
      BY <2>1 DEF LookUp, Send, Process, actorVars, LoopsTyped
    <2>2. CASE Create(s)
      <3>1. StartActor(made.m + 1)
        BY <2>2 DEF Create
      <3>2. running' = [running EXCEPT ![made.a + 1] = TRUE] /\ loop' = [loop EXCEPT ![made.a + 1] = "run"]
        BY <3>1 DEF StartActor
      <3> QED BY <3>1, <3>2, StartedLoops DEF LoopsTyped, SupervisorInv, Numbered
    <2> QED BY <2>1, <2>2 DEF Deliver
  <1>4. EndedIsClosed'
    BY <1>1, <1>3 DEF EndedIsClosed, Cancelled
  <1>5. NothingStranded'
    <2> SUFFICES ASSUME NEW a \in Actors, loop'[a] = "ended", ~Cancelled', NEW r \in Mailbox(a)'
                 PROVE  FALSE
      BY DEF NothingStranded
    <2>1. loop[a] = "ended" /\ ~Cancelled /\ ~running[a]
      BY <1>1, <1>3 DEF Cancelled, EndedIsClosed
    <2>2. Mailbox(a) = {}
      BY <2>1 DEF NothingStranded
    <2>3. r \in Signals /\ pc'[r] = "queued" /\ at'[r] = a
      BY DEF Mailbox
    <2>4. CASE r = s
      BY <1>1, <1>2, <2>1, <2>3, <2>4
    <2>5. CASE r # s
      BY <1>2, <2>2, <2>3, <2>5 DEF Mailbox
    <2> QED BY <2>4, <2>5
  <1> QED BY <1>2, <1>3, <1>4, <1>5

\* The steps that move no signal.
LEMMA StillInbox ==
  ASSUME SupervisorInv, InboxInv, UNCHANGED <<pc, at>>, LoopsTyped',
         crashes' \in Nat, stopping' \in {"no", "cancelled", "stopped"}, Cancelled => Cancelled',
         \A a \in Actors : loop'[a] = "ended" /\ ~Cancelled' =>
                              ~running'[a] /\ (loop[a] = "ended" \/ Mailbox(a) = {})
  PROVE  InboxInv'
  <1> USE DEF InboxInv
  <1>1. \A a \in Actors : Mailbox(a)' = Mailbox(a)
    BY DEF Mailbox
  <1> QED BY <1>1 DEF SignalsPlaced, EndedIsClosed, NothingStranded

LEMMA InboxStep ==
  ASSUME SupervisorInv, InboxInv, RoutedToMade, [Next]_vars PROVE InboxInv'
  <1>0. LoopsTyped /\ SignalsPlaced /\ EndedIsClosed /\ running \in [Actors -> BOOLEAN]
    BY DEF InboxInv, SupervisorInv, Numbered
  <1>1. CASE \E s \in Signals : Deliver(s) \/ Process(s)
    BY <1>1, DeliverInbox
  <1>2. ASSUME NEW a \in Actors, ActorReturns(a) PROVE InboxInv'
    <2>1. /\ loop' = [loop EXCEPT ![a] = "ended"] /\ (InboxClosed(a) \/ ContextDone(a))
          /\ UNCHANGED <<running, pc, at, stopping, crashes>>
      BY <1>2 DEF ActorReturns, signalVars
    <2>2. LoopsTyped' /\ \A b \in Actors : loop'[b] = IF b = a THEN "ended" ELSE loop[b]
      BY <1>0, <2>1 DEF LoopsTyped
    <2>3. \A b \in Actors : loop'[b] = "ended" /\ ~Cancelled' =>
                              ~running'[b] /\ (loop[b] = "ended" \/ Mailbox(b) = {})
      BY <1>0, <2>1, <2>2 DEF InboxClosed, ContextDone, Cancelled, EndedIsClosed
    <2> QED BY <1>0, <2>1, <2>2, <2>3, StillInbox DEF SignalsPlaced, Cancelled
  <1>3. ASSUME NEW a \in Actors, ActorStop(a) PROVE InboxInv'
    <2>1. /\ UNCHANGED <<loop, pc, at, stopping>> /\ crashes' = crashes + 1
          /\ running' = [running EXCEPT ![a] = FALSE]
      BY <1>3 DEF ActorStop, signalVars
    <2>2. \A b \in Actors : running'[b] => running[b]
      BY <1>0, <2>1
    <2> QED BY <1>0, <2>1, <2>2, StillInbox DEF SignalsPlaced, LoopsTyped, Cancelled, EndedIsClosed
  <1>4. ASSUME NEW m \in Managed, Restart(m) PROVE InboxInv'
    <2>1. UNCHANGED <<pc, at, stopping, crashes>>
      BY <1>4 DEF Restart, signalVars
    <2>2. CASE Due(m)
      <3>1. StartActor(m)
        BY <1>4, <2>2 DEF Restart
      <3>2. LoopsTyped'
        BY <1>0, <3>1, StartedLoops
      <3>3. \A b \in Actors : loop'[b] = "ended" => loop[b] = "ended" /\ running'[b] = running[b]
        BY <1>0, <3>1 DEF StartActor, LoopsTyped
      <3> QED BY <1>0, <2>1, <3>2, <3>3, StillInbox DEF SignalsPlaced, Cancelled, EndedIsClosed
    <2>3. CASE ~Due(m)
      <3>1. UNCHANGED <<running, loop>>
        BY <1>4, <2>3 DEF Restart, actorVars
      <3> QED BY <1>0, <2>1, <3>1, StillInbox DEF SignalsPlaced, Cancelled, EndedIsClosed, LoopsTyped
    <2> QED BY <2>2, <2>3
  <1>5. CASE \/ \E m \in Managed : WaitCancelled(m)
             \/ \E t \in Tenants : ReleaseQuarantine(t)
             \/ Sweep \/ MonitorReturns \/ Tick \/ UNCHANGED vars
    <2>1. UNCHANGED <<pc, at, running, loop, stopping, crashes>>
      BY <1>5 DEF WaitCancelled, ReleaseQuarantine, Sweep, MonitorReturns, Tick, vars,
         actorVars, signalVars
    <2> QED BY <1>0, <2>1, StillInbox DEF SignalsPlaced, Cancelled, EndedIsClosed, LoopsTyped
  <1>6. CASE StopCancels \/ StopActors
    <2>1. UNCHANGED <<pc, at, loop, crashes>> /\ stopping' \in {"cancelled", "stopped"}
      BY <1>6 DEF StopCancels, StopActors, actorVars, signalVars
    <2> QED BY <1>0, <2>1, StillInbox DEF SignalsPlaced, Cancelled, LoopsTyped
  <1> QED BY <1>1, <1>2, <1>3, <1>4, <1>5, <1>6 DEF Next, Step

-----------------------------------------------------------------------------
(* Routers. *)

\* A router holds a managedActor that was made, whatever is made, restarted or
\* released while it holds it.
LEMMA RoutedStep ==
  ASSUME SupervisorInv, SignalsPlaced, RoutedToMade, [Next]_vars PROVE RoutedToMade'
  <1> USE SupervisorAssumption DEF SupervisorInv
  <1>1. CASE \E s \in Signals : Deliver(s) \/ Process(s)
    <2>1. PICK s \in Signals : Deliver(s) \/ Process(s)
      BY <1>1
    <2>2. PICK state \in {"found", "queued", "processed", "dropped", "spilled", "panicked"},
               where \in 0..MaxManaged \cup 0..MaxActors :
             /\ Goes(s, state, where)
             /\ state = "found" => where \in Managed /\ where <= made'.m
      BY <2>1, SignalMoves
    <2>3. \A r \in Signals : /\ pc'[r] = IF r = s THEN state ELSE pc[r]
                             /\ at'[r] = IF r = s THEN where ELSE at[r]
      BY <2>2, GoesFacts
    <2>4. made.m \in Nat /\ made'.m \in Nat /\ made.m <= made'.m
      <3>1. CASE LookUp(s) \/ Send(s) \/ Process(s)
        BY <3>1 DEF LookUp, Send, Process, mapVars, Numbered
      <3>2. CASE Create(s)
        BY <3>2 DEF Create, Numbered
      <3> QED BY <2>1, <3>1, <3>2 DEF Deliver
    <2> SUFFICES ASSUME NEW r \in Signals, pc'[r] = "found"
                 PROVE  at'[r] \in Managed /\ at'[r] <= made'.m
      BY DEF RoutedToMade
    <2>5. CASE r = s
      BY <2>2, <2>3, <2>5
    <2>6. CASE r # s
      <3>1. at[r] \in Managed /\ at[r] <= made.m /\ at'[r] = at[r]
        BY <2>3, <2>6 DEF RoutedToMade
      <3>2. at[r] \in Nat
        BY <3>1 DEF Managed
      <3> QED BY <2>4, <3>1, <3>2
    <2> QED BY <2>5, <2>6
  <1>2. ASSUME NEW m \in Managed, Restart(m) PROVE RoutedToMade'
    <2>1. UNCHANGED <<pc, at>> /\ made'.m = made.m
      BY <1>2 DEF Restart, signalVars, Numbered
    <2> QED BY <2>1 DEF RoutedToMade
  <1>3. CASE UNCHANGED <<pc, at, made>>
    BY <1>3 DEF RoutedToMade
  <1>4. CASE \/ UNCHANGED vars
             \/ \E a \in Actors : ActorReturns(a) \/ ActorStop(a)
             \/ \E m \in Managed : WaitCancelled(m)
             \/ \E t \in Tenants : ReleaseQuarantine(t)
             \/ Sweep \/ MonitorReturns \/ Tick \/ StopCancels \/ StopActors
    BY <1>3, <1>4 DEF vars, ActorReturns, ActorStop, WaitCancelled, ReleaseQuarantine, Sweep,
       MonitorReturns, Tick, StopCancels, StopActors, mapVars, signalVars
  <1> QED BY <1>1, <1>2, <1>4 DEF Next, Step

LEMMA DeliveryInvariance == Spec => [](InboxInv /\ RoutedToMade)
  <1>1. Init => InboxInv /\ RoutedToMade
    <2> SUFFICES ASSUME Init PROVE InboxInv /\ RoutedToMade
      OBVIOUS
    <2>1. /\ pc = [s \in Signals |-> "new"] /\ at = [s \in Signals |-> 0]
          /\ loop = [a \in Actors |-> "none"] /\ stopping = "no" /\ crashes = 0
      BY DEF Init, None
    <2>2. SignalsPlaced /\ LoopsTyped
      BY <2>1, SupervisorAssumption DEF SignalsPlaced, LoopsTyped
    <2>3. EndedIsClosed /\ NothingStranded /\ RoutedToMade
      BY <2>1 DEF EndedIsClosed, NothingStranded, RoutedToMade
    <2> QED BY <2>2, <2>3 DEF InboxInv
  <1>2. SupervisorInv /\ (InboxInv /\ RoutedToMade) /\ [Next]_vars
          => (InboxInv /\ RoutedToMade)'
    BY InboxStep, RoutedStep DEF InboxInv
  <1> QED BY <1>1, <1>2, SupervisorInvariance, PTL DEF Spec

\* Stopping and replacing an actor abandons no signal that its inbox accepted:
\* the old goroutine empties the inbox before it returns.
THEOREM InboxesDrained == Spec => []NothingStranded
  <1>1. InboxInv /\ RoutedToMade => NothingStranded
    BY DEF InboxInv
  <1> QED BY <1>1, DeliveryInvariance, PTL
=============================================================================
