---------------------------- MODULE EngineProofs ----------------------------
(* The engine for every set of signals, number of workers and buffer size: no
   accepted signal is lost before the shutdown, nothing reaches the storage
   that the WAL does not hold, and Stop leaves nothing running behind it. First
   the storage backend by itself: it never has a signal in two places, and its
   buffer never reaches BatchSize, for every set of signals and writers. *)
EXTENDS Engine, FiniteSetTheorems, TLAPS

-----------------------------------------------------------------------------
(* The storage backend *)

\* A signal that was never written is nowhere yet.
LEMMA Unwritten ==
  ASSUME NEW s \in Signals \ Written
  PROVE  /\ s \notin buffer /\ s \notin stored /\ s \notin lost
         /\ \A g \in Flushers : s \notin batch[g]
  BY DEF Written

\* Outcomes that the breaker counts keep its state well typed.
LEMMA CountTypes ==
  ASSUME StorageTypeOK, NEW f \in Flushers, CountSuccess(f) \/ CountFailure(f)
  PROVE  /\ fresh' \in [Flushers -> BOOLEAN]
         /\ breaker' \in {"closed", "open", "half-open"}
         /\ failures' \in 0..TripAfter /\ probing' \in BOOLEAN
  <1> USE StorageAssumption DEF StorageTypeOK
  <1>1. CASE UNCHANGED breakerVars
    BY <1>1 DEF breakerVars
  <1>2. CASE Become("closed") \/ Become("open")
    <2>1. fresh' \in [Flushers -> BOOLEAN]
      BY <1>2, Zenon DEF Become
    <2>2. breaker' \in {"closed", "open", "half-open"} /\ probing' \in BOOLEAN
      BY <1>2, Zenon DEF Become
    <2>3. failures' = 0
      BY <1>2, Zenon DEF Become
    <2>4. failures' \in 0..TripAfter
      BY <2>3
    <2> QED BY <2>1, <2>2, <2>4
  <1>3. CASE /\ failures' = 0 \/ (failures + 1 < TripAfter /\ failures' = failures + 1)
             /\ fresh' = [fresh EXCEPT ![f] = FALSE]
             /\ UNCHANGED <<breaker, probing>>
    BY <1>3
  <1>4. CASE CountSuccess(f)
    BY <1>1, <1>2, <1>3, <1>4 DEF CountSuccess
  <1>5. CASE CountFailure(f)
    BY <1>1, <1>2, <1>3, <1>5 DEF CountFailure
  <1> QED BY <1>4, <1>5

\* A flush moves the whole buffer, with or without a new signal, into the batch
\* of a flusher that held nothing.
LEMMA TakeInv ==
  ASSUME StorageInv, NEW f \in Flushers, NEW s \in Signals \ Written,
         NEW content, content \in {buffer, buffer \cup {s}},
         phase[f] = "idle", Take(f, content), UNCHANGED <<stored, lost, breakerVars, closeVars>>
  PROVE  StorageInv'
  <1> USE DEF StorageInv, Take, breakerVars, closeVars
  <1>1. batch[f] = {}
    BY DEF IdleHoldsNothing
  <1>2. content \subseteq Signals
    BY DEF StorageTypeOK
  <1>3. StorageTypeOK'
    BY <1>2 DEF StorageTypeOK
  <1>4. IdleHoldsNothing'
    BY DEF StorageTypeOK, IdleHoldsNothing
  <1>5. /\ content \cap (stored \cup lost) = {}
        /\ \A g \in Flushers : content \cap batch[g] = {}
    BY Unwritten DEF OnePlace, BatchesNew
  <1>6. \A g \in Flushers : batch'[g] = IF g = f THEN content ELSE batch[g]
    BY DEF StorageTypeOK
  <1>7. OnePlace'
    BY <1>1, <1>5, <1>6 DEF OnePlace, BatchesDisjoint, BatchesNew
  <1> QED BY <1>3, <1>4, <1>7

LEMMA WriteInv ==
  ASSUME StorageInv, NEW w \in Writers, NEW s \in Signals \ Written, Write(w, s)
  PROVE  StorageInv'
  <1>0. w \in Flushers
    BY DEF Flushers
  <1>1. CASE storageClosed
    <2> USE <1>1 DEF StorageInv, Write, breakerVars, closeVars
    <2>1. StorageTypeOK' /\ IdleHoldsNothing'
      BY DEF StorageTypeOK, IdleHoldsNothing
    <2>2. OnePlace'
      BY Unwritten DEF OnePlace, BatchesDisjoint, BatchesNew
    <2> QED BY <2>1, <2>2
  <1>2. CASE ~storageClosed /\ Cardinality(buffer \cup {s}) < BatchSize
    <2> USE <1>2 DEF StorageInv, Write, breakerVars, closeVars
    <2>1. StorageTypeOK' /\ IdleHoldsNothing'
      BY DEF StorageTypeOK, IdleHoldsNothing
    <2>2. OnePlace'
      BY Unwritten DEF OnePlace, BatchesDisjoint, BatchesNew
    <2> QED BY <2>1, <2>2
  <1>3. CASE ~storageClosed /\ ~(Cardinality(buffer \cup {s}) < BatchSize)
    <2>1. /\ phase[w] = "idle" /\ Take(w, buffer \cup {s})
          /\ UNCHANGED <<stored, lost, breakerVars, closeVars>>
      BY <1>3 DEF Write
    <2> QED BY <1>0, <2>1, TakeInv
  <1> QED BY <1>1, <1>2, <1>3

\* A flush of the buffer as it is.
LEMMA FlushInv == ASSUME StorageInv, NEW f \in Flushers, Flush(f) PROVE StorageInv'
  <1> USE DEF StorageInv, Flush, Take, breakerVars, closeVars
  <1>1. batch[f] = {}
    BY DEF IdleHoldsNothing
  <1>2. StorageTypeOK'
    BY DEF StorageTypeOK
  <1>3. IdleHoldsNothing'
    BY DEF StorageTypeOK, IdleHoldsNothing
  <1>4. \A g \in Flushers : batch'[g] = IF g = f THEN buffer ELSE batch[g]
    BY DEF StorageTypeOK
  <1>5. OnePlace'
    BY <1>1, <1>4 DEF OnePlace, BatchesDisjoint, BatchesNew
  <1> QED BY <1>2, <1>3, <1>5

\* A batch that has been settled is divided between stored and lost.
LEMMA SettleInv ==
  ASSUME StorageInv, NEW f \in Flushers, NEW kept, kept \subseteq batch[f],
         Settled(f), stored' = stored \cup kept, lost' = lost \cup (batch[f] \ kept),
         CountSuccess(f) \/ CountFailure(f) \/ UNCHANGED breakerVars,
         UNCHANGED <<buffer, closeVars>>
  PROVE  StorageInv'
  <1> USE DEF StorageInv, Settled, closeVars
  <1>1. /\ fresh' \in [Flushers -> BOOLEAN]
        /\ breaker' \in {"closed", "open", "half-open"}
        /\ failures' \in 0..TripAfter /\ probing' \in BOOLEAN
    BY CountTypes DEF StorageTypeOK, breakerVars
  <1>2. batch[f] \subseteq Signals
    BY DEF StorageTypeOK
  <1>3. StorageTypeOK'
    BY <1>1, <1>2 DEF StorageTypeOK
  <1>4. IdleHoldsNothing'
    BY DEF StorageTypeOK, IdleHoldsNothing
  <1>5. \A g \in Flushers : batch'[g] = IF g = f THEN {} ELSE batch[g]
    BY DEF StorageTypeOK
  <1>6. OnePlace'
    BY <1>5 DEF OnePlace, BatchesDisjoint, BatchesNew
  <1> QED BY <1>3, <1>4, <1>6

\* What a batch goes through after it has been taken.
LEMMA BatchInv == ASSUME StorageInv, NEW f \in Flushers, BatchStep(f) PROVE StorageInv'
  <1>1. CASE Admit(f)
    <2> USE <1>1 DEF StorageInv, Admit, closeVars
    <2>1. StorageTypeOK'
      BY DEF StorageTypeOK
    <2>2. IdleHoldsNothing' /\ OnePlace'
      BY DEF StorageTypeOK, IdleHoldsNothing, OnePlace, BatchesDisjoint, BatchesNew
    <2> QED BY <2>1, <2>2
  <1>2. CASE Refuse(f)
    <2>1. /\ Settled(f) /\ stored' = stored \cup {} /\ lost' = lost \cup (batch[f] \ {})
          /\ UNCHANGED breakerVars /\ UNCHANGED <<buffer, closeVars>>
      BY <1>2 DEF Refuse, Settled
    <2> QED BY <2>1, SettleInv
  <1>3. CASE InsertSucceeds(f)
    <2>1. UpTo(3, batch[f]) \subseteq batch[f]
      BY DEF UpTo
    <2> QED BY <1>3, <2>1, SettleInv DEF InsertSucceeds
  <1>4. CASE InsertFails(f)
    <2>1. PICK n \in 0..3 : /\ stored' = stored \cup UpTo(n, batch[f])
                            /\ lost' = lost \cup (batch[f] \ UpTo(n, batch[f]))
      BY <1>4 DEF InsertFails
    <2>2. UpTo(n, batch[f]) \subseteq batch[f]
      BY DEF UpTo
    <2> QED BY <1>4, <2>1, <2>2, SettleInv DEF InsertFails
  <1> QED BY <1>1, <1>2, <1>3, <1>4 DEF BatchStep

\* The breaker's timers and the steps of Close move no signal.
LEMMA QuietInv ==
  ASSUME StorageInv,
         \/ BreakerHalfOpens \/ BreakerInterval
         \/ FlushLoopExits \/ CloseBegin \/ CloseEnd
  PROVE  StorageInv'
  <1> USE StorageAssumption DEF StorageInv, bufferVars, breakerVars, closeVars
  <1>1. UNCHANGED bufferVars
    BY DEF BreakerHalfOpens, BreakerInterval, FlushLoopExits, CloseBegin, CloseEnd
  <1>2. fresh' \in [Flushers -> BOOLEAN]
    <2>1. CASE BreakerHalfOpens \/ BreakerInterval
      BY <2>1, Zenon DEF BreakerHalfOpens, BreakerInterval, Become
    <2>2. CASE FlushLoopExits \/ CloseBegin \/ CloseEnd
      BY <2>2 DEF StorageTypeOK, FlushLoopExits, CloseBegin, CloseEnd
    <2> QED BY <2>1, <2>2
  <1>3. IdleHoldsNothing' /\ OnePlace'
    BY <1>1 DEF IdleHoldsNothing, OnePlace, BatchesDisjoint, BatchesNew
  <1>4. CASE BreakerHalfOpens \/ BreakerInterval
    <2>1. /\ breaker' \in {"closed", "open", "half-open"} /\ probing' \in BOOLEAN
          /\ UNCHANGED closeVars
      BY <1>4, Zenon DEF BreakerHalfOpens, BreakerInterval, Become
    <2>2. failures' = 0
      BY <1>4, Zenon DEF BreakerHalfOpens, BreakerInterval, Become
    <2>3. failures' \in 0..TripAfter
      BY <2>2
    <2> QED BY <1>1, <1>2, <1>3, <2>1, <2>3 DEF StorageTypeOK
  <1>5. CASE FlushLoopExits \/ CloseBegin \/ CloseEnd
    BY <1>1, <1>2, <1>3, <1>5 DEF StorageTypeOK, FlushLoopExits, CloseBegin, CloseEnd
  <1> QED BY <1>4, <1>5

LEMMA StorageStepInv == StorageInv /\ [StorageNext]_storageVars => StorageInv'
  <1> SUFFICES ASSUME StorageInv, [StorageNext]_storageVars PROVE StorageInv'
    OBVIOUS
  <1>0. Loop \in Flushers /\ Stopper \in Flushers
    BY DEF Flushers
  <1>1. CASE StorageStep
    BY <1>0, <1>1, FlushInv, QuietInv, BatchInv DEF StorageStep, FlushTick
  <1>2. CASE \E w \in Writers, s \in Signals \ Written : Write(w, s)
    BY <1>2, WriteInv
  <1>3. CASE Flush(Stopper) \/ CloseBegin \/ CloseEnd
    BY <1>0, <1>3, FlushInv, QuietInv
  <1>4. CASE UNCHANGED storageVars
    BY <1>4 DEF storageVars, bufferVars, breakerVars, closeVars, StorageInv, StorageTypeOK,
       IdleHoldsNothing, OnePlace, BatchesDisjoint, BatchesNew
  <1> QED BY <1>1, <1>2, <1>3, <1>4 DEF StorageNext

LEMMA StorageInitInv == StorageInit => StorageInv
  <1> SUFFICES ASSUME StorageInit PROVE StorageInv
    OBVIOUS
  <1>1. fresh \in [Flushers -> BOOLEAN]
    BY Zenon DEF StorageInit
  <1>2. /\ buffer = {} /\ stored = {} /\ lost = {}
        /\ batch = [f \in Flushers |-> {}]
        /\ phase = [f \in Flushers |-> "idle"]
        /\ breaker = "closed" /\ failures = 0 /\ probing \in BOOLEAN
        /\ storageClosed \in BOOLEAN /\ loop = "run" /\ closing = "idle"
    BY Zenon DEF StorageInit
  <1>4. StorageTypeOK
    BY <1>1, <1>2, StorageAssumption DEF StorageTypeOK
  <1>3. IdleHoldsNothing /\ OnePlace
    BY DEF StorageInit, IdleHoldsNothing, OnePlace, BatchesDisjoint, BatchesNew
  <1> QED BY <1>3, <1>4 DEF StorageInv

\* The backend's inductive invariant holds of every behaviour.
THEOREM StorageInvariance == StorageSpec => []StorageInv
  BY StorageInitInv, StorageStepInv, PTL DEF StorageSpec

\* No signal is ever in two batches, or stored and flushed again: overlapping
\* flushes by writers, the flush loop and Flush insert each row at most once.
THEOREM SignalInOnePlace == StorageSpec => []OnePlace
  <1>1. StorageInv => OnePlace
    BY DEF StorageInv
  <1> QED BY <1>1, StorageInvariance, PTL

\* Between critical sections the buffer holds fewer than BatchSize signals.
THEOREM BufferBounded == StorageSpec => []BufferBelowBatchSize
  <1>1. StorageInit => BufferBelowBatchSize
    BY FS_EmptySet, StorageAssumption DEF StorageInit, BufferBelowBatchSize
  <1>2. BufferBelowBatchSize /\ [StorageNext]_storageVars => BufferBelowBatchSize'
    <2> SUFFICES ASSUME BufferBelowBatchSize, [StorageNext]_storageVars
                 PROVE  BufferBelowBatchSize'
      OBVIOUS
    <2>1. CASE buffer' = {}
      BY <2>1, FS_EmptySet, StorageAssumption DEF BufferBelowBatchSize
    <2>2. CASE UNCHANGED buffer
      BY <2>2 DEF BufferBelowBatchSize
    <2>3. CASE \E w \in Writers, s \in Signals \ Written : Write(w, s)
      BY <2>1, <2>2, <2>3 DEF Write, Take, BufferBelowBatchSize
    <2>4. CASE StorageStep
      <3>1. CASE FlushTick
        BY <2>1, <3>1 DEF FlushTick, Flush, Take
      <3>2. CASE FlushLoopExits \/ BreakerHalfOpens \/ BreakerInterval
        BY <2>2, <3>2 DEF FlushLoopExits, BreakerHalfOpens, BreakerInterval, bufferVars
      <3>3. CASE \E f \in Flushers : BatchStep(f)
        BY <2>2, <3>3 DEF BatchStep, Admit, Refuse, InsertSucceeds, InsertFails
      <3> QED BY <2>4, <3>1, <3>2, <3>3 DEF StorageStep
    <2>5. CASE Flush(Stopper) \/ CloseBegin \/ CloseEnd
      BY <2>1, <2>2, <2>5 DEF Flush, Take, CloseBegin, CloseEnd, bufferVars
    <2>6. CASE UNCHANGED storageVars
      BY <2>2, <2>6 DEF storageVars, bufferVars
    <2> QED BY <2>3, <2>4, <2>5, <2>6 DEF StorageNext
  <1> QED BY <1>1, <1>2, PTL DEF StorageSpec

-----------------------------------------------------------------------------
(* The engine *)

(* What the channel operations do to the set of signals in a channel. *)

LEMMA AppendFacts ==
  ASSUME NEW c \in Seq(Signals), NEW s \in Signals
  PROVE  /\ Append(c, s) \in Seq(Signals)
         /\ Range(Append(c, s)) = Range(c) \cup {s}
         /\ IsInjective(c) /\ s \notin Range(c) => IsInjective(Append(c, s))
  <1>1. /\ Append(c, s) \in Seq(Signals) /\ Len(Append(c, s)) = Len(c) + 1
        /\ DOMAIN Append(c, s) = 1..Len(c) + 1 /\ DOMAIN c = 1..Len(c) /\ Len(c) \in Nat
        /\ Append(c, s)[Len(c) + 1] = s
        /\ \A k \in 1..Len(c) : Append(c, s)[k] = c[k]
    OBVIOUS
  <1>2. Range(Append(c, s)) \subseteq Range(c) \cup {s}
    BY <1>1 DEF Range
  <1>3. Range(c) \cup {s} \subseteq Range(Append(c, s))
    <2>1. \A k \in 1..Len(c) : k \in 1..Len(c) + 1
      BY <1>1
    <2>2. Len(c) + 1 \in 1..Len(c) + 1
      BY <1>1
    <2> QED BY <1>1, <2>1, <2>2 DEF Range
  <1>4. ASSUME IsInjective(c), s \notin Range(c)
        PROVE  IsInjective(Append(c, s))
    BY <1>1, <1>4 DEF IsInjective, Range
  <1> QED BY <1>1, <1>2, <1>3, <1>4

LEMMA TailFacts ==
  ASSUME NEW c \in Seq(Signals), c # <<>>
  PROVE  /\ Head(c) \in Signals /\ Tail(c) \in Seq(Signals)
         /\ Range(c) = Range(Tail(c)) \cup {Head(c)}
         /\ IsInjective(c) => IsInjective(Tail(c)) /\ Head(c) \notin Range(Tail(c))
  <1>1. /\ Len(c) \in Nat \ {0} /\ DOMAIN c = 1..Len(c)
        /\ Tail(c) \in Seq(Signals) /\ Len(Tail(c)) = Len(c) - 1
        /\ DOMAIN Tail(c) = 1..Len(c) - 1
        /\ \A k \in 1..Len(c) - 1 : Tail(c)[k] = c[k + 1]
        /\ Head(c) = c[1] /\ Head(c) \in Signals
    OBVIOUS
  <1>2. Range(Tail(c)) \cup {Head(c)} \subseteq Range(c)
    <2>1. \A k \in 1..Len(c) - 1 : k + 1 \in 1..Len(c)
      BY <1>1
    <2>2. 1 \in 1..Len(c)
      BY <1>1
    <2> QED BY <1>1, <2>1, <2>2 DEF Range
  <1>3. Range(c) \subseteq Range(Tail(c)) \cup {Head(c)}
    <2> SUFFICES ASSUME NEW k \in 1..Len(c), k # 1
                 PROVE  c[k] \in Range(Tail(c))
      BY <1>1 DEF Range
    <2>1. k - 1 \in 1..Len(c) - 1 /\ k - 1 + 1 = k
      BY <1>1
    <2>2. Tail(c)[k - 1] = c[k]
      BY <1>1, <2>1
    <2> QED BY <1>1, <2>1, <2>2 DEF Range
  <1>4. ASSUME IsInjective(c)
        PROVE  IsInjective(Tail(c)) /\ Head(c) \notin Range(Tail(c))
    BY <1>1, <1>4 DEF IsInjective, Range
  <1> QED BY <1>1, <1>2, <1>3, <1>4

-----------------------------------------------------------------------------
(* What putting a signal somewhere and taking it away does to the pipeline. *)

LEMMA ChannelFacts ==
  ASSUME EngineTypeOK, NEW i \in 0..3
  PROVE  /\ chan[i] \in Seq(Signals) /\ Range(chan[i]) \subseteq InChannels
         /\ \A s \in InChannels : \E j \in 0..3 : s \in Range(chan[j])
  BY DEF EngineTypeOK, InChannels

LEMMA ChannelPut ==
  ASSUME EngineTypeOK, NEW i \in 0..3, NEW s \in Signals,
         chan' = [chan EXCEPT ![i] = Append(@, s)]
  PROVE  /\ chan' \in [0..3 -> Seq(Signals)]
         /\ InChannels' = InChannels \cup {s}
         /\ ChannelsOnce /\ s \notin InChannels => ChannelsOnce'
  <1>1. chan[i] \in Seq(Signals)
    BY DEF EngineTypeOK
  <1>2. /\ Append(chan[i], s) \in Seq(Signals)
        /\ Range(Append(chan[i], s)) = Range(chan[i]) \cup {s}
        /\ IsInjective(chan[i]) /\ s \notin Range(chan[i]) => IsInjective(Append(chan[i], s))
    BY <1>1, AppendFacts
  <1>3. /\ chan' \in [0..3 -> Seq(Signals)]
        /\ \A j \in 0..3 : chan'[j] = IF j = i THEN Append(chan[i], s) ELSE chan[j]
    BY <1>2 DEF EngineTypeOK
  <1>4. \A j \in 0..3 : Range(chan'[j]) = IF j = i THEN Range(chan[i]) \cup {s} ELSE Range(chan[j])
    BY <1>2, <1>3
  <1>5. InChannels' = InChannels \cup {s}
    BY <1>4 DEF InChannels
  <1>6. ASSUME ChannelsOnce, s \notin InChannels
        PROVE  ChannelsOnce'
    <2>1. \A j \in 0..3 : s \notin Range(chan[j])
      BY <1>6 DEF InChannels
    <2>2. \A j \in 0..3 : IsInjective(chan'[j])
      BY <1>2, <1>3, <1>6, <2>1 DEF ChannelsOnce
    <2>3. \A j, k \in 0..3 : j # k => Range(chan'[j]) \cap Range(chan'[k]) = {}
      BY <1>4, <1>6, <2>1 DEF ChannelsOnce
    <2> QED BY <2>2, <2>3 DEF ChannelsOnce
  <1> QED BY <1>3, <1>5, <1>6

LEMMA ChannelTake ==
  ASSUME EngineTypeOK, NEW i \in 0..3, chan[i] # <<>>,
         chan' = [chan EXCEPT ![i] = Tail(@)]
  PROVE  /\ chan' \in [0..3 -> Seq(Signals)]
         /\ Head(chan[i]) \in Signals /\ Head(chan[i]) \in InChannels
         /\ InChannels = InChannels' \cup {Head(chan[i])}
         /\ ChannelsOnce => ChannelsOnce' /\ Head(chan[i]) \notin InChannels'
  <1>1. chan[i] \in Seq(Signals)
    BY DEF EngineTypeOK
  <1>2. /\ Head(chan[i]) \in Signals /\ Tail(chan[i]) \in Seq(Signals)
        /\ Range(chan[i]) = Range(Tail(chan[i])) \cup {Head(chan[i])}
        /\ IsInjective(chan[i]) => /\ IsInjective(Tail(chan[i]))
                                   /\ Head(chan[i]) \notin Range(Tail(chan[i]))
    BY <1>1, TailFacts
  <1>3. /\ chan' \in [0..3 -> Seq(Signals)]
        /\ \A j \in 0..3 : chan'[j] = IF j = i THEN Tail(chan[i]) ELSE chan[j]
    BY <1>2 DEF EngineTypeOK
  <1>4. \A j \in 0..3 : Range(chan[j]) =
          IF j = i THEN Range(chan'[j]) \cup {Head(chan[i])} ELSE Range(chan'[j])
    BY <1>2, <1>3
  <1>5. InChannels = InChannels' \cup {Head(chan[i])}
    BY <1>4 DEF InChannels
  <1>6. ASSUME ChannelsOnce
        PROVE  ChannelsOnce' /\ Head(chan[i]) \notin InChannels'
    <2>1. \A j \in 0..3 : Head(chan[i]) \notin Range(chan'[j])
      BY <1>2, <1>3, <1>4, <1>6 DEF ChannelsOnce
    <2>2. \A j \in 0..3 : IsInjective(chan'[j])
      BY <1>2, <1>3, <1>6 DEF ChannelsOnce
    <2>3. \A j, k \in 0..3 : j # k => Range(chan'[j]) \cap Range(chan'[k]) = {}
      BY <1>4, <1>6 DEF ChannelsOnce
    <2> QED BY <2>1, <2>2, <2>3 DEF ChannelsOnce, InChannels
  <1> QED BY <1>2, <1>3, <1>5, <1>6

\* A stage's signal: taken in, and given up.
LEMMA HoldPut ==
  ASSUME EngineTypeOK, NEW i \in Stages, NEW s \in Signals, hold[i] = NoSignal,
         hold' = [hold EXCEPT ![i] = s]
  PROVE  /\ hold' \in [Stages -> Signals \cup {NoSignal}]
         /\ InStages' = InStages \cup {s}
  <1>1. /\ hold' \in [Stages -> Signals \cup {NoSignal}]
        /\ \A j \in Stages : hold'[j] = IF j = i THEN s ELSE hold[j]
    BY DEF EngineTypeOK
  <1>2. s # NoSignal
    BY EngineAssumption
  <1> QED BY <1>1, <1>2 DEF InStages

LEMMA HoldClear ==
  ASSUME EngineTypeOK, NEW i \in Stages, hold' = [hold EXCEPT ![i] = NoSignal]
  PROVE  /\ hold' \in [Stages -> Signals \cup {NoSignal}]
         /\ InStages' \cup ({hold[i]} \ {NoSignal}) = InStages
         /\ HandsOnce => hold[i] \notin InStages'
  <1>1. /\ hold' \in [Stages -> Signals \cup {NoSignal}]
        /\ \A j \in Stages : hold'[j] = IF j = i THEN NoSignal ELSE hold[j]
    BY DEF EngineTypeOK
  <1>2. InStages' \cup ({hold[i]} \ {NoSignal}) = InStages
    BY <1>1 DEF InStages
  <1>3. HandsOnce => hold[i] \notin InStages'
    BY <1>1 DEF InStages, HandsOnce
  <1> QED BY <1>1, <1>2, <1>3

\* A worker's signal.
LEMMA SigPut ==
  ASSUME EngineTypeOK, NEW w \in Writers, NEW s \in Signals, sig[w] = NoSignal,
         sig' = [sig EXCEPT ![w] = s]
  PROVE  /\ sig' \in [Writers -> Signals \cup {NoSignal}]
         /\ InWorkers' = InWorkers \cup {s}
  <1>1. /\ sig' \in [Writers -> Signals \cup {NoSignal}]
        /\ \A v \in Writers : sig'[v] = IF v = w THEN s ELSE sig[v]
    BY DEF EngineTypeOK
  <1>2. s # NoSignal
    BY EngineAssumption
  <1> QED BY <1>1, <1>2 DEF InWorkers

LEMMA SigClear ==
  ASSUME EngineTypeOK, NEW w \in Writers, sig' = [sig EXCEPT ![w] = NoSignal]
  PROVE  /\ sig' \in [Writers -> Signals \cup {NoSignal}]
         /\ InWorkers' \cup ({sig[w]} \ {NoSignal}) = InWorkers
         /\ HandsOnce => sig[w] \notin InWorkers'
  <1>1. /\ sig' \in [Writers -> Signals \cup {NoSignal}]
        /\ \A v \in Writers : sig'[v] = IF v = w THEN NoSignal ELSE sig[v]
    BY DEF EngineTypeOK
  <1>2. InWorkers' \cup ({sig[w]} \ {NoSignal}) = InWorkers
    BY <1>1 DEF InWorkers
  <1>3. HandsOnce => sig[w] \notin InWorkers'
    BY <1>1 DEF InWorkers, HandsOnce
  <1> QED BY <1>1, <1>2, <1>3

-----------------------------------------------------------------------------
(* Where the storage has a signal from. *)

\* Only a Write brings a signal to the storage; every other step of the backend
\* moves signals that it already has.
LEMMA WrittenKept ==
  ASSUME StorageTypeOK,
         \/ StorageStep \/ Flush(Stopper) \/ CloseBegin \/ CloseEnd \/ UNCHANGED storageVars
  PROVE  Written' \subseteq Written
  <1> USE DEF StorageTypeOK, Written
  <1>0. Loop \in Flushers /\ Stopper \in Flushers
    BY DEF Flushers
  <1>1. ASSUME NEW f \in Flushers, Flush(f) PROVE Written' \subseteq Written
    <2>1. \A g \in Flushers : batch'[g] = IF g = f THEN buffer ELSE batch[g]
      BY <1>1 DEF Flush, Take
    <2> QED BY <1>1, <2>1 DEF Flush, Take
  <1>2. ASSUME UNCHANGED bufferVars PROVE Written' \subseteq Written
    BY <1>2 DEF bufferVars
  <1>3. ASSUME NEW f \in Flushers, BatchStep(f) PROVE Written' \subseteq Written
    <2>1. CASE Admit(f)
      BY <2>1 DEF Admit
    <2>2. CASE /\ batch' = [batch EXCEPT ![f] = {}] /\ UNCHANGED buffer
               /\ \E n \in 0..3 : stored' = stored \cup UpTo(n, batch[f]) \/ UNCHANGED stored
               /\ \E T \in SUBSET batch[f] : lost' = lost \cup T
      <3>1. \A g \in Flushers : batch'[g] = IF g = f THEN {} ELSE batch[g]
        BY <2>2
      <3> QED BY <2>2, <3>1 DEF UpTo
    <2>3. CASE Refuse(f)
      BY <2>2, <2>3 DEF Refuse
    <2>4. CASE InsertSucceeds(f)
      <3>1. /\ stored' = stored \cup UpTo(3, batch[f]) /\ 3 \in 0..3
            /\ lost' = lost \cup (batch[f] \ UpTo(3, batch[f]))
        BY <2>4 DEF InsertSucceeds
      <3> QED BY <2>2, <2>4, <3>1 DEF InsertSucceeds, Settled
    <2>5. CASE InsertFails(f)
      <3>1. PICK n \in 0..3 : /\ stored' = stored \cup UpTo(n, batch[f])
                              /\ lost' = lost \cup (batch[f] \ UpTo(n, batch[f]))
        BY <2>5 DEF InsertFails
      <3> QED BY <2>2, <2>5, <3>1 DEF InsertFails, Settled
    <2> QED BY <1>3, <2>1, <2>3, <2>4, <2>5 DEF BatchStep
  <1>4. CASE StorageStep
    BY <1>0, <1>1, <1>2, <1>3, <1>4
       DEF StorageStep, FlushTick, FlushLoopExits, BreakerHalfOpens, BreakerInterval
  <1>5. CASE CloseBegin \/ CloseEnd \/ UNCHANGED storageVars
    BY <1>2, <1>5 DEF CloseBegin, CloseEnd, storageVars
  <1> QED BY <1>0, <1>1, <1>4, <1>5

LEMMA WrittenBy ==
  ASSUME StorageTypeOK, NEW w \in Writers, NEW s, Write(w, s)
  PROVE  Written' \subseteq Written \cup {s}
  <1> USE DEF StorageTypeOK, Written
  <1>0. w \in Flushers
    BY DEF Flushers
  <1>1. CASE UNCHANGED batch
    BY <1>1 DEF Write, Take
  <1>2. CASE Take(w, buffer \cup {s}) /\ UNCHANGED <<stored, lost>>
    <2>1. \A g \in Flushers : batch'[g] = IF g = w THEN buffer \cup {s} ELSE batch[g]
      BY <1>0, <1>2 DEF Take
    <2> QED BY <1>2, <2>1 DEF Take
  <1> QED BY <1>1, <1>2 DEF Write

-----------------------------------------------------------------------------
(* The pipeline, one action at a time. *)

LEMMA ProcessSignalPipe ==
  ASSUME StorageInv, PipeInv, NEW s \in Signals, ProcessSignal(s)
  PROVE  PipeInv'
  <1> USE DEF PipeInv, PipelineOnce
  <1>1. /\ chan' = [chan EXCEPT ![0] = Append(@, s)] /\ accepted' = accepted \cup {s}
        /\ s \notin accepted /\ 0 \in 0..3
        /\ UNCHANGED <<chClosed, hold, worker, sig, inbox, dropped, walled, ctxDone, stop, walClosed>>
        /\ UNCHANGED <<buffer, batch, stored, lost>>
    BY DEF ProcessSignal, workVars, stopVars, storageVars, bufferVars
  <1>2. s \notin InChannels \cup InStages \cup InWorkers \cup dropped \cup walled
    BY <1>1 DEF OnlyAccepted
  <1>3. /\ chan' \in [0..3 -> Seq(Signals)] /\ InChannels' = InChannels \cup {s}
        /\ ChannelsOnce'
    BY <1>1, <1>2, ChannelPut
  <1>4. InStages' = InStages /\ InWorkers' = InWorkers /\ Written' = Written
    BY <1>1 DEF InStages, InWorkers, Written
  <1>5. EngineTypeOK'
    BY <1>1, <1>3 DEF EngineTypeOK
  <1>6. WorkersHold' /\ WalFirst' /\ HandsOnce'
    BY <1>1, <1>4 DEF WorkersHold, WalFirst, HandsOnce
  <1>7. NoSilentLoss'
    BY <1>1, <1>3, <1>4 DEF NoSilentLoss
  <1>8. PlacesApart'
    BY <1>2, <1>3, <1>4 DEF PlacesApart
  <1>9. NotYetHandled' /\ OnlyAccepted'
    BY <1>1, <1>2, <1>3, <1>4 DEF NotYetHandled, OnlyAccepted
  <1> QED BY <1>3, <1>5, <1>6, <1>7, <1>8, <1>9

LEMMA StageReceivesPipe ==
  ASSUME StorageInv, PipeInv, NEW i \in Stages, StageReceives(i)
  PROVE  PipeInv'
  <1> USE DEF PipeInv, PipelineOnce
  <1> DEFINE h == Head(chan[i - 1])
  <1>1. /\ hold[i] = NoSignal /\ chan[i - 1] # <<>> /\ i - 1 \in 0..3
        /\ chan' = [chan EXCEPT ![i - 1] = Tail(@)]
        /\ UNCHANGED <<chClosed, worker, sig, inbox, walled, ctxDone, stop, walClosed, accepted>>
        /\ UNCHANGED <<buffer, batch, stored, lost>>
    BY DEF StageReceives, stopVars, storageVars, bufferVars, Stages
  <1>2. /\ chan' \in [0..3 -> Seq(Signals)] /\ h \in Signals /\ h \in InChannels
        /\ InChannels = InChannels' \cup {h} /\ ChannelsOnce' /\ h \notin InChannels'
    BY <1>1, ChannelTake
  <1>3. h \notin InStages \cup InWorkers \cup dropped \cup walled /\ h \in accepted
    BY <1>2 DEF PlacesApart, NotYetHandled, OnlyAccepted
  <1>4. InWorkers' = InWorkers /\ Written' = Written
    BY <1>1 DEF InWorkers, Written
  <1>5. WorkersHold' /\ WalFirst'
    BY <1>1, <1>4 DEF WorkersHold, WalFirst
  <1>6. CASE h \in Rejects[i]
    <2>1. dropped' = dropped \cup {h} /\ hold' = hold /\ InStages' = InStages
      BY <1>6 DEF StageReceives, InStages
    <2>2. EngineTypeOK' /\ HandsOnce'
      BY <1>1, <1>2, <2>1 DEF EngineTypeOK, HandsOnce
    <2>3. NoSilentLoss' /\ PlacesApart' /\ OnlyAccepted'
      BY <1>1, <1>2, <1>3, <1>4, <2>1 DEF NoSilentLoss, PlacesApart, OnlyAccepted
    <2>4. \A w \in Writers : worker[w] = "handling" => sig[w] # h
      BY <1>3, EngineAssumption DEF InWorkers, WorkersHold
    <2>5. NotYetHandled'
      BY <1>1, <1>2, <1>3, <1>4, <2>1, <2>4 DEF NotYetHandled
    <2> QED BY <1>2, <1>5, <2>2, <2>3, <2>5
  <1>7. CASE h \notin Rejects[i]
    <2>1. dropped' = dropped /\ hold' = [hold EXCEPT ![i] = h]
      BY <1>7 DEF StageReceives
    <2>2. hold' \in [Stages -> Signals \cup {NoSignal}] /\ InStages' = InStages \cup {h}
      BY <1>1, <1>2, <2>1, HoldPut
    <2>3. EngineTypeOK'
      BY <1>1, <1>2, <2>1, <2>2 DEF EngineTypeOK
    <2>4. \A j \in Stages : hold'[j] = IF j = i THEN h ELSE hold[j]
      BY <2>1 DEF EngineTypeOK
    <2>5. \A j \in Stages : hold[j] # h
      BY <1>2, <1>3, EngineAssumption DEF InStages
    <2>6. HandsOnce'
      BY <1>1, <2>4, <2>5 DEF HandsOnce
    <2>7. NoSilentLoss' /\ PlacesApart' /\ OnlyAccepted' /\ NotYetHandled'
      BY <1>1, <1>2, <1>3, <1>4, <2>1, <2>2
         DEF NoSilentLoss, PlacesApart, OnlyAccepted, NotYetHandled
    <2> QED BY <1>2, <1>5, <2>3, <2>6, <2>7
  <1> QED BY <1>6, <1>7

LEMMA StageSendsPipe ==
  ASSUME StorageInv, PipeInv, NEW i \in Stages, StageSends(i)
  PROVE  PipeInv'
  <1> USE DEF PipeInv, PipelineOnce
  <1> DEFINE h == hold[i]
  <1>1. /\ h # NoSignal /\ i \in 0..3
        /\ chan' = [chan EXCEPT ![i] = Append(@, h)]
        /\ hold' = [hold EXCEPT ![i] = NoSignal]
        /\ UNCHANGED <<chClosed, worker, sig, inbox, dropped, walled, ctxDone, stop, walClosed,
                       accepted>>
        /\ UNCHANGED <<buffer, batch, stored, lost>>
    BY DEF StageSends, workVars, stopVars, storageVars, bufferVars, Stages
  <1>2. h \in Signals /\ h \in InStages
    BY <1>1 DEF EngineTypeOK, InStages
  <1>3. h \notin InChannels \cup InWorkers \cup dropped \cup walled /\ h \in accepted
    BY <1>2 DEF PlacesApart, NotYetHandled, OnlyAccepted
  <1>4. chan' \in [0..3 -> Seq(Signals)] /\ InChannels' = InChannels \cup {h} /\ ChannelsOnce'
    BY <1>1, <1>2, <1>3, ChannelPut
  <1>5. /\ hold' \in [Stages -> Signals \cup {NoSignal}]
        /\ InStages = InStages' \cup {h} /\ h \notin InStages'
    BY <1>1, HoldClear
  <1>6. InWorkers' = InWorkers /\ Written' = Written
    BY <1>1 DEF InWorkers, Written
  <1>7. WorkersHold' /\ WalFirst' /\ EngineTypeOK'
    BY <1>1, <1>4, <1>5, <1>6 DEF WorkersHold, WalFirst, EngineTypeOK
  <1>8. \A j \in Stages : hold'[j] = IF j = i THEN NoSignal ELSE hold[j]
    BY <1>1 DEF EngineTypeOK
  <1>9. HandsOnce'
    BY <1>1, <1>8 DEF HandsOnce
  <1>10. NoSilentLoss' /\ PlacesApart' /\ OnlyAccepted' /\ NotYetHandled'
    BY <1>1, <1>3, <1>4, <1>5, <1>6 DEF NoSilentLoss, PlacesApart, OnlyAccepted, NotYetHandled
  <1> QED BY <1>4, <1>7, <1>9, <1>10

LEMMA StageReturnsPipe ==
  ASSUME StorageInv, PipeInv, NEW i \in Stages, StageReturns(i)
  PROVE  PipeInv'
  <1> USE DEF PipeInv, PipelineOnce
  <1>1. /\ hold[i] = NoSignal \/ ctxDone
        /\ hold' = [hold EXCEPT ![i] = NoSignal]
        /\ chClosed' = [chClosed EXCEPT ![i] = TRUE]
        /\ UNCHANGED <<chan, worker, sig, inbox, dropped, walled, ctxDone, stop, walClosed, accepted>>
        /\ UNCHANGED <<buffer, batch, stored, lost>>
    BY DEF StageReturns, workVars, stopVars, storageVars, bufferVars
  <1>2. /\ hold' \in [Stages -> Signals \cup {NoSignal}]
        /\ InStages = InStages' \cup ({hold[i]} \ {NoSignal})
    BY <1>1, HoldClear
  <1>3. InChannels' = InChannels /\ InWorkers' = InWorkers /\ Written' = Written
    BY <1>1 DEF InChannels, InWorkers, Written
  <1>4. chClosed' \in [0..3 -> BOOLEAN]
    BY <1>1, Zenon DEF EngineTypeOK
  <1>5. EngineTypeOK' /\ WorkersHold' /\ WalFirst' /\ ChannelsOnce'
    BY <1>1, <1>2, <1>3, <1>4 DEF EngineTypeOK, WorkersHold, WalFirst, ChannelsOnce
  <1>6. \A j \in Stages : hold'[j] = IF j = i THEN NoSignal ELSE hold[j]
    BY <1>1 DEF EngineTypeOK
  <1>7. HandsOnce'
    BY <1>1, <1>6 DEF HandsOnce
  <1>8. NoSilentLoss' /\ PlacesApart' /\ OnlyAccepted' /\ NotYetHandled'
    BY <1>1, <1>2, <1>3 DEF NoSilentLoss, PlacesApart, OnlyAccepted, NotYetHandled
  <1> QED BY <1>5, <1>7, <1>8

LEMMA WorkerReceivesPipe ==
  ASSUME StorageInv, PipeInv, NEW w \in Writers, WorkerReceives(w)
  PROVE  PipeInv'
  <1> USE DEF PipeInv, PipelineOnce
  <1> DEFINE h == Head(chan[3])
  <1>1. /\ worker[w] = "idle" /\ chan[3] # <<>> /\ 3 \in 0..3
        /\ chan' = [chan EXCEPT ![3] = Tail(@)]
        /\ worker' = [worker EXCEPT ![w] = "handling"] /\ sig' = [sig EXCEPT ![w] = h]
        /\ UNCHANGED <<chClosed, hold, dropped, walled, ctxDone, stop, walClosed, accepted>>
        /\ UNCHANGED <<buffer, batch, stored, lost>>
    BY DEF WorkerReceives, stopVars, storageVars, bufferVars
  <1>2. /\ chan' \in [0..3 -> Seq(Signals)] /\ h \in Signals /\ h \in InChannels
        /\ InChannels = InChannels' \cup {h} /\ ChannelsOnce' /\ h \notin InChannels'
    BY <1>1, ChannelTake
  <1>3. h \notin InStages \cup InWorkers \cup dropped \cup walled /\ h \in accepted
    BY <1>2 DEF PlacesApart, NotYetHandled, OnlyAccepted
  <1>4. sig[w] = NoSignal
    BY <1>1 DEF WorkersHold
  <1>5. sig' \in [Writers -> Signals \cup {NoSignal}] /\ InWorkers' = InWorkers \cup {h}
    BY <1>1, <1>2, <1>4, SigPut
  <1>6. InStages' = InStages /\ Written' = Written
    BY <1>1 DEF InStages, Written
  <1>7. inbox' \in 0..MailboxSize
    BY EngineAssumption DEF WorkerReceives, EngineTypeOK
  <1>8. /\ \A v \in Writers : sig'[v] = IF v = w THEN h ELSE sig[v]
        /\ \A v \in Writers : worker'[v] = IF v = w THEN "handling" ELSE worker[v]
        /\ worker' \in [Writers -> {"idle", "handling", "storing", "exited"}]
    BY <1>1 DEF EngineTypeOK
  <1>9. EngineTypeOK'
    BY <1>1, <1>2, <1>5, <1>7, <1>8 DEF EngineTypeOK
  <1>10. h # NoSignal
    BY <1>2, EngineAssumption
  <1>11. WorkersHold' /\ WalFirst'
    BY <1>1, <1>6, <1>8, <1>10 DEF WorkersHold, WalFirst
  <1>12. \A v \in Writers : sig[v] # h
    BY <1>3, <1>10 DEF InWorkers
  <1>13. HandsOnce'
    BY <1>1, <1>8, <1>12 DEF HandsOnce
  <1>14. NoSilentLoss' /\ PlacesApart' /\ OnlyAccepted'
    BY <1>1, <1>2, <1>3, <1>5, <1>6 DEF NoSilentLoss, PlacesApart, OnlyAccepted
  <1>15. NotYetHandled'
    BY <1>1, <1>2, <1>3, <1>6, <1>8 DEF NotYetHandled
  <1> QED BY <1>2, <1>9, <1>11, <1>13, <1>14, <1>15

\* What a worker has in hand.
LEMMA InHand ==
  ASSUME PipeInv, NEW w \in Writers, worker[w] \in {"handling", "storing"}
  PROVE  /\ sig[w] \in Signals /\ sig[w] \in InWorkers /\ sig[w] \in accepted
         /\ sig[w] \notin InChannels \cup InStages
         /\ \A v \in Writers : v # w => sig[v] # sig[w]
  <1> USE DEF PipeInv, PipelineOnce
  <1>1. sig[w] # NoSignal
    BY DEF WorkersHold
  <1>2. sig[w] \in Signals /\ sig[w] \in InWorkers
    BY <1>1 DEF EngineTypeOK, InWorkers
  <1> QED BY <1>1, <1>2 DEF PlacesApart, OnlyAccepted, HandsOnce

LEMMA HandleDropsPipe ==
  ASSUME StorageInv, PipeInv, NEW w \in Writers, HandleDrops(w)
  PROVE  PipeInv'
  <1> USE DEF PipeInv, PipelineOnce
  <1>1. /\ worker[w] = "handling" /\ dropped' = dropped \cup {sig[w]}
        /\ worker' = [worker EXCEPT ![w] = "idle"] /\ sig' = [sig EXCEPT ![w] = NoSignal]
        /\ UNCHANGED <<chan, chClosed, hold, inbox, walled, ctxDone, stop, walClosed, accepted>>
        /\ UNCHANGED <<buffer, batch, stored, lost>>
    BY DEF HandleDrops, HandleEnds, pipeVars, stopVars, storageVars, bufferVars
  <1>2. /\ sig[w] \in Signals /\ sig[w] \in InWorkers /\ sig[w] \in accepted
        /\ sig[w] \notin InChannels \cup InStages
        /\ \A v \in Writers : v # w => sig[v] # sig[w]
    BY <1>1, InHand
  <1>3. /\ sig' \in [Writers -> Signals \cup {NoSignal}]
        /\ InWorkers = InWorkers' \cup ({sig[w]} \ {NoSignal})
    BY <1>1, SigClear
  <1>4. InChannels' = InChannels /\ InStages' = InStages /\ Written' = Written
    BY <1>1 DEF InChannels, InStages, Written
  <1>5. /\ \A v \in Writers : sig'[v] = IF v = w THEN NoSignal ELSE sig[v]
        /\ \A v \in Writers : worker'[v] = IF v = w THEN "idle" ELSE worker[v]
        /\ worker' \in [Writers -> {"idle", "handling", "storing", "exited"}]
    BY <1>1 DEF EngineTypeOK
  <1>6. EngineTypeOK' /\ ChannelsOnce'
    BY <1>1, <1>2, <1>3, <1>5 DEF EngineTypeOK, ChannelsOnce
  <1>7. WorkersHold' /\ WalFirst'
    BY <1>1, <1>4, <1>5 DEF WorkersHold, WalFirst
  <1>8. HandsOnce'
    BY <1>1, <1>5 DEF HandsOnce
  <1>9. NoSilentLoss' /\ PlacesApart' /\ OnlyAccepted'
    BY <1>1, <1>2, <1>3, <1>4 DEF NoSilentLoss, PlacesApart, OnlyAccepted
  <1>10. NotYetHandled'
    BY <1>1, <1>2, <1>4, <1>5 DEF NotYetHandled
  <1> QED BY <1>6, <1>7, <1>8, <1>9, <1>10

LEMMA HandleWritesWalPipe ==
  ASSUME StorageInv, PipeInv, NEW w \in Writers, HandleWritesWal(w)
  PROVE  PipeInv'
  <1> USE DEF PipeInv, PipelineOnce
  <1>1. /\ worker[w] = "handling" /\ walled' = walled \cup {sig[w]}
        /\ worker' = [worker EXCEPT ![w] = "storing"]
        /\ UNCHANGED <<chan, chClosed, hold, sig, inbox, dropped, ctxDone, stop, walClosed, accepted>>
        /\ UNCHANGED <<buffer, batch, stored, lost>>
    BY DEF HandleWritesWal, pipeVars, stopVars, storageVars, bufferVars
  <1>2. /\ sig[w] \in Signals /\ sig[w] \in InWorkers /\ sig[w] \in accepted
        /\ sig[w] \notin InChannels \cup InStages
        /\ \A v \in Writers : v # w => sig[v] # sig[w]
    BY <1>1, InHand
  <1>3. sig[w] \notin walled /\ sig[w] \notin Written
    BY <1>1 DEF NotYetHandled, WalFirst
  <1>4. /\ InChannels' = InChannels /\ InStages' = InStages /\ InWorkers' = InWorkers
        /\ Written' = Written
    BY <1>1 DEF InChannels, InStages, InWorkers, Written
  <1>5. /\ \A v \in Writers : worker'[v] = IF v = w THEN "storing" ELSE worker[v]
        /\ worker' \in [Writers -> {"idle", "handling", "storing", "exited"}]
    BY <1>1 DEF EngineTypeOK
  <1>6. EngineTypeOK' /\ ChannelsOnce' /\ HandsOnce'
    BY <1>1, <1>2, <1>5 DEF EngineTypeOK, ChannelsOnce, HandsOnce
  <1>7. WorkersHold' /\ WalFirst'
    BY <1>1, <1>4, <1>5 DEF WorkersHold, WalFirst
  <1>8. NoSilentLoss' /\ PlacesApart' /\ OnlyAccepted'
    BY <1>1, <1>2, <1>4 DEF NoSilentLoss, PlacesApart, OnlyAccepted
  <1>9. NotYetHandled'
    BY <1>1, <1>2, <1>3, <1>4, <1>5 DEF NotYetHandled
  <1> QED BY <1>6, <1>7, <1>8, <1>9

LEMMA HandleStoresPipe ==
  ASSUME StorageInv, PipeInv, NEW w \in Writers, HandleStores(w)
  PROVE  PipeInv'
  <1> USE DEF PipeInv, PipelineOnce
  <1>1. /\ worker[w] = "storing" /\ Write(w, sig[w])
        /\ worker' = [worker EXCEPT ![w] = "idle"] /\ sig' = [sig EXCEPT ![w] = NoSignal]
        /\ UNCHANGED <<chan, chClosed, hold, inbox, dropped, walled, ctxDone, stop, walClosed,
                       accepted>>
    BY DEF HandleStores, HandleEnds, pipeVars, stopVars
  <1>2. /\ sig[w] \in Signals /\ sig[w] \in InWorkers /\ sig[w] \in accepted
        /\ \A v \in Writers : v # w => sig[v] # sig[w]
    BY <1>1, InHand
  <1>3. sig[w] \in walled
    BY <1>1 DEF WorkersHold
  <1>4. Written' \subseteq Written \cup {sig[w]}
    BY <1>1, WrittenBy DEF StorageInv
  <1>5. /\ sig' \in [Writers -> Signals \cup {NoSignal}]
        /\ InWorkers = InWorkers' \cup ({sig[w]} \ {NoSignal})
    BY <1>1, SigClear
  <1>6. InChannels' = InChannels /\ InStages' = InStages
    BY <1>1 DEF InChannels, InStages
  <1>7. /\ \A v \in Writers : sig'[v] = IF v = w THEN NoSignal ELSE sig[v]
        /\ \A v \in Writers : worker'[v] = IF v = w THEN "idle" ELSE worker[v]
        /\ worker' \in [Writers -> {"idle", "handling", "storing", "exited"}]
    BY <1>1 DEF EngineTypeOK
  <1>8. EngineTypeOK' /\ ChannelsOnce'
    BY <1>1, <1>5, <1>7 DEF EngineTypeOK, ChannelsOnce
  <1>9. WorkersHold' /\ WalFirst'
    BY <1>1, <1>3, <1>4, <1>7 DEF WorkersHold, WalFirst
  <1>10. HandsOnce'
    BY <1>1, <1>7 DEF HandsOnce
  <1>11. NoSilentLoss' /\ PlacesApart' /\ OnlyAccepted'
    BY <1>1, <1>2, <1>3, <1>5, <1>6 DEF NoSilentLoss, PlacesApart, OnlyAccepted
  <1>12. NotYetHandled'
    BY <1>1, <1>2, <1>4, <1>6, <1>7 DEF NotYetHandled
  <1> QED BY <1>8, <1>9, <1>10, <1>11, <1>12

\* A worker that returns, the actor, the backend and the steps of the shutdown
\* leave the pipeline as it is.
LEMMA QuietPipe ==
  ASSUME StorageInv, PipeInv, Written' \subseteq Written, EngineTypeOK',
         ctxDone => ctxDone',
         UNCHANGED <<chan, hold, sig, dropped, walled, accepted>>,
         \A w \in Writers : \/ worker'[w] = worker[w]
                            \/ worker[w] = "idle" /\ worker'[w] = "exited"
  PROVE  PipeInv'
  <1> USE DEF PipeInv, PipelineOnce
  <1>1. InChannels' = InChannels /\ InStages' = InStages /\ InWorkers' = InWorkers
    BY DEF InChannels, InStages, InWorkers
  <1>2. ChannelsOnce' /\ HandsOnce' /\ PlacesApart' /\ OnlyAccepted'
    BY <1>1 DEF ChannelsOnce, HandsOnce, PlacesApart, OnlyAccepted
  <1>3. WorkersHold' /\ WalFirst' /\ NoSilentLoss' /\ NotYetHandled'
    BY <1>1 DEF WorkersHold, WalFirst, NoSilentLoss, NotYetHandled
  <1> QED BY <1>2, <1>3

LEMMA WorkerReturnsPipe ==
  ASSUME StorageInv, PipeInv, NEW w \in Writers, WorkerReturns(w)
  PROVE  PipeInv'
  <1>1. /\ worker[w] = "idle" /\ worker' = [worker EXCEPT ![w] = "exited"]
        /\ UNCHANGED <<chan, chClosed, hold, sig, inbox, dropped, walled, ctxDone, stop, walClosed,
                       accepted>>
        /\ UNCHANGED storageVars
    BY DEF WorkerReturns, pipeVars, stopVars
  <1>2. EngineTypeOK'
    BY <1>1 DEF PipeInv, EngineTypeOK
  <1>3. \A v \in Writers : \/ worker'[v] = worker[v]
                           \/ worker[v] = "idle" /\ worker'[v] = "exited"
    BY <1>1 DEF PipeInv, EngineTypeOK
  <1>4. Written' \subseteq Written
    BY <1>1, WrittenKept DEF StorageInv
  <1> QED BY <1>1, <1>2, <1>3, <1>4, QuietPipe

\* The steps that the storage takes are its own, and no worker takes part.
LEMMA QuietSteps ==
  ASSUME StorageInv, PipeInv,
         \/ ActorReceives \/ StorageWorks \/ ShutdownRequested \/ Stop \/ UNCHANGED vars
  PROVE  PipeInv'
  <1> USE DEF pipeVars, workVars, stopVars, engineVars
  <1>1. UNCHANGED <<chan, hold, worker, sig, dropped, walled, accepted>>
    <2>1. CASE ActorReceives \/ StorageWorks \/ ShutdownRequested \/ UNCHANGED vars
      BY <2>1 DEF ActorReceives, StorageWorks, ShutdownRequested, vars
    <2>2. CASE Stop
      BY <2>2 DEF Stop, ReceiversStopped, StopBegins, StopWaits, StopFlushes, StopClosesStorage,
         StopClosesWal
    <2> QED BY <2>1, <2>2
  <1>2. Written' \subseteq Written
    <2>1. CASE ActorReceives \/ ShutdownRequested \/ UNCHANGED vars
      BY <2>1, WrittenKept DEF ActorReceives, ShutdownRequested, vars, StorageInv
    <2>2. CASE StorageWorks
      BY <2>2, WrittenKept DEF StorageWorks, StorageInv
    <2>3. CASE Stop
      BY <2>3, WrittenKept DEF Stop, ReceiversStopped, StopBegins, StopWaits, StopFlushes,
         StopClosesStorage, StopClosesWal, StorageInv
    <2> QED BY <2>1, <2>2, <2>3
  <1>3. ctxDone' \in BOOLEAN /\ (ctxDone => ctxDone')
    <2>1. CASE ActorReceives \/ StorageWorks \/ ShutdownRequested \/ UNCHANGED vars
      BY <2>1 DEF ActorReceives, StorageWorks, ShutdownRequested, vars, PipeInv, EngineTypeOK
    <2>2. CASE Stop
      BY <2>2 DEF Stop, ReceiversStopped, StopBegins, StopWaits, StopFlushes, StopClosesStorage,
         StopClosesWal, PipeInv, EngineTypeOK
    <2> QED BY <2>1, <2>2
  <1>4. EngineTypeOK'
    <2> USE DEF PipeInv, EngineTypeOK, StopSteps
    <2>1. CASE ActorReceives
      BY <2>1, EngineAssumption DEF ActorReceives
    <2>2. CASE StorageWorks \/ ShutdownRequested \/ UNCHANGED vars
      BY <1>3, <2>2 DEF StorageWorks, ShutdownRequested, vars, Goto
    <2>3. CASE StopBegins
      <3>1. chClosed' \in [0..3 -> BOOLEAN]
        BY <2>3, Zenon DEF StopBegins
      <3> QED BY <1>1, <1>3, <2>3, <3>1 DEF StopBegins, Goto
    <2>4. CASE ReceiversStopped \/ StopWaits \/ StopFlushes \/ StopClosesStorage
      BY <1>1, <1>3, <2>4 DEF ReceiversStopped, StopWaits, StopFlushes, StopClosesStorage, Goto
    <2>5. CASE StopClosesWal
      BY <1>1, <1>3, <2>5 DEF StopClosesWal, Goto
    <2> QED BY <2>1, <2>2, <2>3, <2>4, <2>5 DEF Stop
  <1> QED BY <1>1, <1>2, <1>3, <1>4, QuietPipe

LEMMA PipeStep == ASSUME StorageInv, PipeInv, [Next]_vars PROVE PipeInv'
  BY ProcessSignalPipe, StageReceivesPipe, StageSendsPipe, StageReturnsPipe,
     WorkerReceivesPipe, HandleDropsPipe, HandleWritesWalPipe, HandleStoresPipe,
     WorkerReturnsPipe, QuietSteps DEF Next

\* What the engine does to the storage are the calls that the storage's
\* specification expects: above all, no signal is written a second time.
LEMMA EngineCallsStorage == ASSUME PipeInv, [Next]_vars PROVE [StorageNext]_storageVars
  <1>1. CASE \E w \in Writers : HandleStores(w)
    <2>1. PICK w \in Writers : HandleStores(w)
      BY <1>1
    <2>2. worker[w] = "storing" /\ Write(w, sig[w])
      BY <2>1 DEF HandleStores
    <2>3. sig[w] \in Signals \ Written
      BY <2>2, InHand DEF PipeInv, PipelineOnce, NotYetHandled
    <2> QED BY <2>2, <2>3 DEF StorageNext
  <1>2. CASE StorageWorks \/ Stop
    BY <1>2 DEF StorageWorks, Stop, StorageNext, ReceiversStopped, StopBegins, StopWaits,
       StopFlushes, StopClosesStorage, StopClosesWal
  <1>3. CASE UNCHANGED storageVars
    BY <1>3
  <1>4. CASE \E w \in Writers : \/ WorkerReceives(w) \/ HandleDrops(w) \/ HandleWritesWal(w)
                                \/ WorkerReturns(w)
    BY <1>4 DEF WorkerReceives, HandleDrops, HandleWritesWal, WorkerReturns
  <1>5. CASE \/ \E s \in Signals : ProcessSignal(s)
             \/ \E i \in Stages : StageReceives(i) \/ StageSends(i) \/ StageReturns(i)
             \/ ActorReceives \/ ShutdownRequested
    BY <1>5 DEF ProcessSignal, StageReceives, StageSends, StageReturns, ActorReceives,
       ShutdownRequested
  <1> QED BY <1>1, <1>2, <1>3, <1>4, <1>5 DEF Next, vars

-----------------------------------------------------------------------------
(* The shutdown. *)

\* The backend on its own takes no new batch, but for the loop, which runs.
LEMMA BackendIdle ==
  ASSUME StorageTypeOK, StorageStep
  PROVE  /\ \A f \in Flushers : phase[f] = "idle" => \/ phase'[f] = "idle"
                                                     \/ f = Loop /\ loop = "run" /\ ~storageClosed
         /\ buffer' \in {buffer, {}} /\ UNCHANGED <<storageClosed, closing>>
         /\ \/ UNCHANGED loop
            \/ storageClosed /\ phase[Loop] = "idle" /\ UNCHANGED phase /\ loop' = "done"
  <1> USE DEF StorageTypeOK, bufferVars, breakerVars, closeVars
  <1>0. Loop \in Flushers
    BY DEF Flushers
  <1>1. CASE FlushTick
    BY <1>0, <1>1 DEF FlushTick, Flush, Take
  <1>2. CASE FlushLoopExits
    BY <1>2 DEF FlushLoopExits
  <1>3. CASE BreakerHalfOpens \/ BreakerInterval
    BY <1>3 DEF BreakerHalfOpens, BreakerInterval
  <1>4. ASSUME NEW g \in Flushers, BatchStep(g)
        PROVE  /\ \A f \in Flushers : phase[f] = "idle" => phase'[f] = "idle"
               /\ UNCHANGED <<buffer, storageClosed, closing, loop>>
    <2>1. CASE Admit(g)
      BY <2>1 DEF Admit
    <2>2. CASE Refuse(g)
      BY <2>2 DEF Refuse
    <2>3. CASE InsertSucceeds(g) \/ InsertFails(g)
      BY <2>3 DEF InsertSucceeds, InsertFails, Settled
    <2> QED BY <1>4, <2>1, <2>2, <2>3 DEF BatchStep
  <1> QED BY <1>1, <1>2, <1>3, <1>4 DEF StorageStep

LEMMA StopStep ==
  ASSUME StorageInv, PipeInv, StopInv, [Next]_vars
  PROVE  StopInv'
  <1> USE FlushersDistinct DEF StopInv, pipeVars, workVars, stopVars, engineVars
  <1>0. /\ StorageTypeOK /\ EngineTypeOK /\ Loop \in Flushers /\ Stopper \in Flushers
        /\ Writers \subseteq Flushers
    BY DEF StorageInv, PipeInv, Flushers
  <1>1. CASE /\ UNCHANGED <<storageVars, stopVars>>
             /\ \A w \in Writers : \/ worker'[w] = worker[w]
                                   \/ worker[w] # "exited" /\ worker'[w] # "exited"
                                   \/ phase[w] = "idle" /\ worker'[w] = "exited"
    <2>1. UNCHANGED <<buffer, phase, storageClosed, closing, loop, stop, ctxDone, walClosed>>
      BY <1>1 DEF storageVars, bufferVars, closeVars
    <2>2. WorkersGone'
      BY <1>1, <2>1 DEF WorkersGone
    <2> QED BY <2>1, <2>2 DEF StopOrder, CloseOrder
  <1>2. CASE \/ \E s \in Signals : ProcessSignal(s)
             \/ \E i \in Stages : StageReceives(i) \/ StageSends(i) \/ StageReturns(i)
             \/ ActorReceives \/ UNCHANGED vars
    BY <1>1, <1>2 DEF ProcessSignal, StageReceives, StageSends, StageReturns, ActorReceives, vars
  <1>3. CASE \E w \in Writers : \/ WorkerReceives(w) \/ HandleDrops(w) \/ HandleWritesWal(w)
                                \/ WorkerReturns(w)
    BY <1>0, <1>1, <1>3 DEF WorkerReceives, HandleDrops, HandleWritesWal, WorkerReturns, HandleEnds,
       EngineTypeOK
  <1>4. ASSUME NEW w \in Writers, HandleStores(w) PROVE StopInv'
    <2>1. /\ worker[w] = "storing" /\ Write(w, sig[w]) /\ worker' = [worker EXCEPT ![w] = "idle"]
          /\ UNCHANGED <<stop, ctxDone, walClosed>>
      BY <1>4 DEF HandleStores, HandleEnds
    <2>2. stop \notin {"flush", "close", "wal", "done"}
      BY <2>1 DEF WorkersGone
    <2>3. /\ \A f \in Flushers : f # w => phase'[f] = phase[f]
          /\ UNCHANGED <<storageClosed, closing, loop>>
      BY <1>0, <2>1 DEF Write, Take, StorageTypeOK, closeVars
    <2>4. \A v \in Writers : worker'[v] = IF v = w THEN "idle" ELSE worker[v]
      BY <1>0, <2>1 DEF EngineTypeOK
    <2>5. WorkersGone'
      BY <1>0, <2>1, <2>2, <2>3, <2>4 DEF WorkersGone
    <2>6. StopOrder' /\ CloseOrder'
      BY <1>0, <2>1, <2>2, <2>3 DEF StopOrder, CloseOrder
    <2> QED BY <2>5, <2>6
  <1>5. CASE StorageWorks
    <2>1. /\ StorageStep /\ UNCHANGED <<worker, stop, ctxDone, walClosed>>
      BY <1>5 DEF StorageWorks
    <2>2. /\ \A f \in Flushers : phase[f] = "idle" => \/ phase'[f] = "idle"
                                                      \/ f = Loop /\ loop = "run" /\ ~storageClosed
          /\ buffer' \in {buffer, {}} /\ UNCHANGED <<storageClosed, closing>>
          /\ \/ UNCHANGED loop
             \/ storageClosed /\ phase[Loop] = "idle" /\ UNCHANGED phase /\ loop' = "done"
      BY <1>0, <2>1, BackendIdle
    <2>3. WorkersGone' /\ StopOrder'
      BY <1>0, <2>1, <2>2 DEF WorkersGone, StopOrder
    <2>4. CloseOrder'
      BY <1>0, <2>2 DEF CloseOrder
    <2> QED BY <2>3, <2>4
  <1>6. CASE \/ ShutdownRequested \/ ReceiversStopped \/ StopBegins \/ StopWaits \/ StopClosesWal
    <2>1. UNCHANGED <<worker, buffer, phase, storageClosed, closing, loop>>
      BY <1>6 DEF ShutdownRequested, ReceiversStopped, StopBegins, StopWaits, StopClosesWal,
         storageVars, bufferVars, closeVars
    <2>2. WorkersGone' /\ CloseOrder'
      BY <1>6, <2>1 DEF WorkersGone, CloseOrder, ShutdownRequested, ReceiversStopped, StopBegins,
         StopWaits, StopClosesWal, Goto
    <2>3. StopOrder'
      BY <1>6, <2>1 DEF StopOrder, ShutdownRequested, ReceiversStopped, StopBegins, StopWaits,
         StopClosesWal, Goto
    <2> QED BY <2>2, <2>3
  <1>7. CASE StopFlushes
    <2>1. /\ stop = "flush" /\ stop' = "close" /\ UNCHANGED <<worker, ctxDone, walClosed>>
          /\ buffer' = {} /\ UNCHANGED <<storageClosed, closing, loop>>
          /\ \A f \in Flushers : f # Stopper => phase'[f] = phase[f]
      BY <1>0, <1>7 DEF StopFlushes, Goto, Flush, Take, storageVars, bufferVars, closeVars,
         StorageTypeOK
    <2>2. WorkersGone' /\ StopOrder'
      BY <1>0, <2>1 DEF WorkersGone, StopOrder
    <2>3. CloseOrder'
      BY <1>0, <2>1 DEF CloseOrder, StopOrder
    <2> QED BY <2>2, <2>3
  <1>8. CASE StopClosesStorage
    <2>1. UNCHANGED <<worker, ctxDone, walClosed, buffer, phase, loop>>
      BY <1>8 DEF StopClosesStorage, CloseBegin, CloseEnd, bufferVars
    <2>2. CASE stop = "close" /\ CloseBegin /\ UNCHANGED stop
      BY <2>1, <2>2 DEF CloseBegin, WorkersGone, StopOrder, CloseOrder
    <2>3. CASE CloseEnd /\ Goto("close", "wal")
      BY <2>1, <2>3 DEF CloseEnd, Goto, WorkersGone, StopOrder, CloseOrder
    <2> QED BY <1>8, <2>2, <2>3 DEF StopClosesStorage
  <1> QED BY <1>2, <1>3, <1>4, <1>5, <1>6, <1>7, <1>8 DEF Next, Stop

-----------------------------------------------------------------------------
(* The theorems. *)

LEMMA EngineInvInit == EngineInit => EngineInv
  <1> SUFFICES ASSUME EngineInit PROVE EngineInv
    OBVIOUS
  <1> USE DEF EngineInit
  <1>1. StorageInv
    BY StorageInitInv
  <1>2. ctxDone \in BOOLEAN /\ walClosed \in BOOLEAN /\ chClosed \in [0..3 -> BOOLEAN]
    BY Zenon
  <1>3. EngineTypeOK
    BY <1>2, EngineAssumption DEF EngineTypeOK, StopSteps
  <1>4. InChannels = {} /\ InStages = {} /\ InWorkers = {} /\ Written = {}
    <2>1. \A i \in 0..3 : Range(chan[i]) = {}
      BY DEF Range
    <2> QED BY <2>1 DEF InChannels, InStages, InWorkers, Written, StorageInit
  <1>5. PipeInv
    <2>1. ChannelsOnce
      BY DEF ChannelsOnce, IsInjective, Range
    <2>2. WorkersHold /\ HandsOnce
      BY DEF WorkersHold, HandsOnce
    <2>3. NoSilentLoss /\ WalFirst /\ PlacesApart /\ NotYetHandled /\ OnlyAccepted
      BY <1>4 DEF NoSilentLoss, WalFirst, PlacesApart, NotYetHandled, OnlyAccepted
    <2> QED BY <1>3, <2>1, <2>2, <2>3 DEF PipeInv, PipelineOnce
  <1>6. StopInv
    BY DEF StopInv, WorkersGone, StopOrder, CloseOrder, StorageInit, Flushers
  <1> QED BY <1>1, <1>5, <1>6 DEF EngineInv

\* The engine's inductive invariant holds of every behaviour.
THEOREM EngineInvariance == Spec => []EngineInv
  <1>1. EngineInv /\ [Next]_vars => EngineInv'
    BY PipeStep, StopStep, EngineCallsStorage, StorageStepInv DEF EngineInv
  <1> QED BY <1>1, EngineInvInit, PTL DEF Spec

\* Whatever the load, an accepted signal is in the pipeline, in the WAL, or
\* dropped with a counted reason, until the run context is cancelled.
THEOREM NothingSilentlyLost == Spec => []NoSilentLoss
  <1>1. EngineInv => NoSilentLoss
    BY DEF EngineInv, PipeInv
  <1> QED BY <1>1, EngineInvariance, PTL

\* The WAL holds every signal that the storage buffers, inserts or loses.
THEOREM WalBeforeStorage == Spec => []WalFirst
  <1>1. EngineInv => WalFirst
    BY DEF EngineInv, PipeInv
  <1> QED BY <1>1, EngineInvariance, PTL

\* When the connection and the WAL are closed nothing is left that uses them.
THEOREM StopIsClean == Spec => []CleanStop
  <1>1. EngineInv => CleanStop
    <2> SUFFICES ASSUME EngineInv PROVE CleanStop
      OBVIOUS
    <2> USE DEF EngineInv, StopInv
    <2>1. ASSUME closing = "done"
          PROVE  (\A f \in Flushers : phase[f] = "idle") /\ buffer = {}
      <3>1. storageClosed /\ phase[Loop] = "idle" /\ phase[Stopper] = "idle"
        BY <2>1 DEF CloseOrder
      <3>2. stop \in {"close", "wal", "done"}
        BY <3>1 DEF StopOrder
      <3> QED BY <3>1, <3>2 DEF StopOrder, WorkersGone, Flushers
    <2>2. walClosed => \A w \in Writers : worker[w] = "exited"
      BY DEF StopOrder, WorkersGone
    <2> QED BY <2>1, <2>2 DEF CleanStop
  <1> QED BY <1>1, EngineInvariance, PTL

\* The engine uses the storage backend as the backend's own specification
\* assumes: it implements that specification.
THEOREM EngineImplementsStorage == Spec => StorageSpec
  <1>1. EngineInit => StorageInit
    BY DEF EngineInit
  <1>2. EngineInv /\ [Next]_vars => [StorageNext]_storageVars
    BY EngineCallsStorage DEF EngineInv
  <1> QED BY <1>1, <1>2, EngineInvariance, PTL DEF Spec, StorageSpec

\* Hence, inside the engine as well, a signal is in one place and no batch
\* inserts a row that another one inserted.
THEOREM EngineSignalInOnePlace == Spec => []OnePlace
  BY EngineImplementsStorage, SignalInOnePlace, PTL

\* And the buffer that the workers share stays below BatchSize.
THEOREM EngineBufferBounded == Spec => []BufferBelowBatchSize
  BY EngineImplementsStorage, BufferBounded, PTL
=============================================================================
