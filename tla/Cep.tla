-------------------------------- MODULE Cep --------------------------------
(***************************************************************************)
(* The rules of src/pkg/cep that a tenant's actor runs over its signals:   *)
(* windows of minutes kept as a ring of buckets, and two edge-triggered    *)
(* rules per service.  The threshold on the error rate is a number of      *)
(* errors per window (the window's length is fixed), and the totals, which *)
(* only decorate the event, are left out.                                  *)
(***************************************************************************)
EXTENDS Integers, Sequences, FiniteSets

CONSTANTS
    Services,
    Buckets,       \* buckets of a window, one per minute
    ErrThreshold,  \* errors in the window at which the error-rate rule fires
    LatThreshold,  \* duration at which the latency rule fires
    Durations,     \* the durations traces may carry
    MaxEpoch,      \* bound on the clock
    MaxSignals     \* bound on the signals processed

\* duration_ms is missing or no number at all; it parses as "NaN".
NoDuration == -1
NaN == -2

ASSUME CepAssumption ==
    /\ Buckets \in Nat \ {0} /\ ErrThreshold \in Nat \ {0}
    /\ LatThreshold \in Nat \ {0} /\ Durations \subseteq Nat
    /\ MaxEpoch \in Nat /\ MaxSignals \in Nat

\* Only traces carry a duration; an error on a metric changes nothing.
Signals ==
    {sig \in [type : {"metric", "log", "trace"}, service : Services, error : BOOLEAN,
              dur : Durations \union {NoDuration, NaN}] :
        /\ sig.type # "trace" => sig.dur = NoDuration
        /\ sig.type = "metric" => ~sig.error}

VARIABLES
    epoch,      \* the clock, in buckets; it starts later than every empty bucket
    errors,     \* HighErrorRateRule.errors
    maxes,      \* HighLatencyRule.maxes
    firing,     \* the firing maps of the two rules
    processed   \* every signal with the minute and the event it raised (history)

cepVars == <<epoch, errors, maxes, firing, processed>>

Ring(content) == [i \in 0 .. Buckets - 1 |-> [epoch |-> 0, val |-> content]]

CepInit ==
    /\ epoch = Buckets
    /\ errors = [s \in Services |-> Ring(0)]
    /\ maxes = [s \in Services |-> Ring(0)]
    /\ firing = [r \in {"error", "latency"} |-> [s \in Services |-> FALSE]]
    /\ processed = << >>

Slot == epoch % Buckets

Live(b) == b.epoch > epoch - Buckets /\ b.epoch <= epoch

\* A mutant of add: an old bucket is not cleared when its slot comes round.
addToStale(ring, n) == [ring EXCEPT ![Slot].epoch = epoch, ![Slot].val = @ + n]

add(ring, n) ==
    [ring EXCEPT ![Slot] =
        [epoch |-> epoch, val |-> n + IF @.epoch = epoch THEN @.val ELSE 0]]

\* The live buckets added up, slot by slot.
sum(ring) ==
    LET upTo[k \in 0 .. Buckets] ==
          IF k = 0 THEN 0
          ELSE upTo[k - 1] + IF Live(ring[k - 1]) THEN ring[k - 1].val ELSE 0
    IN  upTo[Buckets]

\* A bucket keeps its first duration until a larger one comes; no number is
\* larger than NaN.
observe(ring, ms) ==
    IF ring[Slot].epoch # epoch
    THEN [ring EXCEPT ![Slot] = [epoch |-> epoch, val |-> ms]]
    ELSE IF ring[Slot].val # NaN /\ ms > ring[Slot].val
         THEN [ring EXCEPT ![Slot].val = ms] ELSE ring

\* The largest value of a live bucket, slot by slot; 0 if none is larger.
maxIn(ring) ==
    LET upTo[k \in 0 .. Buckets] ==
          IF k = 0 THEN 0
          ELSE IF Live(ring[k - 1]) /\ ring[k - 1].val > upTo[k - 1]
               THEN ring[k - 1].val ELSE upTo[k - 1]
    IN  upTo[Buckets]

SeesErrors(sig) == sig.type \in {"log", "trace"}
SeesLatency(sig) == sig.type = "trace" /\ sig.dur # NoDuration

\* What a rule makes of a signal: its ring, whether the value has reached the
\* threshold, and whether that raises an event (it was not firing before).
Judged(rule, s, ring, over) ==
    [ring |-> ring, over |-> over, raises |-> over /\ ~firing[rule][s]]

ErrorRule(sig) ==
    LET s    == sig.service
        ring == IF sig.error THEN add(errors[s], 1) ELSE errors[s]
    IN  Judged("error", s, ring, sum(ring) >= ErrThreshold)

LatencyRule(sig) ==
    LET s    == sig.service
        ring == observe(maxes[s], sig.dur)
    IN  Judged("latency", s, ring, maxIn(ring) >= LatThreshold)

(***************************************************************************)
(* Engine.Process: the error-rate rule, then the latency rule, unless the  *)
(* first has raised an event.                                              *)
(***************************************************************************)
Process(sig) ==
    LET s == sig.service
        er == ErrorRule(sig)
        lr == LatencyRule(sig)
        eEvent == SeesErrors(sig) /\ er.raises
        lEval  == SeesLatency(sig) /\ ~eEvent
        lEvent == lEval /\ lr.raises
    IN  /\ errors' = IF SeesErrors(sig) THEN [errors EXCEPT ![s] = er.ring] ELSE errors
        /\ maxes' = IF lEval THEN [maxes EXCEPT ![s] = lr.ring] ELSE maxes
        /\ firing' = [firing EXCEPT
              !["error"][s]   = IF SeesErrors(sig) THEN er.over ELSE @,
              !["latency"][s] = IF lEval THEN lr.over ELSE @]
        /\ processed' = Append(processed,
              [sig |-> sig, epoch |-> epoch,
               event |-> CASE eEvent -> "error" [] lEvent -> "latency" [] OTHER -> "none"])
        /\ UNCHANGED epoch

\* The clock, in whole buckets; it only goes forward.
CepTick ==
    /\ epoch < MaxEpoch
    /\ epoch' = epoch + 1
    /\ UNCHANGED <<errors, maxes, firing, processed>>

----------------------------------------------------------------------------
(* What the rules should say, from the record of the signals alone *)

Service(i) == processed[i].sig.service

\* The signals up to the i-th, of its service, in the window that ends with it.
Window(i) ==
    {j \in 1 .. i : Service(j) = Service(i) /\ processed[j].epoch > processed[i].epoch - Buckets}

\* The signals each rule was asked about; the latency rule is not asked about a
\* signal that raised an error event.
Logged(i) == SeesErrors(processed[i].sig)
Evaluated(i) == SeesLatency(processed[i].sig) /\ processed[i].event # "error"

Failed(i) == Logged(i) /\ processed[i].sig.error

\* The durations that the latency rule saw of s in minute e.
DurationsIn(s, e) ==
    {j \in DOMAIN processed : Evaluated(j) /\ Service(j) = s /\ processed[j].epoch = e}

FirstOf(S, j) == j \in S /\ \A k \in S : j <= k
LastOf(S, j) == j \in S /\ \A k \in S : k <= j

\* The first duration that the rule saw in the i-th signal's minute is NaN.
Blind(i) ==
    \E j \in 1 .. i : /\ FirstOf(DurationsIn(Service(i), processed[i].epoch), j)
                      /\ processed[j].sig.dur = NaN

ErrorsOver(i) == Cardinality({j \in Window(i) : Failed(j)}) >= ErrThreshold

LatencyOver(i) ==
    \E j \in Window(i) : Evaluated(j) /\ ~Blind(j) /\ processed[j].sig.dur >= LatThreshold

\* The i-th signal is over the threshold, and the one of its service that the
\* rule was asked about before, if any, was not.
ErrorEdge(i) ==
    LET before == {j \in 1 .. i - 1 : Logged(j) /\ Service(j) = Service(i)}
    IN  Logged(i) /\ ErrorsOver(i) /\ \A j \in before : LastOf(before, j) => ~ErrorsOver(j)

LatencyEdge(i) ==
    LET before == {j \in 1 .. i - 1 : Evaluated(j) /\ Service(j) = Service(i)}
    IN  Evaluated(i) /\ LatencyOver(i) /\ \A j \in before : LastOf(before, j) => ~LatencyOver(j)

(***************************************************************************)
(* Every signal that takes a service across a threshold raises an event,   *)
(* and no other does, judged by the signals themselves: the ring forgets   *)
(* what has left the window and nothing else, however far the clock goes   *)
(* forward between two signals (it is never set back in the model), and    *)
(* a breach raises one event until it is over.  Two exceptions the code    *)
(* has: a signal that raises an error event is not shown to the latency    *)
(* rule, and a minute whose first duration is NaN counts for nothing.      *)
(***************************************************************************)
EventsAreEdges ==
    \A i \in DOMAIN processed :
        processed[i].event = IF ErrorEdge(i) THEN "error"
                             ELSE IF LatencyEdge(i) THEN "latency" ELSE "none"

----------------------------------------------------------------------------
(* The inductive invariant behind EventsAreEdges; GatewayProofs uses it *)

Rings(content) == [Services -> [0 .. Buckets - 1 -> [epoch : Nat, val : content]]]

CepTypes ==
    /\ epoch \in Nat /\ epoch >= Buckets
    /\ processed \in Seq([sig : Signals, epoch : Nat, event : {"error", "latency", "none"}])
    /\ \A j \in DOMAIN processed : processed[j].epoch \in 1 .. epoch
    /\ errors \in Rings(Nat) /\ maxes \in Rings(Durations \union {0, NaN})
    /\ firing \in [{"error", "latency"} -> [Services -> BOOLEAN]]

ErrorsIn(s, e) ==
    {j \in DOMAIN processed : Failed(j) /\ Service(j) = s /\ processed[j].epoch = e}

\* A bucket is of the last minute of its slot in which there was something to
\* remember, if there was any.
Placed(b, i, epochs) ==
    /\ b.epoch <= epoch /\ (b.epoch # 0 => b.epoch % Buckets = i)
    /\ \A e \in epochs : e % Buckets = i => e <= b.epoch

ErrorSlots ==
    \A s \in Services : \A i \in 0 .. Buckets - 1 :
        LET b == errors[s][i]
        IN  /\ Placed(b, i, {e \in 1 .. epoch : ErrorsIn(s, e) # {}})
            /\ b.val = Cardinality(ErrorsIn(s, b.epoch))

\* The largest duration of the minute, unless its first is NaN.
LatencySlots ==
    \A s \in Services : \A i \in 0 .. Buckets - 1 :
        LET b    == maxes[s][i]
            seen == DurationsIn(s, b.epoch)
        IN  /\ Placed(b, i, {e \in 1 .. epoch : DurationsIn(s, e) # {}})
            /\ b.epoch # 0 =>
                 \E j \in seen :
                    /\ FirstOf(seen, j)
                    /\ IF processed[j].sig.dur = NaN THEN b.val = NaN
                       ELSE /\ b.val # NaN /\ \E k \in seen : processed[k].sig.dur = b.val
                            /\ \A k \in seen : processed[k].sig.dur <= b.val

LoggedOf(s) == {j \in DOMAIN processed : Logged(j) /\ Service(j) = s}
EvaluatedOf(s) == {j \in DOMAIN processed : Evaluated(j) /\ Service(j) = s}

\* A rule is firing for s when the last signal it saw of s was over.
FiringMeansOver ==
    \A s \in Services :
        /\ firing["error"][s] <=> \E j \in LoggedOf(s) : LastOf(LoggedOf(s), j) /\ ErrorsOver(j)
        /\ firing["latency"][s] <=>
             \E j \in EvaluatedOf(s) : LastOf(EvaluatedOf(s), j) /\ LatencyOver(j)

CepInv == CepTypes /\ ErrorSlots /\ LatencySlots /\ FiringMeansOver /\ EventsAreEdges
=============================================================================
