------------------------------ MODULE Sampler ------------------------------
(***************************************************************************)
(* The adaptive sampler of src/pkg/sampling, which decides for each span   *)
(* whether the engine persists it.  The priority queue holds the traces    *)
(* with the best scores and is bounded; seenTraces remembers when a trace  *)
(* was last seen and is not.  The z-score of a duration against the        *)
(* service's moving average is an input: whole, and zero for a service     *)
(* with little history.  Spans carry a trace id.                           *)
(***************************************************************************)
EXTENDS Integers, FiniteSetsExt

CONSTANTS
    Traces,
    MaxSize,     \* the bound of the queue
    KeepTarget,  \* int(maxSize * samplingRate)
    SpanScores,  \* the attributes of spans: sets of reasons, and a z-score
    Memory,      \* five minutes, in ticks of the clock
    MaxTime      \* bound on the clock

ASSUME SamplerAssumption ==
    /\ MaxSize \in Nat /\ KeepTarget \in Nat /\ Memory \in Nat /\ MaxTime \in Nat
    /\ \A a \in SpanScores : /\ a.why \subseteq {"error", "slow", "payment", "parent"}
                             /\ a.z \in Nat

VARIABLES
    clock,
    pq,          \* the queue: [trace, score, at] of each trace in it
    seenTraces,  \* when each trace was last seen, -1 if never
    spans,       \* when the last span of each trace came, -1 if none (history)
    verdict      \* the last decision: its trace, the span before it, the verdict

samplerVars == <<clock, pq, seenTraces, spans, verdict>>

SamplerInit ==
    /\ clock = 0 /\ pq = {}
    /\ seenTraces = [t \in Traces |-> -1]
    /\ spans = [t \in Traces |-> -1]
    /\ verdict = [keep |-> TRUE, score |-> 0, before |-> -1]

Score(a) ==
    LET points(why, n) == IF why \in a.why THEN n ELSE 0
    IN  10 * a.z + points("error", 100) + points("slow", 50)
          + points("payment", 20) + points("parent", 25)

\* Less: the lower score, and of equal scores the older one, leaves first.
Less(x, y) == x.score < y.score \/ (x.score = y.score /\ x.at < y.at)

\* What is left when the worst have been popped; items of one instant tie.
Trimmed(q) ==
    {kept \in SUBSET q :
        /\ Cardinality(kept) = IF Cardinality(q) > MaxSize THEN MaxSize ELSE Cardinality(q)
        /\ \A x \in kept, y \in q \ kept : ~Less(x, y)}

\* A mutant of Remember: a trace that has left the queue is forgotten.
RememberQueued(t, q) ==
    [u \in Traces |-> IF u \notin {x.trace : x \in q} THEN -1
                      ELSE IF u = t THEN clock ELSE seenTraces[u]]

Remember(t, q) == [seenTraces EXCEPT ![t] = clock]

Verdict(score, lastSeen, size) ==
    \/ score >= 50
    \/ lastSeen # -1 /\ clock - lastSeen < Memory
    \/ size <= IF KeepTarget < 1 THEN 1 ELSE KeepTarget

Decide(t, a) ==
    LET item == [trace |-> t, score |-> Score(a), at |-> clock]
    IN  /\ pq' \in Trimmed({x \in pq : x.trace # t} \union {item})
        /\ seenTraces' = Remember(t, pq')
        /\ verdict' = [keep |-> Verdict(Score(a), seenTraces[t], Cardinality(pq')),
                       score |-> Score(a), before |-> IF spans[t] = -1 THEN -1 ELSE clock - spans[t]]
        /\ spans' = [spans EXCEPT ![t] = clock]
        /\ UNCHANGED clock

SamplerTick ==
    /\ clock < MaxTime
    /\ clock' = clock + 1
    /\ UNCHANGED <<pq, seenTraces, spans, verdict>>

SamplerNext ==
    \/ \E t \in Traces, a \in SpanScores : Decide(t, a)
    \/ SamplerTick

SamplerSpec == SamplerInit /\ [][SamplerNext]_samplerVars

----------------------------------------------------------------------------
(***************************************************************************)
(* A span is never dropped within five minutes of another span of its      *)
(* trace, however many traces have pushed that trace out of the queue in   *)
(* between, and never when it is an error or a slow one; the queue stays   *)
(* within its bound and holds a trace once.                                *)
(***************************************************************************)
KeptWithSibling ==
    /\ ~verdict.keep => verdict.score < 50 /\ verdict.before \notin 0 .. Memory - 1
    /\ Cardinality(pq) <= MaxSize
    /\ \A x, y \in pq : x.trace = y.trace => x = y

----------------------------------------------------------------------------
\* The inductive invariant behind it: seenTraces forgets nothing.
SamplerInv ==
    /\ clock \in Nat /\ spans \in [Traces -> Int] /\ seenTraces = spans
    /\ IsFiniteSet(pq) /\ KeptWithSibling
=============================================================================
