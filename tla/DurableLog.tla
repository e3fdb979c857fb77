----------------------------- MODULE DurableLog -----------------------------
(* What the write-ahead log promises its callers, without segments, offsets,
   checksums or page caches: a sequence of entries, some of which are known to
   be durable. A step appends an entry, makes a suffix of the log durable, or
   recovers after a crash. Recovery may lose or bring back entries that are
   not durable; it never loses, duplicates or reorders a durable one. *)
EXTENDS Naturals, Sequences, Functions

CONSTANT Entries

VARIABLES log,      \* the entries a reader sees, oldest first
          durable,  \* the entries that no crash may lose
          ever      \* the entries some Append has started to write

absVars == <<log, durable, ever>>

AbsInit == log = <<>> /\ durable = {} /\ ever = {}

AbsAppend == \E e \in Entries \ ever :
    /\ ever' = ever \cup {e}
    /\ log' = Append(log, e)
    /\ durable \subseteq durable'
    /\ durable' \subseteq durable \cup Range(log)

AbsSync == \E i \in 1..Len(log) :
    /\ durable' = durable \cup Range(SubSeq(log, i, Len(log)))
    /\ UNCHANGED <<log, ever>>

\* A crash in the middle of an append: the entry may or may not be recovered.
AbsTorn == \E e \in Entries \ ever :
    ever' = ever \cup {e} /\ UNCHANGED <<log, durable>>

AbsRecover ==
    /\ Range(log') \subseteq ever
    /\ IsInjective(log')
    /\ Range(log') \cap durable = Range(log) \cap durable
    /\ \A i, j \in DOMAIN log, k, l \in DOMAIN log' :
          /\ i < j /\ {log[i], log[j]} \subseteq durable
          /\ log'[k] = log[i] /\ log'[l] = log[j]
          => k < l
    /\ UNCHANGED <<durable, ever>>

AbsNext == AbsAppend \/ AbsSync \/ AbsTorn \/ AbsRecover

AbsSpec == AbsInit /\ [][AbsNext]_absVars
=============================================================================
