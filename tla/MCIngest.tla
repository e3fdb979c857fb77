----------------------------- MODULE MCIngest -----------------------------
(***************************************************************************)
(* What an accepted signal passes: the engine with its storage backend,    *)
(* and the write-ahead log behind HandleWritesWal.  The engine abstracts   *)
(* the log to its order of writes and the log the engine to its callers,   *)
(* so a behaviour follows one of the two (focus) while the other rests.    *)
(***************************************************************************)
EXTENDS MCEngine, Wal

VARIABLE focus

MCInit == focus \in {"engine", "wal"} /\ EngineInit /\ WalInit

MCNext ==
    /\ \/ focus = "engine" /\ Next /\ UNCHANGED walVars
       \/ focus = "wal" /\ WalNext /\ UNCHANGED vars
    /\ UNCHANGED focus

\* The fairness of the part that is followed: the one at rest takes no step.
MCFairness == \/ focus = "engine" /\ Fairness
              \/ focus = "wal" /\ WalFairness

MCSpec == MCInit /\ [][MCNext]_<<focus, vars, walVars>> /\ MCFairness
=============================================================================
