---------------------------- MODULE MCServices ----------------------------
(***************************************************************************)
(* The services whose requests meet in a store: the alert-manager with one *)
(* alert of the events endpoint and one of an SLO, of which the silence an *)
(* operator may create matches the first, and its burn-rate evaluator; the *)
(* control plane with its audit export; the key store; and the engine's    *)
(* sampler and the query-engine's log tail.  They share no state, so a     *)
(* behaviour follows one of them (focus) while the others rest in their    *)
(* initial states.                                                         *)
(***************************************************************************)
EXTENDS AlertManager, Sampler, SloBurn, LogTail, KeyStore, MCControlPlane, TLC

CONSTANT MaxObservations  \* bound on the events the evaluator observes

VARIABLE focus

MCAlerts == {"ev", "slo"}
MCEventAlerts == {"ev"}
MCSloAlerts == {"slo"}
MCLabels == [a \in MCAlerts |-> [k \in {"service"} |-> IF a = "ev" THEN "api" ELSE ""]]
MCMatchers == {[k \in {"service"} |-> "api"]}

\* Two pairs as DefaultPairs has them, in minutes: a slow ticket before a page.
MCPairs == << [long |-> 3, short |-> 2, rate |-> 1, severity |-> "ticket"],
              [long |-> 2, short |-> 1, rate |-> 2, severity |-> "page"] >>

MCSpanScores == { [why |-> {}, z |-> 0], [why |-> {"payment", "parent"}, z |-> 0],
                  [why |-> {"payment", "parent"}, z |-> 1], [why |-> {"slow"}, z |-> 0],
                  [why |-> {"error"}, z |-> 0] }

\* The keys and the validations of the key store are interchangeable.
Symm == Permutations(Keys) \cup Permutations(Validations)

MCInit ==
    /\ focus \in {"alerts", "sampler", "slo", "tail", "keys", "api"}
    /\ Init /\ SamplerInit /\ SloInit /\ TailInit /\ KeyStoreInit /\ ApiInit /\ ExportInit

Observed == MapThenSumSet(LAMBDA m : seen.good[m] + seen.bad[m], Minutes)

\* The part that is followed takes a step and the others rest.
MCNext ==
    /\ \/ /\ focus = "alerts" /\ UNCHANGED <<samplerVars, sloVars, tailVars, keyStoreVars, apiVars, exportVars>>
          /\ Next
       \/ /\ focus = "sampler" /\ UNCHANGED <<vars, sloVars, tailVars, keyStoreVars, apiVars, exportVars>>
          /\ SamplerNext
       \/ /\ focus = "slo" /\ UNCHANGED <<vars, samplerVars, tailVars, keyStoreVars, apiVars, exportVars>>
          /\ SloNext /\ Observed' <= MaxObservations
       \/ /\ focus = "tail" /\ UNCHANGED <<vars, samplerVars, sloVars, keyStoreVars, apiVars, exportVars>>
          /\ TailNext
       \/ /\ focus = "keys" /\ UNCHANGED <<vars, samplerVars, sloVars, tailVars, apiVars, exportVars>>
          /\ KeyStoreNext
       \/ /\ focus = "api" /\ UNCHANGED <<vars, samplerVars, sloVars, tailVars, keyStoreVars>>
          /\ ApiNext
    /\ UNCHANGED focus

MCSpec == MCInit /\ [][MCNext]_<<focus, vars, samplerVars, sloVars, tailVars, keyStoreVars,
                                apiVars, exportVars>>
=============================================================================
