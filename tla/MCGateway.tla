----------------------------- MODULE MCGateway -----------------------------
(***************************************************************************)
(* The two ends of the ingest gateway: the receivers in front of the       *)
(* engine, and the CEP rules and the alert sink behind its actors.  With   *)
(* them the validator of OIDC tokens, which is to the control plane and    *)
(* the query engine what the receivers' key check is to the gateway.  They *)
(* share no state, so a behaviour follows one of them (focus) while the    *)
(* others rest in their initial states.                                    *)
(***************************************************************************)
EXTENDS AlertSink, MCReceivers, Oidc

VARIABLE focus

vars == <<focus, cepVars, sinkVars, receiverVars, oidcVars>>

\* The steps of one part, the others at rest.
Behind(A) == focus = "cep" /\ A /\ UNCHANGED <<focus, receiverVars, oidcVars>>
InFront(A) == focus = "receivers" /\ A /\ UNCHANGED <<focus, cepVars, sinkVars, oidcVars>>
Validator(A) == focus = "oidc" /\ A /\ UNCHANGED <<focus, cepVars, sinkVars, receiverVars>>

Init ==
    /\ focus \in {"cep", "receivers", "oidc"}
    /\ CepInit /\ SinkInit /\ ReceiversInit /\ OidcInit

Next == Behind(AlertPathNext) \/ InFront(ReceiversNext) \/ Validator(OidcNext)

\* The sink's worker, the handlers, the receivers' loops and the validator's
\* refresh are goroutines of their own; a post, Shutdown and the fetch of keys
\* have timeouts.  The process lives meanwhile.
Spec ==
    /\ Init /\ [][Next]_vars
    /\ WF_vars(Behind(WorkerTake \/ Send \/ WorkerDone))
    /\ WF_vars(InFront(Alive /\ CallStep)) /\ WF_vars(InFront(Alive /\ StopStep))
    /\ WF_vars(Validator(OidcLoop)) /\ WF_vars(Validator(OidcRequest))
=============================================================================
