------------------------------ MODULE MCEngine ------------------------------
(* Engine for TLC: a metric, a trace, and a log whose payload is not JSON. *)
EXTENDS Engine, TLC

CONSTANTS m, t, x

MCSignals == {m, t, x}
MCTypeOf == (m :> 1) @@ (t :> 3) @@ (x :> 2)
MCBadPayload == {x}
=============================================================================
