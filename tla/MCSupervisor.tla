---------------------------- MODULE MCSupervisor ----------------------------
(* One tenant and two signals: one routed by RouteToTenant, one by engine.handle. *)
EXTENDS Supervisor

CONSTANTS t1, s1, s2

MCTenants == {t1}
MCSignals == {s1, s2}
MCTenantOf == [s \in MCSignals |-> t1]
MCDirect == {s2}
=============================================================================
