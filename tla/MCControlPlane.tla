-------------------------- MODULE MCControlPlane --------------------------
(* The control plane's handlers for TLC: two tenants, two tables, every kind of request. *)
EXTENDS TenantApi

MCTables == <<"metrics", "logs">>

Days(h1, t1, h2, t2) == << [hot |-> h1, total |-> t1], [hot |-> h2, total |-> t2] >>

MCOps ==
    { [kind |-> "tenant.create", tenant |-> "new"],
      [kind |-> "tenant.delete", tenant |-> "acme"],
      [kind |-> "api_key.issue", tenant |-> "acme"],
      [kind |-> "api_key.revoke", tenant |-> "acme"],
      [kind |-> "retention.update", tenant |-> "acme", days |-> Days(1, 2, 0, 2)],
      [kind |-> "retention.update", tenant |-> "acme", days |-> Days(0, 0, 2, 1)],
      [kind |-> "retention.drop", tenant |-> "new"],
      [kind |-> "dashboard.create", tenant |-> "acme", name |-> "main"],
      [kind |-> "dashboard.update", tenant |-> "acme", name |-> "main"],
      [kind |-> "dashboard.delete", tenant |-> "acme"] }
=============================================================================
