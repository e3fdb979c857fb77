---------------------------- MODULE MCReceivers ----------------------------
(* The receivers for TLC: keys of several scopes and one StatsD packet. *)
EXTENDS Receivers

\* A plain key, one that may not ingest, one with a scope nobody knows, and one
\* that was revoked.
MCKeyRow ==
    [ingest |-> [tenant |-> "acme", scopes |-> {"ingest"}, live |-> TRUE],
     query  |-> [tenant |-> "acme", scopes |-> {"query"}, live |-> TRUE],
     odd    |-> [tenant |-> "acme", scopes |-> {"ingest", "typo"}, live |-> TRUE],
     revoked |-> [tenant |-> "acme", scopes |-> {"ingest"}, live |-> FALSE]]

MCPackets == { << [name |-> "hits", parts |-> <<"1">>], [name |-> "hits", parts |-> <<"1", "c">>] >> }
=============================================================================
