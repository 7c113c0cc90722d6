---------------------------- MODULE MCDiscovery ----------------------------
(* The instance of Discovery: a /30, whose first host is in the table. *)
EXTENDS Discovery

TwoHosts == 1..2
OneKnown == {1}
=============================================================================
