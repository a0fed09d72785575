---------------------------- MODULE MCConnResources -----------------------------
(* One listener, a connection accepted from it and one dialed connection. *)
EXTENDS ConnResources

CONSTANTS listener, accepted, dialed

MCOwners == {listener, accepted, dialed}
MCListener == [o \in MCOwners |-> IF o = accepted THEN listener ELSE NoListener]
================================================================================
