------------------------------ MODULE MCConnection ------------------------------
(* Two keys and a channel. *)
EXTENDS Connection
================================================================================
