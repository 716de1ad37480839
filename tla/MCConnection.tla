---------------------------- MODULE MCConnection ----------------------------
(* Model-checking instance of Connection: the constants come from the cfg. *)
EXTENDS Connection
=============================================================================
