----------------------------- MODULE MCUserList -----------------------------
(* Model-checking instance of UserList: the constants come from the cfg. *)
EXTENDS UserList
=============================================================================
