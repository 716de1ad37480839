----------------------------- MODULE MCSession -----------------------------
(* Model-checking instance of Session: the constants come from the cfg.    *)
EXTENDS Session
=============================================================================
