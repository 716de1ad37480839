------------------------------ MODULE MCSignUp ------------------------------
(* Model-checking instance of SignUp: the constants come from the cfg.     *)
EXTENDS SignUp
=============================================================================
