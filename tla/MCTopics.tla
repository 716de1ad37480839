------------------------------ MODULE MCTopics ------------------------------
(* Model-checking instance of Topics: the constants come from the cfg.     *)
EXTENDS Topics
=============================================================================
