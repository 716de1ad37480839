----------------------------- MODULE MCAddPost -----------------------------
(* Model-checking instance of AddPost: the constants come from the cfg.    *)
EXTENDS AddPost
=============================================================================
