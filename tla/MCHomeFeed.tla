----------------------------- MODULE MCHomeFeed -----------------------------
(* Model-checking instance of HomeFeed.                                    *)
EXTENDS HomeFeed, TLC

CONSTANTS p1, p2, p3

\* The third, stored without an author, has the same time stamp as the second.
StampDef == p1 :> 1 @@ p2 :> 2 @@ p3 :> 2
=============================================================================
