---------------------------- MODULE MCFriendList ----------------------------
(* Model-checking instance of FriendList: the constants come from the cfg. *)
EXTENDS FriendList

CONSTANT ben

\* The first fetch cannot download the photo of ben.
FirstFails == [f \in 1..MaxFetches |-> IF f = 1 THEN {ben} ELSE {}]
=============================================================================
