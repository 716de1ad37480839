--------------------------- MODULE MCEditProfile ---------------------------
(* Model-checking instance of EditProfile: the constants come from the cfg. *)
EXTENDS EditProfile

CONSTANT alice

\* The accounts are interchangeable: the one that is signed in first is alice, who has a
\* whole profile and a photo, a record without a profile, or nothing; every other has a
\* whole profile and a photo.
AliceInit  == /\ Init /\ session = alice
              /\ \A u \in (Users \ {alice}) \cup complete : photo[u] = u
AliceFirst == AliceInit /\ [][Next]_vars /\ Fairness
=============================================================================
