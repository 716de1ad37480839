---------------------------- MODULE Registration ----------------------------
(***************************************************************************)
(* What signing up promises, whatever the form, the location, the calls    *)
(* and the process do.  An address is registered by one submit, for good,  *)
(* and a submit registers one address at most.  The submit that registered *)
(* an address, and no other, adds the profile and then the photo to it.  A *)
(* submit is announced as a success only with all three, and after it was  *)
(* reported, as a success or as a failure, it stores nothing more and is   *)
(* not reported otherwise.  One that failed may leave its parts behind.    *)
(***************************************************************************)
CONSTANTS
    Submits,            \* attempts to sign up
    Emails,             \* addresses that can be registered
    Nobody              \* the submit that registered a free address

VARIABLES
    owner,              \* the submit that registered an address
    profiles,           \* addresses with a record under USER
    photos,             \* addresses with an image under UserImages
    announced,          \* submits reported as successful
    failed              \* submits reported as failed

regVars == <<owner, profiles, photos, announced, failed>>

RegInit ==
    /\ owner = [e \in Emails |-> Nobody]
    /\ profiles = {} /\ photos = {}
    /\ announced = {} /\ failed = {}

Reported == announced \cup failed

Register(s, e) ==
    /\ s \notin Reported
    /\ owner[e] = Nobody /\ \A f \in Emails : owner[f] # s
    /\ owner' = [owner EXCEPT ![e] = s]
    /\ UNCHANGED <<profiles, photos, announced, failed>>

StoreProfile(s, e) ==
    /\ s \notin Reported
    /\ owner[e] = s
    /\ profiles' = profiles \cup {e}
    /\ UNCHANGED <<owner, photos, announced, failed>>

StorePhoto(s, e) ==
    /\ s \notin Reported
    /\ owner[e] = s /\ e \in profiles
    /\ photos' = photos \cup {e}
    /\ UNCHANGED <<owner, profiles, announced, failed>>

Announce(s, e) ==
    /\ s \notin Reported
    /\ owner[e] = s /\ e \in profiles \cap photos
    /\ announced' = announced \cup {s}
    /\ UNCHANGED <<owner, profiles, photos, failed>>

ReportFailure(s) ==
    /\ s \notin Reported
    /\ failed' = failed \cup {s}
    /\ UNCHANGED <<owner, profiles, photos, announced>>

RegNext ==
    \E s \in Submits :
        \/ ReportFailure(s)
        \/ \E e \in Emails : \/ Register(s, e) \/ StoreProfile(s, e)
                             \/ StorePhoto(s, e) \/ Announce(s, e)

RegSpec == RegInit /\ [][RegNext]_regVars
=============================================================================
