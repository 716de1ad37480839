---------------------------- MODULE Publication ----------------------------
(***************************************************************************)
(* What publishing a post promises, whatever the screens, callbacks and    *)
(* dispatch groups do: a post has three parts kept in two stores.  Its     *)
(* record comes first; its image and its entry in an account's POST list   *)
(* follow in either order; it is announced as published only when all      *)
(* three are stored, and an attempt that was reported to have failed is    *)
(* never announced.  A failed attempt may leave its parts behind.          *)
(***************************************************************************)
CONSTANT Posts          \* keys of the posts

VARIABLES
    records,            \* posts with a record under POST in the database
    images,             \* posts with an image under Posts/ in the file store
    listed,             \* posts some account's POST list names
    announced,          \* posts reported as published
    failed              \* posts reported as failed

pubVars == <<records, images, listed, announced, failed>>

PubInit ==
    /\ records = {} /\ images = {} /\ listed = {}
    /\ announced = {} /\ failed = {}

StoreRecord(p) ==
    /\ records' = records \cup {p}
    /\ UNCHANGED <<images, listed, announced, failed>>

StoreImage(p) ==
    /\ p \in records
    /\ images' = images \cup {p}
    /\ UNCHANGED <<records, listed, announced, failed>>

StoreListing(p) ==
    /\ p \in records
    /\ listed' = listed \cup {p}
    /\ UNCHANGED <<records, images, announced, failed>>

Announce(p) ==
    /\ p \in records \cap images \cap listed
    /\ p \notin failed
    /\ announced' = announced \cup {p}
    /\ UNCHANGED <<records, images, listed, failed>>

ReportFailure(p) ==
    /\ p \notin announced
    /\ failed' = failed \cup {p}
    /\ UNCHANGED <<records, images, listed, announced>>

PubNext ==
    \E p \in Posts : \/ StoreRecord(p) \/ StoreImage(p) \/ StoreListing(p)
                     \/ Announce(p) \/ ReportFailure(p)

PubSpec == PubInit /\ [][PubNext]_pubVars
=============================================================================
