------------------------------ MODULE HomeFeed ------------------------------
(***************************************************************************)
(* The home screen (HomeViewController) and the fetch of the feed          *)
(* (FirebaseAPIHandler.fetchAllPost, fetchPostUserName, fetchAllUserImage, *)
(* fetchPostImage).                                                        *)
(*                                                                         *)
(* A fetch reads all records at once and then asks for the author's name   *)
(* and photo and the image of each post.  One DispatchGroup counts every   *)
(* such request of every post; when it is empty a block per post adds the  *)
(* post to the result and leaves a second group, whose block sorts the     *)
(* result and delivers it.  Pulling the table starts another fetch at any  *)
(* time, and rows are filled by blocks that index the array later.         *)
(***************************************************************************)
EXTENDS Naturals, Sequences, FiniteSets, SequencesExt

CONSTANTS
    Posts,              \* keys of posts
    Anonymous,          \* posts stored while nobody was signed in: author ""
    Stamp,              \* "timeStamp" of a post, from the clock of its device
    MaxFetches          \* bound: fetches of the feed

ASSUME FeedAssumption ==
    /\ IsFiniteSet(Posts)
    /\ Anonymous \subseteq Posts
    /\ Stamp \in [Posts -> Nat]
    /\ MaxFetches \in Nat

Fetches == 1..MaxFetches
Details == {"name", "photo", "image"}

VARIABLES
    running,        \* is there a process; FALSE after an exception
    stored,         \* database: POST
    fetches,        \* fetches started so far
    phase,          \* how far a fetch is
    snapshot,       \* the records a fetch read
    dispatchGroup,  \* requests that entered and have not left, as <<post, detail>>
    postGroup,      \* posts that entered postDispatchGroup and have not left
    result,         \* postInfoArray of the fetch, before it is sorted
    delivered,      \* how often the fetch called its completion
    array,          \* HomeViewController.postInfoArray
    source,         \* the fetch array came from
    reload,         \* reload blocks queued
    rows,           \* rows of the table since the last reload
    cells,          \* rows whose willDisplay block is queued
    hud,            \* SVProgressHUD is shown
    outdated        \* history: an older fetch replaced the result of a newer one

fetch  == <<phase, snapshot, dispatchGroup, postGroup, result, delivered>>
screen == <<array, source, reload, rows, cells, hud, outdated>>
vars   == <<running, stored, fetches, fetch, screen>>

Phases == {"none", "sent", "details", "silent", "done", "dead"}

TypeOK ==
    /\ running \in BOOLEAN /\ hud \in BOOLEAN /\ outdated \in BOOLEAN
    /\ stored \in SUBSET Posts
    /\ fetches \in 0..MaxFetches /\ source \in 0..MaxFetches
    /\ phase \in [Fetches -> Phases]
    /\ snapshot \in [Fetches -> SUBSET Posts]
    /\ DOMAIN dispatchGroup = Fetches /\ DOMAIN postGroup = Fetches
    /\ DOMAIN result = Fetches
    /\ \A f \in Fetches : /\ dispatchGroup[f] \subseteq snapshot[f] \X Details
                          /\ postGroup[f] \subseteq snapshot[f]
                          /\ result[f] \subseteq snapshot[f]
    /\ delivered \in [Fetches -> Nat]
    /\ array \in Seq(Posts)
    /\ reload \in Nat /\ rows \in Nat /\ cells \in SUBSET Nat

Init ==
    /\ running = FALSE
    /\ stored \in SUBSET Posts
    /\ fetches = 0
    /\ phase = [f \in Fetches |-> "none"]
    /\ snapshot = [f \in Fetches |-> {}]
    /\ dispatchGroup = [f \in Fetches |-> {}]
    /\ postGroup = [f \in Fetches |-> {}]
    /\ result = [f \in Fetches |-> {}]
    /\ delivered = [f \in Fetches |-> 0]
    /\ array = <<>> /\ source = 0
    /\ reload = 0 /\ rows = 0 /\ cells = {}
    /\ hud = FALSE /\ outdated = FALSE

-----------------------------------------------------------------------------
(***************************************************************************)
(* Starting a fetch: when the screen loads and when the table is pulled.   *)
(***************************************************************************)
FetchPost ==
    /\ fetches < MaxFetches
    /\ fetches' = fetches + 1
    /\ phase' = [phase EXCEPT ![fetches + 1] = "sent"]
    /\ hud' = TRUE

\* Launch shows the home screen, whose viewDidLoad fetches.
Launch ==
    /\ ~running /\ running' = TRUE
    /\ FetchPost
    /\ UNCHANGED <<stored, snapshot, dispatchGroup, postGroup, result, delivered,
                   array, source, reload, rows, cells, outdated>>

HandleRefresh ==
    /\ running
    /\ FetchPost
    /\ UNCHANGED <<running, stored, snapshot, dispatchGroup, postGroup, result, delivered,
                   array, source, reload, rows, cells, outdated>>

\* An exception ends the process with its blocks, requests and screen.
ProcessEnds ==
    /\ running' = FALSE
    /\ phase' = [f \in Fetches |-> IF phase[f] \in {"sent", "details", "silent"}
                                     THEN "dead" ELSE phase[f]]
    /\ array' = <<>> /\ source' = 0
    /\ reload' = 0 /\ rows' = 0 /\ cells' = {}
    /\ hud' = FALSE /\ outdated' = FALSE

-----------------------------------------------------------------------------
(***************************************************************************)
(* The callbacks of a fetch.                                               *)
(***************************************************************************)
\* Answers come in the order the reads were sent in.
Answerable(f) ==
    /\ phase[f] = "sent"
    /\ \A g \in 1..(f - 1) : phase[g] # "sent"

\* Every request of every post enters the group before any can leave it.
Snapshot(f) ==
    /\ Answerable(f)
    /\ stored # {} /\ stored \cap Anonymous = {}
    /\ phase' = [phase EXCEPT ![f] = "details"]
    /\ snapshot' = [snapshot EXCEPT ![f] = stored]
    /\ dispatchGroup' = [dispatchGroup EXCEPT ![f] = stored \X Details]
    /\ postGroup' = [postGroup EXCEPT ![f] = stored]
    /\ UNCHANGED <<running, stored, fetches, result, delivered, screen>>

\* Without a record the completion is not called.
SnapshotEmpty(f) ==
    /\ Answerable(f)
    /\ stored = {}
    /\ phase' = [phase EXCEPT ![f] = "silent"]
    /\ UNCHANGED <<running, stored, fetches, snapshot, dispatchGroup, postGroup, result,
                   delivered, screen>>

\* fetchPostUserName: child("") raises for an author that is "".
SnapshotRaises(f) ==
    /\ Answerable(f)
    /\ stored \cap Anonymous # {}
    /\ ProcessEnds
    /\ UNCHANGED <<stored, fetches, snapshot, dispatchGroup, postGroup, result, delivered>>

\* Mutant: the callback of the photo does not leave the group.
DetailAnswered_NoPhoto(f, p, d) ==
    /\ phase[f] = "details"
    /\ <<p, d>> \in dispatchGroup[f] /\ d # "photo"
    /\ dispatchGroup' = [dispatchGroup EXCEPT ![f] = @ \ {<<p, d>>}]
    /\ UNCHANGED <<running, stored, fetches, phase, snapshot, postGroup, result,
                   delivered, screen>>

\* A detail that cannot be had leaves the group as one that can.
DetailAnswered(f, p, d) ==
    /\ phase[f] = "details"
    /\ <<p, d>> \in dispatchGroup[f]
    /\ dispatchGroup' = [dispatchGroup EXCEPT ![f] = @ \ {<<p, d>>}]
    /\ UNCHANGED <<running, stored, fetches, phase, snapshot, postGroup, result,
                   delivered, screen>>

\* The block of one post, once no request of any post is out.
AppendPost(f, p) ==
    /\ phase[f] = "details"
    /\ dispatchGroup[f] = {} /\ p \in postGroup[f]
    /\ result' = [result EXCEPT ![f] = @ \cup {p}]
    /\ postGroup' = [postGroup EXCEPT ![f] = @ \ {p}]
    /\ UNCHANGED <<running, stored, fetches, phase, snapshot, dispatchGroup, delivered, screen>>

Sorted(seq) == \A i, j \in DOMAIN seq : i < j => Stamp[seq[i]] >= Stamp[seq[j]]

\* Mutants of Deliver: the posts' blocks are not awaited; the sort is missing.
Deliver_NotJoined(f) ==
    /\ phase[f] = "details"
    /\ dispatchGroup[f] = {}
    /\ \E seq \in SetToSeqs(result[f]) : Sorted(seq) /\ array' = seq
    /\ phase' = [phase EXCEPT ![f] = "done"]
    /\ delivered' = [delivered EXCEPT ![f] = @ + 1]
    /\ source' = f
    /\ outdated' = (outdated \/ f < source)
    /\ reload' = reload + 1
    /\ UNCHANGED <<running, stored, fetches, snapshot, dispatchGroup, postGroup, result,
                   rows, cells, hud>>

Deliver_Unsorted(f) ==
    /\ phase[f] = "details"
    /\ dispatchGroup[f] = {} /\ postGroup[f] = {}
    /\ \E seq \in SetToSeqs(result[f]) : array' = seq
    /\ phase' = [phase EXCEPT ![f] = "done"]
    /\ delivered' = [delivered EXCEPT ![f] = @ + 1]
    /\ source' = f
    /\ outdated' = (outdated \/ f < source)
    /\ reload' = reload + 1
    /\ UNCHANGED <<running, stored, fetches, snapshot, dispatchGroup, postGroup, result,
                   rows, cells, hud>>

\* The sort and the completion, which replaces the array of the screen.
Deliver(f) ==
    /\ phase[f] = "details"
    /\ dispatchGroup[f] = {} /\ postGroup[f] = {}
    /\ \E seq \in SetToSeqs(result[f]) : Sorted(seq) /\ array' = seq
    /\ phase' = [phase EXCEPT ![f] = "done"]
    /\ delivered' = [delivered EXCEPT ![f] = @ + 1]
    /\ source' = f
    /\ outdated' = (outdated \/ f < source)
    /\ reload' = reload + 1
    /\ UNCHANGED <<running, stored, fetches, snapshot, dispatchGroup, postGroup, result,
                   rows, cells, hud>>

-----------------------------------------------------------------------------
(***************************************************************************)
(* The table.                                                              *)
(***************************************************************************)
ReloadData ==
    /\ running /\ reload > 0
    /\ reload' = reload - 1
    /\ hud' = FALSE
    /\ rows' = Len(array)
    /\ UNCHANGED <<running, stored, fetches, fetch, array, source, cells, outdated>>

WillDisplay(row) ==
    /\ running /\ row \in 1..rows
    /\ cells' = cells \cup {row}
    /\ UNCHANGED <<running, stored, fetches, fetch, array, source, reload, rows, hud, outdated>>

\* The block willDisplay queued reads the array as it is by now.
FillCell(row) ==
    /\ running /\ row \in cells
    /\ IF row \in DOMAIN array
         THEN /\ cells' = cells \ {row}
              /\ UNCHANGED <<running, phase, array, source, reload, rows, hud, outdated>>
         ELSE ProcessEnds
    /\ UNCHANGED <<stored, fetches, snapshot, dispatchGroup, postGroup, result, delivered>>

-----------------------------------------------------------------------------
\* Someone posts; nothing in the app removes a post.
SomeonePosts(p) ==
    /\ p \notin stored
    /\ stored' = stored \cup {p}
    /\ UNCHANGED <<running, fetches, fetch, screen>>

Callback(f) ==
    \/ Snapshot(f) \/ SnapshotEmpty(f) \/ SnapshotRaises(f)
    \/ \E p \in Posts : AppendPost(f, p) \/ \E d \in Details : DetailAnswered(f, p, d)
    \/ Deliver(f)

Next ==
    \/ Launch \/ HandleRefresh \/ ReloadData
    \/ \E f \in Fetches : Callback(f)
    \/ \E row \in 1..Cardinality(Posts) : WillDisplay(row) \/ FillCell(row)
    \/ \E p \in Posts : SomeonePosts(p)

\* The servers answer every request; the main queue runs its blocks.
Fairness ==
    /\ \A f \in Fetches : WF_vars(Callback(f))
    /\ WF_vars(ReloadData)
    /\ \A row \in 1..Cardinality(Posts) : WF_vars(FillCell(row))

Spec == Init /\ [][Next]_vars /\ Fairness
-----------------------------------------------------------------------------
(***************************************************************************)
(* Properties.                                                             *)
(***************************************************************************)
\* However the answers of overlapping fetches interleave, a fetch delivers once,
\* after the last answer, and what it delivers is every record it read.
DeliveredOnceComplete ==
    \A f \in Fetches :
        /\ delivered[f] = (IF phase[f] = "done" THEN 1 ELSE 0)
        /\ phase[f] = "done" => result[f] = snapshot[f] /\ dispatchGroup[f] = {}

\* The array on the screen is the snapshot of one fetch, newest post first.
FeedIsSortedSnapshot ==
    source # 0 => /\ ToSet(array) = snapshot[source]
                  /\ Len(array) = Cardinality(snapshot[source])
                  /\ Sorted(array)

\* A row block finds its post (HomeViewController.swift:71) unless a fetch
\* started earlier replaced the result of a later one, which only overlapping
\* fetches can do: posts are never removed, so the array never shrinks otherwise.
RowsInRange ==
    ~outdated => /\ rows <= Len(array)
                 /\ \A row \in cells : row \in DOMAIN array

\* The types, what a fetch delivers and what the row blocks find: the groups of
\* overlapping fetches and the table never disagree about the posts.
FetchInv == TypeOK /\ DeliveredOnceComplete /\ RowsInRange

\* Every fetch is delivered, unless no post was found or the process ended, as it does
\* for good once a post without an author is stored (FirebaseAPIHandler.swift:457).
FetchAnswered ==
    \A f \in Fetches : phase[f] = "sent" ~> phase[f] \in {"done", "silent", "dead"}
=============================================================================
