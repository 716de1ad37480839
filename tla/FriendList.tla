----------------------------- MODULE FriendList -----------------------------
(***************************************************************************)
(* The friends screen (FriendViewController) and the calls it makes        *)
(* (FirebaseAPIHandler.fetchFriendList, removeFromFriendList).             *)
(*                                                                         *)
(* A fetch reads the keys under FRIENDS, then the profile of each friend   *)
(* and then its photo; a friend leaves the group only with a photo.  Every *)
(* friend registers a block, so the completion runs once per friend.       *)
(*                                                                         *)
(* Rows are table cells that are used again: the button of a cell carries  *)
(* the row it was last filled for as its tag, and the code that unfriends  *)
(* uses that tag as an index, at the tap and again after the removal.      *)
(* Every row is visible; rows count from 1.  Blocks the code queues on the *)
(* main queue run in their order; callbacks and taps come between any two. *)
(* The blocks of didEndDisplaying, which only blank labels, are left out.  *)
(***************************************************************************)
EXTENDS Naturals, Sequences, FiniteSets, SequencesExt, Subsequences

CONSTANTS
    People,             \* accounts that may be friends
    NoProfile,          \* friends without a record under USER
    NoPhoto,            \* friends whose photo a fetch cannot download
    Buttons,            \* unfriend buttons of the table's cells
    NoOne,              \* nobody
    MaxFetches,         \* bound: appearances of the screen
    MaxRemovals,        \* bound: confirmed removals
    MaxSearches         \* bound: edits and cancels of the search text

ASSUME FriendAssumption ==
    /\ IsFiniteSet(People) /\ IsFiniteSet(Buttons)
    /\ NoProfile \subseteq People
    /\ NoPhoto \in [1..MaxFetches -> SUBSET People]
    /\ NoOne \notin People
    /\ Cardinality(Buttons) >= Cardinality(People)
    /\ MaxFetches \in Nat /\ MaxRemovals \in Nat /\ MaxSearches \in Nat

Fetches  == 1..MaxFetches
Removals == 1..MaxRemovals

VARIABLES
    running,        \* FALSE after an exception
    friends,        \* database: USER/<uid>/FRIENDS
    phase,          \* how far a fetch is
    snapshot,       \* the friends a fetch read
    profiled,       \* friends whose profile has come
    inGroup,        \* friends that entered the group and have not left
    friendArray,    \* the result of the fetch, in the order of the photos
    array,          \* friendListArray, what the table shows
    unfiltered,     \* unFilteredFriendListArray
    label,          \* the number after "Total :"
    queue,          \* the blocks on the main queue
    searches,
    visible,        \* buttons of the cells on the screen
    tag,            \* tag of a button; 0 if never filled
    name,           \* the friend a cell was last filled for
    alert,          \* the alert asking to remove a friend
    removal,        \* the removals confirmed
    hud,            \* SVProgressHUD is shown
    filtered,       \* history: searched since the total was last set
    calm            \* history: nothing changed under a removal

fetch   == <<phase, snapshot, profiled, inGroup, friendArray>>
lists   == <<array, unfiltered>>
table   == <<visible, tag, name>>
history == <<filtered, calm>>
vars == <<running, friends, fetch, lists, label, queue, searches, table, alert, removal,
          hud, history>>

\* The blocks: a completion of a fetch, the block it queues, the block of a search,
\* of willDisplay for a button and its row, and of a removal.
NotifyBlock(f)    == <<"notify", f>>
FetchedBlock      == <<"fetched">>
SearchedBlock     == <<"searched">>
FillBlock(b, row) == <<"fill", b, row>>
DropBlock(r)      == <<"drop", r>>

Blocks == {NotifyBlock(f) : f \in Fetches} \cup {FetchedBlock, SearchedBlock}
          \cup {FillBlock(b, row) : b \in Buttons, row \in 1..Cardinality(People)}
          \cup {DropBlock(r) : r \in Removals}

NoRemoval == [state |-> "none", person |-> NoOne, button |-> NoOne, seen |-> NoOne]

\* A removal is "sent", then decided ("removed" or "refused"), then
\* "answered" when its callback has run and "done" when the row is gone.
RemovalRecords == [state : {"none", "asked", "sent", "removed", "refused", "answered", "done"},
                   person : People \cup {NoOne}, button : Buttons \cup {NoOne},
                   seen : People \cup {NoOne}]

TypeOK ==
    /\ running \in BOOLEAN /\ hud \in BOOLEAN
    /\ filtered \in BOOLEAN /\ calm \in BOOLEAN
    /\ friends \in SUBSET People
    /\ phase \in [Fetches -> {"none", "sent", "friends", "done"}]
    /\ snapshot \in [Fetches -> SUBSET People]
    /\ DOMAIN inGroup = Fetches /\ DOMAIN profiled = Fetches
    /\ \A f \in Fetches : /\ profiled[f] \subseteq snapshot[f]
                          /\ inGroup[f] \subseteq snapshot[f]
                          /\ ToSet(friendArray[f]) = snapshot[f] \ inGroup[f]
    /\ array \in Seq(People) /\ unfiltered \in Seq(People)
    /\ label \in Nat /\ queue \in Seq(Blocks)
    /\ searches \in 0..MaxSearches
    /\ visible \in SUBSET Buttons
    /\ tag \in [Buttons -> Nat] /\ name \in [Buttons -> People \cup {NoOne}]
    /\ alert \in RemovalRecords
    /\ removal \in [Removals -> RemovalRecords]

Init ==
    /\ running = TRUE
    /\ friends \in SUBSET People
    /\ phase = [f \in Fetches |-> "none"]
    /\ snapshot = [f \in Fetches |-> {}]
    /\ profiled = [f \in Fetches |-> {}] /\ inGroup = [f \in Fetches |-> {}]
    /\ friendArray = [f \in Fetches |-> <<>>]
    /\ array = <<>> /\ unfiltered = <<>> /\ label = 0
    /\ queue = <<>> /\ searches = 0
    /\ visible = {}
    /\ tag = [b \in Buttons |-> 0] /\ name = [b \in Buttons |-> NoOne]
    /\ alert = NoRemoval /\ removal = [r \in Removals |-> NoRemoval]
    /\ hud = FALSE /\ filtered = FALSE /\ calm = TRUE

-----------------------------------------------------------------------------
(***************************************************************************)
(* The fetch.                                                              *)
(***************************************************************************)
\* viewWillAppear
FetchFriends(f) ==
    /\ running /\ alert = NoRemoval
    /\ phase[f] = "none" /\ \A g \in 1..(f - 1) : phase[g] # "none"
    /\ phase' = [phase EXCEPT ![f] = "sent"]
    /\ hud' = TRUE
    /\ UNCHANGED <<running, friends, snapshot, profiled, inGroup, friendArray, lists, label,
                   queue, searches, table, alert, removal, history>>

Open(r) == removal[r].state \in {"sent", "removed", "refused", "answered"}

\* Nothing waits for an index into the array.
NoneOpen == alert = NoRemoval /\ \A r \in Removals : ~Open(r)

\* Mutant: the full array is not replaced.
Completion_KeepsFull(result, before) ==
    /\ array' = result /\ unfiltered' = unfiltered
    /\ queue' = Append(before, FetchedBlock)
    /\ calm' = (calm /\ NoneOpen)

\* The completion replaces both arrays and queues the block that shows them.
Completion(result, before) ==
    /\ array' = result /\ unfiltered' = result
    /\ queue' = Append(before, FetchedBlock)
    /\ calm' = (calm /\ NoneOpen)

SnapshotFriends(f) ==
    /\ running /\ phase[f] = "sent"
    /\ friends # {}
    /\ phase' = [phase EXCEPT ![f] = "friends"]
    /\ snapshot' = [snapshot EXCEPT ![f] = friends]
    /\ inGroup' = [inGroup EXCEPT ![f] = friends]
    /\ UNCHANGED <<running, friends, profiled, friendArray, lists, label, queue, searches,
                   table, alert, removal, hud, history>>

\* Mutant: an empty list of friends is not answered, as in fetchAllPost.
SnapshotEmpty_Silent(f) ==
    /\ running /\ phase[f] = "sent"
    /\ friends = {}
    /\ phase' = [phase EXCEPT ![f] = "friends"]
    /\ UNCHANGED <<running, friends, snapshot, profiled, inGroup, friendArray, lists, label,
                   queue, searches, table, alert, removal, hud, history>>

SnapshotEmpty(f) ==
    /\ running /\ phase[f] = "sent"
    /\ friends = {}
    /\ phase' = [phase EXCEPT ![f] = "done"]
    /\ Completion(<<>>, queue)
    /\ UNCHANGED <<running, friends, snapshot, profiled, inGroup, friendArray, label,
                   searches, table, alert, removal, hud, filtered>>

\* A friend without profile returns early and stays in the group.
Profile(f, p) ==
    /\ running /\ phase[f] = "friends"
    /\ p \in inGroup[f] \ (profiled[f] \cup NoProfile)
    /\ profiled' = [profiled EXCEPT ![f] = @ \cup {p}]
    /\ UNCHANGED <<running, friends, phase, snapshot, inGroup, friendArray, lists, label,
                   queue, searches, table, alert, removal, hud, history>>

\* Mutant: the completion is queued by every photo, as it is once per friend anyway.
Photo_NotifiesEach(f, p) ==
    /\ running /\ phase[f] = "friends"
    /\ p \in (inGroup[f] \cap profiled[f]) \ NoPhoto[f]
    /\ inGroup' = [inGroup EXCEPT ![f] = @ \ {p}]
    /\ friendArray' = [friendArray EXCEPT ![f] = Append(@, p)]
    /\ queue' = Append(queue, NotifyBlock(f))
    /\ UNCHANGED <<running, friends, phase, snapshot, profiled, lists, label, searches,
                   table, alert, removal, hud, history>>

\* So does one whose photo is missing or fails.  The last to leave queues a block for every friend.
Photo(f, p) ==
    /\ running /\ phase[f] = "friends"
    /\ p \in (inGroup[f] \cap profiled[f]) \ NoPhoto[f]
    /\ inGroup' = [inGroup EXCEPT ![f] = @ \ {p}]
    /\ friendArray' = [friendArray EXCEPT ![f] = Append(@, p)]
    /\ queue' = IF inGroup[f] = {p}
                  THEN queue \o [i \in 1..Cardinality(snapshot[f]) |-> NotifyBlock(f)]
                  ELSE queue
    /\ UNCHANGED <<running, friends, phase, snapshot, profiled, lists, label, searches,
                   table, alert, removal, hud, history>>

RunNotify(f) ==
    /\ running /\ queue # <<>> /\ Head(queue) = NotifyBlock(f)
    /\ phase' = [phase EXCEPT ![f] = "done"]
    /\ Completion(friendArray[f], Tail(queue))
    /\ UNCHANGED <<running, friends, snapshot, profiled, inGroup, friendArray, label,
                   searches, table, alert, removal, hud, filtered>>

-----------------------------------------------------------------------------
(***************************************************************************)
(* The table.                                                              *)
(***************************************************************************)
\* reloadData and the layout that follows it: the rows get cells in any order,
\* and each cell's willDisplay queues a block.
Reload(rows, before) ==
    \E cell \in [1..rows -> Buttons] :
        /\ \A i, j \in 1..rows : cell[i] = cell[j] => i = j
        /\ visible' = {cell[i] : i \in 1..rows}
        /\ queue' = before \o [i \in 1..rows |-> FillBlock(cell[i], i)]

ShowFetched ==
    /\ running /\ queue # <<>> /\ Head(queue) = FetchedBlock
    /\ hud' = FALSE
    /\ label' = Len(array) /\ filtered' = FALSE
    /\ Reload(Len(array), Tail(queue))
    /\ UNCHANGED <<running, friends, fetch, lists, searches, tag, name, alert, removal, calm>>

ShowSearched ==
    /\ running /\ queue # <<>> /\ Head(queue) = SearchedBlock
    /\ Reload(Len(array), Tail(queue))
    /\ UNCHANGED <<running, friends, fetch, lists, label, searches, tag, name, alert,
                   removal, hud, history>>

\* An index out of range raises and ends the process.
Raise ==
    /\ running' = FALSE
    /\ UNCHANGED <<friends, fetch, lists, label, queue, searches, table, alert, removal,
                   hud, history>>

InUse(b) == alert.button = b \/ \E r \in Removals : Open(r) /\ removal[r].button = b

\* Mutant: the button is set up the first time its cell is filled only.
FillCell_TagsOnce(b, row) ==
    /\ running /\ queue # <<>> /\ Head(queue) = FillBlock(b, row)
    /\ row \in DOMAIN array
    /\ queue' = Tail(queue)
    /\ tag' = [tag EXCEPT ![b] = IF @ = 0 THEN row ELSE @]
    /\ name' = [name EXCEPT ![b] = array[row]]
    /\ calm' = (calm /\ (InUse(b) => tag[b] = row))
    /\ UNCHANGED <<running, friends, fetch, lists, label, searches, visible, alert, removal,
                   hud, filtered>>

FillCell(b, row) ==
    /\ running /\ queue # <<>> /\ Head(queue) = FillBlock(b, row)
    /\ row \in DOMAIN array
    /\ queue' = Tail(queue)
    /\ tag' = [tag EXCEPT ![b] = row]
    /\ name' = [name EXCEPT ![b] = array[row]]
    /\ calm' = (calm /\ (InUse(b) => tag[b] = row))
    /\ UNCHANGED <<running, friends, fetch, lists, label, searches, visible, alert, removal,
                   hud, filtered>>

FillCellRaises(b, row) ==
    /\ running /\ queue # <<>> /\ Head(queue) = FillBlock(b, row)
    /\ row \notin DOMAIN array
    /\ Raise

-----------------------------------------------------------------------------
(***************************************************************************)
(* Removing a friend.                                                      *)
(***************************************************************************)
\* unFriend: the friend is the one at the tag, whatever the cell shows.
UnFriend(b) ==
    /\ running /\ alert = NoRemoval
    /\ b \in visible /\ tag[b] \in DOMAIN array
    /\ alert' = [state |-> "asked", person |-> array[tag[b]], button |-> b, seen |-> name[b]]
    /\ calm' = (calm /\ queue = <<>>)
    /\ UNCHANGED <<running, friends, fetch, lists, label, queue, searches, table, removal,
                   hud, filtered>>

UnFriendRaises(b) ==
    /\ running /\ alert = NoRemoval
    /\ b \in visible /\ tag[b] # 0 /\ tag[b] \notin DOMAIN array
    /\ Raise

CancelAlert ==
    /\ running /\ alert # NoRemoval
    /\ alert' = NoRemoval
    /\ UNCHANGED <<running, friends, fetch, lists, label, queue, searches, table, removal,
                   hud, history>>

ConfirmAlert(r) ==
    /\ running /\ alert # NoRemoval
    /\ removal[r] = NoRemoval /\ \A q \in 1..(r - 1) : removal[q] # NoRemoval
    /\ removal' = [removal EXCEPT ![r] = [alert EXCEPT !.state = "sent"]]
    /\ alert' = NoRemoval
    /\ UNCHANGED <<running, friends, fetch, lists, label, queue, searches, table, hud, history>>

ServerRemoves(r) ==
    /\ removal[r].state = "sent"
    /\ friends' = friends \ {removal[r].person}
    /\ removal' = [removal EXCEPT ![r].state = "removed"]
    /\ UNCHANGED <<running, fetch, lists, label, queue, searches, table, alert, hud, history>>

ServerRefuses(r) ==
    /\ removal[r].state = "sent"
    /\ removal' = [removal EXCEPT ![r].state = "refused"]
    /\ UNCHANGED <<running, friends, fetch, lists, label, queue, searches, table, alert, hud,
                   history>>

\* The completion is called for a refusal as for a removal.
Answered(r) ==
    /\ running /\ removal[r].state \in {"removed", "refused"}
    /\ removal' = [removal EXCEPT ![r].state = "answered"]
    /\ queue' = Append(queue, DropBlock(r))
    /\ UNCHANGED <<running, friends, fetch, lists, label, searches, table, alert, hud, history>>

RowOf(r) == tag[removal[r].button]

\* The row is the tag the button has by now, and only the shown array loses it.
DropRow(r) ==
    /\ running /\ queue # <<>> /\ Head(queue) = DropBlock(r)
    /\ RowOf(r) \in DOMAIN array
    /\ array' = RemoveAt(array, RowOf(r))
    /\ removal' = [removal EXCEPT ![r].state = "done"]
    /\ label' = Len(array')
    /\ Reload(Len(array'), Tail(queue))
    /\ calm' = (calm /\ alert = NoRemoval /\ \A q \in Removals \ {r} : ~Open(q))
    /\ UNCHANGED <<running, friends, fetch, unfiltered, searches, tag, name, alert, hud,
                   filtered>>

DropRowRaises(r) ==
    /\ running /\ queue # <<>> /\ Head(queue) = DropBlock(r)
    /\ RowOf(r) \notin DOMAIN array
    /\ Raise

-----------------------------------------------------------------------------
(***************************************************************************)
(* The search bar.  A text is the set of friends whose name contains it.   *)
(***************************************************************************)
Filter(shownNow) ==
    /\ running /\ alert = NoRemoval /\ searches < MaxSearches
    /\ searches' = searches + 1
    /\ array' = shownNow
    /\ queue' = Append(queue, SearchedBlock)
    /\ filtered' = TRUE
    /\ calm' = (calm /\ NoneOpen)
    /\ UNCHANGED <<running, friends, fetch, unfiltered, label, table, alert, removal, hud>>

SearchTextDidChange(matches) ==
    Filter(At(unfiltered, {i \in DOMAIN unfiltered : unfiltered[i] \in matches}))

SearchCancelled == Filter(unfiltered)

-----------------------------------------------------------------------------
Fetch(f) == \/ SnapshotFriends(f) \/ SnapshotEmpty(f) \/ RunNotify(f)
            \/ \E p \in People : Profile(f, p) \/ Photo(f, p)

Table == \/ ShowFetched \/ ShowSearched
         \/ \E b \in Buttons, row \in 1..Cardinality(People) :
               FillCell(b, row) \/ FillCellRaises(b, row)

Removing(r) == \/ ServerRemoves(r) \/ ServerRefuses(r) \/ Answered(r)
               \/ DropRow(r) \/ DropRowRaises(r)

User == \/ \E f \in Fetches : FetchFriends(f)
        \/ \E b \in Buttons : UnFriend(b) \/ UnFriendRaises(b)
        \/ CancelAlert \/ \E r \in Removals : ConfirmAlert(r)
        \/ \E matches \in SUBSET People : SearchTextDidChange(matches)
        \/ SearchCancelled

Next == \/ User \/ Table
        \/ \E f \in Fetches : Fetch(f)
        \/ \E r \in Removals : Removing(r)

\* The servers answer; the main queue runs its blocks.
Fairness == /\ \A f \in Fetches : WF_vars(Fetch(f))
            /\ \A r \in Removals : WF_vars(Removing(r))
            /\ WF_vars(Table)

Spec == Init /\ [][Next]_vars /\ Fairness
-----------------------------------------------------------------------------
(***************************************************************************)
(* Properties.                                                             *)
(***************************************************************************)
\* A fetch delivers every friend it read, once each and with profile and photo;
\* one friend without either and nothing is delivered (FirebaseAPIHandler.swift:295
\* and :309 do not leave the group).
AllFriendsOrNone ==
    \A f \in Fetches :
        phase[f] = "done" =>
            /\ ToSet(friendArray[f]) = snapshot[f]
            /\ Len(friendArray[f]) = Cardinality(snapshot[f])
            /\ snapshot[f] \cap (NoProfile \cup NoPhoto[f]) = {}

\* Whatever searches, fetches and removals do to the two arrays, the shown one
\* is a part of the other and shows nobody twice.
ShownIsPart ==
    /\ ToSet(array) \subseteq ToSet(unfiltered)
    /\ Cardinality(ToSet(array)) = Len(array)
    /\ Cardinality(ToSet(unfiltered)) = Len(unfiltered)

\* "Total : n" (FriendViewController.swift:91) counts the rows, once the blocks of
\* fetches have run and unless the list was searched, which never sets it.
TotalCountsRows ==
    ~filtered /\ FetchedBlock \notin ToSet(queue) => label = Len(array)

\* The types, the two arrays and the total: what the table's three writers (fetch,
\* search, removal) leave consistent between any two blocks of the main queue.
ListsInv == TypeOK /\ ShownIsPart /\ TotalCountsRows

\* The friend asked for is the one the row shows, and the row dropped after the
\* removal is that friend's, if nothing else changed the list, the cells or the
\* array between the tap and the answer.  It is the answer's tag that is used.
RemovalHitsRow ==
    calm => \A r \in Removals : Open(r) =>
                /\ removal[r].person = removal[r].seen
                /\ RowOf(r) \in DOMAIN array /\ array[RowOf(r)] = removal[r].person

\* A fetch is answered unless a friend lacks profile or photo or an index raised.
FetchAnswered ==
    \A f \in Fetches :
        phase[f] = "sent" ~> \/ phase[f] = "done"
                             \/ snapshot[f] \cap (NoProfile \cup NoPhoto[f]) # {}
                             \/ ~running
=============================================================================
