------------------------------ MODULE UserList ------------------------------
(***************************************************************************)
(* The screen of all users (UserViewController), the map it opens          *)
(* (GMapViewController) and the calls it makes (FirebaseAPIHandler.        *)
(* fetchAllUsers, fetchAllUserImage, addToFriendList).                     *)
(*                                                                         *)
(* The screen fetches once.  Every user leaves the group when its photo    *)
(* has come or failed, and is then listed unless it is the account signed  *)
(* in by then.  The rows are table cells that are used again, as in        *)
(* FriendList: every row is visible, rows count from 1, and the blocks     *)
(* queued on the main queue run in their order.                            *)
(*                                                                         *)
(* The screen belongs to one sign-in; the session under it can only be     *)
(* invalidated.  The total, the labels and the zoom of the map are left    *)
(* out.                                                                    *)
(***************************************************************************)
EXTENDS Naturals, Sequences, FiniteSets, SequencesExt, Subsequences

CONSTANTS
    Users,          \* accounts
    NoUser,         \* no account; nobody
    Buttons,        \* add-friend buttons of the table's cells
    MaxSearches,    \* bound: edits and cancels of the search text
    MaxMaps,        \* bound: taps on the map button
    MaxAdds         \* bound: confirmed requests to add a friend

ASSUME UserListAssumption ==
    /\ IsFiniteSet(Users) /\ IsFiniteSet(Buttons)
    /\ NoUser \notin Users
    /\ Cardinality(Buttons) >= Cardinality(Users)
    /\ MaxSearches \in Nat /\ MaxMaps \in Nat /\ MaxAdds \in Nat

Adds == 1..MaxAdds

\* What a user has under USER: nothing, a list of friends only (the account never
\* finished its sign-up), a profile without coordinates (it was only ever written
\* by the edit-profile screen), or all of it.
Records == {"none", "friends", "saved", "full"}

VARIABLES
    running,        \* FALSE after an exception
    session,        \* Auth.auth().currentUser
    hud,            \* SVProgressHUD is shown
    record,         \* database: USER/<uid>
    friends,        \* database: USER/<uid>/FRIENDS
    phase,          \* how far the fetch is
    snapshot,       \* the users it read
    inGroup,        \* users that entered fetchUserComponentsGroup and have not left
    result,         \* userInfoArray of fetchAllUsers
    pictured,       \* users listed with a photo
    array,          \* userInfoArray, what the table shows
    unsorted,       \* unSortedUserInfoArray
    queue,          \* the blocks on the main queue
    visible,        \* buttons of the cells on the screen
    tag,            \* tag of a button; 0 if never filled
    name,           \* the user a cell was last filled for
    alert,          \* the alert asking to add a friend
    add,            \* the requests that were confirmed
    maps,           \* map screens on top of the list
    searches,
    mapTaps,
    owner,          \* history: the account the screen was opened by
    failed          \* history: users whose photo could not be downloaded

fetch   == <<phase, snapshot, inGroup, result, pictured>>
lists   == <<array, unsorted>>
table   == <<visible, tag, name>>
servers == <<record, friends>>
counts  == <<searches, mapTaps>>
history == <<owner, failed>>
vars == <<running, session, hud, servers, fetch, lists, queue, table, alert, add, maps,
          counts, history>>

\* The blocks: of the two groups, of the completion, of a search, of willDisplay for
\* a button and its row, of the map button for the list it copied, of one marker.
ComponentsBlock   == <<"components">>
UsersBlock        == <<"users">>
FetchedBlock      == <<"fetched">>
SearchedBlock     == <<"searched">>
FillBlock(b, row) == <<"fill", b, row>>
MapBlock(list)    == <<"map", list>>
MarkerBlock(u)    == <<"marker", u>>

First(block) == running /\ queue # <<>> /\ Head(queue) = block

NoAdd == [state |-> "none", person |-> NoUser, account |-> NoUser, seen |-> NoUser,
          settled |-> TRUE]

AddRecords == [state : {"none", "asked", "sent", "stored", "refused"},
               person : Users \cup {NoUser}, account : Users \cup {NoUser},
               seen : Users \cup {NoUser}, settled : BOOLEAN]

TypeOK ==
    /\ running \in BOOLEAN /\ hud \in BOOLEAN
    /\ session \in Users \cup {NoUser} /\ owner \in Users
    /\ record \in [Users -> Records] /\ friends \in [Users -> SUBSET Users]
    /\ phase \in {"none", "sent", "photos", "left", "done"}
    /\ snapshot \in SUBSET Users /\ inGroup \in SUBSET snapshot
    /\ ToSet(result) \cup pictured \cup failed \subseteq snapshot \ inGroup
    /\ phase \in {"left", "done"} => inGroup = {}
    /\ array \in Seq(Users) /\ unsorted \in Seq(Users)
    /\ visible \in SUBSET Buttons
    /\ tag \in [Buttons -> 0..Cardinality(Users)]
    /\ name \in [Buttons -> Users \cup {NoUser}]
    /\ alert \in AddRecords /\ add \in [Adds -> AddRecords]
    /\ maps \in 0..MaxMaps /\ searches \in 0..MaxSearches /\ mapTaps \in 0..MaxMaps

Init ==
    /\ running = TRUE /\ hud = FALSE
    /\ session \in Users /\ owner = session
    /\ record \in [Users -> Records] /\ friends = [u \in Users |-> {}]
    /\ phase = "none" /\ snapshot = {} /\ inGroup = {} /\ result = <<>> /\ pictured = {}
    /\ array = <<>> /\ unsorted = <<>> /\ queue = <<>>
    /\ visible = {}
    /\ tag = [b \in Buttons |-> 0] /\ name = [b \in Buttons |-> NoUser]
    /\ alert = NoAdd /\ add = [a \in Adds |-> NoAdd]
    /\ maps = 0 /\ searches = 0 /\ mapTaps = 0 /\ failed = {}

\* An exception or a failed cast or unwrapping ends the process.
Raise ==
    /\ running' = FALSE
    /\ UNCHANGED <<session, hud, servers, fetch, lists, queue, table, alert, add, maps,
                   counts, history>>

-----------------------------------------------------------------------------
(***************************************************************************)
(* The fetch.                                                              *)
(***************************************************************************)
ViewDidLoad ==
    /\ running /\ phase = "none"
    /\ phase' = "sent" /\ hud' = TRUE
    /\ UNCHANGED <<running, session, servers, snapshot, inGroup, result, pictured, lists,
                   queue, table, alert, add, maps, counts, history>>

Recorded == {u \in Users : record[u] # "none"}

SnapshotUsers ==
    /\ running /\ phase = "sent"
    /\ Recorded # {}
    /\ phase' = "photos"
    /\ snapshot' = Recorded /\ inGroup' = Recorded
    /\ UNCHANGED <<running, session, hud, servers, result, pictured, lists, queue, table,
                   alert, add, maps, counts, history>>

\* Without any user the completion gets nil, which it casts to an array.
SnapshotRaises == running /\ phase = "sent" /\ Recorded = {} /\ Raise

\* The last to leave queues the block of the group.
Leave(u) ==
    /\ inGroup' = inGroup \ {u}
    /\ queue' = IF inGroup = {u} THEN Append(queue, ComponentsBlock) ELSE queue

List(u) == result' = IF u # session THEN Append(result, u) ELSE result

\* The photo of u has been asked for.
Unanswered(u) == running /\ u \in inGroup \ (pictured \cup failed)

\* Mutant: the photo is not kept.
Photo_NotKept(u) ==
    /\ Unanswered(u)
    /\ List(u) /\ Leave(u)
    /\ UNCHANGED <<running, session, hud, servers, phase, snapshot, pictured, lists, table,
                   alert, add, maps, counts, history>>

Photo(u) ==
    /\ Unanswered(u)
    /\ pictured' = pictured \cup {u}
    /\ List(u) /\ Leave(u)
    /\ UNCHANGED <<running, session, hud, servers, phase, snapshot, lists, table, alert, add,
                   maps, counts, history>>

\* Mutants: a user without a photo is not listed; it does not leave the group, as in
\* fetchFriendList.
PhotoFailed_NotListed(u) ==
    /\ Unanswered(u)
    /\ failed' = failed \cup {u}
    /\ Leave(u)
    /\ UNCHANGED <<running, session, hud, servers, phase, snapshot, result, pictured, lists,
                   table, alert, add, maps, counts, owner>>

PhotoFailed_NoLeave(u) ==
    /\ Unanswered(u)
    /\ failed' = failed \cup {u}
    /\ UNCHANGED <<running, session, hud, servers, fetch, lists, queue, table, alert, add,
                   maps, counts, owner>>

PhotoFailed(u) ==
    /\ Unanswered(u)
    /\ failed' = failed \cup {u}
    /\ List(u) /\ Leave(u)
    /\ UNCHANGED <<running, session, hud, servers, phase, snapshot, pictured, lists, table,
                   alert, add, maps, counts, owner>>

\* The block of the inner group leaves the outer one, which queues the completion.
LeaveUsers ==
    /\ First(ComponentsBlock)
    /\ phase' = "left" /\ queue' = Append(Tail(queue), UsersBlock)
    /\ UNCHANGED <<running, session, hud, servers, snapshot, inGroup, result, pictured,
                   lists, table, alert, add, maps, counts, history>>

Completion ==
    /\ First(UsersBlock)
    /\ phase' = "done"
    /\ array' = result /\ unsorted' = result
    /\ queue' = Append(Tail(queue), FetchedBlock)
    /\ UNCHANGED <<running, session, hud, servers, snapshot, inGroup, result, pictured,
                   table, alert, add, maps, counts, history>>

-----------------------------------------------------------------------------
(***************************************************************************)
(* The table and its search bar.                                           *)
(***************************************************************************)
\* reloadData: the rows get cells in any order, and each queues a block.
Reload ==
    \E cell \in [DOMAIN array -> Buttons] :
        /\ \A i, j \in DOMAIN array : cell[i] = cell[j] => i = j
        /\ visible' = {cell[i] : i \in DOMAIN array}
        /\ queue' = Tail(queue) \o [i \in DOMAIN array |-> FillBlock(cell[i], i)]

ShowFetched ==
    /\ First(FetchedBlock)
    /\ hud' = FALSE /\ Reload
    /\ UNCHANGED <<running, session, servers, fetch, lists, tag, name, alert, add, maps,
                   counts, history>>

ShowSearched ==
    /\ First(SearchedBlock)
    /\ Reload
    /\ UNCHANGED <<running, session, hud, servers, fetch, lists, tag, name, alert, add, maps,
                   counts, history>>

\* Mutant: the button is set up the first time its cell is filled only.
FillCell_TagsOnce(b, row) ==
    /\ First(FillBlock(b, row)) /\ row \in DOMAIN array
    /\ queue' = Tail(queue)
    /\ tag' = [tag EXCEPT ![b] = IF @ = 0 THEN row ELSE @]
    /\ name' = [name EXCEPT ![b] = array[row]]
    /\ UNCHANGED <<running, session, hud, servers, fetch, lists, visible, alert, add, maps,
                   counts, history>>

FillCell(b, row) ==
    /\ First(FillBlock(b, row)) /\ row \in DOMAIN array
    /\ queue' = Tail(queue)
    /\ tag' = [tag EXCEPT ![b] = row] /\ name' = [name EXCEPT ![b] = array[row]]
    /\ UNCHANGED <<running, session, hud, servers, fetch, lists, visible, alert, add, maps,
                   counts, history>>

\* A search has made the array shorter.
FillCellRaises(b, row) == First(FillBlock(b, row)) /\ row \notin DOMAIN array /\ Raise

InFront == running /\ phase # "none" /\ maps = 0 /\ alert = NoAdd

Nameless(u) == record[u] \in {"none", "friends"}

Filter(shownNow) ==
    /\ InFront /\ searches < MaxSearches
    /\ searches' = searches + 1
    /\ array' = shownNow
    /\ queue' = Append(queue, SearchedBlock)
    /\ UNCHANGED <<running, session, hud, servers, fetch, unsorted, table, alert, add, maps,
                   mapTaps, history>>

SearchTextDidChange(matches) ==
    /\ \A u \in ToSet(unsorted) : ~Nameless(u)
    /\ Filter(At(unsorted, {i \in DOMAIN unsorted : unsorted[i] \in matches}))

\* The first name of every user is unwrapped.
SearchRaises == InFront /\ (\E u \in ToSet(unsorted) : Nameless(u)) /\ Raise

SearchCancelled == Filter(unsorted)

-----------------------------------------------------------------------------
(***************************************************************************)
(* Adding a friend.                                                        *)
(***************************************************************************)
\* addFriend: the user is the one at the tag, whatever the cell shows.
AddFriend(b) ==
    /\ InFront /\ b \in visible /\ tag[b] \in DOMAIN array
    /\ alert' = [NoAdd EXCEPT !.state = "asked", !.person = array[tag[b]], !.seen = name[b],
                              !.settled = queue = <<>>]
    /\ UNCHANGED <<running, session, hud, servers, fetch, lists, queue, table, add, maps,
                   counts, history>>

AddFriendRaises(b) ==
    InFront /\ b \in visible /\ tag[b] # 0 /\ tag[b] \notin DOMAIN array /\ Raise

CancelAlert ==
    /\ running /\ alert # NoAdd
    /\ alert' = NoAdd
    /\ UNCHANGED <<running, session, hud, servers, fetch, lists, queue, table, add, maps,
                   counts, history>>

ConfirmAlert(a) ==
    /\ running /\ alert # NoAdd /\ session # NoUser
    /\ add[a] = NoAdd /\ \A c \in 1..(a - 1) : add[c] # NoAdd
    /\ add' = [add EXCEPT ![a] = [alert EXCEPT !.state = "sent", !.account = session]]
    /\ alert' = NoAdd
    /\ UNCHANGED <<running, session, hud, servers, fetch, lists, queue, table, maps, counts,
                   history>>

\* child("") raises.
ConfirmRaises == running /\ alert # NoAdd /\ session = NoUser /\ Raise

\* The completion does nothing.  An account without a record gets one.
ServerAdds(a) ==
    /\ add[a].state = "sent"
    /\ add' = [add EXCEPT ![a].state = "stored"]
    /\ friends' = [friends EXCEPT ![add[a].account] = @ \cup {add[a].person}]
    /\ record' = [record EXCEPT ![add[a].account] = IF @ = "none" THEN "friends" ELSE @]
    /\ UNCHANGED <<running, session, hud, fetch, lists, queue, table, alert, maps, counts,
                   history>>

ServerRefuses(a) ==
    /\ add[a].state = "sent"
    /\ add' = [add EXCEPT ![a].state = "refused"]
    /\ UNCHANGED <<running, session, hud, servers, fetch, lists, queue, table, alert, maps,
                   counts, history>>

-----------------------------------------------------------------------------
(***************************************************************************)
(* The map.                                                                *)
(***************************************************************************)
\* The list is copied at the tap.
MapBarButton ==
    /\ InFront /\ mapTaps < MaxMaps
    /\ mapTaps' = mapTaps + 1
    /\ hud' = TRUE
    /\ queue' = Append(queue, MapBlock(array))
    /\ UNCHANGED <<running, session, servers, fetch, lists, table, alert, add, maps,
                   searches, history>>

\* The lists copied for the map blocks that are queued.
MapLists == {block[2] : block \in {b \in ToSet(queue) : b[1] = "map"}}

Placed(list) == \A u \in ToSet(list) : record[u] = "full"

\* Mutant: the HUD is left to the map.
ShowMap_KeepsHud(list) ==
    /\ First(MapBlock(list)) /\ Placed(list)
    /\ maps' = maps + 1
    /\ queue' = Tail(queue) \o [i \in DOMAIN list |-> MarkerBlock(list[i])]
    /\ UNCHANGED <<running, session, hud, servers, fetch, lists, table, alert, add, counts,
                   history>>

ShowMap(list) ==
    /\ First(MapBlock(list)) /\ Placed(list)
    /\ hud' = FALSE /\ maps' = maps + 1
    /\ queue' = Tail(queue) \o [i \in DOMAIN list |-> MarkerBlock(list[i])]
    /\ UNCHANGED <<running, session, servers, fetch, lists, table, alert, add, counts, history>>

\* The coordinates of every user are unwrapped.
ShowMapRaises(list) == First(MapBlock(list)) /\ ~Placed(list) /\ Raise

AddMarker(u) ==
    /\ First(MarkerBlock(u)) /\ u \in pictured
    /\ queue' = Tail(queue)
    /\ UNCHANGED <<running, session, hud, servers, fetch, lists, table, alert, add, maps,
                   counts, history>>

AddMarkerRaises(u) == First(MarkerBlock(u)) /\ u \notin pictured /\ Raise

Back ==
    /\ running /\ maps > 0 /\ alert = NoAdd
    /\ maps' = maps - 1
    /\ UNCHANGED <<running, session, hud, servers, fetch, lists, queue, table, alert, add,
                   counts, history>>

\* The library signs the user out by itself when the token is refused.
SessionInvalidated ==
    /\ running /\ session # NoUser
    /\ session' = NoUser
    /\ UNCHANGED <<running, hud, servers, fetch, lists, queue, table, alert, add, maps,
                   counts, history>>

-----------------------------------------------------------------------------
Fetch == \/ SnapshotUsers \/ SnapshotRaises
         \/ \E u \in Users : Photo(u) \/ PhotoFailed(u)

Queue == \/ LeaveUsers \/ Completion \/ ShowFetched \/ ShowSearched
         \/ \E b \in Buttons, row \in 1..Cardinality(Users) :
               FillCell(b, row) \/ FillCellRaises(b, row)
         \/ \E list \in MapLists : ShowMap(list) \/ ShowMapRaises(list)
         \/ \E u \in Users : AddMarker(u) \/ AddMarkerRaises(u)

User == \/ ViewDidLoad \/ SearchRaises \/ SearchCancelled \/ CancelAlert \/ ConfirmRaises
        \/ MapBarButton \/ Back
        \/ \E matches \in SUBSET Users : SearchTextDidChange(matches)
        \/ \E b \in Buttons : AddFriend(b) \/ AddFriendRaises(b)
        \/ \E a \in Adds : ConfirmAlert(a)

Next == \/ Fetch \/ Queue \/ User \/ SessionInvalidated
        \/ \E a \in Adds : ServerAdds(a) \/ ServerRefuses(a)

\* The servers answer; the main queue runs its blocks.
Fairness == WF_vars(Fetch) /\ WF_vars(Queue)

Spec == Init /\ [][Next]_vars /\ Fairness
-----------------------------------------------------------------------------
(***************************************************************************)
(* Properties.                                                             *)
(***************************************************************************)
\* The list has every user that was read, once, with or without a photo and in
\* whatever order the photos came; the account itself is on it only if the session
\* was invalidated before its own photo came (FirebaseAPIHandler.swift:248).
OthersListed ==
    phase = "done" =>
        /\ ToSet(unsorted) \ {owner} = snapshot \ {owner}
        /\ Len(unsorted) = Cardinality(ToSet(unsorted))
        /\ owner \in ToSet(unsorted) => session = NoUser
        /\ ToSet(array) \subseteq ToSet(unsorted)

\* Nobody becomes a friend of himself: a list that has the account was made without
\* a session, and then the request raises instead.
NobodyBefriendsSelf == \A u \in Users : u \notin friends[u]

\* Who is listed, and that the list never lets an account befriend itself.
ListSafe == OthersListed /\ NobodyBefriendsSelf

\* The friend that is added is the one whose name the tapped row showed, if no block
\* was waiting at the tap (UserViewController.swift:114 reads the array at the tag).
AddedIsSeen ==
    \A r \in {alert} \cup {add[a] : a \in Adds} : r.settled => r.person = r.seen

\* With complete records, photos that all came, a session and no search the screen
\* and the map never raise: the casts and unwrappings at UserViewController.swift:41
\* and :73 and GMapViewController.swift:33 and :47 find what they need.
CompleteDataSafe ==
    /\ Recorded # {} /\ \A u \in snapshot : record[u] = "full"
    /\ failed = {} /\ session # NoUser /\ searches = 0
    => running

\* While the HUD is up the fetch or a queued block will hide it, or the app has ended.
HudHasOwner ==
    hud => \/ ~running \/ phase \in {"sent", "photos", "left"}
           \/ FetchedBlock \in ToSet(queue) \/ MapLists # {}

\* The types and the owner of the HUD, which the fetch and the map share.
ScreenInv == TypeOK /\ HudHasOwner

\* The fetch is answered, whatever photos fail, unless the app has ended.
FetchAnswered == phase = "sent" ~> phase = "done" \/ ~running
=============================================================================
