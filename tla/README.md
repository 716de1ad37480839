# SimpleApp: a verification project

SimpleApp is a social network for iOS in the manner of Instagram, written in Swift on Firebase
(authentication, real-time database, file storage). This directory holds TLA+ modules that model the
app's own code and the parts of the vendored Firebase libraries whose behaviour the app depends on most,
TLC configurations that check them on small instances, and proofs that TLAPS checks for every instance.

The repository holds two apps: `src/SimpleSNS` (about 2270 lines of Swift of its own) and
`src/Demo` (360 lines, an early exercise). Everything else is vendored: `*/Pods` (110 000 lines of
Objective-C, C and C++ in SimpleSNS), `Fabric.framework`, `libpushwizard`. The paths below are relative to
`src/SimpleSNS/SimpleSNS/`; *API* stands for `APIHandler/FirebaseAPIHandler.swift`. Files named `F*.m` are
in `Pods/FirebaseDatabase`, `FIRMessaging*.m` in `Pods/FirebaseMessaging`.

## 1. Inventory

### What runs where

Every callback of Firebase is called on the main queue, and the code adds `DispatchQueue.main.async`
blocks of its own. So nothing runs in parallel, and what makes this app hard is what comes **between**
two blocks: another tap, another answer, another screen, a change of the session, the end of the
process. An action of a module is one block, callback or tap, with everything it calls.

What the modules take from the libraries, because the app's code relies on it:

- callbacks of the database, of storage and of authentication run on the main queue
  (`FIRDatabaseConfig.m`, `FIRStorageReference.m`, `FIRAuth.m`);
- a refused database write has changed nothing; a refused upload or account creation may have been done
  all the same, its answer lost. `Connection` shows the exception for the database: a write sent twice may
  be stored the first time and refused the second;
- `child("")` raises an exception, which ends the process (`FIRDatabaseReference.m`);
- creating an account also signs it in; a user whose token is refused is signed out without the app
  asking (`FIRUser.m`);
- `SVProgressHUD` is one for the whole process and does not block touches (mask *None*);
- `DispatchGroup.notify` queues its block when the count reaches 0, and `leave()` below 0 traps.

### Components

| Component | Source | State it keeps | Operations | Hard because |
|---|---|---|---|---|
| Adding a post | `Home/AddPost/AddPostViewController.swift`, API 448-502 | the form, picker, HUD; one `DispatchGroup` per attempt | post, cancel, pick an image; store record, image, list entry | three writes fail one by one; two attempts overlap; the account is read again half-way; the process may end in between |
| Sign-up | `SignUp/SignUpViewController.swift`, API 36-80 | `userInfo`, `signUpDispatchGroup` | edit, submit, location, create account, profile, photo | the location may fail; submit can be tapped again; three calls in a row |
| Home feed | `Home/HomeViewController.swift`, API 326-400 | `postInfoArray`, table rows | load, refresh, fill a cell | two joined groups, overlapping fetches, cells filled later |
| Friends | `Friend/FriendViewController.swift`, API 284-324, 436-444 | `friendListArray`, `unFilteredFriendListArray`, tags of reused cells | fetch, search, remove | a friend without photo, index read when the answer comes |
| Users and map | `User/UserViewController.swift`, `User/GMap/GMapViewController.swift`, API 218-282, 427-435 | two arrays, tags | fetch, search, add a friend, map | forced casts and unwraps, tags |
| Edit profile | `Setting/EditProfile/EditProfileViewController.swift`, API 178-216, 405-424 | `userInfoArray`, the image shown | load, edit, pick, save | loads race with edits and with save |
| Session | `SignIn/SignInViewController.swift`, `AppDelegate.swift`, `Setting/SettingViewController.swift`, API 28-30, 83-118 | the signed-in account, kept across launches; the root screen; topics | launch, sign in, log out, reset password | a failed sign-in is not reported; logout while calls are out |
| Chat, chat list | `Friend/Chat`, `ChatList` | none | none | stubs |
| Push | `AppDelegate.swift` 45-112 | none | register, receive | I/O only |
| Demo app | `src/Demo/Demo` | none | sign up, sign in | success is reported before the write |
| Database client: connection | `FPersistentConnection.m`, `FIRRetryHelper.m` | connection state, token, outstanding writes, listens | connect, authenticate, write, listen, interrupt, purge | every step can be overtaken by a lost connection, another account, a late token |
| Database client: pending writes | `FWriteTree.m`, `FCompoundWrite.m`, `FViewProcessor.m`, `FSyncTree.m` | pending writes, the data of the server, what is shown | write, receive data, receive an answer | what is shown is kept up to date piecewise under overlapping writes |
| Messaging: topics | `FIRMessagingPendingTopicsList.m`, `FIRMessagingPubSub.m` | batches, topics in flight, archive | subscribe, unsubscribe, resume | dispatched blocks, network errors, restarts |

The components interact in four ways: by segues (sign-in to home, home to add-post, ...), by the
session that every call reads at the moment it is made (`getCurrentUid`), by the shared HUD, and by
the data on the servers (a post or a profile written by one screen is read by others, also on other
devices).

### What makes each component correct

- *Adding a post.* "Successfully posted" only for a post that is completely stored; one answer, never
  both a success and an error; nothing stored without its record; the list extended is the author's;
  every tap is answered; the HUD goes away.
- *Sign-up.* "Successfully registered" only for a complete account that this submit created; parts
  are stored in order; the group is balanced; every submit is answered.
- *Home feed.* What is shown is one complete snapshot, newest first; a fetch delivers once; cells
  find their post.
- *Friends.* All friends or none; the shown list is a part of the full one; the total counts the
  rows; the row that goes is the friend's that was removed.
- *Edit profile.* What is announced as updated is stored; a photo is replaced only by one that the
  user saw or picked; the e-mail, which the form does not show, survives a save; every save is
  answered.
- *Users and map.* Every other user is listed once, whatever photos fail; nobody befriends himself;
  the friend added is the one the row showed; complete data never raises.
- *Session.* Who signed in has the topic of the account asked for, whichever of two sign-ins comes
  first; the HUD goes, but for a failed sign-in; a topic asked for is not forgotten.
- *Connection.* The handlers find the state they assert; nothing is written as somebody else; writes
  reach the server in order and are reported once, truthfully, in the end; what belongs to a transaction
  is not done twice.
- *Pending writes.* The screen shows the data of the server under the pending writes, a success does not
  flicker, and the end is what the server has.
- *Topics.* What was asked for takes effect in order, is worked on, and survives the process.

`PROJECT.json` lists the hazards, each at its line, with the properties that watch it. Left out of the list
are some that no property here judges, mostly as nothing in the repository says what should happen: the profile
that is fetched replaces what was typed before (`EditProfileViewController:56`), a save sends only fields
whose editing has ended (:82), Reset Password unwraps an account whose session may have been ended
(API:95; `Session` has the step), the wish for a fresh token is lost when a second connection attempt
replaces the first (`FPersistentConnection.m:394`), a device that has not checked in yet loses the topic it
asks for (`FIRMessagingRegistrar.m:81`), and the demo reports success before the profile is written.

## 2. Modules

| Module | Models | Lines it stands for |
|---|---|---|
| `Publication` | what publishing a post promises (abstract) | none: a specification |
| `Registration` | what signing up promises (abstract) | none: a specification |
| `AddPost` | the add-post screen, `addNewPost` and its parts, session and process | see *map* in `PROJECT.json` |
| `SignUp` | the sign-up screen, `signUpNewUser`, `uploadImage` | see *map* |
| `HomeFeed` | the home screen, `fetchAllPost` and its helpers | see *map* |
| `FriendList` | the friends screen, `fetchFriendList`, `removeFromFriendList` | see *map* |
| `EditProfile` | the edit-profile screen, `fetchCurrentUser`, `fetchCurrentUserImage`, `updateUserInformation` | see *map* |
| `UserList` | the screen of all users and the map, `fetchAllUsers`, `fetchAllUserImage`, `addToFriendList` | see *map* |
| `Session` | sign-in, launch, logout, reset password, over `Topics` | see *map* |
| `Topics` | the topics of the device: batches, archive, requests | see *map* |
| `Writes` | what the database client promises about writes (abstract) | none: a specification |
| `Connection` | the connection of the database client | see *map* |
| `WriteTree` | pending writes and the view of them | see *map* |
| `Subsequences` | the members of a set of numbers in order, the elements a filter leaves of a sequence | none: helpers of `FriendList`, `UserList`, `Topics`, `Connection` |
| `*_proofs` | theorems about the module of that name, for any constants (section 5); `Database_proofs` is about `Connection` and `WriteTree` | |
| `MC*` | instances for TLC: constants that are functions, the initial account | |

Mutants (`X_Bug`) stand just before the definition `X` they are a buggy form of. No specification
uses them; each is there to show that some property notices the bug.

### AddPost and Publication

`Posts` are attempts: each tap on the button (`PostBarButton`) makes a fresh key. `write[p]` has one
state for each of the three writes: *sent*, then *stored* or *refused* by the server
(`ServerStores`, `ServerRefuses`), then *acked* or *failed* when the callback has run. `group` and
`notify` are the `DispatchGroup` of the attempt (API 453-479): `RecordStored` is the callback that
starts both parts, `PartStored` leaves, `PartRefused` calls the completion and does not leave.
`outcome[p][c]` follows each of the four places the completion is called from: *called*, then the
two blocks it queues (`HideHud`, then `ShowError` or `ShowSuccess`). `since` is a history variable:
the number of session changes at the tap. `ServerStores` also happens for attempts of a process that
has ended.

`queued` holds the blocks that taps dispatch, in order: the picker's, the unwind of *Cancel*, the message
of a logout. A block knows the screen it was tapped on and does nothing visible once that one is gone.
`signIn` is the sign-in that brings a session back, with its HUD: the call, its answer and its block are
three steps, and after a failure the HUD stays (`signIn = "failed"`). One sign-in is under way at a time;
several are the subject of `Session`.

`Publication` has five sets: records, images, listed, announced, failed. `AddPost` implements it with
`listed` the union of the lists, `announced` the attempts whose notify block ran and `failed` those
with a reported error. The run checks the refinement, and `Implementation` proves it.

### SignUp and Registration

A submit is *waiting* in the group, *queued* when the group is empty, then at one of the three calls
(*create*, *profile*, *photo*), then finished. `EditField`, `ReturnKey` and `Submit` end the editing
of a field and so copy it to `userInfo` (`EndEditing`). `LocationFound` leaves the group once and may
answer several requests at once, as CoreLocation may; `LocationFailed` leaves nothing. `lost` counts
the enters that will never be left. The five fields other than the e-mail are one visited flag: the
code only tests them for nil. Accounts are named by e-mail. The image picker covers the screen only
in reality: the model lets the user tap behind it, which allows more than the app does.
`queued` holds the blocks of *Select image* and of a logout, and each hides the HUD when it runs. The
`DispatchGroup` is a stored property of the screen (`SignUpViewController.swift:20`): `group` has one count
for each screen. TLC has one screen, the proofs any number. A submit can be tapped twice on it, and both join
the same group.

`Registration` has who registered which address, the profiles, the photos, and the submits reported as
successful or failed. It promises that an address belongs to one submit and a submit registers one
address, that only this submit adds the profile and then the photo, and that a submit is reported once, as
successful only with all three, and stores nothing afterwards. `SignUp` implements it with `owner` its
history variable `creator`.

### HomeFeed

`phase[f]` is how far a fetch is: *sent*, *details* while names, photos and images come, *done*, or
*silent* after an empty snapshot, whose completion is never called (API 335). `dispatchGroup[f]` is
the set of requests that have entered and not left, `postGroup[f]` that of posts whose block has not
run. `WillDisplay` and `FillCell` are the two halves of API-independent table code: the block that
indexes the array runs later. `Anonymous` posts have the author "", which `AddPost` shows can be
stored (a session invalidated while the screen is up); reading one raises (`SnapshotRaises`).

### FriendList

`queue` is the main queue as far as the screen uses it, in order: completions (once per friend,
API 316), blocks that show the list, blocks that fill a cell, blocks that drop a row. `tag` is the tag
of a cell's button, and `UnFriend` and `DropRow` use it as the code does, the second one with the
value it has by then. `Reload` gives the rows cells in any order. `calm` is a history variable that
is FALSE once anything has changed the list or a cell under a removal; `filtered` is TRUE from a
search to the next time the total is set. A friend without profile (`NoProfile`), or whose photo a
fetch cannot download (`NoPhoto`), stays in the group.

### EditProfile

A screen opens (`ViewDidLoad`) with an empty profile and the default picture and starts two loads for
`owner`, the account of that moment. `ProfileAnswered` replaces `userInfoArray`, the block it queues
(`ProfileShown`) reloads the table, which may end the editing of a field, replace its text, or leave
it; the model allows all three. `PhotoAnswered` is the end of the download and keeps what the photo was
then (`downloaded`); the block it queues, `PhotoShown`, replaces the picture, also one just picked, when the
photo may be an older one than is stored. A save goes
through *update*, *updated*, *upload*, *uploaded*; `Updated` is the callback that reads the account
again (API 413), and `target` is that second account. `since`, `early` and `blind` are history: the
session changes before the tap, and whether the tap came before the profile and before the photo.
A photo is named by the user whose it is, "default" or "picked". The picture of nobody
(`UserImages/.png`) is not kept: no profile shows it. An account starts with a whole profile and a photo or
none, with a record that has no profile in it (only posts or friends), or with nothing; `complete` are those
of the first kind, and only they have an e-mail to keep.

`hud` tells a HUD that something will hide (*shown*) from one that was left up (*left*), by a save of nothing or
a failed sign-in, until the next block hides it. `queued` has the blocks of taps: the number of the screen that
presents the picker, or 0 for the message of a logout. The steps of one sign-in (`SignIn`, `SignInSucceeds` or
`SignInFails`, `SignedIn`) bring another account under the screens.

### UserList

The table and the queue are as in `FriendList`, with the difference that the code captures the user
when the alert opens, so a request names the user that was tapped. `record` is what an account has
under USER: besides complete records there are those that `addToFriendList` or a saved profile made
for an account whose sign-up was interrupted, and every combination is an initial state. `Photo` and
`PhotoFailed` list the user unless it is the account of that moment; the last one queues
`LeaveUsers`, which queues `Completion` (the two groups, API 254-261). Every forced cast, unwrapping
and index is an action that ends the process (`...Raises`). `MapBlock` carries the list that was
copied at the tap; a marker is a block of its own. The screen belongs to one sign-in: a later one
makes a new screen, with which this one shares nothing but the HUD, and that is left out here.

### Session over Topics

`Session` instantiates `Topics` with the users as topic names and *subscribe* as the only action, as the
app subscribes and never unsubscribes. A tap on the button queues a block (`TapSignIn`), which shows the HUD
and makes the call (`SignIn`), so several can wait and be under way. The state of `Topics` is part of that of
`Session`; `SignedIn`, the block of the completion, adds the operation of `Topics`, and `Relaunch` restarts its list. `blocks` is the main
queue as far as these screens use it; `form` numbers the sign-in screens, so that a completion finds its
screen gone. `AccountCreated` is what `SignUp` does to the session. `failedSignIn` and `created` are
history, and `launched` is TRUE while the tab bar shown is the one that the launch put up. In `Topics`, `topicBatches`, `currentBatch` and `topicsInFlight` are the fields of
the list; `resumes` counts the dispatched `resumeOperationsIfNeeded`, and `answers` the completions that
wait on the background queue. A request answered with a network error leaves its topic in the batch
(`failed`), and nothing is dispatched; with any other error the topic is given up (`refused`).

### Connection and Writes

A handler on the queue of the database is an action. `fetches` are the token requests that Firebase Auth
has not answered, each with the attempt it belongs to and the account of its moment. `requests` and
`answers` are the two directions of one connection, emptied when it ends; the server takes requests in
order. A write is its index; `Hashed` writes belong to a transaction and are cancelled with the
connection they were sent on (`cancelSentTransactions`). `putsToAck` are answered writes that wait for a
listen. A listen that is revoked takes all listens at its path with it; `Places` says which share one, and
a purge also acknowledges what waits in `putsToAck`. `serverCred`, `taken` and `runs` are the server's: whom it takes the connection for, which
writes it has judged, how often each took effect.

`Writes` has four variables: the number of writes issued, the writes judged, those that took effect, and
what was reported. It promises that the server judges writes for the first time in their order, that
reports are final, and that a success is true. It does not promise that a write reported as failed has
not been stored: the client sends a write again whose answer it lost. `Connection` implements it with
`issued <- putCounter` and `stored` the writes that ran.

### WriteTree

A path is the set of leaves below it, so that containment of paths is that of sets, and a node gives each
leaf the id of the write it comes from. `AddWrite`, `RemoveWriteAtPath`, `Shadowing`, `ApplyTo` are
`FCompoundWrite`; `Answered` is `removeWriteId` with what the view does next. The view keeps
`serverCache` and, apart from it, `eventCache`; `ShownAfter` brings the second up to date for some zones
only, as `FViewProcessor` does. `ShownIsLayered` compares it with a definition in one line: all pending
writes, oldest first, over the data of the server. The module takes from `Connection` that
answers come in the order of the writes, and that a new connection listens before it writes. So an answer
is about the oldest pending write, and the search of `FWriteTree.m:136` for one further back is left out. There
is one exception, which finding 1 below shows: a write stranded in `putsToAck` stays pending for good while later ones
are answered. What the view shows then is not modelled.

## 3. Runs

| Run | Instance | What it shows |
|---|---|---|
| `add_post` | 1 attempt, 2 accounts, 2 forms, 2 blocks of taps, 2 session changes, 1 kill | type, 3 safety properties, refinement of `Publication`, every tap is answered |
| `sign_up` | 1 screen, 2 submits, 1 address, 2 blocks of taps, 1 kill | type with the balance of the screen's group and the HUD, completeness of what a success announces, refinement of `Registration`, what a failed location does, every submit is answered with the exceptions named |
| `feed` | 3 posts, one anonymous, 2 fetches | type with single delivery and rows, snapshot and order, every fetch ends |
| `friends` | 2 friends, 2 fetches, 1 removal, 1 search; one photo fails once | type with the arrays and the total, removal, all friends or none, fetches are answered |
| `edit_profile` | 2 accounts, 2 screens, 1 edit, 2 saves, 2 session changes, together at most 7 units of work | type and HUD, stored when announced, e-mail kept, whose photo is replaced and by what, every save is answered |
| `users` | 2 users with any records, 2 buttons, 1 search, 1 map, 1 request | type and HUD, who is listed, who befriends whom, what raises, the fetch is answered |
| `session` | 2 users, 2 taps with a block each, 1 account created or session ended, 2 failures or kills | topic after a sign-in, nothing forgotten, the HUD, pending topics progress |
| `connection` | 2 writes, one of a transaction, 1 listen, 1 account, 2 disturbances | assertions of the handlers, nothing written as another, sent once, refinement of `Writes`, writes are reported |
| `write_tree` | 3 writes of 5 shapes, 1 of somebody else, 1 lost connection | the screen, silent successes, convergence |
| `connection_completion` | 1 write, 1 listen, 1 disturbance | finding 1 below |
| `write_tree_deep` | 2 writes, one a merge with a deep path | finding 2 below |
| `topics_order` | 1 topic, 3 operations | finding 3 below |

`ScreenInv`, `FetchInv`, `ListsInv`, `ListSafe` and `PhotosSafe` are conjunctions of invariants that are
defined and explained just before them, checked as one.

The passing runs have from a few thousand to 830 thousand states (`edit_profile` 577 thousand, `connection` 323,
`add_post` 219, `session` 217, `sign_up` 75) and take from seconds to two and a half minutes.

*Why the bounds are enough.* Two submits, fetches, removals, sign-ins or writes are what an interference
needs; two accounts let the session change between author and list, and two changes bring a logout and
another sign-in. One kill falls between any two steps. One address is the case of a clash; with two,
submits would not meet. Two friends give a list that a removal or a search shortens to a non-empty one.
`HomeFeed` needs three posts: two to sort, one anonymous. `add_post` has one attempt in TLC, because its
theorems hold for any number of them. That the HUD of one attempt has an owner is therefore checked, and that
of several is the theorem `HudIsOwned`. Two blocks of taps (`MaxBlocks`) let one wait behind another. `sign_up` has
one screen: a second one has a group of its own and shares with the first only the HUD and the servers, and
with two screens TLC does not end in time; `ScreenCorrect` covers any number. In `edit_profile` the bound on
the work (a save or an edit counts three, a screen or a session change one) cuts only the runs that do all of
everything: two overlapping saves on one screen, an edit and a save on it, two screens with a save and two
session changes are all in it. The account signed in first is fixed, because accounts are interchangeable; it
starts with a whole profile and a photo, with a bare record, or with nothing, and the other with all of it.
In `connection` there is one listen, as several make too many states; that a revocation takes all listens at a
path is covered by the proofs. And in
`connection` two disturbances are a lost connection and, before or after it, a refused token or another
account; one account suffices, as nobody is the other. In `write_tree` the five shapes cover each other,
overlap or touch in one leaf, and three writes make a middle one that is above one and below another.

*Symmetry* is not used: every run has a liveness property, or is small.

*Deadlock* is not checked: a user may stop, and the bounds end every instance.

### What is worth knowing

The properties hold, and the conditions in them say where the app falls short of what a user would
like:

- a post is listed under another account if the session changes at the wrong moment
  (`ListedByAuthor`), and an error half-way leaves a record without image in everyone's feed;
- one failed location silences a sign-up screen for good (`FailureSilencesForm`); a sign-up
  interrupted after the first call can be neither repeated nor completed (`SuccessMeansRegistered`);
- one anonymous post stops the feed of every device (the fetch is *dead* in `FetchAnswered`); an empty feed keeps the
  HUD (`FetchAnswered` calls it *silent*); of two overlapping fetches the older may win (`FetchInv`);
- one friend without a photo keeps all friends from being shown (`AllFriendsOrNone`); a removal may
  drop another row than that of the friend removed, or raise, when something intervenes
  (`RemovalHitsRow` holds only while `calm`);
- a save tapped before the loads have answered erases the e-mail (`MailKept`) and puts the default
  picture over the photo (`PhotoKept`); a photo goes to another account if the session changes between
  the two calls of a save (`PhotoOfOwner`); an account without a profile can save nothing and its HUD is
  left up (`HudHasOwner` claims nothing of it);
- the friend added is the one the row showed only if no block was waiting at the tap (`AddedIsSeen` holds
  when `settled`); a friend removed while a search is on comes back when the search is cancelled;
- the screen of all users ends the app if there is no user, the map if a listed user has no coordinates
  or no photo, a search if one has no first name, and a search may do so by shortening the list under a
  cell (`CompleteDataSafe` names each); a screen that outlives its session may list the account itself
  (`OthersListed`).

- a failed sign-in leaves the HUD (`HudDismissed`, and `HudHasOwner` of `AddPost` and `EditProfile`); an account created by sign-up, or one whose process
  ended before the block of the sign-in, never gets its topic, and logging out keeps it
  (`LoggedInHasTopic`, `NothingForgotten`);
- a write that is reported as failed may be stored: it was sent twice (`Writes`).

Conditions like `calm`, `settled`, *silent* and *left* exempt a hazard that the code has: the property then
shows that this is the only way to it, and does not watch the hazard itself. `PROJECT.json` says so in the
notes of these hazards.

No documentation, comment or test of the repository says otherwise, so none of these is listed as a
finding. Three disagreements of the libraries with their own comments are:

1. *A stored write is never reported* (`connection_completion`). `onDisconnect` resets the count of
   unanswered listens and keeps the writes that wait for it (`FPersistentConnection.m:327`); if the listen
   is given up meanwhile, nothing counts down to zero again. `FIRDatabaseReference.h:105` promises
   the completion. `WritesReported` shows that this is the only way to lose one, apart from a connection
   killed by the server.
2. *A refused write takes another one from the screen* (`write_tree_deep`). `removeWriteId` looks for
   overlaps at the paths of the other writes and not at the paths that their merges name
   (`FWriteTree.m:139`), so that "There's no shadowing" (:154) is wrong for a merge of a deep path. The
   app's merges have direct children only, which `write_tree` covers without it.
3. *Topics out of order* (`topics_order`). An operation added when a batch is done and the list is not
   yet resumed makes the last batch the current one, ahead of those that wait
   (`FIRMessagingPendingTopicsList.m:168`); the header (:77, :79) promises the order. The app only
   subscribes and has one batch.

## 4. Fairness

Weak fairness is assumed of three parties and never of the user: servers and location services answer
(the library retries or reports), callbacks run, and blocks of the main queue run. The main queue is
serial and never blocked, so a block that is queued runs. In `AddPost` and `SignUp`, callbacks of one
attempt are one fairness class; in `FriendList` the queue is one, and in `EditProfile` the loads with the
blocks of taps are one and the saves another. In `Session` the blocks of each kind run, and Firebase Auth answers. In `Connection` the queue of the database runs what is queued, Firebase Auth answers
token requests, a server that is connected takes and answers requests, and an app that went offline comes
back; in `WriteTree` the server judges and the client receives; in `Topics` dispatched blocks run and
requests are answered. Taps, kills, launches, session changes, lost connections and the arrival of the
token for messages have no fairness. Every liveness property names the cases in which the code gives no answer.

## 5. Proofs

Eight modules of proofs, one per component, hold for every value of the constants: any accounts, posts,
friends, forms, writes and listens, any tree of paths, any number of attempts, failures, session changes and
kills. In each, `IInv` is the inductive invariant (`TreeInv` for `WriteTree`), `Invariance` is the theorem
`Spec => []IInv`, and the other theorems follow from it. Each was checked by TLC, before it was first proved, on the
instance of the module's run (that of `Connection` also with 3 writes and 2 accounts; that of `SignUp` also with
2 addresses); details that were added later went to the proof. Every safety property of the runs that pass is
proved, invariants, action properties and refinements. A proof module has a lemma per action or group of
actions, and under it a step per conjunct that the action can disturb.

| Module | Theorems, besides `Invariance` | Obligations |
|---|---|---|
| `AddPost_proofs` | `TypeCorrect`, `PublishedIsStored`, `OneOutcome`, `PartsHaveRecords`, `ListedByItsAuthor`, `HudIsOwned`, `Implementation` | 441 |
| `SignUp_proofs` | `ScreenCorrect`, `RegisteredOnSuccess`, `OrderOfStores`, `DeadForm`, `Implementation` | 629 |
| `HomeFeed_proofs` | `FetchCorrect`, `FeedCorrect` | 361 |
| `FriendList_proofs` | `ListsConsistent`, `FetchedWhole`, `RightRowRemoved` | 1238 |
| `EditProfile_proofs` | `HudOwned`, `SuccessIsTrue`, `MailIsKept`, `PhotosAreSafe` | 993 |
| `UserList_proofs` | `HudOwned`, `ListIsSafe`, `RightUserAdded`, `CompleteDataRuns` | 1769 |
| `Session_proofs` | `TopicOfAccount`, `TopicsKept` | 752 |
| `Database_proofs` | of `Connection`: `Assertions`, `OnlyAsSent`, `OnceOnly`, `Implementation`; of `WriteTree`: `TreeInvariance`, `ShownLayered`, `SilentAcks`, `ShownWhenSettled` | 6095 |

### What the proofs assume

The assumptions of the modules, which TLC evaluates in every run. They say that bounds are natural
numbers, that "nobody", "nothing" and the like are none of the real values, and what a set of the real
system has anyway: that posts, people, users, listens and the buttons of cells are finite in number, that
there are as many cells as rows, and, in `EditProfile`, that no account is named like one of the three
words for pictures that are nobody's. Posts, people and listens have to be finite for
`Cardinality` to mean anything; nothing bounds their number. In `WriteTree` paths are nested or apart, none
is empty, and a merge names finitely many.

The theorems about `WriteTree` have one hypothesis more, `ShallowMerges`: what a merge names are direct
children of its path. So are the app's merges (`updateChildValues` with plain keys), and the instance of
`write_tree` satisfies it. That it cannot be dropped is what the run `write_tree_deep` shows (finding 2).

### What each invariant adds to what is to be shown, and why

- *`AddPost`*: `TypeOK` says that the group counts 0, 1 or 2; that it is not left below 0 needs to know
  who is still in it, so `GroupAgrees` ties the count to the states of the two parts.
  `SuccessMeansStored` needs the way back from a report to the notify block (`ReportsAgree`), from there
  to an empty group and to both parts acknowledged (`GroupAgrees`), and from those to the stores
  (`StoresAgree`). `RecordFirst` keeps parts from preceding the record, and `AccountsAgree` carries the
  session from the tap to the list. `OneOutcome` (no attempt is answered by a success and an error) and
  `PartsHaveRecords` (no image and no list entry without a record) are proved only. `Implementation`
  shows that every step is one of `Publication` or a stutter.
- *`SignUp`*: what is shown as a success was stored by three calls in a row, so `SubmitOK` says for each
  submit what the servers hold at each of its calls (`Progress`), and that the address is its own
  (`Owns`: a clash refuses the second one, so the creator of an account never changes). `DeadForm` is an
  action property: the failure of a location leaves its submits, and all later ones of that screen,
  without their block. `Implementation` needs that a submit whose first call has no answer has registered
  nothing, and that the others hold the address they registered (`CreatorOK`); then a step of a server is
  one of `Registration`, the two messages are its reports, and all else stutters.
- *`HomeFeed`*: `FetchOK` says that every post read is in its group or in the result, so that an empty
  group means a complete one; `Ordered` that a later fetch has read at least as much, which is what
  remains of the order when the older of two fetches delivers last; `ScreenOK` that the array comes from a
  fetch that is done.
- *`FriendList`*: a friend without profile or photo never leaves the group, so that the blocks of the
  completion are queued only by complete fetches (`FetchesOK`). The two arrays hold nobody twice
  (`ListsOK`). That a removal hits its row rests on the cells: a visible cell shows the friend at its tag,
  or the block that will fill it is in the queue, or a reload is (`CellsOK`); while `calm`, the friend of
  a request is the one at its row (`RowsOK`).
- *`EditProfile`*: an open screen is of the account that is signed in, or of nobody any more, and what it
  shows was loaded for that account or put there by the user (`ShownInv`); a sign-in under way has no screen
  above it, so it changes the account of none. A photo downloaded and not shown yet was the account's when it was
  answered, or went astray before (`LoadsInv`), which later steps do not undo. `SaveInv` says what a save
  carries and for whom, which depends on how early it was tapped and on the session changes since.
  A later save may undo an earlier one, so `SavedInv` speaks of the last one, without overlap.
- *`UserList`*: `FetchOK` says who is in the group, answered, and listed, also when the session ends
  meanwhile; `QueueOK` what each block in the queue relies on when it runs, among it that no more map
  screens will be opened than were tapped; `CellsOK` as in `FriendList`, and without a search no tag is
  beyond the array; `AddsOK` that somebody asked for was read and is not oneself. Complete data never
  raises because of these (`CompleteDataSafe`).
- *`Session` and `Topics`*: the app only subscribes, so the list has one batch or none. `ListInv` says
  that the archive agrees with it, that what is in flight is in the batch, and that every topic asked for
  is subscribed, refused or pending, which is all of `NothingForgotten` and survives a restart because
  the archive does. `LoggedInHasTopic` speaks of the tab bar; the invariant has to hold on the sign-in
  screen too, where the block that asks for the topic is still queued (`AccountInv`).
- *`Connection`*: see below.

### Connection

`AssertionsHold` needs that no two token requests are of one attempt (`LinkOK`), and that the count of
listens is that of both directions together (`CountOK`). That a restored connection is restored once
needs to know that only the first authentication in flight may restore it (`RestoreOK`), and then nothing
is in flight that was sent before (`QuietOK`).

`NeverAsAnother` is about the head of the requests. What makes it inductive is the same statement for every
position: when the server has taken the requests before it, it takes the connection for that of the
account whose token the write carries, or of nobody (`Told`). It holds for the position after the last
request with the token the client has now (`ToldOK`), so a write that is appended inherits it.

`SentOnce` follows from `FlightOK`: the writes in flight are in strictly ascending order, answers before
requests. For transactions, a write that the server may still get has not taken effect (`HashedOK`), as
one that was sent goes with its connection (`SentOK`).

`Implementation`: that the server first judges writes in their order is the hard part. A write without an
answer may be judged only if the server judged it before or judged only earlier ones (`TakenOK`). A
step of the server keeps this because once the connection is restored every write without an answer is
in flight (`SentOK`), in order (`FlightOK`). Reports are final because what was reported is no longer
outstanding and does not wait (`StatusOK`), and true because an answer "ok" means that the write
ran. So every step is one of `Writes` or a stutter: `Put` issues; `ServerStores` and `ServerRefuses` judge;
the ends of a connection, a purge and the answers to writes and listens report.

### WriteTree

What is to be shown is that `eventCache`, which the view changes piecewise, always equals a fold of all
pending writes over `serverCache`. `TreeInv` says it leaf by leaf (`ShownOK`): a leaf holds the id of the
newest pending write that writes it, or, if there is none, what `serverCache` has (`Holds`). Its other parts:

- `LayersOK` ties `visibleWrites` to the pending writes: every path a pending write names is in an entry,
  every entry is named by a pending write, and an entry holds at each of its leaves the id of the newest one.
  This is where `removeWriteId` has to be right. Its three cases are the three lemmas `ShadowedLayers` (a later
  write covers all of the path: nothing changes), `LayeredIs` (the rest is layered anew) and `RemovedLayers` (the
  entries are taken away: with no overlap and shallow merges nothing else is in them). Without
  `ShallowMerges` the third is false.
- `AnswersOK`: each write that this connection's server has judged has exactly one answer on its way, in
  the order of the writes, so that the answer received is about the oldest one (`AnswersFirst`).
- `DataFirst`: an answer "ok" comes right behind the data of its write, so that when it is received the data
  is in `serverCache`, and what the write showed stays. `SilentAcks` follows.
- `DataOK`: a leaf of `serverCache` that is not what the server has is brought by a message on its way, the
  last one that brings it; so when none is left, the view has the data of the server. `ShownWhenSettled`, the
  safety half of `Converges`, follows.
- `KindsOK` and `NumbersOK`: types, and ids that ascend.

*Induction over data.* `Layered`, `AddRecord`, `Removed` and `Shown` are folds. No prover here can instantiate
an induction theorem of a predicate, so the inductions are stated of sets: a set of finite sets has a member
that contains no other (`SmallestSubset`, from the well-foundedness of strict subsets), a set of numbers has
a least one (`LeastNumber`), and a smallest counterexample is refuted. `Recursion` shows in this way that the
recursive function behind a fold exists, so that the `CHOOSE` in its definition can be unfolded;
`AddRecordFolds`, `LayeredIs`, `RemovedIs` and `ShownIs` say what each fold yields.

### Lemmas and definitions made for the proofs

`Subsequences` replaces `SelectSeq` of the standard module, which is defined by recursion, by one that
counts: the k-th element is the one with k - 1 before it. Then that a filtered array is a part of the full
one, in order and without repetition, is provable (`Ranks`, `Ordered`, and the lemmas on `At`). The lemmas on
`Head`, `Tail`, `Append` and `\o` are in the proof module that uses them, in the form its invariant asks for.

### Only model-checked

- Liveness under fairness, and with it every `...Answered`, `HudDismissed`, `PendingProgresses`,
  `WritesReported` and `Converges` (but for its safety half, `ShownWhenSettled`): out of the prover's reach.
- `Topics` by itself, with unsubscriptions and several batches: `Session` uses it with one batch, and the run
  `topics_order` shows what happens with more.
- The three runs that show a violation.

No module declares a RECURSIVE operator.

## 6. Plan

Done: all modules of section 2, and the proofs of section 5, which cover every safety property of the runs
that pass. What remains would be:

1. An abstract set of friends that `FriendList` and `UserList` change, with its refinement checked and proved
   as those of `Publication`, `Registration` and `Writes` are.
2. `Topics` with unsubscriptions: an invariant of lists with several batches, once their order is settled
   (finding 3).
3. `WriteTree` with deletions and with several views of one place.

A composition of all screens was considered and left out: what one screen stores for another to read is an
initial state of the other (anonymous posts in `HomeFeed`, incomplete records in `UserList`), so the
composition would multiply the states without adding a step.

## 7. Not modelled

*Of the app:* storyboards, cells and layout; JPEG compression; the content of texts and pictures; push
registration; chat stubs; likes (commented out in the source); the request for a password e-mail;
`didEndDisplaying`, which blanks labels; the demo app, whose sign-up is a shorter form of the one modelled.

*Of the libraries:* nearly all of the repository's lines are theirs, and most of these lines are out of the
app's reach or are conversions without a protocol: leveldb (persistence is never turned on), Protobuf and nanopb
(encoding), Google Maps and Crashlytics (binaries with headers), SVProgressHUD, message bars and text
fields (drawing), generated headers, and the second copy of all of it under the demo. Of the
database client the modules leave out deletions, priorities, filtered queries, how a transaction runs and is retried, writes on
disconnection, and persistence; of Messaging the direct channel. Authentication and storage are modelled
by what the app and the database client see of them. So the modules cover most of the app's own Swift
code and the protocols of the libraries that it rests on, and only a small share of all lines.

The list of `components` in `PROJECT.json` has the reason for each.
