------------------------------ MODULE AddPost ------------------------------
(***************************************************************************)
(* The add-post screen (AddPostViewController) and the calls it makes      *)
(* (FirebaseAPIHandler.addNewPost, addPostStorage, addPostRefCurrentUser). *)
(*                                                                         *)
(* Every tap on the post button starts an attempt with a fresh key.  It    *)
(* writes the post's record and, in the callback of that write, starts two *)
(* more: the image and the key's entry in the POST list of the account     *)
(* that is signed in by then.  A DispatchGroup joins the two; each refused *)
(* write calls the completion itself and never leaves the group.           *)
(*                                                                         *)
(* Code runs on the main queue, so an action is one block or callback; the *)
(* servers, the user, the session and the process change in between.       *)
(***************************************************************************)
EXTENDS Naturals, Sequences

CONSTANTS
    Posts,              \* attempts to post, named by the key each one creates
    Users,              \* accounts
    NoUser,             \* no account is signed in
    MaxForms,           \* bound: how often the screen is opened
    MaxBlocks,          \* bound: blocks of taps queued at a time
    MaxSessionChanges,  \* bound: sign-ins, logouts and invalidated sessions
    MaxKills            \* bound: how often the system kills the process

ASSUME NoUserAssumption == NoUser \notin Users
ASSUME BoundsAssumption ==
    /\ MaxForms \in Nat
    /\ MaxBlocks \in Nat
    /\ MaxSessionChanges \in Nat
    /\ MaxKills \in Nat

Parts  == {"record", "image", "listing"}
Causes == {"record", "image", "listing", "notify"}

VARIABLES
    running,    \* is there a process
    kills,
    session,    \* Auth.auth().currentUser, kept across launches
    changes,    \* changes of session so far
    root,       \* the root view controller
    form,       \* the add-post screen shown, counted from 1; 0 is none
    forms,      \* add-post screens opened so far
    picker,     \* the image picker covers the screen
    hud,        \* SVProgressHUD is shown
    queued,     \* main-queue blocks of taps that have yet to run, oldest first
    signIn,     \* the sign-in under way: its call, its block or its failure
    author,     \* "User Id" of an attempt's record
    since,      \* the value of changes when the attempt started
    from,       \* the screen an attempt was tapped on
    live,       \* attempts of the running process
    write,      \* the three writes of an attempt
    group,      \* count of the attempt's DispatchGroup
    notify,     \* its notify block
    target,     \* the account whose POST list the attempt extends
    outcome,    \* which calls of the completion were made and shown
    records,    \* database: POST/<key>
    images,     \* storage: Posts/<key>.png
    lists       \* database: USER/<uid>/POST

device  == <<running, kills, session, changes, root>>
screen  == <<form, forms, picker, hud, queued, signIn>>
attempt == <<author, since, from, live, write, group, notify, target, outcome>>
servers == <<records, images, lists>>
vars    == <<device, screen, attempt, servers>>

WriteStates   == {"none", "sent", "stored", "refused", "acked", "failed"}
OutcomeStates == {"none", "called", "hudHidden", "shown"}

\* A block and the screen that was tapped; the Setting screen counts as 0.
Blocks == [type : {"picker", "cancel", "logout"}, form : Nat]

FlagsOK == running \in BOOLEAN /\ picker \in BOOLEAN /\ hud \in BOOLEAN

DeviceOK ==
    /\ kills \in Nat /\ changes \in Nat
    /\ session \in Users \cup {NoUser}
    /\ root \in {"SignIn", "LoggedIn"}
    /\ form \in Nat /\ forms \in Nat
    /\ queued \in Seq(Blocks)
    /\ signIn \in {"none", "sent", "succeeded", "failed"}

AttemptsOK ==
    /\ author \in [Posts -> Users \cup {NoUser}]
    /\ since \in [Posts -> Nat]
    /\ from \in [Posts -> Nat]
    /\ live \in SUBSET Posts
    /\ write \in [Posts -> [Parts -> WriteStates]]
    /\ group \in [Posts -> 0..2]
    /\ notify \in [Posts -> {"none", "waiting", "queued", "ran"}]
    /\ target \in [Posts -> Users \cup {NoUser}]
    /\ outcome \in [Posts -> [Causes -> OutcomeStates]]

StoresOK ==
    /\ records \in SUBSET Posts
    /\ images \in SUBSET Posts
    /\ lists \in [Users -> SUBSET Posts]

\* Type invariant; a group counts at most its two parts and is never left more
\* often than it was entered, which would raise (FirebaseAPIHandler.swift:464).
TypeOK == FlagsOK /\ DeviceOK /\ AttemptsOK /\ StoresOK

Init ==
    /\ running = TRUE /\ kills = 0
    /\ session \in Users /\ changes = 0
    /\ root = "LoggedIn"
    /\ form = 0 /\ forms = 0
    /\ picker = FALSE /\ hud = FALSE
    /\ queued = <<>> /\ signIn = "none"
    /\ author = [p \in Posts |-> NoUser]
    /\ since = [p \in Posts |-> 0]
    /\ from = [p \in Posts |-> 0]
    /\ live = {}
    /\ write = [p \in Posts |-> [k \in Parts |-> "none"]]
    /\ group = [p \in Posts |-> 0]
    /\ notify = [p \in Posts |-> "none"]
    /\ target = [p \in Posts |-> NoUser]
    /\ outcome = [p \in Posts |-> [c \in Causes |-> "none"]]
    /\ records = {} /\ images = {}
    /\ lists = [u \in Users |-> {}]

-----------------------------------------------------------------------------
(***************************************************************************)
(* The add-post screen.                                                    *)
(***************************************************************************)
AddPostBarBtn ==
    /\ running /\ root = "LoggedIn" /\ form = 0
    /\ forms < MaxForms
    /\ forms' = forms + 1
    /\ form' = forms + 1
    /\ UNCHANGED <<device, picker, hud, queued, signIn, attempt, servers>>

FormInFront == running /\ form # 0 /\ ~picker

\* A tap queues its block; the block at the head is the next to run.
Queue(type, f) ==
    /\ Len(queued) < MaxBlocks
    /\ queued' = Append(queued, [type |-> type, form |-> f])

Runs(type) ==
    /\ running /\ queued # <<>> /\ Head(queued).type = type
    /\ queued' = Tail(queued)

\* The HUD a failed sign-in left up goes with any other.
DismissHud ==
    /\ hud' = FALSE
    /\ signIn' = IF signIn = "failed" THEN "none" ELSE signIn

\* Mutant: the three writes are sent at once instead of one after the other.
PostBarButton_Parallel(p) ==
    /\ FormInFront
    /\ write[p]["record"] = "none" /\ session # NoUser
    /\ hud' = TRUE
    /\ author' = [author EXCEPT ![p] = session]
    /\ since' = [since EXCEPT ![p] = changes]
    /\ from' = [from EXCEPT ![p] = form]
    /\ live' = live \cup {p}
    /\ write' = [write EXCEPT ![p] = [k \in Parts |-> "sent"]]
    /\ group' = [group EXCEPT ![p] = 2]
    /\ notify' = [notify EXCEPT ![p] = "waiting"]
    /\ target' = [target EXCEPT ![p] = session]
    /\ UNCHANGED <<device, form, forms, picker, queued, signIn, outcome, servers>>

\* postBarButton and addNewPost up to the write of the record.
PostBarButton(p) ==
    /\ FormInFront
    /\ write[p]["record"] = "none"                \* childByAutoId: a fresh key
    /\ hud' = TRUE
    /\ author' = [author EXCEPT ![p] = session]
    /\ since' = [since EXCEPT ![p] = changes]
    /\ from' = [from EXCEPT ![p] = form]
    /\ live' = live \cup {p}
    /\ write' = [write EXCEPT ![p]["record"] = "sent"]
    /\ UNCHANGED <<device, form, forms, picker, queued, signIn,
                   group, notify, target, outcome, servers>>

CancelBarButton ==
    /\ FormInFront
    /\ Queue("cancel", form)
    /\ UNCHANGED <<device, form, forms, picker, hud, signIn, attempt, servers>>

\* The block cancelBarButton queues: the unwind closes the screen that was
\* tapped and what it presents; one already gone unwinds nothing.
Unwind ==
    /\ Runs("cancel")
    /\ IF form = Head(queued).form
         THEN form' = 0 /\ picker' = FALSE
         ELSE UNCHANGED <<form, picker>>
    /\ UNCHANGED <<device, forms, hud, signIn, attempt, servers>>

ImgSelectBtn ==
    /\ FormInFront
    /\ hud' = TRUE
    /\ Queue("picker", form)
    /\ UNCHANGED <<device, form, forms, picker, signIn, attempt, servers>>

\* Mutant: the picker is presented and the HUD forgotten.
PresentPicker_KeepsHud ==
    /\ Runs("picker")
    /\ picker' = (picker \/ form = Head(queued).form)
    /\ UNCHANGED <<device, form, forms, hud, signIn, attempt, servers>>

\* The block imgSelectBtn queues; a screen already gone presents nothing.
PresentPicker ==
    /\ Runs("picker")
    /\ DismissHud
    /\ picker' = (picker \/ form = Head(queued).form)
    /\ UNCHANGED <<device, form, forms, attempt, servers>>

ClosePicker ==
    /\ running /\ picker
    /\ picker' = FALSE
    /\ UNCHANGED <<device, form, forms, hud, queued, signIn, attempt, servers>>

-----------------------------------------------------------------------------
(***************************************************************************)
(* The callbacks of the three writes.  write[p][k] is "stored" or          *)
(* "refused" once the server has decided and "acked" or "failed" once the  *)
(* callback has run.                                                       *)
(***************************************************************************)
Complete(p, c) == outcome' = [outcome EXCEPT ![p][c] = "called"]

\* The process ends: its blocks and callbacks are gone, and so are its screens.
ProcessEnds ==
    /\ running' = FALSE
    /\ form' = 0 /\ picker' = FALSE /\ hud' = FALSE
    /\ queued' = <<>> /\ signIn' = "none"
    /\ live' = {}

RecordRefused(p) ==
    /\ p \in live /\ write[p]["record"] = "refused"
    /\ write' = [write EXCEPT ![p]["record"] = "failed"]
    /\ Complete(p, "record")
    /\ UNCHANGED <<device, screen, author, since, from, live,
                   group, notify, target, servers>>

\* Mutants of RecordStored: only one part enters the group; notify is called
\* before anything entered; the account is one cached at start.
RecordStored_EntersOnce(p) ==
    /\ p \in live /\ write[p]["record"] = "stored"
    /\ session # NoUser
    /\ write' = [write EXCEPT ![p] = [record |-> "acked", image |-> "sent",
                                      listing |-> "sent"]]
    /\ group' = [group EXCEPT ![p] = 1]
    /\ notify' = [notify EXCEPT ![p] = "waiting"]
    /\ target' = [target EXCEPT ![p] = session]
    /\ UNCHANGED <<device, screen, author, since, from, live, outcome, servers>>

RecordStored_NotifiesFirst(p) ==
    /\ p \in live /\ write[p]["record"] = "stored"
    /\ session # NoUser
    /\ write' = [write EXCEPT ![p] = [record |-> "acked", image |-> "sent",
                                      listing |-> "sent"]]
    /\ group' = [group EXCEPT ![p] = 2]
    /\ notify' = [notify EXCEPT ![p] = "queued"]
    /\ target' = [target EXCEPT ![p] = session]
    /\ UNCHANGED <<device, screen, author, since, from, live, outcome, servers>>

RecordStored_CachedAccount(p) ==
    /\ p \in live /\ write[p]["record"] = "stored"
    /\ session # NoUser
    /\ write' = [write EXCEPT ![p] = [record |-> "acked", image |-> "sent",
                                      listing |-> "sent"]]
    /\ group' = [group EXCEPT ![p] = 2]
    /\ notify' = [notify EXCEPT ![p] = "waiting"]
    /\ \E u \in Users : target' = [target EXCEPT ![p] = u]
    /\ UNCHANGED <<device, screen, author, since, from, live, outcome, servers>>

\* Both parts enter the group; the list is the one of the account signed in now.
RecordStored(p) ==
    /\ p \in live /\ write[p]["record"] = "stored"
    /\ session # NoUser
    /\ write' = [write EXCEPT ![p] = [record |-> "acked", image |-> "sent",
                                      listing |-> "sent"]]
    /\ group' = [group EXCEPT ![p] = 2]
    /\ notify' = [notify EXCEPT ![p] = "waiting"]
    /\ target' = [target EXCEPT ![p] = session]
    /\ UNCHANGED <<device, screen, author, since, from, live, outcome, servers>>

\* With nobody signed in getCurrentUid() is "" and child("") raises, after
\* addPostStorage was called: the upload may or may not have left.
RecordStoredSignedOut(p) ==
    /\ p \in live /\ write[p]["record"] = "stored"
    /\ session = NoUser
    /\ \E upload \in {"none", "sent"} :
          write' = [write EXCEPT ![p]["record"] = "acked", ![p]["image"] = upload]
    /\ ProcessEnds
    /\ UNCHANGED <<kills, session, changes, root, forms, author, since, from,
                   group, notify, target, outcome, servers>>

\* Mutant: the completion is not called (as signIn does).
PartRefused_Silent(p, k) ==
    /\ p \in live /\ write[p][k] = "refused"
    /\ write' = [write EXCEPT ![p][k] = "failed"]
    /\ UNCHANGED <<device, screen, author, since, from, live,
                   group, notify, target, outcome, servers>>

PartRefused(p, k) ==
    /\ p \in live /\ write[p][k] = "refused"
    /\ write' = [write EXCEPT ![p][k] = "failed"]
    /\ Complete(p, k)
    /\ UNCHANGED <<device, screen, author, since, from, live,
                   group, notify, target, servers>>

\* leave(): the last one out queues the notify block.
PartStored(p, k) ==
    /\ p \in live /\ write[p][k] = "stored"
    /\ write' = [write EXCEPT ![p][k] = "acked"]
    /\ group' = [group EXCEPT ![p] = @ - 1]
    /\ notify' = IF group[p] = 1 THEN [notify EXCEPT ![p] = "queued"] ELSE notify
    /\ UNCHANGED <<device, screen, author, since, from, live,
                   target, outcome, servers>>

RunNotify(p) ==
    /\ p \in live /\ notify[p] = "queued"
    /\ notify' = [notify EXCEPT ![p] = "ran"]
    /\ Complete(p, "notify")
    /\ UNCHANGED <<device, screen, author, since, from, live, write,
                   group, target, servers>>

\* The two blocks the completion queues: hide the HUD, then show the message.
HideHud(p, c) ==
    /\ p \in live /\ outcome[p][c] = "called"
    /\ outcome' = [outcome EXCEPT ![p][c] = "hudHidden"]
    /\ DismissHud
    /\ UNCHANGED <<device, form, forms, picker, queued, author, since, from,
                   live, write, group, notify, target, servers>>

ShowError(p, c) ==
    /\ p \in live /\ c # "notify" /\ outcome[p][c] = "hudHidden"
    /\ outcome' = [outcome EXCEPT ![p][c] = "shown"]
    /\ UNCHANGED <<device, screen, author, since, from, live, write,
                   group, notify, target, servers>>

\* self.dismiss closes what the screen presents, or else the screen itself.
ShowSuccess(p) ==
    /\ p \in live /\ outcome[p]["notify"] = "hudHidden"
    /\ outcome' = [outcome EXCEPT ![p]["notify"] = "shown"]
    /\ IF from[p] = form
         THEN /\ picker' = FALSE
              /\ form' = IF picker THEN form ELSE 0
         ELSE UNCHANGED <<form, picker>>
    /\ UNCHANGED <<device, forms, hud, queued, signIn, author, since, from, live, write,
                   group, notify, target, servers>>

-----------------------------------------------------------------------------
(***************************************************************************)
(* The servers.                                                            *)
(***************************************************************************)
StoreWrite(p, k) ==
    /\ records' = IF k = "record" THEN records \cup {p} ELSE records
    /\ images'  = IF k = "image" THEN images \cup {p} ELSE images
    /\ lists'   = IF k = "listing"
                    THEN [lists EXCEPT ![target[p]] = @ \cup {p}] ELSE lists

ServerStores(p, k) ==
    /\ write[p][k] = "sent"
    /\ StoreWrite(p, k)
    /\ write' = [write EXCEPT ![p][k] = "stored"]
    /\ UNCHANGED <<device, screen, author, since, from, live,
                   group, notify, target, outcome>>

\* A refused upload may still have stored the image: its answer was lost.
ServerRefuses(p, k) ==
    /\ write[p][k] = "sent"
    /\ \/ UNCHANGED servers
       \/ k = "image" /\ StoreWrite(p, k)
    /\ write' = [write EXCEPT ![p][k] = "refused"]
    /\ UNCHANGED <<device, screen, author, since, from, live,
                   group, notify, target, outcome>>

-----------------------------------------------------------------------------
(***************************************************************************)
(* The session and the process.                                            *)
(***************************************************************************)
Logout ==
    /\ running /\ root = "LoggedIn" /\ form = 0
    /\ changes < MaxSessionChanges
    /\ hud' = TRUE
    /\ Queue("logout", 0)
    /\ session' = NoUser /\ changes' = changes + 1
    /\ root' = "SignIn"
    /\ UNCHANGED <<running, kills, form, forms, picker, signIn, attempt, servers>>

LogoutHidesHud ==
    /\ Runs("logout")
    /\ DismissHud
    /\ UNCHANGED <<device, form, forms, picker, attempt, servers>>

\* One sign-in at a time; Session has several and the block of each tap.
SignIn ==
    /\ running /\ root = "SignIn"
    /\ signIn \in {"none", "failed"}
    /\ hud' = TRUE /\ signIn' = "sent"
    /\ UNCHANGED <<device, form, forms, picker, queued, attempt, servers>>

\* The library has the new session before signIn calls its completion.
SignInSucceeds(u) ==
    /\ signIn = "sent"
    /\ changes < MaxSessionChanges
    /\ session' = u /\ changes' = changes + 1
    /\ signIn' = "succeeded"
    /\ UNCHANGED <<running, kills, root, form, forms, picker, hud, queued, attempt, servers>>

\* signIn drops the error (FirebaseAPIHandler.swift:109): nothing hides the HUD.
SignInFails ==
    /\ signIn = "sent"
    /\ signIn' = "failed"
    /\ UNCHANGED <<device, form, forms, picker, hud, queued, attempt, servers>>

SignedIn ==
    /\ signIn = "succeeded"
    /\ hud' = FALSE /\ signIn' = "none"
    /\ root' = "LoggedIn"
    /\ UNCHANGED <<running, kills, session, changes, form, forms, picker, queued,
                   attempt, servers>>

\* The library signs the user out by itself when the token is refused.
SessionInvalidated ==
    /\ running /\ session # NoUser
    /\ changes < MaxSessionChanges
    /\ session' = NoUser /\ changes' = changes + 1
    /\ UNCHANGED <<running, kills, root, screen, attempt, servers>>

Kill ==
    /\ running /\ kills < MaxKills
    /\ kills' = kills + 1
    /\ ProcessEnds
    /\ UNCHANGED <<session, changes, root, forms, author, since, from, write,
                   group, notify, target, outcome, servers>>

Launch ==
    /\ ~running
    /\ running' = TRUE
    /\ root' = IF session = NoUser THEN "SignIn" ELSE "LoggedIn"
    /\ UNCHANGED <<kills, session, changes, screen, attempt, servers>>

-----------------------------------------------------------------------------
Form == \/ AddPostBarBtn \/ CancelBarButton \/ Unwind
        \/ ImgSelectBtn \/ PresentPicker \/ ClosePicker

Session == \/ Logout \/ LogoutHidesHud \/ SessionInvalidated \/ Kill \/ Launch
           \/ SignIn \/ SignInFails \/ SignedIn
           \/ \E u \in Users : SignInSucceeds(u)

Callback(p) ==
    \/ RecordRefused(p) \/ RecordStored(p) \/ RecordStoredSignedOut(p)
    \/ \E k \in {"image", "listing"} : PartRefused(p, k) \/ PartStored(p, k)
    \/ RunNotify(p)

Message(p) == \/ \E c \in Causes : HideHud(p, c) \/ ShowError(p, c)
              \/ ShowSuccess(p)

Server(p) == \E k \in Parts : ServerStores(p, k) \/ ServerRefuses(p, k)

Next ==
    \/ Form \/ Session
    \/ \E p \in Posts : PostBarButton(p) \/ Callback(p) \/ Message(p) \/ Server(p)

\* The servers answer, and the main queue runs what is queued on it.
Fairness ==
    \A p \in Posts : WF_vars(Server(p)) /\ WF_vars(Callback(p)) /\ WF_vars(Message(p))

Spec == Init /\ [][Next]_vars /\ Fairness
-----------------------------------------------------------------------------
(***************************************************************************)
(* Properties.                                                             *)
(***************************************************************************)
Published(p)    == outcome[p]["notify"] # "none"
ErrorCauses(p)  == {c \in Parts : outcome[p][c] # "none"}

(***************************************************************************)
(* The inductive invariant: how the stages of one attempt, its group, its  *)
(* reports and the stores go together.                                     *)
(***************************************************************************)
\* 1 while part k has entered the group and not left it.
InGroup(p, k) ==
    IF write[p][k] \in {"sent", "stored", "refused", "failed"} THEN 1 ELSE 0

RecordFirst(p) ==
    write[p]["record"] # "acked" =>
        /\ write[p]["image"] = "none" /\ write[p]["listing"] = "none"
        /\ notify[p] = "none"
        /\ target[p] = NoUser

StoresAgree(p) ==
    /\ write[p]["record"] \in {"stored", "acked"} => p \in records
    /\ write[p]["image"] \in {"stored", "acked"} => p \in images
    /\ write[p]["listing"] # "none" => target[p] \in Users
    /\ write[p]["listing"] \in {"stored", "acked"} => p \in lists[target[p]]
    /\ p \in images => p \in records
    /\ \A u \in Users : p \in lists[u] => p \in records /\ u = target[p]

GroupAgrees(p) ==
    /\ notify[p] = "none" => /\ group[p] = 0 /\ write[p]["listing"] = "none"
                             /\ p \in live => write[p]["image"] = "none"
    /\ notify[p] # "none" =>
        /\ group[p] = InGroup(p, "image") + InGroup(p, "listing")
        /\ write[p]["image"] # "none" /\ write[p]["listing"] # "none"
    /\ notify[p] = "waiting" => group[p] > 0
    /\ notify[p] \in {"queued", "ran"} => group[p] = 0

ReportsAgree(p) ==
    /\ \A k \in Parts : outcome[p][k] # "none" => write[p][k] = "failed"
    /\ outcome[p]["notify"] # "none" => notify[p] = "ran"

AccountsAgree(p) ==
    /\ since[p] <= changes
    /\ write[p]["record"] # "none" => session = author[p] \/ changes > since[p]
    /\ target[p] \in Users => target[p] = author[p] \/ changes > since[p]

\* What addNewPost keeps true of every attempt between any two blocks: the parts
\* start after the record, the group counts the parts still out, a report
\* agrees with the callback it comes from, and the stores with the callbacks.
AttemptInv ==
    \A p \in Posts : /\ RecordFirst(p) /\ StoresAgree(p) /\ GroupAgrees(p)
                     /\ ReportsAgree(p) /\ AccountsAgree(p)

\* "Successfully posted" is reported (AddPostViewController.swift:45) only for a
\* post whose record and image are stored and that is listed in an account.
SuccessMeansStored ==
    \A p \in Posts : Published(p) =>
        /\ p \in records
        /\ p \in images
        /\ \E u \in Users : p \in lists[u]

\* addNewPost calls its completion from four places; an attempt never reports
\* both success and an error, and an error of the record excludes any other.
OutcomeExclusive ==
    \A p \in Posts :
        /\ Published(p) => ErrorCauses(p) = {}
        /\ "record" \in ErrorCauses(p) => ErrorCauses(p) = {"record"}

\* Whatever fails or is killed half-way, and however late an answer is, neither
\* store ever holds an image or a list entry of a post that has no record.
NoDanglingPart ==
    /\ images \subseteq records
    /\ \A u \in Users : lists[u] \subseteq records

\* addPostRefCurrentUser reads the account anew after the record was stored
\* (FirebaseAPIHandler.swift:486): a post is listed by an account other than its
\* author only if the session changed after the tap.
ListedByAuthor ==
    \A p \in Posts : \A u \in Users :
        p \in lists[u] => u = author[p] \/ changes > since[p]

\* The HUD is one per process and any completion hides it.  While it is up,
\* something is under way that will hide it again: the block of a tap, an
\* attempt none of whose reports has hidden it, or a sign-in; one that failed
\* is the only one that never does (FirebaseAPIHandler.swift:109-111).
HudHasOwner ==
    hud => \/ signIn # "none"
           \/ \E i \in DOMAIN queued : queued[i].type # "cancel"
           \/ \E p \in live : \A c \in Causes : outcome[p][c] \in {"none", "called"}

\* Every tap on the post button is answered by a message, unless the process
\* that made the attempt ends: a refused part is reported although the group
\* of the attempt is then never left.
Answered ==
    \A p \in Posts :
        p \in live ~> p \notin live \/ \E c \in Causes : outcome[p][c] = "shown"

\* What the stores and the reports show implements Publication.
Publication == INSTANCE Publication WITH
    listed    <- UNION {lists[u] : u \in Users},
    announced <- {p \in Posts : Published(p)},
    failed    <- {p \in Posts : ErrorCauses(p) # {}}

ImplementsPublication == Publication!PubSpec
=============================================================================
