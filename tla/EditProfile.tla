---------------------------- MODULE EditProfile ----------------------------
(***************************************************************************)
(* The edit-profile screen (EditProfileViewController) and the calls it    *)
(* makes (FirebaseAPIHandler.fetchCurrentUser, fetchCurrentUserImage,      *)
(* updateUserInformation, uploadImage).                                    *)
(*                                                                         *)
(* The screen opens with an empty profile and the default picture and      *)
(* loads both, while the user may already edit, pick and save.  A save     *)
(* updates the profile of the account signed in at the tap and then        *)
(* uploads the picture for the account signed in by then.                  *)
(*                                                                         *)
(* The four fields of the form are one; its e-mail, which the form does    *)
(* not show, is loaded with it and written back by a save, and a save      *)
(* without one erases it.                                                  *)
(***************************************************************************)
EXTENDS Naturals, Sequences, FiniteSets

CONSTANTS
    Users,              \* accounts
    NoUser,             \* no account is signed in
    Texts,              \* what can be typed
    Old,                \* the text of a profile before any save
    Nil,                \* no text; no profile
    MaxOpens,           \* bound: how often the screen is opened
    MaxEdits,           \* bound: texts typed and taps on the picture
    MaxSaves,           \* bound: saves that are sent
    MaxSessionChanges,  \* bound: sign-ins, logouts and invalidated sessions
    MaxWork             \* bound on all of them: a save and an edit count three, a screen
                        \* and a change of the session one

\* A profile; the loaded photo of a user is named by the user.
Profiles == [text : Texts \cup {Old, Nil}, mail : BOOLEAN]
Pictures == Users \cup {"default", "picked"}

ASSUME EditAssumption ==
    /\ NoUser \notin Users /\ Users \cap {"default", "picked", "none"} = {}
    /\ Old \notin Texts /\ Nil \notin Texts \cup {Old} /\ Nil \notin Profiles
    /\ MaxOpens \in Nat /\ MaxEdits \in Nat
    /\ MaxSaves \in Nat /\ MaxSessionChanges \in Nat /\ MaxWork \in Nat

Opens == 1..MaxOpens
Saves == 1..MaxSaves

VARIABLES
    running,        \* FALSE after an exception
    session,        \* Auth.auth().currentUser
    changes,        \* changes of session so far
    root,           \* the root view controller
    signIn,         \* how far the sign-in under way is
    hud,            \* SVProgressHUD: hidden, shown, or left up by the last that showed it
    shown,          \* the screen on top, counted from 1; 0 is none
    opens,          \* screens opened so far
    info,           \* userInfoArray
    typing,         \* the text of the field being edited, or Nil
    image,          \* the picture in editProfileImgView
    edits,          \* texts typed and taps on the picture so far
    queued,         \* main-queue blocks of taps, oldest first: the screen that presents
                    \* the image picker, or 0 for the message of a logout
    picker,         \* the image picker covers the screen
    owner,          \* the account a screen loads
    profileLoad,    \* how far the load of the profile is
    photoLoad,      \* how far the load of the photo is
    downloaded,     \* the photo a screen has downloaded and not shown yet
    save,           \* the saves that were sent
    profile,        \* database: USER/<uid>
    photo,          \* storage: UserImages/<uid>.png
    overlap,        \* history: saved while a save was under way
    complete        \* history: the accounts that had a whole profile at first

device  == <<running, session, changes, root, signIn>>
album   == <<edits, queued, picker>>
screen  == <<shown, opens, info, typing, image, album>>
loads   == <<owner, profileLoad, photoLoad, downloaded>>
servers == <<profile, photo>>
history == <<overlap, complete>>
vars == <<device, hud, screen, loads, save, servers, history>>

Stages == {"none", "update", "updated", "upload", "uploaded", "refused",
           "succeeded", "failed", "success", "error"}

NoSave == [stage |-> "none", screen |-> 0, account |-> NoUser, target |-> NoUser,
           info |-> [text |-> Nil, mail |-> FALSE], picture |-> "default", since |-> 0,
           early |-> FALSE, blind |-> FALSE]

QueueOK == queued \in Seq(0..MaxOpens)

TypeOK ==
    /\ running \in BOOLEAN /\ hud \in {"hidden", "shown", "left"}
    /\ session \in Users \cup {NoUser} /\ changes \in Nat
    /\ root \in {"SignIn", "LoggedIn"} /\ signIn \in {"none", "sent", "succeeded"}
    /\ shown \in 0..MaxOpens /\ opens \in 0..MaxOpens
    /\ info \in Profiles \cup {Nil} /\ typing \in Texts \cup {Nil}
    /\ image \in Pictures /\ edits \in 0..MaxEdits /\ QueueOK /\ picker \in BOOLEAN
    /\ owner \in [Opens -> Users \cup {NoUser}]
    /\ profileLoad \in [Opens -> {"none", "sent", "answered", "shown"}]
    /\ photoLoad \in [Opens -> {"none", "sent", "answered", "shown", "failed"}]
    /\ downloaded \in [Opens -> Pictures \cup {"none"}]
    /\ save \in [Saves -> [stage : Stages, screen : 0..MaxOpens,
                           account : Users \cup {NoUser}, target : Users \cup {NoUser},
                           info : Profiles, picture : Pictures, since : Nat,
                           early : BOOLEAN, blind : BOOLEAN]]
    /\ profile \in [Users -> Profiles \cup {Nil}]
    /\ photo \in [Users -> Pictures \cup {"none"}]
    /\ overlap \in BOOLEAN /\ complete \in SUBSET Users

\* A sign-up that was interrupted leaves an account without its photo or without its
\* profile; a post or a friend makes a record without a profile in it.
Init ==
    /\ running = TRUE /\ changes = 0 /\ root = "LoggedIn" /\ signIn = "none"
    /\ hud = "hidden"
    /\ session \in Users
    /\ shown = 0 /\ opens = 0
    /\ info = NoSave.info /\ typing = Nil /\ image = "default"
    /\ edits = 0 /\ queued = <<>> /\ picker = FALSE
    /\ owner = [o \in Opens |-> NoUser]
    /\ profileLoad = [o \in Opens |-> "none"] /\ photoLoad = [o \in Opens |-> "none"]
    /\ downloaded = [o \in Opens |-> "none"]
    /\ save = [s \in Saves |-> NoSave]
    /\ complete \in SUBSET Users
    /\ \E recorded \in SUBSET (Users \ complete), pictured \in SUBSET complete :
          /\ profile = [u \in Users |-> CASE u \in complete -> [text |-> Old, mail |-> TRUE]
                                          [] u \in recorded -> NoSave.info
                                          [] OTHER          -> Nil]
          /\ photo = [u \in Users |-> IF u \in pictured THEN u ELSE "none"]
    /\ overlap = FALSE

-----------------------------------------------------------------------------
(***************************************************************************)
(* Opening the screen and its two loads.                                   *)
(***************************************************************************)
\* The bound on the work of one behaviour leaves room for that much.
Affordable(cost) ==
    LET saves == {s \in Saves : save[s] # NoSave}
    IN  cost + opens + changes + 3 * (edits + Cardinality(saves)) <= MaxWork

Opening == running /\ root = "LoggedIn" /\ shown = 0 /\ ~picker /\ opens < MaxOpens /\ Affordable(1)

ViewDidLoad ==
    /\ Opening /\ session # NoUser
    /\ shown' = opens + 1 /\ opens' = opens + 1
    /\ info' = NoSave.info /\ typing' = Nil /\ image' = "default"
    /\ owner' = [owner EXCEPT ![opens + 1] = session]
    /\ profileLoad' = [profileLoad EXCEPT ![opens + 1] = "sent"]
    /\ photoLoad' = [photoLoad EXCEPT ![opens + 1] = "sent"]
    /\ downloaded' = [downloaded EXCEPT ![opens + 1] = "none"]
    /\ hud' = "shown"
    /\ UNCHANGED <<device, album, save, servers, history>>

\* child("") raises and ends the process.
Raise ==
    /\ running' = FALSE
    /\ UNCHANGED <<session, changes, root, signIn, hud, screen, loads, save, servers, history>>

ViewDidLoadRaises == Opening /\ session = NoUser /\ Raise

\* The database library shows a write before its server has answered it.
Readable(u) == {profile[u]} \cup
               {save[s].info : s \in {r \in Saves : /\ save[r].account = u
                                                    /\ save[r].stage \in {"update", "refused"}}}

\* Mutant: the e-mail is not loaded.
ProfileAnswered_NoMail(o) ==
    /\ running /\ profileLoad[o] = "sent"
    /\ profileLoad' = [profileLoad EXCEPT ![o] = "answered"]
    /\ \E p \in Readable(owner[o]) :
          info' = IF o # shown THEN info
                  ELSE IF p = Nil THEN Nil ELSE [p EXCEPT !.mail = FALSE]
    /\ UNCHANGED <<device, hud, shown, opens, typing, image, album, owner, photoLoad, downloaded, save,
                   servers, history>>

\* A profile that is missing is loaded as nil.
ProfileAnswered(o) ==
    /\ running /\ profileLoad[o] = "sent"
    /\ profileLoad' = [profileLoad EXCEPT ![o] = "answered"]
    /\ \E p \in Readable(owner[o]) : info' = IF o = shown THEN p ELSE info
    /\ UNCHANGED <<device, hud, shown, opens, typing, image, album, owner, photoLoad, downloaded, save,
                   servers, history>>

\* textFieldDidEndEditing: without a profile there is nothing to put the text in.
EndEditing ==
    /\ typing' = Nil
    /\ info' = IF typing # Nil /\ info # Nil THEN [info EXCEPT !.text = typing] ELSE info

\* reloadData may end the editing of a field, replace its text, or leave it alone.
ProfileShown(o) ==
    /\ running /\ profileLoad[o] = "answered"
    /\ profileLoad' = [profileLoad EXCEPT ![o] = "shown"]
    /\ hud' = "hidden"
    /\ IF o = shown
         THEN \/ EndEditing
              \/ typing' = Nil /\ UNCHANGED info
              \/ UNCHANGED <<typing, info>>
         ELSE UNCHANGED <<typing, info>>
    /\ UNCHANGED <<device, shown, opens, image, album, owner, photoLoad, downloaded, save,
                   servers, history>>

\* The photo as it is when the storage answers.
PhotoAnswered(o) ==
    /\ running /\ photoLoad[o] = "sent"
    /\ photo[owner[o]] # "none"
    /\ photoLoad' = [photoLoad EXCEPT ![o] = "answered"]
    /\ downloaded' = [downloaded EXCEPT ![o] = photo[owner[o]]]
    /\ UNCHANGED <<device, hud, screen, owner, profileLoad, save, servers, history>>

\* Mutant: the photo of a closed screen is shown on the one that is open.
PhotoShown_OtherScreen(o) ==
    /\ running /\ photoLoad[o] = "answered"
    /\ photoLoad' = [photoLoad EXCEPT ![o] = "shown"]
    /\ image' = downloaded[o]
    /\ downloaded' = [downloaded EXCEPT ![o] = "none"]
    /\ hud' = "hidden"
    /\ UNCHANGED <<device, shown, opens, info, typing, album, owner, profileLoad,
                   save, servers, history>>

\* The block: the picture shown is replaced, a picked one too.
PhotoShown(o) ==
    /\ running /\ photoLoad[o] = "answered"
    /\ photoLoad' = [photoLoad EXCEPT ![o] = "shown"]
    /\ image' = IF o = shown THEN downloaded[o] ELSE image
    /\ downloaded' = [downloaded EXCEPT ![o] = "none"]
    /\ hud' = "hidden"
    /\ UNCHANGED <<device, shown, opens, info, typing, album, owner, profileLoad,
                   save, servers, history>>

\* A photo that cannot be downloaded does not hide the HUD.
PhotoFailed(o) ==
    /\ running /\ photoLoad[o] = "sent"
    /\ photoLoad' = [photoLoad EXCEPT ![o] = "failed"]
    /\ UNCHANGED <<device, hud, screen, owner, profileLoad, downloaded, save, servers,
                   history>>

-----------------------------------------------------------------------------
(***************************************************************************)
(* Editing.                                                                *)
(***************************************************************************)
InFront == running /\ shown # 0 /\ ~picker

EditField(text) ==
    /\ InFront /\ edits < MaxEdits /\ Affordable(3)
    /\ edits' = edits + 1
    /\ typing' = text
    /\ UNCHANGED <<device, hud, shown, opens, info, image, queued, picker, loads, save,
                   servers, history>>

ReturnKey ==
    /\ InFront /\ typing # Nil
    /\ EndEditing
    /\ UNCHANGED <<device, hud, shown, opens, image, album, loads, save, servers,
                   history>>

Back ==
    /\ InFront
    /\ shown' = 0 /\ typing' = Nil
    /\ UNCHANGED <<device, hud, opens, info, image, album, loads, save, servers,
                   history>>

SelectNewImage ==
    /\ InFront /\ edits < MaxEdits /\ Affordable(3)
    /\ edits' = edits + 1
    /\ queued' = Append(queued, shown)
    /\ hud' = "shown"
    /\ UNCHANGED <<device, shown, opens, info, typing, image, picker, loads, save, servers,
                   history>>

\* The main queue runs the oldest block of a tap.
Runs(block) ==
    /\ running /\ queued # <<>> /\ Head(queued) = block
    /\ queued' = Tail(queued)
    /\ hud' = "hidden"

\* A screen already gone presents nothing.
PresentPicker(o) ==
    /\ Runs(o)
    /\ picker' = (picker \/ shown = o)
    /\ UNCHANGED <<device, shown, opens, info, typing, image, edits, loads, save, servers, history>>

\* A picture is picked, or none.
ClosePicker ==
    /\ running /\ picker
    /\ picker' = FALSE
    /\ image' \in {image, "picked"}
    /\ UNCHANGED <<device, hud, shown, opens, info, typing, edits, queued, loads, save,
                   servers, history>>

-----------------------------------------------------------------------------
(***************************************************************************)
(* Saving.                                                                 *)
(***************************************************************************)
Whole == info # Nil /\ info.text # Nil

UnderWay(s) == save[s].stage \notin {"none", "success", "error"}

\* saveBarBtn reads what has been put in userInfoArray; it does not end editing.
SaveBarBtn(s) ==
    /\ InFront /\ Whole /\ session # NoUser /\ Affordable(3)
    /\ save[s] = NoSave /\ \A t \in 1..(s - 1) : save[t] # NoSave
    /\ save' = [save EXCEPT ![s] =
                  [NoSave EXCEPT !.stage = "update", !.screen = shown, !.account = session,
                                 !.info = info, !.picture = image, !.since = changes,
                                 !.early = profileLoad[shown] = "sent",
                                 !.blind = photoLoad[shown] # "shown"]]
    /\ hud' = "shown"
    /\ overlap' = (overlap \/ \E t \in Saves : UnderWay(t))
    /\ UNCHANGED <<device, screen, loads, servers, complete>>

SaveRaises == InFront /\ Whole /\ session = NoUser /\ Raise

SaveIncomplete ==
    /\ InFront /\ info # Nil /\ ~Whole
    /\ hud' = "hidden"
    /\ UNCHANGED <<device, screen, loads, save, servers, history>>

\* Nothing is sent, and nothing hides the HUD.
SaveNothing ==
    /\ InFront /\ info = Nil
    /\ hud' = "left"
    /\ UNCHANGED <<device, screen, loads, save, servers, history>>

\* Updates arrive in the order they were sent in, uploads in any order.
ServerUpdates(s) ==
    /\ save[s].stage = "update" /\ \A t \in 1..(s - 1) : save[t].stage # "update"
    /\ profile' = [profile EXCEPT ![save[s].account] = save[s].info]
    /\ save' = [save EXCEPT ![s].stage = "updated"]
    /\ UNCHANGED <<device, hud, screen, loads, photo, history>>

\* The picture of nobody goes to a file that no profile shows.
StorePhoto(s) ==
    photo' = IF save[s].target = NoUser THEN photo
             ELSE [photo EXCEPT ![save[s].target] = save[s].picture]

ServerUploads(s) ==
    /\ save[s].stage = "upload"
    /\ StorePhoto(s)
    /\ save' = [save EXCEPT ![s].stage = "uploaded"]
    /\ UNCHANGED <<device, hud, screen, loads, profile, history>>

\* A refused upload may have been stored: its answer was lost.
ServerRefuses(s) ==
    /\ save[s].stage \in {"update", "upload"}
    /\ \/ UNCHANGED photo
       \/ save[s].stage = "upload" /\ StorePhoto(s)
    /\ save' = [save EXCEPT ![s].stage = "refused"]
    /\ UNCHANGED <<device, hud, screen, loads, profile, history>>

\* Mutant: the completion is called without waiting for the upload.
Updated_Finishes(s) ==
    /\ running /\ save[s].stage = "updated"
    /\ save' = [save EXCEPT ![s].stage = "succeeded", ![s].target = session]
    /\ UNCHANGED <<device, hud, screen, loads, servers, history>>

\* The callback of the update reads the account again.
Updated(s) ==
    /\ running /\ save[s].stage = "updated"
    /\ save' = [save EXCEPT ![s].stage = "upload", ![s].target = session]
    /\ UNCHANGED <<device, hud, screen, loads, servers, history>>

Uploaded(s) ==
    /\ running /\ save[s].stage = "uploaded"
    /\ save' = [save EXCEPT ![s].stage = "succeeded"]
    /\ UNCHANGED <<device, hud, screen, loads, servers, history>>

\* Mutant: a refusal does not call the completion.
Refused_Silent(s) ==
    /\ running /\ save[s].stage = "refused"
    /\ UNCHANGED vars

Refused(s) ==
    /\ running /\ save[s].stage = "refused"
    /\ save' = [save EXCEPT ![s].stage = "failed"]
    /\ UNCHANGED <<device, hud, screen, loads, servers, history>>

\* A success pops its own screen, if it is still there.
ShowSuccess(s) ==
    /\ running /\ save[s].stage = "succeeded"
    /\ save' = [save EXCEPT ![s].stage = "success"]
    /\ hud' = "hidden"
    /\ IF shown = save[s].screen THEN shown' = 0 /\ typing' = Nil ELSE UNCHANGED <<shown, typing>>
    /\ UNCHANGED <<device, opens, info, image, album, loads, servers, history>>

\* Mutant: an error leaves the HUD, as that of a sign-in does.
ShowError_KeepsHud(s) ==
    /\ running /\ save[s].stage = "failed"
    /\ save' = [save EXCEPT ![s].stage = "error"]
    /\ UNCHANGED <<device, hud, screen, loads, servers, history>>

ShowError(s) ==
    /\ running /\ save[s].stage = "failed"
    /\ save' = [save EXCEPT ![s].stage = "error"]
    /\ hud' = "hidden"
    /\ UNCHANGED <<device, screen, loads, servers, history>>

-----------------------------------------------------------------------------
(***************************************************************************)
(* The session.                                                            *)
(***************************************************************************)
Changes(user) ==
    /\ running /\ changes < MaxSessionChanges /\ Affordable(1)
    /\ session' = user /\ changes' = changes + 1

\* The settings are below the screen: logging out needs it closed.
Logout ==
    /\ root = "LoggedIn" /\ shown = 0 /\ ~picker
    /\ Changes(NoUser)
    /\ root' = "SignIn"
    /\ queued' = Append(queued, 0)
    /\ hud' = "shown"
    /\ UNCHANGED <<running, signIn, shown, opens, info, typing, image, edits, picker, loads, save,
                   servers, history>>

LogoutHidesHud ==
    /\ Runs(0)
    /\ UNCHANGED <<device, shown, opens, info, typing, image, edits, picker, loads, save, servers,
                   history>>

\* A sign-in at a time; those that overlap are those of Session.
SignIn ==
    /\ running /\ root = "SignIn" /\ signIn = "none"
    /\ changes < MaxSessionChanges /\ Affordable(1)
    /\ signIn' = "sent"
    /\ hud' = "shown"
    /\ UNCHANGED <<running, session, changes, root, screen, loads, save, servers, history>>

SignInSucceeds(u) ==
    /\ signIn = "sent"
    /\ Changes(u)
    /\ signIn' = "succeeded"
    /\ UNCHANGED <<running, root, hud, screen, loads, save, servers, history>>

\* A failure calls nobody, and nothing hides the HUD.
SignInFails ==
    /\ running /\ signIn = "sent"
    /\ signIn' = "none"
    /\ hud' = IF hud = "shown" THEN "left" ELSE hud
    /\ UNCHANGED <<running, session, changes, root, screen, loads, save, servers, history>>

SignedIn ==
    /\ running /\ signIn = "succeeded"
    /\ signIn' = "none" /\ root' = "LoggedIn"
    /\ hud' = "hidden"
    /\ UNCHANGED <<running, session, changes, screen, loads, save, servers, history>>

\* The library signs the user out by itself when the token is refused.
SessionInvalidated ==
    /\ session # NoUser
    /\ Changes(NoUser)
    /\ UNCHANGED <<running, root, signIn, hud, screen, loads, save, servers, history>>

-----------------------------------------------------------------------------
Load(o) == \/ ProfileAnswered(o) \/ ProfileShown(o)
           \/ PhotoAnswered(o) \/ PhotoShown(o) \/ PhotoFailed(o)

TapBlock == LogoutHidesHud \/ \E o \in Opens : PresentPicker(o)

Saving(s) == \/ ServerUpdates(s) \/ ServerUploads(s) \/ ServerRefuses(s)
             \/ Updated(s) \/ Uploaded(s) \/ Refused(s) \/ ShowSuccess(s) \/ ShowError(s)

User == \/ ViewDidLoad \/ ViewDidLoadRaises \/ ReturnKey \/ Back \/ SelectNewImage
        \/ ClosePicker \/ SaveRaises \/ SaveIncomplete \/ SaveNothing
        \/ \E text \in Texts : EditField(text)
        \/ \E s \in Saves : SaveBarBtn(s)

Session == \/ Logout \/ SessionInvalidated
           \/ SignIn \/ SignInFails \/ SignedIn \/ \E u \in Users : SignInSucceeds(u)

Next == \/ User \/ Session \/ TapBlock
        \/ \E o \in Opens : Load(o)
        \/ \E s \in Saves : Saving(s)

\* The servers answer; the main queue runs its blocks, whichever is next.
Fairness == /\ WF_vars(TapBlock \/ \E o \in Opens : Load(o))
            /\ WF_vars(\E s \in Saves : Saving(s))

Spec == Init /\ [][Next]_vars /\ Fairness
-----------------------------------------------------------------------------
(***************************************************************************)
(* Properties.                                                             *)
(***************************************************************************)
Sent(s) == save[s] # NoSave

\* A picture of another account was uploaded for u.
Astray(u) == \E s \in Saves : save[s].target = u /\ save[s].account # u

\* "Successfully updated user profile" (EditProfileViewController.swift:91), of the
\* last save and when none overlapped, means that the account has the profile that
\* was on the screen, and its picture too unless the session has changed.
SuccessMeansSaved ==
    \A s \in Saves :
        /\ save[s].stage \in {"succeeded", "success"}
        /\ ~overlap /\ \A t \in (s + 1)..MaxSaves : ~Sent(t)
        => /\ profile[save[s].account] = save[s].info
           /\ photo[save[s].account] = save[s].picture \/ changes > save[s].since

\* An account has the photo of another only because a save of another account read
\* the account again after the session had changed (FirebaseAPIHandler.swift:413);
\* late answers of a closed screen never bring it about.
PhotoOfOwner ==
    \A u \in Users : photo[u] \in Users \ {u} => Astray(u)

\* A save never erases the e-mail of a profile, which the form does not show, but
\* when it was tapped before the profile was loaded (FirebaseAPIHandler.swift:409).
MailKept ==
    \A u \in complete :
        profile[u] # Nil /\ (profile[u].mail \/ \E s \in Saves : save[s].account = u /\ save[s].early)

\* The default picture replaces the photo of an account only by a save that was
\* tapped when the photo had not been shown (EditProfileViewController.swift:86), or
\* by one of another account that went astray.
PhotoKept ==
    \A u \in Users :
        photo[u] = "default" => \/ \E s \in Saves : save[s].target = u /\ save[s].blind
                                \/ Astray(u)

\* Nobody's photo is lost to the default picture or to another account's, however
\* screens, saves and sessions overlap, but in the cases the two parts name.
PhotosSafe == PhotoOfOwner /\ PhotoKept

\* While the HUD is up something will hide it, unless it was left up because nothing
\* was there to be saved (EditProfileViewController.swift:84) or a sign-in failed
\* (FirebaseAPIHandler.swift:109): the photo that fails to load and hides nothing
\* does not matter.
HudHasOwner ==
    hud = "shown" => \/ queued # <<>> \/ signIn # "none"
                     \/ \E o \in Opens : profileLoad[o] \in {"sent", "answered"}
                     \/ \E s \in Saves : UnderWay(s)

\* The types and the owner of the HUD, which loads, picks, saves,
\* logouts and sign-ins share.
ScreenInv == TypeOK /\ HudHasOwner

\* A save that was sent is answered by a message, also after its screen is closed.
SaveAnswered ==
    \A s \in Saves : save[s].stage = "update" ~> save[s].stage \in {"success", "error"}
                                                 \/ ~running
=============================================================================
