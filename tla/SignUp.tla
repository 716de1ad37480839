------------------------------- MODULE SignUp -------------------------------
(***************************************************************************)
(* The sign-up screen (SignUpViewController) and the calls it makes        *)
(* (FirebaseAPIHandler.signUpNewUser, uploadImage).                        *)
(*                                                                         *)
(* Submit enters the screen's DispatchGroup, asks for the location and     *)
(* leaves a block to run when the group is empty.  The answer leaves the   *)
(* group; a failure does not.  The block reads the form as it is by then   *)
(* and, if every field was visited, runs three calls, each in the callback *)
(* of the one before: create the account (which signs it in), write its    *)
(* profile, upload its photo.                                              *)
(*                                                                         *)
(* An account is named by its e-mail address.  The five fields other than  *)
(* the e-mail are one field of the model, visited or not.                  *)
(***************************************************************************)
EXTENDS Naturals, Sequences

CONSTANTS
    Forms,              \* sign-up screens, each opened at most once
    NoForm,             \* no sign-up screen is shown
    Submits,            \* taps on the submit button
    Emails,             \* addresses that can be registered
    Blank,              \* an e-mail field left empty after a visit
    Nil,                \* a field never visited; no account
    MaxBlocks,          \* bound: blocks of taps queued at a time
    MaxKills            \* bound: how often the system kills the process

Texts == Emails \cup {Blank}

ASSUME NamesAssumption ==
    /\ NoForm \notin Forms
    /\ Nil \notin Texts \cup Submits /\ Blank \notin Emails
    /\ MaxBlocks \in Nat /\ MaxKills \in Nat

VARIABLES
    running,    \* is there a process
    kills,
    root,       \* the root view controller
    session,    \* Auth.auth().currentUser
    shown,      \* the sign-up screen on top
    opened,     \* screens opened so far
    typing,     \* the text field being edited and its text
    hud,        \* SVProgressHUD is shown
    queued,     \* main-queue blocks of taps that have yet to run, oldest first
    email,      \* userInfo.emailId of a screen
    others,     \* were the other five fields visited
    located,    \* userInfo has a latitude and a longitude
    group,      \* count of signUpDispatchGroup
    asked,      \* requests for the location that have no answer yet
    lost,       \* enters of the group that no answer will leave
    form,       \* the screen of a submit
    stage,      \* how far a submit is
    request,    \* the call the submit waits for
    address,    \* the e-mail a submit registers
    live,       \* submits of the running process
    accounts,   \* Auth: registered addresses
    creator,    \* the submit that registered an address
    profiles,   \* database: USER/<uid>
    photos      \* storage: UserImages/<uid>.png

device   == <<running, kills, root>>
screen   == <<shown, opened, typing, queued>>
info     == <<email, others, located>>
location == <<group, asked, lost>>
submit   == <<form, stage, request, address, live>>
servers  == <<accounts, creator, profiles, photos>>
vars == <<device, session, screen, hud, info, location, submit, servers>>

Stages == {"none", "waiting", "queued", "incomplete", "create", "profile", "photo",
           "succeeded", "failed", "success", "error"}
Calls  == {"create", "profile", "photo"}
NotTyping == [field |-> "none", text |-> Nil]

QueueOK == queued \in Seq({"picker", "logout"})

TypeOK ==
    /\ running \in BOOLEAN /\ kills \in Nat
    /\ root \in {"SignIn", "LoggedIn"}
    /\ session \in Emails \cup {Nil}
    /\ shown \in Forms \cup {NoForm} /\ opened \in SUBSET Forms
    /\ typing \in [field : {"none", "email", "others"}, text : Texts \cup {Nil}]
    /\ hud \in BOOLEAN /\ QueueOK
    /\ email \in [Forms -> Texts \cup {Nil}]
    /\ others \in [Forms -> BOOLEAN] /\ located \in [Forms -> BOOLEAN]
    /\ group \in [Forms -> Nat] /\ asked \in [Forms -> Nat] /\ lost \in [Forms -> Nat]
    /\ form \in [Submits -> Forms \cup {NoForm}]
    /\ stage \in [Submits -> Stages]
    /\ request \in [Submits -> {"none", "sent", "stored", "refused"}]
    /\ address \in [Submits -> Texts \cup {Nil}]
    /\ live \in SUBSET Submits
    /\ accounts \in SUBSET Emails
    /\ creator \in [Emails -> Submits \cup {Nil}]
    /\ profiles \in SUBSET Emails /\ photos \in SUBSET Emails

Init ==
    /\ running = TRUE /\ kills = 0
    /\ root = "SignIn" /\ session = Nil
    /\ shown = NoForm /\ opened = {} /\ typing = NotTyping
    /\ hud = FALSE /\ queued = <<>>
    /\ email = [f \in Forms |-> Nil]
    /\ others = [f \in Forms |-> FALSE] /\ located = [f \in Forms |-> FALSE]
    /\ group = [f \in Forms |-> 0] /\ asked = [f \in Forms |-> 0]
    /\ lost = [f \in Forms |-> 0]
    /\ form = [s \in Submits |-> NoForm]
    /\ stage = [s \in Submits |-> "none"]
    /\ request = [s \in Submits |-> "none"]
    /\ address = [s \in Submits |-> Nil]
    /\ live = {}
    /\ accounts = {} /\ creator = [e \in Emails |-> Nil]
    /\ profiles = {} /\ photos = {}

-----------------------------------------------------------------------------
(***************************************************************************)
(* The form.                                                               *)
(***************************************************************************)
OpenForm(f) ==
    /\ running /\ root = "SignIn" /\ shown = NoForm
    /\ f \notin opened
    /\ shown' = f /\ opened' = opened \cup {f}
    /\ typing' = NotTyping
    /\ UNCHANGED <<device, session, queued, hud, info, location, submit, servers>>

Back ==
    /\ running /\ shown # NoForm
    /\ shown' = NoForm /\ typing' = NotTyping
    /\ UNCHANGED <<device, session, opened, queued, hud, info, location, submit, servers>>

\* textFieldDidEndEditing: the field edited, if any, goes to userInfo.
EndEditing ==
    /\ email' = IF typing.field = "email" THEN [email EXCEPT ![shown] = typing.text] ELSE email
    /\ others' = IF typing.field = "others" THEN [others EXCEPT ![shown] = TRUE] ELSE others
    /\ UNCHANGED located

\* Entering a field ends the editing of another.
EditField(field, text) ==
    /\ running /\ shown # NoForm
    /\ field = "others" => text = Blank
    /\ EndEditing
    /\ typing' = [field |-> field, text |-> text]
    /\ UNCHANGED <<device, session, shown, opened, queued, hud, location, submit, servers>>

ReturnKey ==
    /\ running /\ shown # NoForm /\ typing # NotTyping
    /\ EndEditing
    /\ typing' = NotTyping
    /\ UNCHANGED <<device, session, shown, opened, queued, hud, location, submit, servers>>

\* A tap that shows the HUD queues the block that will hide it.
Queue(block) ==
    /\ Len(queued) < MaxBlocks
    /\ queued' = Append(queued, block)
    /\ hud' = TRUE

Runs(block) ==
    /\ running /\ queued # <<>> /\ Head(queued) = block
    /\ queued' = Tail(queued)
    /\ hud' = FALSE

SelectImg ==
    /\ running /\ shown # NoForm
    /\ Queue("picker")
    /\ UNCHANGED <<device, session, shown, opened, typing, info, location, submit, servers>>

PresentPicker ==
    /\ Runs("picker")
    /\ UNCHANGED <<device, session, shown, opened, typing, info, location, submit, servers>>

\* Mutant: the group is not entered.
Submit_NoEnter(s) ==
    /\ running /\ shown # NoForm
    /\ stage[s] = "none"
    /\ EndEditing /\ typing' = NotTyping
    /\ asked' = [asked EXCEPT ![shown] = @ + 1]
    /\ form' = [form EXCEPT ![s] = shown]
    /\ stage' = [stage EXCEPT ![s] = "queued"]
    /\ live' = live \cup {s}
    /\ UNCHANGED <<device, session, shown, opened, queued, hud, group, lost, request,
                   address, servers>>

\* submitActionBtn up to notify.
Submit(s) ==
    /\ running /\ shown # NoForm
    /\ stage[s] = "none"
    /\ EndEditing /\ typing' = NotTyping
    /\ group' = [group EXCEPT ![shown] = @ + 1]
    /\ asked' = [asked EXCEPT ![shown] = @ + 1]
    /\ form' = [form EXCEPT ![s] = shown]
    /\ stage' = [stage EXCEPT ![s] = "waiting"]
    /\ live' = live \cup {s}
    /\ UNCHANGED <<device, session, shown, opened, queued, hud, lost, request,
                   address, servers>>

-----------------------------------------------------------------------------
(***************************************************************************)
(* The location.  Requests made while one is pending may be answered       *)
(* together; the screens of a dead process get no answer.                  *)
(***************************************************************************)
Waiting(f) == {s \in live : form[s] = f /\ stage[s] = "waiting"}

LocationFound(f) ==
    /\ running
    /\ \E n \in 1..asked[f] :
          /\ asked' = [asked EXCEPT ![f] = @ - n]
          /\ lost' = [lost EXCEPT ![f] = @ + n - 1]
    /\ located' = [located EXCEPT ![f] = TRUE]
    /\ group' = [group EXCEPT ![f] = @ - 1]
    /\ stage' = [s \in Submits |->
                   IF group[f] = 1 /\ s \in Waiting(f) THEN "queued" ELSE stage[s]]
    /\ UNCHANGED <<device, session, screen, hud, email, others, form, request, address,
                   live, servers>>

\* Mutant: a failure leaves the group once, whatever it answers.
LocationFailed_Leaves(f) ==
    /\ running
    /\ \E n \in 1..asked[f] :
          /\ asked' = [asked EXCEPT ![f] = @ - n]
          /\ lost' = [lost EXCEPT ![f] = @ + n]
    /\ group' = [group EXCEPT ![f] = @ - 1]
    /\ stage' = [s \in Submits |->
                   IF group[f] = 1 /\ s \in Waiting(f) THEN "queued" ELSE stage[s]]
    /\ UNCHANGED <<device, session, screen, hud, info, form, request, address, live, servers>>

\* didFailWithError only prints: nothing leaves the group.
LocationFailed(f) ==
    /\ running
    /\ \E n \in 1..asked[f] :
          /\ asked' = [asked EXCEPT ![f] = @ - n]
          /\ lost' = [lost EXCEPT ![f] = @ + n]
    /\ UNCHANGED <<device, session, screen, hud, info, group, submit, servers>>

-----------------------------------------------------------------------------
(***************************************************************************)
(* The block and the three calls.                                          *)
(***************************************************************************)
Filled(f) == email[f] # Nil /\ others[f] /\ located[f]

Send(s, call) ==
    /\ stage' = [stage EXCEPT ![s] = call]
    /\ request' = [request EXCEPT ![s] = "sent"]

Finish(s, result) ==
    /\ stage' = [stage EXCEPT ![s] = result]
    /\ request' = [request EXCEPT ![s] = "none"]

\* The notify block: it reads userInfo now, not as it was at the tap.
RunBlock(s) ==
    /\ s \in live /\ stage[s] = "queued"
    /\ IF Filled(form[s])
         THEN /\ hud' = TRUE
              /\ Send(s, "create")
              /\ address' = [address EXCEPT ![s] = email[form[s]]]
         ELSE /\ hud' = FALSE
              /\ Finish(s, "incomplete")
              /\ UNCHANGED address
    /\ UNCHANGED <<device, session, screen, info, location, form, live, servers>>

\* Mutant: the photo is uploaded first.
Created_PhotoFirst(s) ==
    /\ s \in live /\ stage[s] = "create" /\ request[s] = "stored"
    /\ Send(s, "photo")
    /\ session' = address[s]
    /\ UNCHANGED <<device, screen, hud, info, location, form, address, live, servers>>

\* Creating an account signs it in before the callback runs.
Created(s) ==
    /\ s \in live /\ stage[s] = "create" /\ request[s] = "stored"
    /\ Send(s, "profile")
    /\ session' = address[s]
    /\ UNCHANGED <<device, screen, hud, info, location, form, address, live, servers>>

\* Mutant: success is reported without waiting for the photo.
ProfileStored_Finishes(s) ==
    /\ s \in live /\ stage[s] = "profile" /\ request[s] = "stored"
    /\ Finish(s, "succeeded")
    /\ UNCHANGED <<device, session, screen, hud, info, location, form, address, live, servers>>

ProfileStored(s) ==
    /\ s \in live /\ stage[s] = "profile" /\ request[s] = "stored"
    /\ Send(s, "photo")
    /\ UNCHANGED <<device, session, screen, hud, info, location, form, address, live, servers>>

PhotoStored(s) ==
    /\ s \in live /\ stage[s] = "photo" /\ request[s] = "stored"
    /\ Finish(s, "succeeded")
    /\ UNCHANGED <<device, session, screen, hud, info, location, form, address, live, servers>>

\* Mutant: a refused call does not call the completion.
CallRefused_Silent(s) ==
    /\ s \in live /\ request[s] = "refused"
    /\ request' = [request EXCEPT ![s] = "none"]
    /\ UNCHANGED <<device, session, screen, hud, info, location, form, stage, address, live,
                   servers>>

CallRefused(s) ==
    /\ s \in live /\ request[s] = "refused"
    /\ Finish(s, "failed")
    /\ UNCHANGED <<device, session, screen, hud, info, location, form, address, live, servers>>

\* The block of a success also pops the screen it came from.
ShowSuccess(s) ==
    /\ s \in live /\ stage[s] = "succeeded"
    /\ hud' = FALSE
    /\ Finish(s, "success")
    /\ IF shown = form[s] THEN shown' = NoForm /\ typing' = NotTyping
                          ELSE UNCHANGED <<shown, typing>>
    /\ UNCHANGED <<device, session, opened, queued, info, location, form, address, live, servers>>

ShowError(s) ==
    /\ s \in live /\ stage[s] = "failed"
    /\ hud' = FALSE
    /\ Finish(s, "error")
    /\ UNCHANGED <<device, session, screen, info, location, form, address, live, servers>>

-----------------------------------------------------------------------------
(***************************************************************************)
(* The servers.  They serve a call whose process has ended as well.        *)
(***************************************************************************)
Register(s) ==
    /\ address[s] \in Emails \ accounts
    /\ accounts' = accounts \cup {address[s]}
    /\ creator' = [creator EXCEPT ![address[s]] = s]

AccountCreated(s) ==
    /\ stage[s] = "create" /\ request[s] = "sent"
    /\ Register(s)
    /\ request' = [request EXCEPT ![s] = "stored"]
    /\ UNCHANGED <<device, session, screen, hud, info, location, form, stage, address,
                   live, profiles, photos>>

DataStored(s) ==
    /\ stage[s] \in {"profile", "photo"} /\ request[s] = "sent"
    /\ profiles' = IF stage[s] = "profile" THEN profiles \cup {address[s]} ELSE profiles
    /\ photos' = IF stage[s] = "photo" THEN photos \cup {address[s]} ELSE photos
    /\ request' = [request EXCEPT ![s] = "stored"]
    /\ UNCHANGED <<device, session, screen, hud, info, location, form, stage, address,
                   live, accounts, creator>>

\* A refusal of the first and of the last call may be a lost answer.
Refused(s) ==
    /\ request[s] = "sent"
    /\ request' = [request EXCEPT ![s] = "refused"]
    /\ \/ UNCHANGED servers
       \/ stage[s] = "create" /\ Register(s) /\ UNCHANGED <<profiles, photos>>
       \/ /\ stage[s] = "photo" /\ photos' = photos \cup {address[s]}
          /\ UNCHANGED <<accounts, creator, profiles>>
    /\ UNCHANGED <<device, session, screen, hud, info, location, form, stage, address, live>>

-----------------------------------------------------------------------------
(***************************************************************************)
(* The process and the session.                                            *)
(***************************************************************************)
Kill ==
    /\ running /\ kills < MaxKills
    /\ running' = FALSE /\ kills' = kills + 1
    /\ shown' = NoForm /\ typing' = NotTyping /\ queued' = <<>> /\ hud' = FALSE
    /\ live' = {}
    /\ group' = [f \in Forms |-> 0] /\ asked' = group' /\ lost' = group'
    /\ UNCHANGED <<root, session, opened, info, form, stage, request, address, servers>>

Launch ==
    /\ ~running
    /\ running' = TRUE
    /\ root' = IF session = Nil THEN "SignIn" ELSE "LoggedIn"
    /\ UNCHANGED <<kills, session, screen, hud, info, location, submit, servers>>

Logout ==
    /\ running /\ root = "LoggedIn"
    /\ Queue("logout")
    /\ session' = Nil /\ root' = "SignIn"
    /\ UNCHANGED <<running, kills, shown, opened, typing, info, location, submit, servers>>

LogoutHidesHud ==
    /\ Runs("logout")
    /\ UNCHANGED <<device, session, shown, opened, typing, info, location, submit, servers>>

-----------------------------------------------------------------------------
Form ==
    \/ \E f \in Forms : OpenForm(f)
    \/ \E field \in {"email", "others"}, text \in Texts : EditField(field, text)
    \/ ReturnKey \/ Back \/ SelectImg
    \/ \E s \in Submits : Submit(s)

TapBlock == PresentPicker \/ LogoutHidesHud

Location(f) == LocationFound(f) \/ LocationFailed(f)

Step(s) ==
    \/ RunBlock(s) \/ Created(s) \/ ProfileStored(s) \/ PhotoStored(s) \/ CallRefused(s)
    \/ ShowSuccess(s) \/ ShowError(s)

Server(s) == AccountCreated(s) \/ DataStored(s) \/ Refused(s)

Process == Kill \/ Launch \/ Logout

Next ==
    \/ Form \/ TapBlock \/ Process
    \/ \E f \in Forms : Location(f)
    \/ \E s \in Submits : Step(s) \/ Server(s)

\* Location services and servers answer; the main queue runs its blocks.
Fairness ==
    /\ \A f \in Forms : WF_vars(Location(f))
    /\ \A s \in Submits : WF_vars(Step(s)) /\ WF_vars(Server(s))
    /\ WF_vars(TapBlock)

Spec == Init /\ [][Next]_vars /\ Fairness
-----------------------------------------------------------------------------
(***************************************************************************)
(* Properties.                                                             *)
(***************************************************************************)
Succeeded(s) == stage[s] \in {"succeeded", "success"}

\* "Successfully registered for new user" (SignUpViewController.swift:76) is shown
\* only for an account that exists with its profile and its photo, and only by
\* the submit that created it: a retry after a half-done sign-up cannot succeed.
SuccessMeansRegistered ==
    \A s \in Submits : Succeeded(s) =>
        /\ address[s] \in accounts \cap profiles \cap photos
        /\ creator[address[s]] = s

\* signUpDispatchGroup counts the requests under way and the answers that never
\* came (SignUpViewController.swift:107 leaves nothing): it is never left too
\* often, and while a submit waits it is not empty.
GroupBalanced ==
    \A f \in Forms : /\ group[f] = asked[f] + lost[f]
                     /\ Waiting(f) # {} => group[f] > 0

\* The HUD is shared: while it is up, something under way will hide it.
HudHasOwner ==
    hud => \/ queued # <<>>
           \/ \E s \in live : stage[s] \in Calls \cup {"succeeded", "failed"}

\* Between any two blocks every variable has its type, the DispatchGroup each screen
\* has of its own (SignUpViewController.swift:20) counts that screen's requests, and
\* the HUD, which the submits, the picker and the logout share, has an owner.
ScreenInv == TypeOK /\ GroupBalanced /\ HudHasOwner

\* After one location request that got no answer of its own (it failed, or shared
\* the answer of another) the screen is dead: no submit that waits then, or
\* starts later, gets as far as its block.
FailureSilencesForm ==
    [][\A s \in Submits :
         stage[s] = "waiting" /\ lost[form[s]] > 0 => stage'[s] = "waiting"]_vars

\* A submit is answered by a message, or finds a field unvisited, unless its
\* process ends or an answer to the screen's location requests was lost.
SubmitAnswered ==
    \A s \in Submits :
        s \in live ~> \/ s \notin live
                      \/ stage[s] \in {"success", "error", "incomplete"}
                      \/ lost[form[s]] > 0

\* What the servers hold and what was reported implements Registration.
Registration == INSTANCE Registration WITH
    owner     <- creator,
    announced <- {s \in Submits : stage[s] = "success"},
    failed    <- {s \in Submits : stage[s] = "error"},
    Nobody    <- Nil

\* However often submit is tapped, whatever is refused or loses its answer, and whenever
\* the process ends (FirebaseAPIHandler.swift:38-80): the servers get an account, its
\* profile and its photo from one submit and in that order, and nothing of a submit
\* that was reported.
ImplementsRegistration == Registration!RegSpec
=============================================================================
