------------------------------ MODULE Session ------------------------------
(***************************************************************************)
(* Signing in, being signed in when the app is launched, and logging out,  *)
(* with the subscription of the device to the topic of the account         *)
(* (SignInViewController, SettingViewController, AppDelegate), on top of   *)
(* the topics of the device as Topics.tla has them: the topic of an        *)
(* account is its user.                                                    *)
(*                                                                         *)
(* The main queue runs the handlers one at a time; what they dispatch to   *)
(* it waits in "blocks".  Left out: the screens that are pushed onto the   *)
(* two modelled here (the forgotten password changes nothing on the        *)
(* device), and the token of the push service itself.                      *)
(***************************************************************************)
EXTENDS Naturals, Sequences, FiniteSets

CONSTANTS
    Users,
    NoUser,
    MaxSignIns,         \* bound: taps on Sign In
    MaxEnds,            \* bound: accounts created, sessions ended from outside
    MaxFailures         \* bound: processes killed, topic requests that fail

ASSUME SessionAssumption ==
    NoUser \notin Users /\ MaxSignIns \in Nat /\ MaxEnds \in Nat /\ MaxFailures \in Nat

VARIABLES
    screen,             \* "SignIn" or "LoggedIn", the root of the window
    form,               \* number of the sign-in screen, a new one per logout
    account,            \* Auth.auth().currentUser, kept across launches
    hud,                \* SVProgressHUD is up
    attempts,           \* sign-ins that Firebase Auth has not answered
    taps,               \* taps on Sign In, ever
    blocks,             \* dispatched to the main queue, not yet run
    failedSignIn,       \* a sign-in failed since the HUD was last dismissed
    created,            \* accounts signed in by their creation
    launched,           \* the tab bar was put up by the launch
    ends,
    topicBatches, currentBatch, topicsInFlight, resumes, requests, answers,
    defaultFcmToken, archive, subscribed, asked, refused, failed, failures

screens     == <<screen, form, launched>>
signIn      == <<attempts, taps, failedSignIn>>
sessionVars == <<screens, account, hud, signIn, blocks, created, ends>>
topics      == <<topicBatches, currentBatch, topicsInFlight, resumes, requests, answers,
                 defaultFcmToken, archive, subscribed, asked, refused, failed, failures>>
vars        == <<sessionVars, topics>>

T == INSTANCE Topics WITH TopicNames <- Users, Actions <- {"subscribe"},
                          MaxOperations <- MaxSignIns

Init ==
    /\ screen = "SignIn" /\ form = 1 /\ launched = FALSE
    /\ account = NoUser /\ hud = FALSE
    /\ attempts = {} /\ taps = 0 /\ failedSignIn = FALSE
    /\ blocks = <<>> /\ created = {} /\ ends = 0
    /\ T!TopicsInit
-----------------------------------------------------------------------------
\* The button of the sign-in screen; the HUD does not keep it from being
\* tapped again.
TapSignIn ==
    /\ screen = "SignIn" /\ taps < MaxSignIns
    /\ taps' = taps + 1
    /\ blocks' = Append(blocks, [type |-> "signIn", tap |-> taps, form |-> form])
    /\ UNCHANGED <<screens, account, hud, attempts, failedSignIn, created, ends, topics>>

\* The block of a tap reads who is to be signed in from the form.
SignIn(user) ==
    /\ blocks # <<>> /\ Head(blocks).type = "signIn"
    /\ blocks' = Tail(blocks)
    /\ hud' = TRUE
    /\ attempts' = attempts \cup {[tap |-> Head(blocks).tap, user |-> user,
                                   form |-> Head(blocks).form]}
    /\ UNCHANGED <<screens, account, taps, failedSignIn, created, ends, topics>>

\* Firebase Auth signs the user in and calls the completion.
SignInSucceeds(a) ==
    /\ a \in attempts
    /\ attempts' = attempts \ {a}
    /\ account' = a.user
    /\ created' = created \ {a.user}
    /\ blocks' = Append(blocks, [type |-> "signedIn", user |-> a.user, form |-> a.form])
    /\ UNCHANGED <<screens, hud, taps, failedSignIn, ends, topics>>

\* A failure is told to nobody.
SignInFails(a) ==
    /\ a \in attempts
    /\ attempts' = attempts \ {a}
    /\ failedSignIn' = TRUE
    /\ UNCHANGED <<screens, account, hud, taps, blocks, created, ends, topics>>

\* Mutant: the screen goes on, and the topic is left for the next time.
SignedIn_NoTopic ==
    /\ blocks # <<>> /\ Head(blocks).type = "signedIn"
    /\ blocks' = Tail(blocks)
    /\ hud' = FALSE /\ failedSignIn' = FALSE
    /\ IF screen = "SignIn" /\ Head(blocks).form = form
         THEN screen' = "LoggedIn" /\ launched' = FALSE ELSE UNCHANGED <<screen, launched>>
    /\ UNCHANGED <<form, account, attempts, taps, created, ends, topics>>

\* The completion of a sign-in.  A screen that is not there any more cannot
\* present the tab bar.
SignedIn ==
    /\ blocks # <<>> /\ Head(blocks).type = "signedIn"
    /\ blocks' = Tail(blocks)
    /\ hud' = FALSE /\ failedSignIn' = FALSE
    /\ T!AddOperationForTopic(Head(blocks).user, "subscribe")
    /\ IF screen = "SignIn" /\ Head(blocks).form = form
         THEN screen' = "LoggedIn" /\ launched' = FALSE ELSE UNCHANGED <<screen, launched>>
    /\ UNCHANGED <<form, account, attempts, taps, created, ends>>

\* The log-out button, and the block it dispatches.
LogOut ==
    /\ screen = "LoggedIn"
    /\ account' = NoUser
    /\ screen' = "SignIn" /\ form' = form + 1
    /\ hud' = TRUE
    /\ blocks' = Append(blocks, [type |-> "loggedOut"])
    /\ UNCHANGED <<launched, signIn, created, ends, topics>>

\* Mutant: the HUD is not dismissed.
LoggedOut_KeepsHud ==
    /\ blocks # <<>> /\ Head(blocks).type = "loggedOut"
    /\ blocks' = Tail(blocks)
    /\ UNCHANGED <<screens, account, hud, signIn, created, ends, topics>>

LoggedOut ==
    /\ blocks # <<>> /\ Head(blocks).type = "loggedOut"
    /\ blocks' = Tail(blocks)
    /\ hud' = FALSE /\ failedSignIn' = FALSE
    /\ UNCHANGED <<screens, account, attempts, taps, created, ends, topics>>

\* The sign-up screen, over the sign-in screen: an account that is created
\* is signed in, and nothing else happens here (SignUp.tla).
AccountCreated(user) ==
    /\ screen = "SignIn" /\ ends < MaxEnds /\ ends' = ends + 1
    /\ account' = user
    /\ created' = created \cup {user}
    /\ UNCHANGED <<screens, hud, signIn, blocks, topics>>

\* Firebase Auth: a session whose token is refused for good is over.
SessionEnds ==
    /\ account # NoUser /\ ends < MaxEnds /\ ends' = ends + 1
    /\ account' = NoUser
    /\ UNCHANGED <<screens, hud, signIn, blocks, created, topics>>

\* The process ends and the app is launched again: whoever is signed in is
\* not asked to sign in.
Relaunch ==
    /\ screen' = IF account # NoUser THEN "LoggedIn" ELSE "SignIn"
    /\ launched' = (account # NoUser)
    /\ form' = form + 1
    /\ hud' = FALSE /\ failedSignIn' = FALSE
    /\ attempts' = {} /\ blocks' = <<>>
    /\ UNCHANGED <<account, taps, created, ends>>
    /\ T!RestartList

\* Reset Password unwraps the account: without one the process ends.
ResetPassword == screen = "LoggedIn" /\ account = NoUser /\ Relaunch

Next ==
    \/ TapSignIn \/ \E u \in Users : SignIn(u) \/ AccountCreated(u)
    \/ \E a \in attempts : SignInSucceeds(a) \/ SignInFails(a)
    \/ SignedIn \/ LogOut \/ LoggedOut
    \/ SessionEnds \/ Relaunch \/ ResetPassword
    \/ /\ T!ListStep \/ T!ServerResponds \/ T!TokenArrives \/ T!NetworkStatusChanged
       /\ UNCHANGED sessionVars

\* The main queue runs its blocks, Firebase Auth answers, and the topics are
\* as fair as Topics.tla has them.
Fairness ==
    /\ WF_vars(SignedIn) /\ WF_vars(LoggedOut) /\ WF_vars(\E u \in Users : SignIn(u))
    /\ WF_vars(\E a \in attempts : SignInSucceeds(a) \/ SignInFails(a))
    /\ WF_vars(T!DispatchedResume /\ UNCHANGED sessionVars)
    /\ WF_vars((\E a \in answers : T!Completed(a)) /\ UNCHANGED sessionVars)
    /\ WF_vars(T!ServerResponds /\ UNCHANGED sessionVars)

Spec == Init /\ [][Next]_vars /\ Fairness
-----------------------------------------------------------------------------
TypeOK ==
    /\ screen \in {"SignIn", "LoggedIn"} /\ form \in Nat
    /\ account \in Users \cup {NoUser}
    /\ {hud, failedSignIn, launched} \subseteq BOOLEAN
    /\ attempts \subseteq [tap : 0 .. MaxSignIns - 1, user : Users, form : 1 .. form]
    /\ taps \in 0 .. MaxSignIns
    /\ blocks \in Seq([type : {"signIn"}, tap : 0 .. MaxSignIns - 1, form : 1 .. form]
                      \cup [type : {"signedIn"}, user : Users, form : 1 .. form]
                      \cup [type : {"loggedOut"}])
    /\ created \subseteq Users /\ ends \in 0 .. MaxEnds
    /\ T!TopicsTypeOK

(* A user who got to the tab bar by signing in has the topic of the        *)
(* account asked for, or the block that does so is about to run, whichever *)
(* of several sign-ins is answered first (SignInViewController:47-52).     *)
(* Two ways lead there without: a launch that finds an account             *)
(* (AppDelegate:39) of which sign-up or a process that ended too early     *)
(* left no topic, and an account created while a sign-in was under way.    *)
LoggedInHasTopic ==
    /\ TypeOK
    /\ screen = "LoggedIn" /\ account # NoUser /\ ~launched /\ account \notin created =>
          \/ \E i \in DOMAIN asked : asked[i].topic = account
          \/ \E i \in DOMAIN blocks : blocks[i].type = "signedIn" /\ blocks[i].user = account

(* The topic of an account that signed in is not forgotten, whatever       *)
(* requests fail and processes end: it is subscribed to, refused, or in    *)
(* the archive for the next launch.                                        *)
NothingForgotten == T!NothingForgotten

(* The HUD of a sign-in or a log-out is dismissed, unless a sign-in failed *)
(* under it: then nobody dismisses it (FirebaseAPIHandler.signIn:110).     *)
HudDismissed == hud ~> ~hud \/ failedSignIn

(* A topic that is asked for is worked on, unless the list waits for a     *)
(* token or, after a network error, for a change of the network; logging   *)
(* out and in does not disturb it.                                         *)
PendingProgresses == T!PendingProgresses
=============================================================================
