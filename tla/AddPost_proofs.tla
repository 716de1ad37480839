--------------------------- MODULE AddPost_proofs ---------------------------
(***************************************************************************)
(* Proofs about AddPost, for any sets of attempts and accounts and any     *)
(* bounds: the inductive invariant, the safety properties that follow from *)
(* it, and the implementation of Publication.                              *)
(***************************************************************************)
EXTENDS AddPost, TLAPS

\* That a group is never left too often needs AttemptInv, so the two are proved
\* together.  AttemptOK(p) is what AttemptInv says of one attempt.
IInv == TypeOK /\ AttemptInv

AttemptOK(p) == /\ RecordFirst(p) /\ StoresAgree(p) /\ GroupAgrees(p)
                /\ ReportsAgree(p) /\ AccountsAgree(p)

-----------------------------------------------------------------------------
\* The initial states satisfy the inductive invariant.
LEMMA InitIInv == Init => IInv
  <1> SUFFICES ASSUME Init PROVE IInv
    OBVIOUS
  <1>1. FlagsOK
    BY DEF Init, FlagsOK
  <1>2. DeviceOK /\ AttemptsOK /\ StoresOK
    BY DEF Init, DeviceOK, AttemptsOK, StoresOK, Parts, Causes, WriteStates, OutcomeStates
  <1>3. ASSUME NEW p \in Posts PROVE AttemptOK(p)
    <2>1. RecordFirst(p) /\ StoresAgree(p) /\ GroupAgrees(p)
      BY NoUserAssumption DEF Init, RecordFirst, StoresAgree, GroupAgrees, Parts
    <2>2. ReportsAgree(p) /\ AccountsAgree(p)
      BY NoUserAssumption DEF Init, ReportsAgree, AccountsAgree, Parts, Causes
    <2> QED BY <2>1, <2>2 DEF AttemptOK
  <1> QED BY <1>1, <1>2, <1>3 DEF IInv, TypeOK, AttemptInv, AttemptOK

-----------------------------------------------------------------------------
\* The flags are set to truth values or kept by every step.
LEMMA FlagsStep == FlagsOK /\ Next => FlagsOK'
  <1> SUFFICES ASSUME FlagsOK, Next PROVE FlagsOK'
    OBVIOUS
  <1> USE DEF FlagsOK, device, screen
  <1>1. CASE Form
    BY <1>1 DEF Form, AddPostBarBtn, CancelBarButton, Unwind, ImgSelectBtn, PresentPicker,
                ClosePicker, DismissHud
  <1>2. CASE Session
    BY <1>2 DEF Session, Logout, LogoutHidesHud, SessionInvalidated, Kill, Launch, SignIn,
                SignInSucceeds, SignInFails, SignedIn, ProcessEnds, DismissHud
  <1>3. ASSUME NEW p \in Posts, PostBarButton(p) PROVE FlagsOK'
    BY <1>3 DEF PostBarButton
  <1>4. ASSUME NEW p \in Posts, Callback(p) PROVE FlagsOK'
    BY <1>4 DEF Callback, RecordRefused, RecordStored, RecordStoredSignedOut, PartRefused,
                PartStored, RunNotify, ProcessEnds
  <1>5. ASSUME NEW p \in Posts, Message(p) PROVE FlagsOK'
    BY <1>5 DEF Message, HideHud, ShowError, ShowSuccess, DismissHud
  <1>6. ASSUME NEW p \in Posts, Server(p) PROVE FlagsOK'
    BY <1>6 DEF Server, ServerStores, ServerRefuses
  <1> QED BY <1>1, <1>2, <1>3, <1>4, <1>5, <1>6 DEF Next

\* A queue of blocks stays one when a block joins its end or leaves its head.
LEMMA QueueTyped ==
    ASSUME NEW type \in {"picker", "cancel", "logout"}, NEW f \in Nat,
           queued \in Seq(Blocks), Queue(type, f)
    PROVE  queued' \in Seq(Blocks)
  BY DEF Queue, Blocks

LEMMA RunsTyped ==
    ASSUME NEW type, queued \in Seq(Blocks), Runs(type)
    PROVE  queued' \in Seq(Blocks)
  BY DEF Runs

\* Screens alone touch no attempt.
LEMMA FormStep == IInv /\ Form => (DeviceOK /\ AttemptsOK /\ StoresOK /\ AttemptInv)'
  <1> SUFFICES ASSUME IInv, Form
               PROVE  (DeviceOK /\ AttemptsOK /\ StoresOK /\ AttemptInv)'
    OBVIOUS
  <1> USE DEF IInv, TypeOK
  <1>1. UNCHANGED <<attempt, servers, device>>
    BY DEF Form, AddPostBarBtn, CancelBarButton, Unwind, ImgSelectBtn, PresentPicker, ClosePicker
  <1>2. ASSUME NEW p \in Posts PROVE AttemptOK(p)'
    BY <1>1 DEF AttemptInv, AttemptOK, RecordFirst, StoresAgree, GroupAgrees, InGroup,
                ReportsAgree, AccountsAgree, attempt, servers, device
  <1>3. DeviceOK'
    <2>1. form' \in Nat /\ forms' \in Nat
      BY DEF DeviceOK, Form, AddPostBarBtn, CancelBarButton, Unwind, ImgSelectBtn,
             PresentPicker, ClosePicker
    <2>2. queued' \in Seq(Blocks)
      <3>1. CASE AddPostBarBtn \/ ClosePicker
        BY <3>1 DEF AddPostBarBtn, ClosePicker, DeviceOK
      <3>2. CASE CancelBarButton \/ ImgSelectBtn
        BY <3>2, QueueTyped DEF CancelBarButton, ImgSelectBtn, DeviceOK
      <3>3. CASE Unwind \/ PresentPicker
        BY <3>3, RunsTyped DEF Unwind, PresentPicker, DeviceOK
      <3> QED BY <3>1, <3>2, <3>3 DEF Form
    <2>3. signIn' \in {"none", "sent", "succeeded", "failed"}
      BY DEF DeviceOK, Form, AddPostBarBtn, CancelBarButton, Unwind, ImgSelectBtn,
             PresentPicker, ClosePicker, DismissHud
    <2> QED BY <1>1, <2>1, <2>2, <2>3 DEF DeviceOK, device
  <1>4. AttemptsOK' /\ StoresOK'
    BY <1>1 DEF AttemptsOK, StoresOK, attempt, servers
  <1> QED BY <1>2, <1>3, <1>4 DEF AttemptInv, AttemptOK

\* A change of the session raises the count of changes, and the end of a process
\* only takes attempts out of live.
LEMMA SessionStep == IInv /\ Session => (DeviceOK /\ AttemptsOK /\ StoresOK /\ AttemptInv)'
  <1> SUFFICES ASSUME IInv, Session
               PROVE  (DeviceOK /\ AttemptsOK /\ StoresOK /\ AttemptInv)'
    OBVIOUS
  <1> USE DEF IInv, TypeOK
  <1>1. /\ UNCHANGED <<author, since, from, write, group, notify, target, outcome, servers>>
        /\ live' \subseteq live
        /\ \/ session' = session /\ changes' = changes
           \/ changes' = changes + 1
    BY DEF Session, Logout, LogoutHidesHud, SessionInvalidated, Kill, Launch, SignIn,
           SignInSucceeds, SignInFails, SignedIn, ProcessEnds, attempt, servers, device
  <1>2. ASSUME NEW p \in Posts PROVE AttemptOK(p)'
    <2>1. (RecordFirst(p) /\ StoresAgree(p) /\ GroupAgrees(p) /\ ReportsAgree(p))'
      BY <1>1 DEF AttemptInv, RecordFirst, StoresAgree, GroupAgrees, ReportsAgree,
                  InGroup, servers
    <2>2. AccountsAgree(p)'
      BY <1>1 DEF DeviceOK, AttemptsOK, AttemptInv, AccountsAgree
    <2> QED BY <2>1, <2>2 DEF AttemptOK
  <1>3. DeviceOK'
    <2>1. queued' \in Seq(Blocks)
      <3>1. CASE Logout
        BY <3>1, QueueTyped DEF Logout, DeviceOK
      <3>2. CASE LogoutHidesHud
        BY <3>2, RunsTyped DEF LogoutHidesHud, DeviceOK
      <3>3. CASE Kill
        BY <3>3 DEF Kill, ProcessEnds
      <3>4. CASE SessionInvalidated \/ Launch \/ SignIn \/ SignInFails \/ SignedIn
                 \/ \E u \in Users : SignInSucceeds(u)
        BY <3>4 DEF DeviceOK, SessionInvalidated, Launch, SignIn, SignInSucceeds,
                    SignInFails, SignedIn, screen
      <3> QED BY <3>1, <3>2, <3>3, <3>4 DEF Session
    <2> USE DEF DeviceOK, Session, Logout, LogoutHidesHud, SessionInvalidated, Kill, Launch,
                SignIn, SignInSucceeds, SignInFails, SignedIn, ProcessEnds, DismissHud,
                device, screen
    <2>2. kills' \in Nat /\ changes' \in Nat /\ form' \in Nat /\ forms' \in Nat
      OBVIOUS
    <2>3. session' \in Users \cup {NoUser} /\ root' \in {"SignIn", "LoggedIn"}
      OBVIOUS
    <2>4. signIn' \in {"none", "sent", "succeeded", "failed"}
      OBVIOUS
    <2> QED BY <2>1, <2>2, <2>3, <2>4
  <1>4. AttemptsOK' /\ StoresOK'
    BY <1>1 DEF AttemptsOK, StoresOK, servers
  <1> QED BY <1>2, <1>3, <1>4 DEF AttemptInv, AttemptOK

\* A tap starts an attempt whose key no write, group or report has used.
LEMMA PostStep ==
    ASSUME IInv, NEW p \in Posts, PostBarButton(p)
    PROVE  (DeviceOK /\ AttemptsOK /\ StoresOK /\ AttemptInv)'
  <1> USE DEF IInv, TypeOK
  <1>1. (DeviceOK /\ AttemptsOK /\ StoresOK)'
    BY DEF DeviceOK, AttemptsOK, StoresOK, PostBarButton, device, servers, Parts, WriteStates
  <1>2. ASSUME NEW q \in Posts PROVE AttemptOK(q)'
    BY NoUserAssumption
    DEF DeviceOK, AttemptsOK, AttemptInv, AttemptOK, PostBarButton, RecordFirst, StoresAgree,
        GroupAgrees, ReportsAgree, AccountsAgree, InGroup, device, servers, Parts, Causes,
        WriteStates
  <1> QED BY <1>1, <1>2 DEF AttemptInv, AttemptOK

\* A callback moves one write on, and enters, leaves or notifies its group with it.
LEMMA CallbackStep ==
    ASSUME IInv, NEW p \in Posts, Callback(p)
    PROVE  (DeviceOK /\ AttemptsOK /\ StoresOK /\ AttemptInv)'
  <1> USE DEF IInv, TypeOK
  <1> DEFINE Kept == (DeviceOK /\ AttemptsOK /\ StoresOK /\ \A q \in Posts : AttemptOK(q))'
  <1> USE DEF DeviceOK, AttemptsOK, StoresOK, AttemptInv, AttemptOK, RecordFirst, StoresAgree,
              GroupAgrees, ReportsAgree, AccountsAgree, InGroup, Parts, Causes, WriteStates,
              OutcomeStates, device, screen, servers
  <1>1. CASE RecordRefused(p)
    BY <1>1 DEF RecordRefused, Complete
  <1>2. CASE RecordStored(p)
    BY <1>2, NoUserAssumption DEF RecordStored
  <1>3. CASE RecordStoredSignedOut(p)
    BY <1>3, NoUserAssumption DEF RecordStoredSignedOut, ProcessEnds
  <1>4. ASSUME NEW k \in {"image", "listing"}, PartRefused(p, k) PROVE Kept
    BY <1>4 DEF PartRefused, Complete
  <1>5. ASSUME NEW k \in {"image", "listing"}, PartStored(p, k) PROVE Kept
    BY <1>5 DEF PartStored
  <1>6. CASE RunNotify(p)
    BY <1>6 DEF RunNotify, Complete
  <1> QED BY <1>1, <1>2, <1>3, <1>4, <1>5, <1>6 DEF Callback

\* A message moves one report on; a report keeps the cause it was made for.
LEMMA MessageStep ==
    ASSUME IInv, NEW p \in Posts, Message(p)
    PROVE  (DeviceOK /\ AttemptsOK /\ StoresOK /\ AttemptInv)'
  <1> USE DEF IInv, TypeOK
  <1>1. /\ UNCHANGED <<device, author, since, from, live, write, group, notify, target, servers>>
        /\ outcome' \in [Posts -> [Causes -> OutcomeStates]]
        /\ \A q \in Posts : \A c \in Causes : outcome'[q][c] # "none" => outcome[q][c] # "none"
    <2> DEFINE Moves == \E c \in Causes : \E s \in {"hudHidden", "shown"} :
                  outcome[p][c] # "none" /\ outcome' = [outcome EXCEPT ![p][c] = s]
    <2>1. Moves
      BY DEF Message, HideHud, ShowError, ShowSuccess, Causes
    <2>2. UNCHANGED <<device, author, since, from, live, write, group, notify, target, servers>>
      BY DEF Message, HideHud, ShowError, ShowSuccess
    <2>3. /\ outcome' \in [Posts -> [Causes -> OutcomeStates]]
          /\ \A q \in Posts : \A c \in Causes : outcome'[q][c] # "none" => outcome[q][c] # "none"
      BY <2>1 DEF AttemptsOK, OutcomeStates
    <2> QED BY <2>2, <2>3
  <1>2. /\ form' \in Nat /\ forms' \in Nat
        /\ queued' \in Seq(Blocks)
        /\ signIn' \in {"none", "sent", "succeeded", "failed"}
    BY DEF DeviceOK, Message, HideHud, ShowError, ShowSuccess, DismissHud, screen
  <1>3. ASSUME NEW q \in Posts PROVE AttemptOK(q)'
    BY <1>1 DEF AttemptInv, AttemptOK, RecordFirst, StoresAgree, GroupAgrees, InGroup,
                ReportsAgree, AccountsAgree, Parts, Causes, device, servers
  <1> QED BY <1>1, <1>2, <1>3 DEF DeviceOK, AttemptsOK, StoresOK, AttemptInv, AttemptOK,
                                  device, servers

\* A server only decides a write that is out, and stores what it accepts.
LEMMA ServerStep ==
    ASSUME IInv, NEW p \in Posts, Server(p)
    PROVE  (DeviceOK /\ AttemptsOK /\ StoresOK /\ AttemptInv)'
  <1> USE DEF IInv, TypeOK
  <1> PICK k \in Parts : ServerStores(p, k) \/ ServerRefuses(p, k)
    BY DEF Server
  <1> USE DEF DeviceOK, AttemptsOK, StoresOK, AttemptInv, AttemptOK, RecordFirst, StoresAgree,
              GroupAgrees, ReportsAgree, AccountsAgree, InGroup, Parts, Causes, WriteStates,
              device, screen, servers
  <1>1. CASE ServerStores(p, k)
    BY <1>1, NoUserAssumption DEF ServerStores, StoreWrite
  <1>2. CASE ServerRefuses(p, k)
    BY <1>2 DEF ServerRefuses, StoreWrite
  <1> QED BY <1>1, <1>2

-----------------------------------------------------------------------------
\* Every step keeps the inductive invariant.
LEMMA NextIInv == IInv /\ [Next]_vars => IInv'
  <1> SUFFICES ASSUME IInv, [Next]_vars PROVE IInv'
    OBVIOUS
  <1>1. CASE Next
    <2>1. FlagsOK'
      BY <1>1, FlagsStep DEF IInv, TypeOK
    <2>2. (DeviceOK /\ AttemptsOK /\ StoresOK /\ AttemptInv)'
      BY <1>1, FormStep, SessionStep, PostStep, CallbackStep, MessageStep, ServerStep DEF Next
    <2> QED BY <2>1, <2>2 DEF IInv, TypeOK
  <1>2. CASE UNCHANGED vars
    BY <1>2 DEF vars, device, screen, attempt, servers, IInv, TypeOK, FlagsOK, DeviceOK,
                AttemptsOK, StoresOK, AttemptInv, RecordFirst, StoresAgree, GroupAgrees,
                InGroup, ReportsAgree, AccountsAgree
  <1> QED BY <1>1, <1>2

\* The inductive invariant holds throughout.
THEOREM Invariance == Spec => []IInv
  BY InitIInv, NextIInv, PTL DEF Spec

\* Every variable keeps its type; no DispatchGroup of a post is left more often
\* than it was entered (FirebaseAPIHandler.swift:460-479).
THEOREM TypeCorrect == Spec => []TypeOK
  <1>1. IInv => TypeOK
    BY DEF IInv
  <1> QED BY <1>1, Invariance, PTL

\* "Successfully posted" is shown only for a post whose record, image and list
\* entry are all stored, however many attempts and accounts overlap.
THEOREM PublishedIsStored == Spec => []SuccessMeansStored
  <1>1. IInv => SuccessMeansStored
    BY DEF IInv, TypeOK, AttemptsOK, AttemptInv, StoresAgree, GroupAgrees, ReportsAgree,
           RecordFirst, InGroup, SuccessMeansStored, Published, Parts, WriteStates
  <1> QED BY <1>1, Invariance, PTL

\* No attempt ever reports both success and an error, although four places of
\* addNewPost call the same completion.
THEOREM OneOutcome == Spec => []OutcomeExclusive
  <1>1. IInv => OutcomeExclusive
    <2> SUFFICES ASSUME IInv, NEW p \in Posts
                 PROVE  /\ Published(p) => \A k \in Parts : outcome[p][k] = "none"
                        /\ outcome[p]["record"] # "none" =>
                              \A k \in Parts \ {"record"} : outcome[p][k] = "none"
      BY DEF OutcomeExclusive, ErrorCauses, Parts
    <2> USE DEF IInv, AttemptInv, ReportsAgree, RecordFirst, Parts
    <2>1. ASSUME Published(p), NEW k \in Parts PROVE outcome[p][k] = "none"
      BY <2>1 DEF Published, GroupAgrees, InGroup
    <2>2. ASSUME outcome[p]["record"] # "none", NEW k \in Parts \ {"record"}
          PROVE  outcome[p][k] = "none"
      BY <2>2
    <2> QED BY <2>1, <2>2
  <1> QED BY <1>1, Invariance, PTL

\* Neither store ever holds a part of a post without record, whichever writes
\* fail and whenever the process ends.
THEOREM PartsHaveRecords == Spec => []NoDanglingPart
  <1>1. IInv => NoDanglingPart
    BY DEF IInv, TypeOK, StoresOK, AttemptInv, StoresAgree, NoDanglingPart
  <1> QED BY <1>1, Invariance, PTL

\* A post is listed by another account than its author's only if the session
\* changed after the tap.
THEOREM ListedByItsAuthor == Spec => []ListedByAuthor
  <1>1. IInv => ListedByAuthor
    BY DEF IInv, TypeOK, StoresOK, AttemptInv, StoresAgree, AccountsAgree, ListedByAuthor
  <1> QED BY <1>1, Invariance, PTL
-----------------------------------------------------------------------------
\* No report of p has hidden the HUD yet.
Owes(p) == \A c \in Causes : outcome[p][c] \in {"none", "called"}

HidingBlock == \E i \in DOMAIN queued : queued[i].type # "cancel"

HudOwned == signIn # "none" \/ HidingBlock \/ \E p \in live : Owes(p)

\* A block that will hide the HUD is still queued after another joined it, or
\* after the block of a cancel left it.
LEMMA HidingBlockKept ==
    ASSUME queued \in Seq(Blocks), HidingBlock,
           Runs("cancel") \/ \E type, f : Queue(type, f)
    PROVE  HidingBlock'
  <1> PICK i \in DOMAIN queued : queued[i].type # "cancel"
    BY DEF HidingBlock
  <1>1. CASE Runs("cancel")
    <2>1. i # 1 /\ i - 1 \in DOMAIN queued' /\ queued'[i - 1] = queued[i]
      BY <1>1 DEF Runs
    <2> QED BY <2>1 DEF HidingBlock
  <1>2. ASSUME NEW type, NEW f, Queue(type, f) PROVE HidingBlock'
    <2>1. i \in DOMAIN queued' /\ queued'[i] = queued[i]
      BY <1>2 DEF Queue
    <2> QED BY <2>1 DEF HidingBlock
  <1> QED BY <1>1, <1>2

\* A tap on the picker or on logout queues a block that will hide the HUD.
LEMMA HidingBlockQueued ==
    ASSUME queued \in Seq(Blocks), NEW type, NEW f, type # "cancel", Queue(type, f)
    PROVE  HidingBlock'
  <1>1. /\ Len(queued) + 1 \in DOMAIN queued'
        /\ queued'[Len(queued) + 1].type = type
    BY DEF Queue
  <1> QED BY <1>1 DEF HidingBlock

\* A step keeps the HUD owned: a tap that shows it queues a block or starts an
\* attempt without reports, and what makes an attempt stop owing hides it.
LEMMA HudStep == IInv /\ HudHasOwner /\ [Next]_vars => HudHasOwner'
  <1> SUFFICES ASSUME IInv, hud => HudOwned, [Next]_vars PROVE (hud => HudOwned)'
    BY DEF HudHasOwner, HudOwned, HidingBlock, Owes
  <1>0. queued \in Seq(Blocks)
    BY DEF IInv, TypeOK, DeviceOK
  <1> USE DEF device, screen, attempt, servers
  <1>1. ASSUME UNCHANGED <<hud, queued, signIn, live, outcome>> PROVE (hud => HudOwned)'
    BY <1>1 DEF HudOwned, HidingBlock, Owes
  <1>2. CASE Form
    <2>1. CASE ImgSelectBtn
      BY <2>1, <1>0, HidingBlockQueued DEF ImgSelectBtn, HudOwned
    <2>2. CASE PresentPicker
      BY <2>2 DEF PresentPicker, DismissHud
    <2>3. CASE AddPostBarBtn \/ ClosePicker
      BY <2>3, <1>1 DEF AddPostBarBtn, ClosePicker
    <2>4. CASE CancelBarButton \/ Unwind
      <3>1. UNCHANGED <<hud, signIn, live, outcome>>
        BY <2>4 DEF CancelBarButton, Unwind
      <3>2. HidingBlock => HidingBlock'
        BY <2>4, <1>0, HidingBlockKept DEF CancelBarButton, Unwind
      <3> QED BY <3>1, <3>2 DEF HudOwned, Owes
    <2> QED BY <1>2, <2>1, <2>2, <2>3, <2>4 DEF Form
  <1>3. CASE Session
    <2>1. CASE Logout
      BY <2>1, <1>0, HidingBlockQueued DEF Logout, HudOwned
    <2>2. CASE LogoutHidesHud \/ SignedIn \/ Kill
      BY <2>2 DEF LogoutHidesHud, SignedIn, Kill, ProcessEnds, DismissHud
    <2>3. CASE SessionInvalidated \/ Launch
      BY <2>3, <1>1 DEF SessionInvalidated, Launch
    <2>4. CASE SignIn \/ SignInFails \/ \E u \in Users : SignInSucceeds(u)
      BY <2>4 DEF SignIn, SignInFails, SignInSucceeds, HudOwned
    <2> QED BY <1>3, <2>1, <2>2, <2>3, <2>4 DEF Session
  <1>4. ASSUME NEW p \in Posts, PostBarButton(p) PROVE (hud => HudOwned)'
    <2>1. p \in live' /\ outcome' = outcome
      BY <1>4 DEF PostBarButton
    <2>2. Owes(p)
      BY <1>4 DEF PostBarButton, IInv, AttemptInv, RecordFirst, ReportsAgree, Owes, Causes, Parts
    <2> QED BY <2>1, <2>2 DEF HudOwned, Owes
  <1>5. ASSUME NEW p \in Posts, NEW c \in Causes, Complete(p, c), UNCHANGED <<hud, queued, signIn, live>>
        PROVE  (hud => HudOwned)'
    BY <1>5 DEF Complete, HudOwned, HidingBlock, Owes, IInv, TypeOK, AttemptsOK, Causes
  <1>6. ASSUME NEW p \in Posts, Callback(p) PROVE (hud => HudOwned)'
    <2>1. CASE RecordStored(p) \/ \E k \in {"image", "listing"} : PartStored(p, k)
      BY <2>1, <1>1 DEF RecordStored, PartStored
    <2>2. CASE RecordStoredSignedOut(p)
      BY <2>2 DEF RecordStoredSignedOut, ProcessEnds
    <2>3. CASE RecordRefused(p) \/ RunNotify(p) \/ \E k \in {"image", "listing"} : PartRefused(p, k)
      BY <2>3, <1>5 DEF RecordRefused, RunNotify, PartRefused, Causes
    <2> QED BY <1>6, <2>1, <2>2, <2>3 DEF Callback
  <1>7. ASSUME NEW p \in Posts, Message(p) PROVE (hud => HudOwned)'
    <2>1. ASSUME NEW c \in Causes, HideHud(p, c) PROVE (hud => HudOwned)'
      BY <2>1 DEF HideHud, DismissHud
    \* A report shown now had hidden the HUD before: p was not its owner.
    <2>2. ASSUME NEW c \in Causes, outcome[p][c] = "hudHidden",
                 outcome' = [outcome EXCEPT ![p][c] = "shown"], UNCHANGED <<hud, queued, signIn, live>>
          PROVE  (hud => HudOwned)'
      BY <2>2 DEF HudOwned, HidingBlock, Owes, IInv, TypeOK, AttemptsOK
    <2> QED BY <1>7, <2>1, <2>2 DEF Message, ShowError, ShowSuccess, Causes
  <1>8. ASSUME NEW p \in Posts, Server(p) PROVE (hud => HudOwned)'
    BY <1>8, <1>1 DEF Server, ServerStores, ServerRefuses
  <1>9. CASE UNCHANGED vars
    BY <1>9, <1>1 DEF vars
  <1> QED BY <1>2, <1>3, <1>4, <1>6, <1>7, <1>8, <1>9 DEF Next

\* The HUD, shared by every operation of the process, is never left up with
\* nothing under way that will hide it.
THEOREM HudIsOwned == Spec => []HudHasOwner
  <1>1. Init => HudHasOwner
    BY DEF Init, HudHasOwner
  <1> QED BY <1>1, Invariance, HudStep, PTL DEF Spec

-----------------------------------------------------------------------------
\* A step of an attempt is a step of Publication, or invisible to it.
LEMMA PublicationStep == IInv /\ [Next]_vars => [Publication!PubNext]_(Publication!pubVars)
  <1> SUFFICES ASSUME IInv, [Next]_vars
               PROVE  Publication!PubNext \/ UNCHANGED Publication!pubVars
    OBVIOUS
  <1> USE DEF Publication!pubVars, Published, ErrorCauses
  <1>1. ASSUME UNCHANGED <<outcome, servers>> PROVE UNCHANGED Publication!pubVars
    BY <1>1 DEF servers
  <1>2. CASE Form \/ Session
    BY <1>1, <1>2 DEF Form, AddPostBarBtn, CancelBarButton, Unwind, ImgSelectBtn,
                      PresentPicker, ClosePicker, Session, Logout, LogoutHidesHud,
                      SessionInvalidated, Kill, Launch, SignIn, SignInSucceeds, SignInFails,
                      SignedIn, attempt
  <1>3. ASSUME NEW p \in Posts, PostBarButton(p) PROVE UNCHANGED Publication!pubVars
    BY <1>1, <1>3 DEF PostBarButton
  <1>4. ASSUME NEW p \in Posts, Message(p) PROVE UNCHANGED Publication!pubVars
    <2>1. UNCHANGED servers /\ \E c \in Causes : \E s \in {"hudHidden", "shown"} :
              outcome[p][c] # "none" /\ outcome' = [outcome EXCEPT ![p][c] = s]
      BY <1>4 DEF Message, HideHud, ShowError, ShowSuccess, Causes
    <2>2. \A q \in Posts : \A c \in Causes : outcome'[q][c] = "none" <=> outcome[q][c] = "none"
      BY <2>1 DEF IInv, TypeOK, AttemptsOK
    <2>3. \A q \in Posts : (Published(q))' = Published(q) /\ (ErrorCauses(q))' = ErrorCauses(q)
      BY <2>2 DEF Causes, Parts
    <2> QED BY <2>1, <2>3 DEF servers
  \* What the completion is called with decides which report it is.
  <1>5. ASSUME NEW p \in Posts, NEW c \in Parts, Complete(p, c), UNCHANGED servers, ~Published(p)
        PROVE  Publication!ReportFailure(p)
    <2>1. \A q \in Posts : (Published(q))' = Published(q)
      BY <1>5 DEF Complete, IInv, TypeOK, AttemptsOK, Causes, Parts
    <2>2. \A q \in Posts : (ErrorCauses(q) # {})' <=> (ErrorCauses(q) # {} \/ q = p)
      BY <1>5 DEF Complete, IInv, TypeOK, AttemptsOK, Causes, Parts
    <2> QED BY <1>5, <2>1, <2>2 DEF Publication!ReportFailure, servers
  <1>6. ASSUME NEW p \in Posts, RunNotify(p) PROVE Publication!Announce(p)
    <2>1. \A q \in Posts : (Published(q))' = (Published(q) \/ q = p)
      BY <1>6 DEF RunNotify, Complete, IInv, TypeOK, AttemptsOK, Causes
    <2>2. \A q \in Posts : (ErrorCauses(q))' = ErrorCauses(q)
      BY <1>6 DEF RunNotify, Complete, IInv, TypeOK, AttemptsOK, Causes, Parts
    <2>3. write[p]["record"] = "acked" /\ write[p]["image"] = "acked" /\ write[p]["listing"] = "acked"
      BY <1>6 DEF RunNotify, IInv, TypeOK, AttemptsOK, AttemptInv, GroupAgrees, RecordFirst,
                  InGroup, Parts, WriteStates
    <2>4. p \in records /\ p \in images /\ \E u \in Users : p \in lists[u]
      BY <2>3 DEF IInv, AttemptInv, StoresAgree
    <2>5. ErrorCauses(p) = {}
      BY <2>3 DEF IInv, AttemptInv, ReportsAgree, Parts
    <2>6. UNCHANGED servers
      BY <1>6 DEF RunNotify
    <2> QED BY <2>1, <2>2, <2>4, <2>5, <2>6 DEF Publication!Announce, servers
  <1>7. ASSUME NEW p \in Posts, Callback(p)
        PROVE  UNCHANGED Publication!pubVars \/ Publication!ReportFailure(p) \/ Publication!Announce(p)
    <2>1. CASE RecordStored(p) \/ RecordStoredSignedOut(p)
               \/ \E k \in {"image", "listing"} : PartStored(p, k)
      BY <2>1, <1>1 DEF RecordStored, RecordStoredSignedOut, PartStored
    <2>2. ASSUME NEW k \in Parts, write[p][k] = "refused" PROVE ~Published(p)
      BY <2>2 DEF IInv, TypeOK, AttemptsOK, AttemptInv, ReportsAgree, GroupAgrees, RecordFirst,
                  InGroup, Parts, WriteStates
    <2>3. CASE RecordRefused(p) \/ \E k \in {"image", "listing"} : PartRefused(p, k)
      BY <2>2, <2>3, <1>5 DEF RecordRefused, PartRefused, Parts
    <2>4. CASE RunNotify(p)
      BY <2>4, <1>6
    <2> QED BY <1>7, <2>1, <2>3, <2>4 DEF Callback
  <1>8. ASSUME NEW p \in Posts, NEW k \in Parts, StoreWrite(p, k), UNCHANGED outcome,
               write[p][k] = "sent"
        PROVE  Publication!StoreRecord(p) \/ Publication!StoreImage(p) \/ Publication!StoreListing(p)
    <2>1. \A q \in Posts : (Published(q))' = Published(q) /\ (ErrorCauses(q))' = ErrorCauses(q)
      BY <1>8
    <2>2. k # "record" => p \in records
      BY <1>8 DEF IInv, AttemptInv, RecordFirst, StoresAgree, Parts
    <2>3. CASE k = "record"
      BY <1>8, <2>1, <2>3 DEF StoreWrite, Publication!StoreRecord
    <2>4. CASE k = "image"
      BY <1>8, <2>1, <2>2, <2>4 DEF StoreWrite, Publication!StoreImage
    <2>5. CASE k = "listing"
      <3>1. target[p] \in Users
        BY <1>8, <2>5 DEF IInv, AttemptInv, StoresAgree
      <3>2. \A u \in Users : lists'[u] = IF u = target[p] THEN lists[u] \cup {p} ELSE lists[u]
        BY <1>8, <2>5 DEF StoreWrite, IInv, TypeOK, StoresOK
      <3> DEFINE listed == UNION {lists[u] : u \in Users}
      <3>3. \A q : q \in listed' <=> q \in listed \cup {p}
        <4>1. \A q : q \in listed' <=> \E u \in Users : q \in lists'[u]
          OBVIOUS
        <4>2. \A q : q \in listed <=> \E u \in Users : q \in lists[u]
          OBVIOUS
        <4> HIDE DEF listed
        <4> QED BY <4>1, <4>2, <3>1, <3>2
      <3>4. listed' = listed \cup {p}
        <4> HIDE DEF listed
        <4> QED BY <3>3
      <3>5. records' = records /\ images' = images
        BY <1>8, <2>5 DEF StoreWrite
      <3> QED BY <2>1, <2>2, <2>5, <3>4, <3>5 DEF Publication!StoreListing
    <2> QED BY <2>3, <2>4, <2>5 DEF Parts
  <1>9. ASSUME NEW p \in Posts, Server(p)
        PROVE  UNCHANGED Publication!pubVars \/ Publication!StoreRecord(p)
               \/ Publication!StoreImage(p) \/ Publication!StoreListing(p)
    BY <1>1, <1>8, <1>9 DEF Server, ServerStores, ServerRefuses, Parts
  <1>10. CASE UNCHANGED vars
    BY <1>1, <1>10 DEF vars, attempt
  <1> QED BY <1>2, <1>3, <1>4, <1>7, <1>9, <1>10 DEF Next, Publication!PubNext

\* addNewPost and its screen implement the promise of Publication.
THEOREM Implementation == Spec => ImplementsPublication
  <1>1. Init => Publication!PubInit
    BY DEF Init, Publication!PubInit, Published, ErrorCauses, Parts, Causes
  <1> QED BY <1>1, Invariance, PublicationStep, PTL
          DEF Spec, ImplementsPublication, Publication!PubSpec
=============================================================================
