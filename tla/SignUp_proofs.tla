---------------------------- MODULE SignUp_proofs ----------------------------
(***************************************************************************)
(* Proofs about SignUp, for any sets of screens, submits and addresses and *)
(* any number of kills: the inductive invariant, the safety properties     *)
(* that follow from it, and that SignUp implements Registration.           *)
(***************************************************************************)
EXTENDS SignUp, TLAPS

\* The submit that registered the address it holds.
Owns(s) == address[s] \in accounts /\ creator[address[s]] = s

\* What the servers hold for a submit, by the call it has got to; a call that has
\* its answer has left its data.
Progress(s) ==
    /\ stage[s] = "create" /\ request[s] = "stored" => Owns(s)
    /\ stage[s] \in {"profile", "photo"} \/ Succeeded(s) => Owns(s)
    /\ stage[s] = "profile" /\ request[s] = "stored" => address[s] \in profiles
    /\ stage[s] = "photo" \/ Succeeded(s) => address[s] \in profiles
    /\ stage[s] = "photo" /\ request[s] = "stored" => address[s] \in photos
    /\ Succeeded(s) => address[s] \in photos

SubmitOK(s) ==
    /\ stage[s] = "none" => s \notin live
    /\ stage[s] # "none" => form[s] \in Forms
    /\ request[s] # "none" => stage[s] \in Calls
    /\ Progress(s)

\* Data of an account is stored only under an account and in the order of the calls.
StoredInOrder == photos \subseteq profiles /\ profiles \subseteq accounts

\* The first call of a submit has its answer.
Tried(s) ==
    /\ stage[s] \in Calls \cup {"succeeded", "failed", "success", "error"}
    /\ ~ (stage[s] = "create" /\ request[s] = "sent")

\* An account has the submit that registered it, which holds its address from its first
\* call on and so registers no other.
CreatorOK ==
    \A e \in Emails :
        /\ creator[e] = Nil <=> e \notin accounts
        /\ \A s \in Submits : creator[e] = s => address[s] = e /\ Tried(s)

\* The screen's invariant needs that a submit keeps its screen; success needs that
\* the servers were passed in the order of the calls.
IInv == ScreenInv /\ StoredInOrder /\ CreatorOK /\ \A s \in Submits : SubmitOK(s)

-----------------------------------------------------------------------------
\* The initial states satisfy the inductive invariant.
LEMMA InitIInv == Init => IInv
  <1> SUFFICES ASSUME Init PROVE IInv
    OBVIOUS
  <1>1. TypeOK
    <2>1. QueueOK
      BY DEF Init, QueueOK
    <2> QED BY <2>1, NamesAssumption DEF Init, TypeOK, Texts, Stages, NotTyping
  <1>2. GroupBalanced /\ HudHasOwner /\ StoredInOrder
    BY DEF Init, GroupBalanced, HudHasOwner, StoredInOrder, Waiting
  <1>3. ASSUME NEW s \in Submits PROVE SubmitOK(s)
    BY DEF Init, SubmitOK, Progress, Succeeded
  <1>4. CreatorOK
    BY NamesAssumption DEF Init, CreatorOK
  <1> QED BY <1>1, <1>2, <1>3, <1>4 DEF IInv, ScreenInv

\* A queue of blocks stays one when a block joins its end or leaves its head.
LEMMA QueueStep == QueueOK /\ [Next]_vars => QueueOK'
  <1> SUFFICES ASSUME QueueOK, [Next]_vars PROVE QueueOK'
    OBVIOUS
  <1>1. CASE UNCHANGED queued
    BY <1>1 DEF QueueOK
  <1>2. ASSUME NEW b \in {"picker", "logout"}, Queue(b) PROVE QueueOK'
    BY <1>2 DEF QueueOK, Queue
  <1>3. ASSUME NEW b, Runs(b) PROVE QueueOK'
    BY <1>3 DEF QueueOK, Runs
  <1>4. CASE SelectImg \/ Logout
    BY <1>2, <1>4 DEF SelectImg, Logout
  <1>5. CASE TapBlock
    BY <1>3, <1>5 DEF TapBlock, PresentPicker, LogoutHidesHud
  <1>6. CASE Kill
    BY <1>6 DEF Kill, QueueOK
  <1>7. CASE /\ ~SelectImg /\ ~Logout /\ ~TapBlock /\ ~Kill
    <2>1. CASE Form \/ Process
      BY <1>1, <1>7, <2>1 DEF Form, Process, OpenForm, EditField, ReturnKey, Back, Submit, Launch,
                              screen
    <2>2. ASSUME NEW f \in Forms, Location(f) PROVE QueueOK'
      BY <1>1, <2>2 DEF Location, LocationFound, LocationFailed, screen
    <2>3. ASSUME NEW s \in Submits, Step(s) PROVE QueueOK'
      BY <1>1, <2>3 DEF Step, RunBlock, Created, ProfileStored, PhotoStored, CallRefused,
                        ShowSuccess, ShowError, screen
    <2>4. ASSUME NEW s \in Submits, Server(s) PROVE QueueOK'
      BY <1>1, <2>4 DEF Server, AccountCreated, DataStored, Refused, screen
    <2>5. CASE UNCHANGED vars
      BY <1>1, <2>5 DEF vars, screen
    <2> QED BY <1>7, <2>1, <2>2, <2>3, <2>4, <2>5 DEF Next
  <1> QED BY <1>4, <1>5, <1>6, <1>7

\* Between steps of its own a submit keeps what SubmitOK says of it: the servers only
\* gain data, and a registered address keeps the submit that registered it.
LEMMA SubmitKept ==
    ASSUME NEW s \in Submits, SubmitOK(s),
           stage'[s] = stage[s] \/ (stage[s] = "waiting" /\ stage'[s] = "queued"),
           form'[s] = form[s], request'[s] = request[s], address'[s] = address[s],
           stage[s] = "none" => s \notin live',
           accounts \subseteq accounts', profiles \subseteq profiles', photos \subseteq photos',
           \A e \in accounts : creator'[e] = creator[e]
    PROVE  SubmitOK(s)'
  BY DEF SubmitOK, Progress, Owns, Succeeded, Calls

\* The form, the picker and the process touch no submit that has begun.
LEMMA FormStep ==
    ASSUME IInv, Form \/ TapBlock \/ Process
    PROVE  IInv'
  <1> USE DEF IInv, ScreenInv
  <1>1. TypeOK'
    <2>0. QueueOK'
      BY QueueStep DEF TypeOK, Next
    <2> USE <2>0 DEF TypeOK, device, screen, info, location, submit, servers, NotTyping
    <2>1. CASE \E f \in Forms : OpenForm(f)
      BY <2>1 DEF OpenForm
    <2>2. CASE \E field \in {"email", "others"}, text \in Texts : EditField(field, text)
      BY <2>2 DEF EditField, EndEditing
    <2>3. CASE SelectImg \/ TapBlock
      BY <2>3 DEF SelectImg, TapBlock, PresentPicker, LogoutHidesHud, Queue, Runs
    <2>4. CASE Back
      BY <2>4 DEF Back
    <2>5. CASE ReturnKey
      BY <2>5 DEF ReturnKey, EndEditing
    <2>6. ASSUME NEW s \in Submits, Submit(s) PROVE TypeOK'
      BY <2>6 DEF Submit, EndEditing, Stages
    <2>7. CASE Process
      <3>1. CASE Kill
        <4>1. /\ group' \in [Forms -> Nat] /\ asked' \in [Forms -> Nat]
              /\ lost' \in [Forms -> Nat]
          BY <3>1 DEF Kill
        <4>2. /\ running' = FALSE /\ kills' \in Nat /\ hud' = FALSE /\ queued' = <<>>
              /\ shown' = NoForm /\ typing' = NotTyping /\ live' = {}
              /\ UNCHANGED <<root, session, opened, info, form, stage, request, address, servers>>
          BY <3>1 DEF Kill
        <4> QED BY <4>1, <4>2
      <3>2. CASE Launch
        BY <3>2 DEF Launch
      <3>3. CASE Logout
        BY <3>3 DEF Logout, Queue
      <3> QED BY <2>7, <3>1, <3>2, <3>3 DEF Process
    <2> QED BY <2>1, <2>2, <2>3, <2>4, <2>5, <2>6, <2>7 DEF Form
  <1>2. CASE \E s \in Submits : Submit(s)
    <2> PICK s \in Submits : Submit(s)
      BY <1>2
    <2>1. GroupBalanced'
      BY DEF Submit, TypeOK, GroupBalanced, Waiting
    <2>2. HudHasOwner'
      BY DEF Submit, TypeOK, HudHasOwner, Calls
    <2>3. StoredInOrder'
      BY DEF Submit, StoredInOrder, servers
    <2>4. ASSUME NEW t \in Submits PROVE SubmitOK(t)'
      <3>1. CASE t = s
        BY <3>1 DEF Submit, TypeOK, SubmitOK, Progress, Succeeded, Calls
      <3>2. CASE t # s
        BY <3>2, SubmitKept DEF Submit, TypeOK, SubmitOK, servers
      <3> QED BY <3>1, <3>2
    <2>5. CreatorOK'
      BY DEF Submit, TypeOK, CreatorOK, Tried, Calls, servers
    <2> QED BY <1>1, <2>1, <2>2, <2>3, <2>4, <2>5
  <1>3. CASE ~ \E s \in Submits : Submit(s)
    <2> USE <1>3
    <2>1. /\ UNCHANGED <<form, stage, request, address, servers>>
          /\ live' \subseteq live
      BY DEF Form, Process, OpenForm, EditField, ReturnKey, Back, SelectImg, TapBlock,
             PresentPicker, LogoutHidesHud, Kill, Launch, Logout, submit
    <2>2. GroupBalanced'
      <3>1. CASE Kill
        BY <3>1 DEF Kill, GroupBalanced, Waiting
      <3>2. CASE ~Kill
        BY <3>2, <2>1
        DEF Form, Process, OpenForm, EditField, ReturnKey, Back, SelectImg, TapBlock,
            PresentPicker, LogoutHidesHud, Launch, Logout, location, GroupBalanced, Waiting
      <3> QED BY <3>1, <3>2
    <2>3. HudHasOwner'
      <3>1. CASE SelectImg \/ Logout
        BY <3>1 DEF SelectImg, Logout, Queue, TypeOK, HudHasOwner
      <3>2. CASE TapBlock \/ Kill
        BY <3>2 DEF TapBlock, PresentPicker, LogoutHidesHud, Runs, Kill, HudHasOwner
      <3>3. CASE /\ ~SelectImg /\ ~Logout /\ ~TapBlock /\ ~Kill
        BY <3>3 DEF Form, Process, OpenForm, EditField, ReturnKey, Back, Launch, submit,
                    screen, HudHasOwner
      <3> QED BY <3>1, <3>2, <3>3
    <2>4. StoredInOrder'
      BY <2>1 DEF StoredInOrder, servers
    <2>5. ASSUME NEW s \in Submits PROVE SubmitOK(s)'
      BY <2>1, SubmitKept DEF SubmitOK, servers
    <2>6. CreatorOK'
      BY <2>1 DEF CreatorOK, Tried, servers
    <2> QED BY <1>1, <2>2, <2>3, <2>4, <2>5, <2>6
  <1> QED BY <1>2, <1>3

\* An answer of the location services leaves the group once however many requests it
\* answers; the group is empty only if every enter had an answer of its own.
LEMMA LocationStep ==
    ASSUME IInv, NEW f \in Forms, Location(f)
    PROVE  IInv'
  <1> USE DEF IInv, ScreenInv
  <1>1. PICK n \in 1..asked[f] :
            /\ asked' = [asked EXCEPT ![f] = @ - n]
            /\ \/ /\ LocationFound(f)
                  /\ lost' = [lost EXCEPT ![f] = @ + n - 1]
                  /\ group' = [group EXCEPT ![f] = @ - 1]
               \/ /\ LocationFailed(f)
                  /\ lost' = [lost EXCEPT ![f] = @ + n]
                  /\ group' = group
    BY DEF Location, LocationFound, LocationFailed
  <1>2. /\ UNCHANGED <<device, session, screen, hud, email, others, form, request, address,
                       live, servers>>
        /\ located' \in [Forms -> BOOLEAN]
    BY DEF Location, LocationFound, LocationFailed, TypeOK, info, submit
  <1>3. /\ stage' \in [Submits -> Stages]
        /\ \A s \in Submits : \/ stage'[s] = stage[s]
                              \/ stage[s] = "waiting" /\ stage'[s] = "queued"
    <2>1. CASE LocationFound(f)
      BY <2>1 DEF LocationFound, Waiting, TypeOK, Stages
    <2>2. CASE LocationFailed(f)
      BY <2>2 DEF LocationFailed, submit, TypeOK
    <2> QED BY <2>1, <2>2 DEF Location
  <1>4. /\ group' \in [Forms -> Nat] /\ asked' \in [Forms -> Nat] /\ lost' \in [Forms -> Nat]
        /\ \A g \in Forms : group'[g] = asked'[g] + lost'[g]
    <2>1. asked[f] \in Nat /\ lost[f] \in Nat /\ n \in 1..asked[f]
          /\ group[f] = asked[f] + lost[f]
      BY DEF TypeOK, GroupBalanced
    <2>2. group' \in [Forms -> Nat] /\ asked' \in [Forms -> Nat] /\ lost' \in [Forms -> Nat]
      BY <1>1, <2>1 DEF TypeOK
    <2>3. group'[f] = asked'[f] + lost'[f]
      BY <1>1, <2>1 DEF TypeOK
    <2>4. ASSUME NEW g \in Forms, g # f PROVE group'[g] = asked'[g] + lost'[g]
      BY <1>1, <2>4 DEF TypeOK, GroupBalanced
    <2> QED BY <2>2, <2>3, <2>4
  <1>5. ASSUME NEW g \in Forms, Waiting(g)' # {} PROVE group'[g] > 0
    <2>1. PICK s \in live : form[s] = g /\ stage'[s] = "waiting"
      BY <1>2, <1>5 DEF Waiting
    <2>2. s \in Submits /\ stage[s] = "waiting"
      BY <1>3, <2>1 DEF TypeOK
    <2>3. s \in Waiting(g) /\ group[g] > 0
      BY <2>1, <2>2 DEF GroupBalanced, Waiting
    <2>4. CASE group' = group
      BY <2>3, <2>4
    <2>5. CASE LocationFound(f) /\ group' = [group EXCEPT ![f] = @ - 1]
      <3>1. g # f \/ group[f] # 1
        BY <2>1, <2>2, <2>3, <2>5 DEF LocationFound
      <3> QED BY <2>3, <2>5, <3>1 DEF TypeOK
    <2> QED BY <1>1, <2>4, <2>5
  <1>6. TypeOK'
    <2>1. QueueOK'
      BY QueueStep DEF TypeOK, Next
    <2> QED BY <1>2, <1>3, <1>4, <2>1 DEF TypeOK, device, screen, servers
  <1>7. GroupBalanced'
    BY <1>4, <1>5 DEF GroupBalanced
  <1>8. HudHasOwner'
    BY <1>2, <1>3 DEF HudHasOwner, TypeOK, screen, Calls
  <1>9. StoredInOrder'
    BY <1>2 DEF StoredInOrder, servers
  <1>10. ASSUME NEW s \in Submits PROVE SubmitOK(s)'
    BY <1>2, <1>3, SubmitKept DEF SubmitOK, servers
  <1>11. CreatorOK'
    BY <1>2, <1>3 DEF CreatorOK, Tried, Calls, servers
  <1> QED BY <1>6, <1>7, <1>8, <1>9, <1>10, <1>11

\* The block and the callbacks move one submit on. A call is sent only by the callback
\* of the one before, so the data of that one is there.
LEMMA RunStep ==
    ASSUME IInv, NEW s \in Submits, Step(s)
    PROVE  IInv'
  <1> USE DEF IInv, ScreenInv
  <1>1. SubmitOK(s)
    OBVIOUS
  <1>2. /\ UNCHANGED <<device, opened, queued, info, location, form, live, servers>>
        /\ s \in live /\ stage[s] \notin {"none", "waiting"}
        /\ session' \in Emails \cup {Nil} /\ hud' \in BOOLEAN
        /\ shown' \in Forms \cup {NoForm}
        /\ typing' \in [field : {"none", "email", "others"}, text : Texts \cup {Nil}]
    <2>1. CASE Created(s)
      BY <1>1, <2>1 DEF Created, TypeOK, screen, SubmitOK, Progress, Owns
    <2>2. CASE ShowSuccess(s)
      <3>1. NotTyping \in [field : {"none", "email", "others"}, text : Texts \cup {Nil}]
        BY DEF NotTyping
      <3> QED BY <2>2, <3>1 DEF ShowSuccess, TypeOK
    <2>3. CASE RunBlock(s)
      BY <2>3 DEF RunBlock, TypeOK, screen
    <2>4. CASE ProfileStored(s) \/ PhotoStored(s)
      BY <2>4 DEF ProfileStored, PhotoStored, TypeOK, screen
    <2>5. CASE CallRefused(s) \/ ShowError(s)
      BY <1>1, <2>5 DEF CallRefused, ShowError, TypeOK, screen, SubmitOK, Calls
    <2> QED BY <2>1, <2>2, <2>3, <2>4, <2>5 DEF Step
  <1>3. PICK g \in Stages \ {"none", "waiting", "queued"}, r \in {"none", "sent"} :
            /\ stage' = [stage EXCEPT ![s] = g] /\ request' = [request EXCEPT ![s] = r]
            /\ (r = "sent") <=> (g \in Calls)
    BY DEF Step, RunBlock, Created, ProfileStored, PhotoStored, CallRefused, ShowSuccess,
           ShowError, Send, Finish, Stages, Calls
  <1>4. /\ address' \in [Submits -> Texts \cup {Nil}]
        /\ \A t \in Submits : t # s => address'[t] = address[t]
        /\ stage[s] # "queued" => address' = address
    <2>1. CASE RunBlock(s)
      BY <1>1, <2>1 DEF RunBlock, TypeOK, SubmitOK
    <2>2. CASE ~RunBlock(s)
      BY <2>2 DEF Step, Created, ProfileStored, PhotoStored, CallRefused, ShowSuccess,
                  ShowError, TypeOK
    <2> QED BY <2>1, <2>2
  <1>5. TypeOK'
    <2>1. QueueOK'
      BY QueueStep DEF TypeOK, Next
    <2> QED BY <1>2, <1>3, <1>4, <2>1 DEF TypeOK, device, info, location, servers
  <1>6. GroupBalanced'
    <2>1. ASSUME NEW f \in Forms PROVE Waiting(f)' \subseteq Waiting(f)
      BY <1>2, <1>3 DEF Waiting, TypeOK
    <2> QED BY <1>2, <2>1 DEF GroupBalanced, location
  <1>7. HudHasOwner'
    <2>1. CASE g \in Calls \cup {"succeeded", "failed"}
      BY <1>2, <1>3, <2>1 DEF HudHasOwner, TypeOK
    <2>2. CASE g \notin Calls \cup {"succeeded", "failed"}
      <3>1. hud' = FALSE
        BY <1>3, <2>2
        DEF Step, RunBlock, Created, ProfileStored, PhotoStored, CallRefused, ShowSuccess,
            ShowError, Send, Finish, TypeOK, Calls
      <3> QED BY <3>1 DEF HudHasOwner
    <2> QED BY <2>1, <2>2
  <1>8. StoredInOrder'
    BY <1>2 DEF StoredInOrder, servers
  <1>9. ASSUME NEW t \in Submits PROVE SubmitOK(t)'
    <2>1. CASE t # s
      BY <1>2, <1>3, <1>4, <2>1, SubmitKept DEF SubmitOK, TypeOK, servers
    <2>2. CASE t = s
      <3>1. /\ stage'[s] # "none" /\ form'[s] \in Forms
            /\ request'[s] # "none" => stage'[s] \in Calls
        BY <1>1, <1>2, <1>3 DEF SubmitOK, TypeOK
      <3>2. Progress(s)'
        <4>1. CASE g \notin {"profile", "photo", "succeeded", "success"}
          BY <1>3, <4>1 DEF Progress, Succeeded, TypeOK
        <4>2. CASE Created(s) \/ ProfileStored(s) \/ PhotoStored(s) \/ ShowSuccess(s)
          BY <1>1, <1>2, <1>3, <4>2
          DEF Created, ProfileStored, PhotoStored, ShowSuccess, Send, Finish, SubmitOK,
              Progress, Owns, Succeeded, TypeOK, servers
        <4>3. CASE RunBlock(s) \/ CallRefused(s) \/ ShowError(s)
          BY <1>3, <4>1, <4>3 DEF RunBlock, CallRefused, ShowError, Send, Finish, TypeOK
        <4> QED BY <4>2, <4>3 DEF Step
      <3> QED BY <2>2, <3>1, <3>2 DEF SubmitOK
    <2> QED BY <2>1, <2>2
  <1>10. CreatorOK'
    <2> SUFFICES ASSUME NEW e \in Emails, NEW t \in Submits, creator[e] = t
                 PROVE  address'[t] = e /\ Tried(t)'
      BY <1>2 DEF CreatorOK, servers
    <2>1. address[t] = e /\ Tried(t)
      BY DEF CreatorOK
    <2>2. stage[t] # "queued" /\ address'[t] = address[t]
      BY <1>4, <2>1 DEF Tried, Calls
    <2>3. CASE t # s
      BY <1>3, <2>1, <2>2, <2>3 DEF Tried, TypeOK
    <2>4. CASE t = s
      <3>1. g \notin {"incomplete", "create"}
        BY <1>3, <2>2, <2>4
        DEF Step, RunBlock, Created, ProfileStored, PhotoStored, CallRefused, ShowSuccess,
            ShowError, Send, Finish, TypeOK
      <3> QED BY <1>3, <2>1, <2>2, <2>4, <3>1 DEF Tried, TypeOK, Stages, Calls
    <2> QED BY <2>3, <2>4
  <1> QED BY <1>5, <1>6, <1>7, <1>8, <1>9, <1>10

\* A server decides one call. It registers only a free address, and stores a profile
\* or a photo only for a submit that owns its address.
LEMMA ServerStep ==
    ASSUME IInv, NEW s \in Submits, Server(s)
    PROVE  IInv'
  <1> USE DEF IInv, ScreenInv
  <1>1. SubmitOK(s)
    OBVIOUS
  <1>2. /\ UNCHANGED <<device, session, screen, hud, info, location, form, stage, address, live>>
        /\ request[s] = "sent"
        /\ \E r \in {"stored", "refused"} : request' = [request EXCEPT ![s] = r]
        /\ stage[s] \in Calls
    BY <1>1 DEF Server, AccountCreated, DataStored, Refused, SubmitOK
  <1>3. \/ /\ UNCHANGED <<accounts, creator, profiles>>
           /\ photos' = photos \/ (stage[s] = "photo" /\ photos' = photos \cup {address[s]})
        \/ /\ stage[s] = "profile" /\ profiles' = profiles \cup {address[s]}
           /\ UNCHANGED <<accounts, creator, photos>>
        \/ /\ stage[s] = "create" /\ address[s] \in Emails \ accounts
           /\ accounts' = accounts \cup {address[s]}
           /\ creator' = [creator EXCEPT ![address[s]] = s]
           /\ UNCHANGED <<profiles, photos>>
    BY DEF Server, AccountCreated, DataStored, Refused, Register, servers
  <1>4. stage[s] \in {"profile", "photo"} => Owns(s)
    BY <1>1 DEF SubmitOK, Progress
  <1>5. /\ accounts \subseteq accounts' /\ profiles \subseteq profiles' /\ photos \subseteq photos'
        /\ \A e \in accounts : creator'[e] = creator[e]
    BY <1>3 DEF TypeOK
  <1>6. TypeOK'
    <2>1. /\ accounts' \in SUBSET Emails /\ profiles' \in SUBSET Emails
          /\ photos' \in SUBSET Emails /\ creator' \in [Emails -> Submits \cup {Nil}]
      BY <1>3, <1>4 DEF TypeOK, Owns
    <2>2. request' \in [Submits -> {"none", "sent", "stored", "refused"}]
      BY <1>2 DEF TypeOK
    <2>3. QueueOK'
      BY QueueStep DEF TypeOK, Next
    <2> QED BY <1>2, <2>1, <2>2, <2>3 DEF TypeOK, device, screen, info, location
  <1>7. GroupBalanced' /\ HudHasOwner'
    BY <1>2 DEF GroupBalanced, HudHasOwner, Waiting, screen, location
  <1>8. StoredInOrder'
    BY <1>1, <1>3 DEF StoredInOrder, SubmitOK, Progress, Owns
  <1>9. ASSUME NEW t \in Submits PROVE SubmitOK(t)'
    <2>1. CASE t # s
      BY <1>2, <1>5, <2>1, SubmitKept DEF SubmitOK, TypeOK
    <2>2. CASE t = s
      <3>1. /\ stage'[s] = stage[s] /\ address'[s] = address[s] /\ stage[s] \in Calls
            /\ form'[s] = form[s] /\ live' = live /\ request'[s] \in {"stored", "refused"}
        BY <1>2 DEF TypeOK
      <3>2. Progress(s)'
        <4>1. CASE stage[s] = "create"
          <5>1. request'[s] = "stored" => Owns(s)'
            BY <3>1, <4>1, <1>6
            DEF Server, AccountCreated, DataStored, Refused, Register, TypeOK, Owns
          <5> QED BY <3>1, <4>1, <5>1 DEF Progress, Succeeded
        <4>2. CASE stage[s] \in {"profile", "photo"}
          <5>1. /\ request'[s] = "stored" /\ stage[s] = "profile" => address[s] \in profiles'
                /\ request'[s] = "stored" /\ stage[s] = "photo" => address[s] \in photos'
            BY <4>2 DEF Server, AccountCreated, DataStored, Refused, TypeOK
          <5> QED BY <1>1, <1>4, <1>5, <3>1, <4>2, <5>1 DEF Progress, Owns, Succeeded, SubmitOK
        <4> QED BY <1>2, <4>1, <4>2 DEF Calls
      <3> QED BY <1>1, <2>2, <3>1, <3>2 DEF SubmitOK, Calls
    <2> QED BY <2>1, <2>2
  <1>10. CreatorOK'
    <2>1. ASSUME NEW e \in Emails, NEW t \in Submits, creator[e] = t
          PROVE  address'[t] = e /\ Tried(t)'
      BY <1>2, <2>1 DEF CreatorOK, Tried, TypeOK
    <2>2. CASE UNCHANGED <<accounts, creator>>
      BY <2>1, <2>2 DEF CreatorOK
    <2>3. CASE /\ stage[s] = "create" /\ address[s] \in Emails \ accounts
               /\ accounts' = accounts \cup {address[s]}
               /\ creator' = [creator EXCEPT ![address[s]] = s]
      <3>1. s # Nil
        BY NamesAssumption
      <3>2. address'[s] = address[s] /\ Tried(s)'
        BY <1>2, <2>3 DEF Tried, Calls, TypeOK
      <3> QED BY <2>1, <2>3, <3>1, <3>2 DEF CreatorOK, TypeOK
    <2> QED BY <1>3, <2>2, <2>3
  <1> QED BY <1>6, <1>7, <1>8, <1>9, <1>10

-----------------------------------------------------------------------------
\* Every step keeps the inductive invariant.
LEMMA NextIInv == IInv /\ [Next]_vars => IInv'
  <1> SUFFICES ASSUME IInv, [Next]_vars PROVE IInv'
    OBVIOUS
  <1>1. CASE Next
    BY <1>1, FormStep, LocationStep, RunStep, ServerStep DEF Next
  <1>2. CASE UNCHANGED vars
    BY <1>2, QueueStep DEF vars, device, screen, info, location, submit, servers, IInv, ScreenInv, TypeOK,
                GroupBalanced, Waiting, HudHasOwner, StoredInOrder, SubmitOK, Progress, Owns,
                Succeeded, CreatorOK, Tried
  <1> QED BY <1>1, <1>2

\* The inductive invariant holds throughout.
THEOREM Invariance == Spec => []IInv
  BY InitIInv, NextIInv, PTL DEF Spec

\* Every variable keeps its type, the DispatchGroup of a screen counts its requests
\* (SignUpViewController.swift:107), and the HUD never stays up without an owner.
THEOREM ScreenCorrect == Spec => []ScreenInv
  <1>1. IInv => ScreenInv
    BY DEF IInv
  <1> QED BY <1>1, Invariance, PTL

\* "Successfully registered for new user" (SignUpViewController.swift:76) is shown only
\* by the submit that created the account, with its profile and its photo stored.
THEOREM RegisteredOnSuccess == Spec => []SuccessMeansRegistered
  <1>1. IInv => SuccessMeansRegistered
    BY DEF IInv, SubmitOK, Progress, Owns, SuccessMeansRegistered
  <1> QED BY <1>1, Invariance, PTL

\* Data of an account is stored only under an account and in the order of the calls.
THEOREM OrderOfStores == Spec => []StoredInOrder
  <1>1. IInv => StoredInOrder
    BY DEF IInv
  <1> QED BY <1>1, Invariance, PTL

\* After one location request without an answer of its own no waiting submit of the
\* screen gets to its block: the group never becomes empty again.
THEOREM DeadForm == Spec => FailureSilencesForm
  <1> DEFINE Silenced == \A s \in Submits :
                 stage[s] = "waiting" /\ lost[form[s]] > 0 => stage'[s] = "waiting"
  <1>1. IInv /\ [Next]_vars => [Silenced]_vars
    <2> SUFFICES ASSUME IInv, Next, NEW s \in Submits, stage[s] = "waiting",
                        lost[form[s]] > 0
                 PROVE  stage'[s] = "waiting"
      OBVIOUS
    <2> USE DEF IInv, ScreenInv, TypeOK
    <2>1. CASE Form \/ TapBlock \/ Process
      BY <2>1
      DEF Form, Process, OpenForm, EditField, ReturnKey, Back, SelectImg, Submit, TapBlock,
          PresentPicker, LogoutHidesHud, Kill, Launch, Logout, submit
    <2>2. ASSUME NEW f \in Forms, LocationFailed(f) PROVE stage'[s] = "waiting"
      BY <2>2 DEF LocationFailed, submit
    <2>3. ASSUME NEW f \in Forms, LocationFound(f) PROVE stage'[s] = "waiting"
      <3>1. CASE form[s] # f
        BY <2>3, <3>1 DEF LocationFound, Waiting
      <3>2. CASE form[s] = f
        <4>1. asked[f] >= 1 /\ group[f] = asked[f] + lost[f]
          BY <2>3 DEF LocationFound, GroupBalanced
        <4>2. group[f] # 1
          BY <3>2, <4>1
        <4> QED BY <2>3, <4>2 DEF LocationFound
      <3> QED BY <3>1, <3>2
    <2>4. ASSUME NEW t \in Submits, Step(t) PROVE stage'[s] = "waiting"
      BY <2>4
      DEF Step, RunBlock, Created, ProfileStored, PhotoStored, CallRefused, ShowSuccess, ShowError,
          Send, Finish, SubmitOK, Calls
    <2>5. ASSUME NEW t \in Submits, Server(t) PROVE stage'[s] = "waiting"
      BY <2>5 DEF Server, AccountCreated, DataStored, Refused
    <2> QED BY <2>1, <2>2, <2>3, <2>4, <2>5 DEF Next, Location
  <1> QED BY <1>1, Invariance, PTL DEF Spec, FailureSilencesForm
-----------------------------------------------------------------------------
(* The refinement.                                                         *)

Announced == {s \in Submits : stage[s] = "success"}
Failed    == {s \in Submits : stage[s] = "error"}

\* Before its first call a submit has registered nothing, and while a call waits for its
\* server the submit has not been reported.
LEMMA SentFacts ==
    ASSUME IInv, NEW s \in Submits, request[s] = "sent"
    PROVE  /\ s \notin Announced /\ s \notin Failed
           /\ stage[s] = "create" => \A e \in Emails : creator[e] # s
           /\ stage[s] \in {"profile", "photo"} =>
                 address[s] \in Emails /\ creator[address[s]] = s
           /\ stage[s] = "photo" => address[s] \in profiles
  <1>1. stage[s] \in Calls
    BY DEF IInv, SubmitOK
  <1>2. stage[s] = "create" => \A e \in Emails : creator[e] # s
    BY DEF IInv, CreatorOK, Tried
  <1>3. /\ stage[s] \in {"profile", "photo"} =>
              address[s] \in Emails /\ creator[address[s]] = s
        /\ stage[s] = "photo" => address[s] \in profiles
    BY DEF IInv, ScreenInv, TypeOK, SubmitOK, Progress, Owns
  <1> QED BY <1>1, <1>2, <1>3 DEF Calls, Announced, Failed

\* A server registers an address, or adds to an account of the submit, or does nothing.
LEMMA ServerStores ==
    ASSUME IInv, NEW s \in Submits, Server(s)
    PROVE  [Registration!RegNext]_(Registration!regVars)
  <1>1. /\ request[s] = "sent" /\ Announced' = Announced /\ Failed' = Failed
    BY DEF Server, AccountCreated, DataStored, Refused, Announced, Failed
  <1>2. \/ UNCHANGED <<accounts, creator, profiles, photos>>
        \/ /\ stage[s] = "photo" /\ photos' = photos \cup {address[s]}
           /\ UNCHANGED <<accounts, creator, profiles>>
        \/ /\ stage[s] = "profile" /\ profiles' = profiles \cup {address[s]}
           /\ UNCHANGED <<accounts, creator, photos>>
        \/ /\ stage[s] = "create" /\ address[s] \in Emails \ accounts
           /\ creator' = [creator EXCEPT ![address[s]] = s]
           /\ UNCHANGED <<profiles, photos>>
    BY DEF Server, AccountCreated, DataStored, Refused, Register, servers
  <1>3. \A e \in Emails \ accounts : creator[e] = Nil
    BY DEF IInv, CreatorOK
  <1> USE DEF Registration!RegNext, Registration!Reported, Announced, Failed
  <1>4. CASE UNCHANGED <<accounts, creator, profiles, photos>>
    BY <1>1, <1>4 DEF Registration!regVars
  <1>5. CASE /\ stage[s] = "photo" /\ photos' = photos \cup {address[s]}
             /\ UNCHANGED <<accounts, creator, profiles>>
    <2>1. Registration!StorePhoto(s, address[s])
      BY <1>1, <1>5, SentFacts DEF Registration!StorePhoto
    <2> QED BY <1>1, <1>5, <2>1, SentFacts
  <1>6. CASE /\ stage[s] = "profile" /\ profiles' = profiles \cup {address[s]}
             /\ UNCHANGED <<accounts, creator, photos>>
    <2>1. Registration!StoreProfile(s, address[s])
      BY <1>1, <1>6, SentFacts DEF Registration!StoreProfile
    <2> QED BY <1>1, <1>6, <2>1, SentFacts
  <1>7. CASE /\ stage[s] = "create" /\ address[s] \in Emails \ accounts
             /\ creator' = [creator EXCEPT ![address[s]] = s]
             /\ UNCHANGED <<profiles, photos>>
    <2>1. Registration!Register(s, address[s])
      BY <1>1, <1>3, <1>7, SentFacts DEF Registration!Register
    <2> QED BY <1>7, <2>1
  <1> QED BY <1>2, <1>4, <1>5, <1>6, <1>7

\* Of the steps of a submit only its messages report.
LEMMA StepReports ==
    ASSUME IInv, NEW s \in Submits, Step(s)
    PROVE  [Registration!RegNext]_(Registration!regVars)
  <1>1. UNCHANGED <<creator, profiles, photos>> /\ stage \in [Submits -> Stages]
    BY DEF IInv, ScreenInv, TypeOK, Step, RunBlock, Created, ProfileStored, PhotoStored,
           CallRefused, ShowSuccess, ShowError, servers
  <1> USE DEF Registration!RegNext, Registration!Reported, Announced, Failed
  <1>2. CASE ShowSuccess(s)
    <2>1. stage[s] = "succeeded" /\ stage' = [stage EXCEPT ![s] = "success"]
      BY <1>2 DEF ShowSuccess, Finish
    <2>2. PICK e \in Emails : creator[e] = s /\ e \in profiles \cap photos
      BY <2>1 DEF IInv, ScreenInv, TypeOK, SubmitOK, Progress, Owns, Succeeded
    <2>3. Announced' = Announced \cup {s} /\ Failed' = Failed
      BY <1>1, <2>1
    <2>4. Registration!Announce(s, e)
      BY <1>1, <2>1, <2>2, <2>3 DEF Registration!Announce
    <2> QED BY <2>4
  <1>3. CASE ShowError(s)
    <2>1. stage[s] = "failed" /\ stage' = [stage EXCEPT ![s] = "error"]
      BY <1>3 DEF ShowError, Finish
    <2>2. Failed' = Failed \cup {s} /\ Announced' = Announced
      BY <1>1, <2>1
    <2>3. Registration!ReportFailure(s)
      BY <1>1, <2>1, <2>2 DEF Registration!ReportFailure
    <2> QED BY <2>3
  <1>4. CASE ~ ShowSuccess(s) /\ ~ ShowError(s)
    <2>1. PICK g \in Stages \ {"success", "error"} : stage' = [stage EXCEPT ![s] = g]
      BY <1>4
      DEF Step, RunBlock, Created, ProfileStored, PhotoStored, CallRefused, Send, Finish, Stages
    <2>2. stage[s] \notin {"success", "error"}
      BY <1>4
      DEF IInv, SubmitOK, Step, RunBlock, Created, ProfileStored, PhotoStored, CallRefused, Calls
    <2>3. \A t \in Submits : stage'[t] = stage[t] \/ (t = s /\ stage'[t] = g)
      BY <1>1, <2>1
    <2>4. Announced' = Announced /\ Failed' = Failed
      BY <2>1, <2>2, <2>3
    <2> QED BY <1>1, <2>4 DEF Registration!regVars
  <1> QED BY <1>2, <1>3, <1>4

\* The form, the location and the process change neither the servers nor a report.
LEMMA OthersStutter ==
    ASSUME IInv, Form \/ TapBlock \/ Process \/ \E f \in Forms : Location(f)
    PROVE  UNCHANGED Registration!regVars
  <1>1. UNCHANGED servers
    BY DEF Form, Process, OpenForm, EditField, ReturnKey, Back, SelectImg, TapBlock,
           PresentPicker, LogoutHidesHud, Submit, Kill, Launch, Logout, Location,
           LocationFound, LocationFailed, submit
  <1>2. \A s \in Submits :
           stage'[s] = stage[s] \/ {stage[s], stage'[s]} \subseteq {"none", "waiting", "queued"}
    <2>1. CASE \E s \in Submits : Submit(s)
      BY <2>1 DEF Submit, IInv, ScreenInv, TypeOK
    <2>2. CASE \E f \in Forms : LocationFound(f)
      BY <2>2 DEF LocationFound, Waiting
    <2>3. CASE /\ ~ \E s \in Submits : Submit(s)
               /\ ~ \E f \in Forms : LocationFound(f)
      BY <2>3
      DEF Form, Process, OpenForm, EditField, ReturnKey, Back, SelectImg, TapBlock,
          PresentPicker, LogoutHidesHud, Kill, Launch, Logout, Location, LocationFailed, submit
    <2> QED BY <2>1, <2>2, <2>3
  <1>3. Announced' = Announced /\ Failed' = Failed
    BY <1>2 DEF Announced, Failed
  <1> QED BY <1>1, <1>3 DEF Registration!regVars, servers, Announced, Failed

\* Every step is one of Registration or a stutter.
LEMMA StepRegisters == IInv /\ [Next]_vars => [Registration!RegNext]_(Registration!regVars)
  <1> SUFFICES ASSUME IInv, [Next]_vars PROVE [Registration!RegNext]_(Registration!regVars)
    OBVIOUS
  <1>1. CASE Form \/ TapBlock \/ Process \/ \E f \in Forms : Location(f)
    BY <1>1, OthersStutter
  <1>2. CASE \E s \in Submits : Step(s) \/ Server(s)
    BY <1>2, StepReports, ServerStores
  <1>3. CASE UNCHANGED vars
    BY <1>3 DEF vars, submit, servers, Registration!regVars
  <1> QED BY <1>1, <1>2, <1>3 DEF Next

\* SignUp implements Registration: the account, its profile and its photo come from one
\* submit and in that order, a submit is reported once, as a success only with all three,
\* and stores nothing afterwards (FirebaseAPIHandler.swift:38-80).
THEOREM Implementation == Spec => ImplementsRegistration
  <1>1. Init => Registration!RegInit
    BY DEF Init, Registration!RegInit
  <1> QED BY <1>1, StepRegisters, Invariance, PTL DEF Spec, ImplementsRegistration, Registration!RegSpec
=============================================================================
