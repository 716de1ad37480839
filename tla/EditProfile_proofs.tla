-------------------------- MODULE EditProfile_proofs --------------------------
(***************************************************************************)
(* Proofs about EditProfile, for any accounts and texts and any number of  *)
(* screens, saves and session changes: the inductive invariant and the     *)
(* safety properties that follow from it.                                  *)
(***************************************************************************)
EXTENDS EditProfile, TLAPS

\* A save of the account was tapped before its profile was loaded.
Erased(u) == \E s \in Saves : save[s].account = u /\ save[s].early

\* A picture for the account was saved before its photo was shown, or went astray.
Lost(u) == (\E s \in Saves : save[s].target = u /\ save[s].blind) \/ Astray(u)

\* What a photo of the account may be.
Explained(u, picture) ==
    /\ picture \in Users => picture = u \/ Astray(u)
    /\ picture = "default" => Lost(u)

\* What a screen has downloaded is what its account had.
LoadsInv ==
    \A o \in Opens :
        /\ profileLoad[o] # "none" \/ photoLoad[o] # "none" => owner[o] \in Users
        /\ photoLoad[o] = "answered" =>
              downloaded[o] \in Pictures /\ Explained(owner[o], downloaded[o])

\* An open screen is of the account that is signed in, or was until the library signed
\* it out: one signs in below it.  What it shows is what it loaded, or what the user
\* put there.
ShownInv ==
    /\ signIn # "none" => root = "SignIn"
    /\ shown # 0 =>
        /\ root = "LoggedIn" /\ owner[shown] \in Users /\ session \in {NoUser, owner[shown]}
        /\ profileLoad[shown] # "none"
        /\ profileLoad[shown] # "sent" /\ info # Nil /\ owner[shown] \in complete
              => info.mail \/ Erased(owner[shown])
        /\ image \in Users => image = owner[shown] \/ Astray(owner[shown])
        /\ photoLoad[shown] = "shown" /\ image = "default" => Lost(owner[shown])

\* What a save writes, and for whom.
SaveInv(s) ==
    Sent(s) =>
        /\ save[s].stage # "none" /\ save[s].account \in Users
        /\ \A t \in 1..(s - 1) : Sent(t)
        /\ save[s].info # Nil
        /\ save[s].account \in complete => save[s].info.mail \/ Erased(save[s].account)
        /\ save[s].picture \in Users =>
              save[s].picture = save[s].account \/ Astray(save[s].account)
        /\ save[s].picture = "default" => save[s].blind \/ Lost(save[s].account)
        /\ save[s].stage \in {"update", "updated"} => save[s].target = NoUser
        /\ save[s].stage \in {"upload", "uploaded"} =>
              save[s].target = save[s].account \/ changes > save[s].since
        /\ save[s].since <= changes
        /\ save[s].since = changes => session = save[s].account

Last(s) == Sent(s) /\ \A t \in (s + 1)..MaxSaves : ~Sent(t)

\* Without an overlap only the last save is under way, and what it has stored stays.
SavedInv ==
    ~overlap => \A s \in Saves :
        /\ UnderWay(s) => Last(s)
        /\ Last(s) /\ save[s].stage \in {"updated", "upload", "uploaded", "succeeded", "success"}
              => profile[save[s].account] = save[s].info
        /\ Last(s) /\ save[s].stage \in {"uploaded", "succeeded", "success"}
              => photo[save[s].account] = save[s].picture \/ changes > save[s].since

IInv ==
    /\ ScreenInv /\ MailKept /\ PhotosSafe
    /\ LoadsInv /\ ShownInv /\ (\A s \in Saves : SaveInv(s)) /\ SavedInv

-----------------------------------------------------------------------------
SaveRecords ==
    [stage : Stages, screen : 0..MaxOpens,
     account : Users \cup {NoUser}, target : Users \cup {NoUser},
     info : Profiles, picture : Pictures, since : Nat, early : BOOLEAN, blind : BOOLEAN]

LEMMA NoSaveTyped == NoSave \in SaveRecords
  BY EditAssumption DEF NoSave, SaveRecords, Profiles, Stages, Pictures

LEMMA InitIInv == Init => IInv
  <1> SUFFICES ASSUME Init PROVE IInv
    OBVIOUS
  <1>1. NoSave.info \in Profiles
    BY DEF NoSave, Profiles
  <1>2. NoSave \in SaveRecords
    BY NoSaveTyped
  <1>3. /\ profile \in [Users -> Profiles \cup {Nil}]
        /\ photo \in [Users -> Pictures \cup {"none"}]
        /\ \A u \in complete : profile[u] # Nil /\ profile[u].mail
        /\ \A u \in Users : photo[u] \in {u, "none"}
    <2> PICK recorded \in SUBSET (Users \ complete), pictured \in SUBSET complete :
            /\ profile = [u \in Users |-> CASE u \in complete -> [text |-> Old, mail |-> TRUE]
                                            [] u \in recorded -> NoSave.info
                                            [] OTHER          -> Nil]
            /\ photo = [u \in Users |-> IF u \in pictured THEN u ELSE "none"]
      BY DEF Init
    <2>1. [text |-> Old, mail |-> TRUE] \in Profiles /\ Nil \notin Profiles
      BY EditAssumption DEF Profiles
    <2>2. complete \subseteq Users /\ recorded \cap complete = {}
      BY DEF Init
    <2>3. \A u \in Users : profile[u] = IF u \in complete THEN [text |-> Old, mail |-> TRUE]
                                        ELSE IF u \in recorded THEN NoSave.info ELSE Nil
      BY <2>2
    <2>4. profile \in [Users -> Profiles \cup {Nil}]
      BY <1>1, <2>1, <2>3
    <2>5. \A u \in complete : profile[u] # Nil /\ profile[u].mail
      BY <2>1, <2>2, <2>3
    <2> QED BY <2>4, <2>5 DEF Pictures
  <1>4. TypeOK
    <2>1. shown \in 0..MaxOpens /\ opens \in 0..MaxOpens /\ edits \in 0..MaxEdits
          /\ changes \in Nat /\ queued \in Seq(0..MaxOpens)
      BY EditAssumption DEF Init
    <2>2. running \in BOOLEAN /\ hud = "hidden" /\ picker \in BOOLEAN
          /\ signIn = "none" /\ overlap \in BOOLEAN /\ complete \in SUBSET Users
      BY DEF Init
    <2>3. info \in Profiles \cup {Nil} /\ typing \in Texts \cup {Nil} /\ image \in Pictures
      BY <1>1, <1>2 DEF Init, Pictures
    <2>4. /\ owner \in [Opens -> Users \cup {NoUser}]
          /\ profileLoad \in [Opens -> {"none", "sent", "answered", "shown"}]
          /\ photoLoad \in [Opens -> {"none", "sent", "answered", "shown", "failed"}]
          /\ downloaded \in [Opens -> Pictures \cup {"none"}]
      BY DEF Init
    <2>5. save = [s \in Saves |-> NoSave] /\ session \in Users /\ root = "LoggedIn"
      BY DEF Init
    <2> QED BY <1>2, <1>3, <2>1, <2>2, <2>3, <2>4, <2>5 DEF TypeOK, QueueOK, SaveRecords
  <1>5. \A s \in Saves : ~Sent(s) /\ ~UnderWay(s)
    BY DEF Init, Sent, UnderWay, NoSave
  <1>6. HudHasOwner /\ MailKept /\ LoadsInv /\ ShownInv
    BY <1>3 DEF Init, HudHasOwner, MailKept, LoadsInv, ShownInv
  <1>7. PhotosSafe
    BY <1>3, EditAssumption DEF PhotosSafe, PhotoOfOwner, PhotoKept
  <1>8. (\A s \in Saves : SaveInv(s)) /\ SavedInv
    BY <1>5 DEF SaveInv, SavedInv, Last
  <1> QED BY <1>4, <1>6, <1>7, <1>8 DEF IInv, ScreenInv

\* What the saves, the servers and the session decide stays when they do.
LEMMA SavesStay ==
    ASSUME IInv, UNCHANGED <<save, servers, overlap, complete, session, changes>>
    PROVE  /\ MailKept' /\ PhotosSafe' /\ (\A s \in Saves : SaveInv(s)') /\ SavedInv'
           /\ \A u : Erased(u)' = Erased(u) /\ Lost(u)' = Lost(u) /\ Astray(u)' = Astray(u)
           /\ UNCHANGED loads => LoadsInv'
  <1> USE DEF servers
  <1>1. \A u : Erased(u)' = Erased(u) /\ Lost(u)' = Lost(u) /\ Astray(u)' = Astray(u)
    BY DEF Erased, Lost, Astray
  <1>2. MailKept' /\ PhotosSafe'
    BY <1>1 DEF IInv, MailKept, PhotosSafe, PhotoOfOwner, PhotoKept
  <1>3. \A s \in Saves : Sent(s)' = Sent(s) /\ UnderWay(s)' = UnderWay(s) /\ Last(s)' = Last(s)
    BY DEF Sent, UnderWay, Last
  <1>4. ASSUME NEW s \in Saves PROVE SaveInv(s)'
    BY <1>1, <1>3 DEF IInv, SaveInv, Sent
  <1>5. SavedInv'
    BY <1>3 DEF IInv, SavedInv
  <1>6. UNCHANGED loads => LoadsInv'
    BY <1>1 DEF IInv, LoadsInv, Explained, loads
  <1> QED BY <1>1, <1>2, <1>4, <1>5, <1>6

\* The end of an edit puts the text into the profile, if there is one.
LEMMA EndEditingStep ==
    ASSUME TypeOK, EndEditing
    PROVE  /\ typing' = Nil /\ info' \in Profiles \cup {Nil} /\ (info' # Nil => info # Nil)
           /\ info' # Nil => info'.mail = info.mail
  BY DEF TypeOK, EndEditing, Profiles

\* The queue holds screens, and the message of a logout.
LEMMA QueueStep == ASSUME IInv, [Next]_vars PROVE QueueOK'
  <1>1. QueueOK /\ shown \in 0..MaxOpens /\ 0 \in 0..MaxOpens
    BY EditAssumption DEF IInv, ScreenInv, TypeOK
  <1>2. CASE UNCHANGED queued
    BY <1>1, <1>2 DEF QueueOK
  <1>3. CASE SelectNewImage \/ Logout
    <2>1. PICK block \in 0..MaxOpens : queued' = Append(queued, block)
      BY <1>1, <1>3 DEF SelectNewImage, Logout
    <2> QED BY <1>1, <2>1 DEF QueueOK
  <1>4. CASE TapBlock
    BY <1>1, <1>4 DEF TapBlock, LogoutHidesHud, PresentPicker, Runs, QueueOK
  <1>5. CASE User /\ ~SelectNewImage
    BY <1>2, <1>5 DEF User, ViewDidLoad, ViewDidLoadRaises, ReturnKey, Back, ClosePicker, SaveRaises,
                      SaveIncomplete, SaveNothing, EditField, SaveBarBtn, Raise, screen, album
  <1>6. CASE Session /\ ~Logout
    BY <1>2, <1>6 DEF Session, SessionInvalidated, SignIn, SignInFails, SignedIn, SignInSucceeds,
                      screen, album
  <1>7. ASSUME NEW o \in Opens, Load(o) PROVE QueueOK'
    BY <1>2, <1>7 DEF Load, ProfileAnswered, ProfileShown, PhotoAnswered, PhotoShown, PhotoFailed,
                      screen, album
  <1>8. ASSUME NEW s \in Saves, Saving(s) PROVE QueueOK'
    BY <1>2, <1>8 DEF Saving, ServerUpdates, ServerUploads, ServerRefuses, Updated, Uploaded,
                      Refused, ShowSuccess, ShowError, screen, album
  <1>9. CASE UNCHANGED vars
    BY <1>2, <1>9 DEF vars, screen, album
  <1> QED BY <1>3, <1>4, <1>5, <1>6, <1>7, <1>8, <1>9 DEF Next

\* The form and its blocks touch no save and no load.
LEMMA FormStep ==
    ASSUME IInv, QueueOK',
           \/ ReturnKey \/ Back \/ SelectNewImage \/ ClosePicker \/ SaveIncomplete
           \/ SaveNothing \/ ViewDidLoadRaises \/ SaveRaises
           \/ (\E text \in Texts : EditField(text)) \/ TapBlock
    PROVE  IInv'
  <1> USE DEF album, screen, loads, servers, history, device
  <1>1. UNCHANGED <<save, servers, overlap, complete, session, changes, root, signIn, loads>>
    BY DEF ReturnKey, Back, SelectNewImage, ClosePicker, SaveIncomplete, SaveNothing,
           ViewDidLoadRaises, SaveRaises, Raise, EditField, TapBlock, LogoutHidesHud, PresentPicker, Runs
  <1>2. TypeOK'
    <2> USE DEF IInv, ScreenInv
    <2>1. CASE ReturnKey
      BY <2>1, EndEditingStep DEF ReturnKey, TypeOK
    <2>2. CASE Back
      BY <2>2, EditAssumption DEF Back, TypeOK
    <2>3. CASE SelectNewImage
      BY <2>3, EditAssumption DEF SelectNewImage, InFront, TypeOK, Opens
    <2>4. CASE ClosePicker
      BY <2>4 DEF ClosePicker, TypeOK, Pictures
    <2>5. CASE SaveIncomplete \/ SaveNothing \/ ViewDidLoadRaises \/ SaveRaises
      BY <2>5 DEF SaveIncomplete, SaveNothing, ViewDidLoadRaises, SaveRaises, Raise, TypeOK
    <2>6. CASE \E text \in Texts : EditField(text)
      BY <2>6, EditAssumption DEF EditField, TypeOK
    <2>7. CASE TapBlock
      BY <2>7 DEF TapBlock, LogoutHidesHud, PresentPicker, Runs, TypeOK
    <2> QED BY <2>1, <2>2, <2>3, <2>4, <2>5, <2>6, <2>7
  <1>3. HudHasOwner'
    <2>1. CASE SelectNewImage
      <3>1. queued' # <<>>
        BY <2>1 DEF SelectNewImage, IInv, ScreenInv, TypeOK, QueueOK
      <3> QED BY <3>1 DEF HudHasOwner
    <2> QED BY <2>1 DEF IInv, ScreenInv, HudHasOwner, UnderWay, ReturnKey, Back, SelectNewImage, ClosePicker,
           SaveIncomplete, SaveNothing, ViewDidLoadRaises, SaveRaises, Raise, EditField, TapBlock, LogoutHidesHud, PresentPicker, Runs
  <1>4. LoadsInv'
    BY <1>1, SavesStay
  <1>5. ShownInv'
    <2>1. shown' = shown \/ shown' = 0
      BY DEF ReturnKey, Back, SelectNewImage, ClosePicker, SaveIncomplete, SaveNothing,
             ViewDidLoadRaises, SaveRaises, Raise, EditField, TapBlock, LogoutHidesHud, PresentPicker, Runs
    <2>2. image' = image \/ image' = "picked"
      BY DEF ReturnKey, Back, SelectNewImage, ClosePicker, SaveIncomplete, SaveNothing,
             ViewDidLoadRaises, SaveRaises, Raise, EditField, TapBlock, LogoutHidesHud, PresentPicker, Runs
    <2>3. info' # Nil => info # Nil /\ info'.mail = info.mail
      BY EndEditingStep
      DEF IInv, ScreenInv, ReturnKey, Back, SelectNewImage, ClosePicker, SaveIncomplete,
          SaveNothing, ViewDidLoadRaises, SaveRaises, Raise, EditField, TapBlock, LogoutHidesHud, PresentPicker, Runs
    <2> QED BY <1>1, <2>1, <2>2, <2>3, SavesStay, EditAssumption DEF IInv, ShownInv
  <1> QED BY <1>1, <1>2, <1>3, <1>4, <1>5, SavesStay DEF IInv, ScreenInv

\* A screen that opens has loaded nothing.
LEMMA OpenStep == ASSUME IInv, QueueOK', ViewDidLoad PROVE IInv'
  <1> USE DEF album, screen, loads, servers, history, device
  <1>1. UNCHANGED <<save, servers, overlap, complete, session, changes, root, signIn>>
    BY DEF ViewDidLoad
  <1>2. opens + 1 \in Opens /\ opens + 1 # 0 /\ session \in Users /\ root = "LoggedIn"
    BY EditAssumption DEF ViewDidLoad, Opening, IInv, ScreenInv, TypeOK, Opens
  <1>3. NoSave.info \in Profiles
    BY DEF NoSave, Profiles
  <1>4. TypeOK'
    BY <1>2, <1>3 DEF IInv, ScreenInv, TypeOK, ViewDidLoad, Pictures, Opens
  <1>5. HudHasOwner'
    BY <1>2 DEF IInv, ScreenInv, TypeOK, ViewDidLoad, HudHasOwner
  <1>6. LoadsInv'
    <2>1. \A u : Lost(u)' = Lost(u) /\ Astray(u)' = Astray(u)
      BY <1>1, SavesStay
    <2> QED BY <1>2, <2>1 DEF IInv, ScreenInv, TypeOK, LoadsInv, Explained, ViewDidLoad
  <1>7. ShownInv'
    BY <1>1, <1>2, EditAssumption DEF IInv, ScreenInv, TypeOK, ShownInv, ViewDidLoad
  <1> QED BY <1>1, <1>4, <1>5, <1>6, <1>7, SavesStay DEF IInv, ScreenInv

\* What a screen loads is what its account has, whichever screen is open by then.
LEMMA LoadStep == ASSUME IInv, QueueOK', NEW o \in Opens, Load(o) PROVE IInv'
  <1> USE DEF album, screen, loads, servers, history, device
  <1>1. UNCHANGED <<save, servers, overlap, complete, session, changes, root, signIn, owner, shown>>
    BY DEF Load, ProfileAnswered, ProfileShown, PhotoAnswered, PhotoShown, PhotoFailed
  <1>2. owner[o] \in Users
    BY DEF IInv, LoadsInv, Load, ProfileAnswered, ProfileShown, PhotoAnswered, PhotoShown, PhotoFailed
  <1>3. \A p \in Readable(owner[o]) : /\ p \in Profiles \cup {Nil}
                                      /\ p # Nil /\ owner[o] \in complete
                                            => p.mail \/ Erased(owner[o])
    <2>1. owner[o] \in complete => profile[owner[o]].mail \/ Erased(owner[o])
      BY <1>2 DEF IInv, MailKept, Erased
    <2>2. ASSUME NEW s \in Saves, save[s].account = owner[o],
                 save[s].stage \in {"update", "refused"}
          PROVE  /\ save[s].info \in Profiles
                 /\ owner[o] \in complete => save[s].info.mail \/ Erased(owner[o])
      BY <2>2 DEF IInv, ScreenInv, TypeOK, SaveInv, Sent, NoSave
    <2>3. profile[owner[o]] \in Profiles \cup {Nil}
      BY <1>2 DEF IInv, ScreenInv, TypeOK
    <2> QED BY <2>1, <2>2, <2>3 DEF Readable
  <1>4. CASE ProfileAnswered(o)
    <2>1. PICK p \in Readable(owner[o]) : info' = IF o = shown THEN p ELSE info
      BY <1>4 DEF ProfileAnswered
    <2>2. TypeOK'
      BY <1>3, <1>4, <2>1 DEF ProfileAnswered, IInv, ScreenInv, TypeOK
    <2>3. HudHasOwner'
      BY <1>4 DEF ProfileAnswered, IInv, ScreenInv, TypeOK, HudHasOwner, UnderWay
    <2>4. LoadsInv'
      <3>1. \A u : Lost(u)' = Lost(u) /\ Astray(u)' = Astray(u)
        BY <1>1, SavesStay
      <3> QED BY <1>2, <1>4, <3>1 DEF ProfileAnswered, IInv, ScreenInv, TypeOK, LoadsInv, Explained
    <2>5. ShownInv'
      <3>1. \A u : Erased(u)' = Erased(u) /\ Lost(u)' = Lost(u) /\ Astray(u)' = Astray(u)
        BY <1>1, SavesStay
      <3>2. image' = image /\ photoLoad' = photoLoad
            /\ profileLoad' = [profileLoad EXCEPT ![o] = "answered"]
        BY <1>4 DEF ProfileAnswered
      <3>3. CASE o = shown
        BY <1>1, <1>3, <2>1, <3>1, <3>2, <3>3 DEF IInv, ScreenInv, TypeOK, ShownInv
      <3>4. CASE o # shown
        BY <1>1, <2>1, <3>1, <3>2, <3>4 DEF IInv, ScreenInv, TypeOK, ShownInv
      <3> QED BY <3>3, <3>4
    <2> QED BY <1>1, <2>2, <2>3, <2>4, <2>5, SavesStay DEF IInv, ScreenInv
  <1>5. CASE ProfileShown(o)
    <2>1. /\ typing' \in Texts \cup {Nil} /\ info' \in Profiles \cup {Nil}
          /\ info' # Nil => info # Nil /\ info'.mail = info.mail
      BY <1>5, EndEditingStep DEF ProfileShown, IInv, ScreenInv, TypeOK
    <2>2. TypeOK'
      BY <1>5, <2>1 DEF ProfileShown, IInv, ScreenInv, TypeOK
    <2>3. HudHasOwner'
      BY <1>5 DEF ProfileShown, HudHasOwner
    <2>4. LoadsInv'
      <3>1. \A u : Lost(u)' = Lost(u) /\ Astray(u)' = Astray(u)
        BY <1>1, SavesStay
      <3> QED BY <1>2, <1>5, <3>1 DEF ProfileShown, IInv, ScreenInv, TypeOK, LoadsInv, Explained
    <2>5. ShownInv'
      <3>1. \A u : Erased(u)' = Erased(u) /\ Lost(u)' = Lost(u) /\ Astray(u)' = Astray(u)
        BY <1>1, SavesStay
      <3>2. image' = image /\ photoLoad' = photoLoad /\ profileLoad[o] = "answered"
            /\ profileLoad' = [profileLoad EXCEPT ![o] = "shown"]
        BY <1>5 DEF ProfileShown
      <3> QED BY <1>1, <2>1, <3>1, <3>2 DEF IInv, ScreenInv, TypeOK, ShownInv
    <2> QED BY <1>1, <2>2, <2>3, <2>4, <2>5, SavesStay DEF IInv, ScreenInv
  <1>7. CASE PhotoAnswered(o)
    <2>1. /\ photoLoad' = [photoLoad EXCEPT ![o] = "answered"]
          /\ downloaded' = [downloaded EXCEPT ![o] = photo[owner[o]]]
          /\ photo[owner[o]] \in Pictures
          /\ UNCHANGED <<info, typing, image, profileLoad>>
      BY <1>2, <1>7 DEF PhotoAnswered, IInv, ScreenInv, TypeOK
    <2>2. TypeOK'
      BY <1>7, <2>1 DEF PhotoAnswered, IInv, ScreenInv, TypeOK
    <2>3. HudHasOwner'
      BY <1>7 DEF PhotoAnswered, IInv, ScreenInv, HudHasOwner, UnderWay
    <2>4. \A u : Erased(u)' = Erased(u) /\ Lost(u)' = Lost(u) /\ Astray(u)' = Astray(u)
      BY <1>1, SavesStay
    <2>5. LoadsInv'
      <3>1. Explained(owner[o], photo[owner[o]])
        BY <1>2 DEF IInv, PhotosSafe, PhotoOfOwner, PhotoKept, Lost, Explained
      <3> QED BY <1>1, <1>2, <2>1, <2>4, <3>1
              DEF IInv, ScreenInv, TypeOK, LoadsInv, Explained
    <2>6. ShownInv'
      BY <1>1, <2>1, <2>4 DEF IInv, ScreenInv, TypeOK, ShownInv
    <2> QED BY <1>1, <2>2, <2>3, <2>5, <2>6, SavesStay DEF IInv, ScreenInv
  <1>6. CASE PhotoShown(o) \/ PhotoFailed(o)
    <2>1. /\ photoLoad' = [photoLoad EXCEPT ![o] = IF PhotoShown(o) THEN "shown" ELSE "failed"]
          /\ UNCHANGED <<info, typing, profileLoad>>
          /\ image' = IF PhotoShown(o) /\ o = shown THEN downloaded[o] ELSE image
          /\ downloaded' = IF PhotoShown(o) THEN [downloaded EXCEPT ![o] = "none"] ELSE downloaded
          /\ PhotoShown(o) =>
                downloaded[o] \in Pictures /\ Explained(owner[o], downloaded[o])
      BY <1>6 DEF PhotoShown, PhotoFailed, IInv, LoadsInv
    <2>2. TypeOK'
      <3>1. CASE PhotoShown(o)
        BY <2>1, <3>1 DEF PhotoShown, IInv, ScreenInv, TypeOK
      <3>2. CASE ~PhotoShown(o)
        BY <1>6, <2>1, <3>2 DEF PhotoFailed, IInv, ScreenInv, TypeOK
      <3> QED BY <3>1, <3>2
    <2>3. HudHasOwner'
      BY <1>6 DEF PhotoShown, PhotoFailed, IInv, ScreenInv, HudHasOwner, UnderWay
    <2>4. LoadsInv'
      <3>1. \A u : Lost(u)' = Lost(u) /\ Astray(u)' = Astray(u)
        BY <1>1, SavesStay
      <3> QED BY <1>2, <1>1, <2>1, <3>1 DEF IInv, ScreenInv, TypeOK, LoadsInv, Explained
    <2>5. ShownInv'
      <3>1. \A u : Erased(u)' = Erased(u) /\ Lost(u)' = Lost(u) /\ Astray(u)' = Astray(u)
        BY <1>1, SavesStay
      <3> QED BY <1>1, <2>1, <3>1 DEF Explained, IInv, ScreenInv, TypeOK, ShownInv
    <2> QED BY <1>1, <2>2, <2>3, <2>4, <2>5, SavesStay DEF IInv, ScreenInv
  <1> QED BY <1>4, <1>5, <1>6, <1>7 DEF Load

-----------------------------------------------------------------------------
\* A save keeps what it was tapped with.
Tapped(s) ==
    /\ Sent(s) /\ Sent(s)'
    /\ save'[s].account = save[s].account /\ save'[s].info = save[s].info
    /\ save'[s].picture = save[s].picture /\ save'[s].since = save[s].since
    /\ save'[s].early = save[s].early /\ save'[s].blind = save[s].blind

LEMMA NoSaveIs ==
    /\ NoSave.stage = "none" /\ NoSave.account = NoUser /\ NoSave.target = NoUser
    /\ NoSave.early = FALSE /\ NoSave.blind = FALSE
  BY DEF NoSave

\* What was done to an account is not undone.
LEMMA DeedsStay ==
    ASSUME EditAssumption, NEW u \in Users,
           \A t \in Saves : Sent(t) =>
              Tapped(t) /\ (save[t].target \in Users => save'[t].target = save[t].target)
    PROVE  /\ Erased(u) => Erased(u)'
           /\ Astray(u) => Astray(u)'
           /\ Lost(u) => Lost(u)'
  <1>1. \A t \in Saves : save[t].account = u \/ save[t].target = u => Sent(t)
    BY EditAssumption DEF Sent, NoSave
  <1>2. Erased(u) => Erased(u)'
    BY <1>1 DEF Erased, Tapped
  <1>3. Astray(u) => Astray(u)'
    BY <1>1 DEF Astray, Tapped
  <1>4. Lost(u) => Lost(u)'
    BY <1>1, <1>3 DEF Lost, Tapped
  <1> QED BY <1>2, <1>3, <1>4

\* A save that is tapped takes what the screen shows, for the account signed in.
LEMMA TapStep == ASSUME IInv, QueueOK', NEW s \in Saves, SaveBarBtn(s) PROVE IInv'
  <1> USE DEF album, screen, loads, servers, history, device
  <1> DEFINE early == profileLoad[shown] = "sent"
             blind == photoLoad[shown] # "shown"
             begun == [NoSave EXCEPT !.stage = "update", !.screen = shown, !.account = session,
                                     !.info = info]
             new   == [begun EXCEPT !.picture = image, !.since = changes,
                                    !.early = early, !.blind = blind]
  <1>1. /\ new.stage = "update" /\ new.screen = shown /\ new.account = session
        /\ new.info = info /\ new.picture = image /\ new.since = changes
        /\ new.early = (profileLoad[shown] = "sent") /\ new.blind = (photoLoad[shown] # "shown")
        /\ new.target = NoUser
    BY DEF NoSave
  <1>2. /\ shown # 0 /\ info # Nil /\ session # NoUser /\ save[s] = NoSave
        /\ \A t \in 1..(s - 1) : Sent(t)
        /\ save' = [save EXCEPT ![s] = new]
        /\ overlap' = (overlap \/ \E t \in Saves : UnderWay(t))
        /\ hud' = "shown"
        /\ UNCHANGED <<device, screen, loads, servers, complete>>
    BY DEF SaveBarBtn, InFront, Whole, Sent
  <1>3. new \in SaveRecords
    <2>1. DOMAIN new = DOMAIN NoSave /\ new = [f \in DOMAIN NoSave |-> new[f]]
      <3>1. DOMAIN begun = DOMAIN NoSave
        BY NoSaveTyped DEF SaveRecords
      <3> HIDE DEF begun, early, blind
      <3>2. DOMAIN new = DOMAIN begun /\ new = [f \in DOMAIN begun |-> new[f]]
        OBVIOUS
      <3> QED BY <3>1, <3>2
    <2> HIDE DEF new
    <2>2. DOMAIN NoSave = {"stage", "screen", "account", "target", "info", "picture",
                           "since", "early", "blind"}
      BY DEF NoSave
    <2>3. new = [stage |-> new.stage, screen |-> new.screen, account |-> new.account,
                 target |-> new.target, info |-> new.info, picture |-> new.picture,
                 since |-> new.since, early |-> new.early, blind |-> new.blind]
      BY <2>1, <2>2
    <2>4. /\ shown \in 0..MaxOpens /\ session \in Users /\ info \in Profiles
          /\ image \in Pictures /\ changes \in Nat /\ "update" \in Stages
          /\ early \in BOOLEAN /\ blind \in BOOLEAN
      BY <1>2 DEF IInv, ScreenInv, TypeOK, Stages
    <2> QED BY <1>1, <2>3, <2>4 DEF SaveRecords
  <1> HIDE DEF new
  <1>4. /\ save'[s] = new /\ \A t \in Saves : t # s => save'[t] = save[t]
        /\ DOMAIN save = Saves
    BY <1>2 DEF IInv, ScreenInv, TypeOK
  <1>5. TypeOK'
    BY <1>2, <1>3 DEF IInv, ScreenInv, TypeOK, SaveRecords
  <1>6. ~Sent(s) /\ Sent(s)' /\ UnderWay(s)'
    BY <1>1, <1>2, <1>4 DEF Sent, UnderWay, NoSave
  <1>7. HudHasOwner'
    BY <1>6 DEF HudHasOwner
  <1>8. \A t \in Saves : t # s => Sent(t)' = Sent(t) /\ UnderWay(t)' = UnderWay(t)
    BY <1>4 DEF Sent, UnderWay
  <1>9. \A u \in Users : /\ Erased(u) => Erased(u)'
                         /\ Astray(u) => Astray(u)'
                         /\ Lost(u) => Lost(u)'
    BY <1>4, <1>6, DeedsStay, EditAssumption DEF Tapped, Sent
  <1>10. MailKept' /\ PhotosSafe'
    <2>1. MailKept'
      BY <1>2, <1>9 DEF IInv, ScreenInv, TypeOK, MailKept, Erased
    <2>2. PhotosSafe'
      BY <1>2, <1>9 DEF IInv, PhotosSafe, PhotoOfOwner, PhotoKept, Lost
    <2> QED BY <2>1, <2>2
  <1>11. LoadsInv'
    BY <1>2, <1>9 DEF IInv, LoadsInv, Explained
  <1>12. ShownInv'
    BY <1>2, <1>9 DEF IInv, ShownInv
  <1>13. SaveInv(s)'
    <2> PICK u : u = session
      OBVIOUS
    <2>1. u = owner[shown] /\ u \in Users /\ session' = u
      BY <1>2 DEF IInv, ShownInv
    <2>2. new.early => Erased(u)'
      BY <1>1, <1>4 DEF Erased
    <2>3. u \in complete => info.mail \/ Erased(u)'
      BY <1>1, <1>2, <1>9, <2>1, <2>2 DEF IInv, ShownInv
    <2>4. image \in Users => image = u \/ Astray(u)'
      BY <1>2, <1>9, <2>1 DEF IInv, ShownInv
    <2>5. image = "default" => new.blind \/ Lost(u)'
      BY <1>1, <1>2, <1>9, <2>1 DEF IInv, ShownInv
    <2>6. \A t \in 1..(s - 1) : Sent(t)'
      <3>1. \A t \in 1..(s - 1) : t \in Saves /\ t # s
        BY EditAssumption DEF Saves
      <3> QED BY <1>2, <1>8, <3>1
    <2>7. changes \in Nat
      BY DEF IInv, ScreenInv, TypeOK
    <2> QED BY <1>1, <1>2, <1>4, <2>1, <2>3, <2>4, <2>5, <2>6, <2>7 DEF SaveInv
  <1>14. ASSUME NEW t \in Saves, t # s PROVE SaveInv(t)'
    <2>1. SUFFICES ASSUME Sent(t)' PROVE SaveInv(t)'
      BY DEF SaveInv
    <2>2. Sent(t) /\ save'[t] = save[t] /\ save[t].account \in Users
      BY <1>4, <1>8, <1>14, <2>1 DEF IInv, SaveInv
    <2>3. \A r \in 1..(t - 1) : Sent(r)'
      <3>1. \A r \in 1..(t - 1) : r \in Saves
        BY EditAssumption DEF Saves
      <3> QED BY <1>6, <1>8, <2>2, <3>1 DEF IInv, SaveInv
    <2> QED BY <1>2, <1>9, <2>2, <2>3 DEF IInv, SaveInv
  <1>15. SavedInv'
    <2> SUFFICES ASSUME ~overlap' PROVE SavedInv'
      BY DEF SavedInv
    <2>1. ~overlap /\ \A t \in Saves : ~UnderWay(t)
      BY <1>2
    <2>2. Last(s)'
      <3>1. \A t \in (s + 1)..MaxSaves : ~Sent(t)
        BY <1>6 DEF IInv, SaveInv, Saves
      <3> QED BY <1>6, <1>8, <3>1 DEF Last, Saves
    <2>3. ASSUME NEW t \in Saves, t # s PROVE ~UnderWay(t)' /\ ~Last(t)'
      <3>1. ~UnderWay(t)'
        BY <1>8, <2>1, <2>3
      <3>2. CASE t < s
        <4>1. s \in (t + 1)..MaxSaves
          BY <3>2, EditAssumption DEF Saves
        <4> QED BY <1>6, <3>1, <4>1 DEF Last
      <3>3. CASE t > s
        <4>1. s \in 1..(t - 1)
          BY <3>3 DEF Saves
        <4>2. Sent(t)' => Sent(s)
          BY <1>8, <2>3, <4>1 DEF IInv, SaveInv
        <4> QED BY <1>6, <3>1, <4>2 DEF Last
      <3> QED BY <2>3, <3>1, <3>2, <3>3 DEF Saves
    <2> QED BY <1>1, <1>4, <2>2, <2>3 DEF SavedInv
  <1> QED BY <1>5, <1>7, <1>10, <1>11, <1>12, <1>13, <1>14, <1>15 DEF IInv, ScreenInv

Moved(s, stage, target) == [save EXCEPT ![s].stage = stage, ![s].target = target]

\* The steps of a save: it goes on to a stage, and the callback of the update reads
\* the account again.
LEMMA SaveMoves ==
    ASSUME IInv, NEW s \in Saves, NEW stage \in Stages \ {"none"}, NEW target \in Users \cup {NoUser},
           save[s].stage # "none", save[s].target \in {NoUser, target},
           save' = Moved(s, stage, target)
    PROVE  /\ \A t \in Saves :
                /\ Sent(t)' = Sent(t) /\ Last(t)' = Last(t)
                /\ Sent(t) => Tapped(t)
                /\ t # s => save'[t] = save[t] /\ UnderWay(t)' = UnderWay(t)
           /\ Sent(s) /\ save'[s].stage = stage /\ save'[s].target = target
           /\ UnderWay(s)' = (stage \notin {"success", "error"})
           /\ \A u \in Users : /\ Erased(u) => Erased(u)'
                               /\ Astray(u) => Astray(u)'
                               /\ Lost(u) => Lost(u)'
           /\ save' \in [Saves -> SaveRecords]
  <1>1. /\ \A t \in Saves : t # s => save'[t] = save[t]
        /\ save'[s] = [save[s] EXCEPT !.stage = stage, !.target = target]
    BY DEF IInv, ScreenInv, TypeOK, Moved
  <1>2. /\ save'[s].stage = stage /\ save'[s].target = target
        /\ save'[s].account = save[s].account /\ save'[s].info = save[s].info
        /\ save'[s].picture = save[s].picture /\ save'[s].since = save[s].since
        /\ save'[s].early = save[s].early /\ save'[s].blind = save[s].blind
    BY <1>1 DEF IInv, ScreenInv, TypeOK
  <1>3. Sent(s) /\ Sent(s)'
    BY <1>2, NoSaveIs DEF Sent
  <1>4. \A t \in Saves : /\ Sent(t)' = Sent(t)
                         /\ Sent(t) => Tapped(t)
                         /\ t # s => UnderWay(t)' = UnderWay(t)
    BY <1>1, <1>2, <1>3 DEF Sent, Tapped, UnderWay
  <1>5. \A t \in Saves : Last(t)' = Last(t)
    <2> TAKE t \in Saves
    <2>1. (t + 1)..MaxSaves \subseteq Saves
      BY DEF Saves
    <2> QED BY <1>4, <2>1 DEF Last
  <1>6. UnderWay(s)' = (stage \notin {"success", "error"})
    BY <1>2 DEF UnderWay
  <1>7. \A u \in Users : /\ Erased(u) => Erased(u)'
                         /\ Astray(u) => Astray(u)'
                         /\ Lost(u) => Lost(u)'
    <2>1. \A t \in Saves : save[t].target \in Users => save'[t].target = save[t].target
      BY <1>1, <1>2, EditAssumption
    <2> QED BY <1>4, <2>1, DeedsStay, EditAssumption
  <1>8. save' \in [Saves -> SaveRecords]
    <2>1. save \in [Saves -> SaveRecords]
      BY DEF IInv, ScreenInv, TypeOK, SaveRecords
    <2>2. save'[s] \in SaveRecords
      BY <1>1, <2>1 DEF SaveRecords
    <2>3. save' = [t \in Saves |-> save'[t]]
      BY <2>1 DEF Moved
    <2> QED BY <1>1, <2>1, <2>2, <2>3
  <1> QED BY <1>1, <1>2, <1>3, <1>4, <1>5, <1>6, <1>7, <1>8

LEMMA OneLast == ASSUME NEW s \in Saves, NEW t \in Saves, Last(s), Last(t) PROVE s = t
  <1>1. CASE t > s
    <2>1. t \in (s + 1)..MaxSaves
      BY <1>1, EditAssumption DEF Saves
    <2> QED BY <2>1 DEF Last
  <1>2. CASE s > t
    <2>1. s \in (t + 1)..MaxSaves
      BY <1>2, EditAssumption DEF Saves
    <2> QED BY <2>1 DEF Last
  <1> QED BY <1>1, <1>2 DEF Saves

\* A save that goes on disturbs no screen and no other save.
LEMMA MoveStep ==
    ASSUME IInv, NEW s \in Saves, NEW stage \in Stages \ {"none"}, NEW target \in Users \cup {NoUser},
           save[s].stage # "none", save[s].target \in {NoUser, target},
           save' = Moved(s, stage, target),
           stage \in {"update", "updated"} => target = NoUser,
           stage \in {"upload", "uploaded"} =>
              target = save[s].account \/ changes > save[s].since,
           UNCHANGED <<device, info, image, loads, overlap, complete>>, shown' \in {shown, 0}
    PROVE  /\ LoadsInv' /\ ShownInv' /\ \A t \in Saves : SaveInv(t)'
           /\ profile' = profile => MailKept'
           /\ photo' = photo => PhotosSafe'
  <1> USE DEF device, loads
  <1>1. \A u \in Users : /\ Erased(u) => Erased(u)'
                         /\ Astray(u) => Astray(u)'
                         /\ Lost(u) => Lost(u)'
    BY SaveMoves
  <1>2. LoadsInv'
    BY <1>1 DEF IInv, LoadsInv, Explained
  <1>3. ShownInv'
    BY <1>1 DEF IInv, ShownInv
  <1>4. profile' = profile => MailKept'
    <2>1. \A u \in complete : u \in Users /\ profile[u] # Nil /\ (profile[u].mail \/ Erased(u))
      BY DEF IInv, ScreenInv, TypeOK, MailKept, Erased
    <2>2. profile' = profile =>
            \A u \in complete : profile'[u] # Nil /\ (profile'[u].mail \/ Erased(u)')
      BY <1>1, <2>1
    <2> QED BY <2>2 DEF MailKept, Erased
  <1>5. photo' = photo => PhotosSafe'
    BY <1>1 DEF IInv, PhotosSafe, PhotoOfOwner, PhotoKept, Lost
  <1>6. ASSUME NEW t \in Saves PROVE SaveInv(t)'
    <2>1. SUFFICES ASSUME Sent(t)' PROVE SaveInv(t)'
      BY DEF SaveInv
    <2>2. Sent(t) /\ Tapped(t) /\ save[t].account \in Users
      BY <2>1, SaveMoves DEF IInv, SaveInv
    <2>3. \A r \in 1..(t - 1) : Sent(r)'
      <3>1. \A r \in 1..(t - 1) : r \in Saves
        BY EditAssumption DEF Saves
      <3> QED BY <2>2, <3>1, SaveMoves DEF IInv, SaveInv
    <2>4. CASE t = s
      <3>1. save'[t].stage = stage /\ save'[t].target = target
        BY <2>4, SaveMoves
      <3> QED BY <1>1, <2>2, <2>3, <2>4, <3>1 DEF IInv, SaveInv, Tapped
    <2>5. CASE t # s
      <3>1. save'[t] = save[t]
        BY <2>5, SaveMoves
      <3> QED BY <1>1, <2>2, <2>3, <3>1 DEF IInv, SaveInv
    <2> QED BY <2>4, <2>5
  <1> QED BY <1>2, <1>3, <1>4, <1>5, <1>6

\* Without an overlap, what holds of the save that goes on is all there is to show.
LEMMA SavedStep ==
    ASSUME IInv, NEW s \in Saves, NEW stage \in Stages \ {"none"}, NEW target \in Users \cup {NoUser},
           UnderWay(s), save[s].target \in {NoUser, target},
           save' = Moved(s, stage, target),
           UNCHANGED <<overlap, changes>>,
           stage \in {"updated", "upload", "uploaded", "succeeded", "success"}
              /\ ~overlap /\ Last(s) => profile'[save[s].account] = save[s].info,
           stage \in {"uploaded", "succeeded", "success"} /\ ~overlap /\ Last(s) =>
              photo'[save[s].account] = save[s].picture \/ changes > save[s].since
    PROVE  SavedInv'
  <1> SUFFICES ASSUME ~overlap' PROVE SavedInv'
    BY DEF SavedInv
  <1>1. save[s].stage # "none" /\ Last(s)
    BY DEF UnderWay, IInv, SavedInv
  <1>2. /\ Tapped(s) /\ Last(s)' /\ save'[s].stage = stage
        /\ \A t \in Saves : /\ t # s => UnderWay(t)' = UnderWay(t)
                            /\ Last(t)' = Last(t)
    BY <1>1, SaveMoves
  <1>3. \A t \in Saves : Last(t)' => t = s
    BY <1>1, <1>2, OneLast
  <1>4. \A t \in Saves : UnderWay(t)' => Last(t)'
    BY <1>2 DEF IInv, SavedInv
  <1> QED BY <1>1, <1>2, <1>3, <1>4 DEF SavedInv, Tapped

\* A save goes on without reading the account.
LEMMA SameTarget ==
    ASSUME IInv, NEW s \in Saves, NEW stage, save' = [save EXCEPT ![s].stage = stage]
    PROVE  /\ save' = Moved(s, stage, save[s].target)
           /\ save[s].target \in Users \cup {NoUser}
           /\ save'[s].stage = stage
  <1>1. save \in [Saves -> SaveRecords]
    BY DEF IInv, ScreenInv, TypeOK, SaveRecords
  <1>2. save[s] \in SaveRecords
    BY <1>1
  <1>3. [save[s] EXCEPT !.stage = stage]
            = [save[s] EXCEPT !.stage = stage, !.target = save[s].target]
    BY <1>2 DEF SaveRecords
  <1> QED BY <1>1, <1>2, <1>3 DEF SaveRecords, Moved

LEMMA ServerStep ==
    ASSUME IInv, QueueOK', NEW s \in Saves, ServerUpdates(s) \/ ServerUploads(s) \/ ServerRefuses(s)
    PROVE  IInv'
  <1> USE DEF album, screen, servers, history
  <1> PICK stage : stage = IF ServerUpdates(s) THEN "updated"
                           ELSE IF ServerUploads(s) THEN "uploaded" ELSE "refused"
    OBVIOUS
  <1> PICK target : target = save[s].target
    OBVIOUS
  <1> PICK u : u = save[s].account
    OBVIOUS
  <1>1. /\ save' = [save EXCEPT ![s].stage = stage] /\ stage \in Stages \ {"none"}
        /\ save[s].stage \in {"update", "upload"}
        /\ UNCHANGED <<device, hud, screen, loads, history>>
    BY DEF ServerUpdates, ServerUploads, ServerRefuses, Stages
  <1>2. /\ save' = Moved(s, stage, target)
        /\ target \in Users \cup {NoUser} /\ UnderWay(s) /\ Sent(s) /\ UnderWay(s)'
    <2>1. /\ save' = Moved(s, stage, target)
          /\ target \in Users \cup {NoUser} /\ save'[s].stage = stage
      <3>1. save' = [save EXCEPT ![s].stage = stage]
        BY <1>1
      <3> QED BY <3>1, SameTarget
    <2>2. stage \in {"updated", "uploaded", "refused"}
      OBVIOUS
    <2>3. UnderWay(s) /\ Sent(s)
      BY <1>1, NoSaveIs DEF UnderWay, Sent
    <2> QED BY <2>1, <2>2, <2>3 DEF UnderWay
  <1>3. /\ u \in Users /\ save[s].info \in Profiles /\ save[s].picture \in Pictures
        /\ save[s].stage = "update" => target = NoUser
        /\ save[s].stage = "upload" => target = u \/ changes > save[s].since
        /\ ServerUpdates(s) => save[s].stage = "update"
        /\ ServerUploads(s) => save[s].stage = "upload"
    <2>1. u \in Users /\ (save[s].stage = "update" => target = NoUser)
          /\ (save[s].stage = "upload" => target = u \/ changes > save[s].since)
      BY <1>2 DEF IInv, SaveInv
    <2>2. save[s].info \in Profiles /\ save[s].picture \in Pictures
      BY DEF IInv, ScreenInv, TypeOK
    <2> QED BY <2>1, <2>2 DEF ServerUpdates, ServerUploads
  <1>4. /\ profile' = IF ServerUpdates(s) THEN [profile EXCEPT ![u] = save[s].info]
                                          ELSE profile
        /\ \/ UNCHANGED photo /\ ~ServerUploads(s)
           \/ /\ StorePhoto(s) /\ save[s].stage = "upload"
    BY <1>1 DEF ServerUpdates, ServerUploads, ServerRefuses
  <1>5. /\ save' \in [Saves -> SaveRecords] /\ Tapped(s) /\ save'[s].target = target
        /\ \A v \in Users : /\ Erased(v) => Erased(v)'
                            /\ Astray(v) => Astray(v)'
                            /\ Lost(v) => Lost(v)'
    <2>1. save[s].stage # "none" /\ save[s].target \in {NoUser, target}
      BY <1>1
    <2>2. save' = Moved(s, stage, target)
      BY <1>2
    <2>3. stage \in Stages \ {"none"} /\ target \in Users \cup {NoUser}
      BY <1>1, <1>2
    <2> QED BY <1>2, <2>1, <2>2, <2>3, SaveMoves
  <1>6. TypeOK'
    <2>1. photo' \in [Users -> Pictures \cup {"none"}]
      BY <1>2, <1>3, <1>4 DEF StorePhoto, IInv, ScreenInv, TypeOK
    <2>2. profile' \in [Users -> Profiles \cup {Nil}]
      BY <1>3, <1>4 DEF IInv, ScreenInv, TypeOK
    <2> QED BY <1>1, <1>5, <2>1, <2>2 DEF IInv, ScreenInv, TypeOK, SaveRecords, device, loads
  <1>7. HudHasOwner'
    BY <1>2 DEF HudHasOwner
  <1>8. /\ LoadsInv' /\ ShownInv' /\ \A t \in Saves : SaveInv(t)'
        /\ profile' = profile => MailKept'
        /\ photo' = photo => PhotosSafe'
    <2>1. stage \in {"update", "updated"} => target = NoUser
      BY <1>3
    <2>2. stage \in {"upload", "uploaded"} => target = u \/ changes > save[s].since
      BY <1>3
    <2> QED BY <1>1, <1>2, <2>1, <2>2, MoveStep
  <1>9. MailKept'
    <2>1. CASE ~ServerUpdates(s)
      BY <1>4, <1>8, <2>1
    <2>2. CASE ServerUpdates(s)
      <3>1. save[s].info # Nil /\ (u \in complete => save[s].info.mail \/ Erased(u)')
        BY <1>2, <1>3, <1>5 DEF IInv, SaveInv
      <3>2. ASSUME NEW v \in complete
            PROVE  v \in Users /\ profile'[v] # Nil /\ (profile'[v].mail \/ Erased(v)')
        <4>3. v \in Users
          BY DEF IInv, ScreenInv, TypeOK
        <4>1. CASE v = u
          BY <1>3, <1>4, <2>2, <3>1, <4>1, <4>3 DEF IInv, ScreenInv, TypeOK
        <4>2. CASE v # u
          <5>1. profile'[v] = profile[v]
            BY <1>3, <1>4, <2>2, <4>2, <4>3 DEF IInv, ScreenInv, TypeOK
          <5> QED BY <1>5, <4>3, <5>1 DEF IInv, MailKept, Erased
        <4> QED BY <4>1, <4>2
      <3>3. complete' = complete
        BY <1>1
      <3> QED BY <3>2, <3>3 DEF MailKept, Erased
    <2> QED BY <2>1, <2>2
  <1>10. PhotosSafe'
    <2>1. CASE photo' = photo
      BY <1>8, <2>1
    <2>2. CASE photo' # photo
      <3>1. /\ target \in Users
            /\ photo' = [photo EXCEPT ![target] = save[s].picture]
        BY <1>2, <1>4, <2>2 DEF StorePhoto
      <3>2. /\ save'[s].target = target /\ save'[s].account = u
            /\ save'[s].blind = save[s].blind
        BY <1>5 DEF Tapped
      <3>3. target # u => Astray(target)'
        BY <3>2 DEF Astray
      <3>4. save[s].picture \in Users => save[s].picture = target \/ Astray(target)'
        BY <1>2, <1>3, <1>5, <3>3 DEF IInv, SaveInv
      <3>5. save[s].picture = "default" => Lost(target)'
        BY <1>2, <1>3, <1>5, <3>2, <3>3 DEF IInv, SaveInv, Lost
      <3>6. ASSUME NEW v \in Users
            PROVE  /\ photo'[v] \in Users => photo'[v] = v \/ Astray(v)'
                   /\ photo'[v] = "default" => Lost(v)'
        <4>1. CASE v = target
          BY <3>1, <3>4, <3>5, <4>1 DEF IInv, ScreenInv, TypeOK
        <4>2. CASE v # target
          <5>1. photo'[v] = photo[v]
            BY <3>1, <4>2 DEF IInv, ScreenInv, TypeOK
          <5> QED BY <1>5, <5>1 DEF IInv, PhotosSafe, PhotoOfOwner, PhotoKept, Lost
        <4> QED BY <4>1, <4>2
      <3> QED BY <3>6 DEF PhotosSafe, PhotoOfOwner, PhotoKept, Lost
    <2> QED BY <2>1, <2>2
  <1>11. SavedInv'
    <2>1. stage \in {"updated", "upload", "uploaded", "succeeded", "success"}
             /\ ~overlap /\ Last(s) => profile'[u] = save[s].info
      <3>1. CASE ServerUpdates(s)
        BY <1>3, <1>4, <3>1 DEF IInv, ScreenInv, TypeOK
      <3>2. CASE ~ServerUpdates(s)
        BY <1>3, <1>4, <3>2 DEF IInv, SavedInv
      <3> QED BY <3>1, <3>2
    <2>2. stage \in {"uploaded", "succeeded", "success"} /\ ~overlap /\ Last(s) =>
             photo'[u] = save[s].picture \/ changes > save[s].since
      BY <1>3, <1>4, EditAssumption DEF StorePhoto, IInv, ScreenInv, TypeOK
    <2>3. UNCHANGED <<overlap, changes>> /\ save[s].target \in {NoUser, target}
          /\ stage \in Stages \ {"none"}
      BY <1>1 DEF device
    <2> QED BY <1>2, <2>1, <2>2, <2>3, SavedStep
  <1> QED BY <1>6, <1>7, <1>8, <1>9, <1>10, <1>11 DEF IInv, ScreenInv

LEMMA CallbackStep ==
    ASSUME IInv, QueueOK', NEW s \in Saves,
           Updated(s) \/ Uploaded(s) \/ Refused(s) \/ ShowSuccess(s) \/ ShowError(s)
    PROVE  IInv'
  <1> USE DEF album, screen, servers, history
  <1> DEFINE stage == IF Updated(s) THEN "upload" ELSE IF Uploaded(s) THEN "succeeded"
                      ELSE IF Refused(s) THEN "failed"
                      ELSE IF ShowSuccess(s) THEN "success" ELSE "error"
             target == IF Updated(s) THEN session ELSE save[s].target
  <1>1. /\ stage \in Stages \ {"none"}
        /\ UnderWay(s) /\ save[s].stage \in {"updated", "uploaded", "refused", "succeeded", "failed"}
        /\ Updated(s) => save[s].stage = "updated"
        /\ Uploaded(s) => save[s].stage = "uploaded"
        /\ ShowSuccess(s) => save[s].stage = "succeeded"
        /\ UNCHANGED <<device, opens, info, image, album, loads, servers, history>>
        /\ shown' \in {shown, 0} /\ typing' \in {typing, Nil}
        /\ hud' = hud \/ hud' = "hidden"
        /\ stage \in {"success", "error"} => hud' = "hidden"
    BY DEF Updated, Uploaded, Refused, ShowSuccess, ShowError, Stages, UnderWay
  <1>2. /\ save' = Moved(s, stage, target)
        /\ target \in Users \cup {NoUser} /\ save[s].target \in {NoUser, target}
    <2>1. CASE Updated(s)
      <3>1. save[s].target = NoUser /\ session \in Users \cup {NoUser}
        BY <2>1, NoSaveIs DEF Updated, IInv, ScreenInv, TypeOK, SaveInv, Sent
      <3> QED BY <2>1, <3>1 DEF Updated, Moved
    <2>2. CASE ~Updated(s)
      <3>1. save' = [save EXCEPT ![s].stage = stage]
        BY <2>2 DEF Uploaded, Refused, ShowSuccess, ShowError
      <3> QED BY <2>2, <3>1, SameTarget
    <2> QED BY <2>1, <2>2
  <1>3. Sent(s)
    BY <1>1, NoSaveIs DEF Sent
  <1> HIDE DEF target
  <1>4. TypeOK'
    <2>1. save' \in [Saves -> SaveRecords]
      BY <1>1, <1>2, SaveMoves
    <2>2. shown' \in 0..MaxOpens
      BY <1>1, EditAssumption DEF IInv, ScreenInv, TypeOK
    <2>3. hud' \in {"hidden", "shown", "left"}
      BY <1>1 DEF IInv, ScreenInv, TypeOK
    <2> QED BY <1>1, <2>1, <2>2, <2>3 DEF IInv, ScreenInv, TypeOK, SaveRecords, device, loads
  <1>5. HudHasOwner'
    <2>1. UnderWay(s)' = (stage \notin {"success", "error"})
      BY <1>1, <1>2, SaveMoves
    <2> QED BY <1>1, <2>1 DEF HudHasOwner
  <1>6. LoadsInv' /\ ShownInv' /\ MailKept' /\ PhotosSafe' /\ \A t \in Saves : SaveInv(t)'
    <2>1. stage = "upload" => target = save[s].account \/ changes > save[s].since
      <3>1. save[s].since \in Nat /\ changes \in Nat
        BY DEF IInv, ScreenInv, TypeOK
      <3>2. save[s].since = changes => session = save[s].account
        BY <1>3 DEF IInv, SaveInv
      <3>3. save[s].since <= changes
        BY <1>3 DEF IInv, SaveInv
      <3> QED BY <3>1, <3>2, <3>3 DEF target
    <2>2. stage \notin {"update", "updated", "uploaded"} /\ save[s].stage # "none"
      BY <1>1
    <2>3. UNCHANGED <<device, info, image, loads, overlap, complete, profile, photo>>
      BY <1>1
    <2> HIDE DEF stage
    <2> QED BY <1>1, <1>2, <2>1, <2>2, <2>3, MoveStep
  <1>7. SavedInv'
    <2>1. stage \in {"updated", "upload", "uploaded", "succeeded", "success"}
             /\ ~overlap /\ Last(s) => profile'[save[s].account] = save[s].info
      BY <1>1 DEF IInv, SavedInv
    <2>2. stage \in {"uploaded", "succeeded", "success"} /\ ~overlap /\ Last(s) =>
             photo'[save[s].account] = save[s].picture \/ changes > save[s].since
      BY <1>1 DEF IInv, SavedInv
    <2> QED BY <1>1, <1>2, <2>1, <2>2, SavedStep DEF device
  <1> QED BY <1>4, <1>5, <1>6, <1>7 DEF IInv, ScreenInv

\* A change of the session is counted, and none but the end of a session comes under an
\* open screen.
LEMMA SessionStep == ASSUME IInv, QueueOK', Session PROVE IInv'
  <1> USE DEF album, screen, loads, servers, history
  <1> USE DEF Session, Logout, SignIn, SignInSucceeds, SignInFails, SignedIn, SessionInvalidated, Changes
  <1>1. /\ \/ changes' = changes + 1
           \/ changes' = changes /\ session' = session
        /\ session' \in Users \cup {NoUser} /\ root' \in {"SignIn", "LoggedIn"}
        /\ signIn' \in {"none", "sent", "succeeded"} /\ (signIn' # "none" => root' = "SignIn")
        /\ hud' \in {"hidden", "shown", "left"}
        /\ UNCHANGED <<running, shown, opens, info, typing, image, edits, picker, loads, save,
                       servers, history>>
        /\ shown = 0 \/ (session' \in {NoUser, session} /\ root' = root)
    BY DEF IInv, ShownInv, ScreenInv, TypeOK
  <1>8. HudHasOwner'
    <2>1. CASE Logout
      <3>1. queued' # <<>>
        BY <2>1 DEF IInv, ScreenInv, TypeOK, QueueOK
      <3> QED BY <3>1 DEF HudHasOwner
    <2> QED BY <2>1 DEF IInv, ScreenInv, HudHasOwner, UnderWay
  <1> HIDE DEF Session, Logout, SignIn, SignInSucceeds, SignInFails, SignedIn, SessionInvalidated, Changes
  <1>2. TypeOK'
    BY <1>1 DEF IInv, ScreenInv, TypeOK
  <1>3. MailKept' /\ PhotosSafe' /\ LoadsInv'
    BY <1>1 DEF IInv, MailKept, PhotosSafe, PhotoOfOwner, PhotoKept, Astray, LoadsInv, Explained,
                Lost
  <1>4. \A u : Erased(u)' = Erased(u) /\ Lost(u)' = Lost(u) /\ Astray(u)' = Astray(u)
    BY <1>1 DEF Erased, Lost, Astray
  <1>5. ShownInv'
    BY <1>1, <1>4 DEF IInv, ShownInv
  <1>6. ASSUME NEW s \in Saves PROVE SaveInv(s)'
    <2>1. changes \in Nat /\ save[s].since \in Nat
      BY DEF IInv, ScreenInv, TypeOK
    <2> QED BY <1>1, <1>4, <2>1 DEF IInv, SaveInv, Sent
  <1>7. SavedInv'
    <2>1. \A s \in Saves : changes \in Nat /\ save[s].since \in Nat
      BY DEF IInv, ScreenInv, TypeOK
    <2> QED BY <1>1, <2>1 DEF IInv, SavedInv, Last, Sent, UnderWay
  <1> QED BY <1>2, <1>3, <1>5, <1>6, <1>7, <1>8 DEF IInv, ScreenInv

LEMMA NextIInv == IInv /\ [Next]_vars => IInv'
  <1> SUFFICES ASSUME IInv, [Next]_vars PROVE IInv'
    OBVIOUS
  <1>6. QueueOK'
    BY QueueStep
  <1>1. CASE User
    BY <1>1, <1>6, FormStep, OpenStep, TapStep DEF User
  <1>2. CASE Session
    BY <1>2, <1>6, SessionStep
  <1>3. CASE TapBlock \/ \E o \in Opens : Load(o)
    BY <1>3, <1>6, LoadStep, FormStep
  <1>4. CASE \E s \in Saves : Saving(s)
    BY <1>4, <1>6, ServerStep, CallbackStep DEF Saving
  <1>5. CASE UNCHANGED vars
    <2> USE DEF vars, device, screen, album, loads, servers, history
    <2>1. UNCHANGED <<save, servers, overlap, complete, session, changes, loads>>
      BY <1>5
    <2>2. TypeOK' /\ HudHasOwner'
      BY <1>5, <1>6 DEF IInv, ScreenInv, TypeOK, HudHasOwner, UnderWay
    <2>3. ShownInv'
      BY <1>5, <2>1, SavesStay DEF IInv, ShownInv
    <2> QED BY <2>1, <2>2, <2>3, SavesStay DEF IInv, ScreenInv
  <1> QED BY <1>1, <1>2, <1>3, <1>4, <1>5 DEF Next

(* What a screen shows, what the saves carry and what the servers have     *)
(* fits together in every reachable state.                                 *)
THEOREM Invariance == Spec => []IInv
  BY InitIInv, NextIInv, PTL DEF Spec

(* While the HUD is up, a load, a save, a sign-in or the block of a tap    *)
(* will take it down, unless it was left up by a save of nothing           *)
(* (EditProfileViewController.saveBarBtn) or by a sign-in that failed      *)
(* (FirebaseAPIHandler.signIn).                                            *)
THEOREM HudOwned == Spec => []ScreenInv
  BY Invariance, PTL DEF IInv

(* A save that reports success, the last one and without an overlap, has   *)
(* stored what was on its screen (FirebaseAPIHandler.updateUserInformation *)
(* and uploadImage, one after the other).                                  *)
THEOREM SuccessIsTrue == Spec => []SuccessMeansSaved
  <1>1. ASSUME IInv PROVE SuccessMeansSaved
    <2> SUFFICES ASSUME NEW s \in Saves, save[s].stage \in {"succeeded", "success"}, ~overlap,
                        \A t \in (s + 1)..MaxSaves : ~Sent(t)
                 PROVE  /\ profile[save[s].account] = save[s].info
                        /\ photo[save[s].account] = save[s].picture \/ changes > save[s].since
      BY DEF SuccessMeansSaved
    <2>1. Last(s)
      BY NoSaveIs DEF Last, Sent
    <2> QED BY <1>1, <2>1 DEF IInv, SavedInv
  <1> QED BY <1>1, Invariance, PTL

(* No save erases the e-mail of an account but one that was tapped before  *)
(* the profile was loaded (FirebaseAPIHandler.updateUserInformation).      *)
THEOREM MailIsKept == Spec => []MailKept
  BY Invariance, PTL DEF IInv

(* An account gets the photo of another, or the default picture, only by   *)
(* a save that went astray or was tapped before its photo was shown.       *)
THEOREM PhotosAreSafe == Spec => []PhotosSafe
  BY Invariance, PTL DEF IInv
=============================================================================
