---------------------------- MODULE Session_proofs ----------------------------
(***************************************************************************)
(* Proofs about Session and the topics it is built on, for any set of      *)
(* users and any bounds: the inductive invariant and the safety properties *)
(* that follow from it.                                                    *)
(***************************************************************************)
EXTENDS Session, FiniteSetTheorems, TLAPS

\* The app only subscribes, so what is pending is in one batch, or there is none.
Batches(id, pending) ==
    IF pending = {} THEN <<>>
    ELSE <<[id |-> id, action |-> "subscribe", topics |-> pending]>>

\* What the list, its archive and its requests hold when "pending" waits in a batch.
ListInv(id, pending) ==
    /\ topicBatches = Batches(id, pending) /\ archive = topicBatches
    /\ pending # {} => id \in 1 .. Len(asked)
    /\ pending = {} => currentBatch = 0
    /\ currentBatch \in {0, id}
    /\ topicsInFlight = {r.topic : r \in requests} \cup {a.topic : a \in answers}
    /\ topicsInFlight \subseteq pending
    /\ topicsInFlight # {} => currentBatch = id
    /\ failed \subseteq pending \ topicsInFlight
    /\ \A i \in DOMAIN asked : asked[i].topic \in subscribed \cup refused \cup pending

TopicsTyped ==
    /\ resumes \in Nat /\ defaultFcmToken \in BOOLEAN
    /\ requests \subseteq [topic : Users, action : {"subscribe"}]
    /\ answers \subseteq [topic : Users, error : {"none", "recoverable", "fatal"}]
    /\ subscribed \subseteq Users /\ refused \subseteq Users
    /\ asked \in Seq([topic : Users, action : {"subscribe"}])

\* A topic has at most one request or answer on its way, and an answer is true.
OnTheWay ==
    /\ \A a, b \in answers : a.topic = b.topic => a = b
    /\ \A r \in requests, a \in answers : r.topic # a.topic
    /\ \A a \in answers : a.error = "none" => a.topic \in subscribed

TopicsInv ==
    /\ TopicsTyped /\ OnTheWay
    /\ \E id \in 0 .. Len(asked), pending \in SUBSET Users : ListInv(id, pending)

\* The topic of an account has been asked for, or is about to be.
HasTopic ==
    \/ \E i \in DOMAIN asked : asked[i].topic = account
    \/ \E i \in DOMAIN blocks : blocks[i].type = "signedIn" /\ blocks[i].user = account

\* What LoggedInHasTopic says of the tab bar holds of the sign-in screen as well: an
\* account that signed in there has queued the block that leaves it.
AccountInv ==
    account # NoUser /\ account \notin created /\ ~(screen = "LoggedIn" /\ launched) => HasTopic

Block(f) ==
    [type : {"signIn"}, tap : 0 .. MaxSignIns - 1, form : 1 .. f]
    \cup [type : {"signedIn"}, user : Users, form : 1 .. f] \cup [type : {"loggedOut"}]

SessionTyped ==
    /\ screen \in {"SignIn", "LoggedIn"} /\ form \in Nat \ {0}
    /\ account \in Users \cup {NoUser}
    /\ {hud, failedSignIn, launched} \subseteq BOOLEAN
    /\ attempts \subseteq [tap : 0 .. MaxSignIns - 1, user : Users, form : 1 .. form]
    /\ taps \in 0 .. MaxSignIns
    /\ blocks \in Seq(Block(form))
    /\ created \subseteq Users /\ ends \in 0 .. MaxEnds

IInv == SessionTyped /\ TopicsInv /\ AccountInv

-----------------------------------------------------------------------------
\* The instance has a Cardinality of its own, with the same definition.
LEMMA SameCardinality == ASSUME NEW S PROVE T!Cardinality(S) = Cardinality(S)
  BY DEF Cardinality, T!Cardinality

\* What At leaves of a sequence when it keeps every position, and when it keeps none.
LEMMA KeptAll == ASSUME NEW S, NEW seq \in Seq(S) PROVE T!At(seq, DOMAIN seq) = seq
  <1> DEFINE n == Len(seq)
  <1>1. n \in Nat /\ DOMAIN seq = 1 .. n
    OBVIOUS
  <1>2. ASSUME NEW i \in Nat PROVE Cardinality(1 .. i) = i
    <2>1. 1 \in Int /\ i \in Int
      OBVIOUS
    <2>2. Cardinality(1 .. i) = IF 1 > i THEN 0 ELSE i - 1 + 1
      BY <2>1, FS_Interval
    <2> QED BY <2>2
  <1>3. ASSUME NEW p \in 1 .. n PROVE Cardinality({q \in 1 .. n : q < p}) = p - 1
    <2>1. {q \in 1 .. n : q < p} = 1 .. (p - 1) /\ p - 1 \in Nat
      BY <1>1
    <2> QED BY <1>2, <2>1
  <1>4. ASSUME NEW k \in 1 .. n
        PROVE  (CHOOSE p \in 1 .. n : T!Cardinality({q \in 1 .. n : q < p}) = k - 1) = k
    BY <1>1, <1>3, SameCardinality
  <1>5. T!Ascending(1 .. n) = [k \in 1 .. n |-> k]
    <2>1. T!Cardinality(1 .. n) = n
      BY <1>1, <1>2, SameCardinality
    <2> QED BY <1>4, <2>1 DEF T!Ascending
  <1>6. T!At(seq, 1 .. n) = [k \in 1 .. n |-> seq[k]]
    BY <1>5 DEF T!At
  <1> QED BY <1>1, <1>6

LEMMA KeptNone == ASSUME NEW seq PROVE T!At(seq, {}) = <<>>
  <1>1. T!Cardinality({}) = 0 /\ 1 .. 0 = {}
    BY FS_EmptySet, SameCardinality
  <1>2. DOMAIN T!Ascending({}) = {}
    BY <1>1 DEF T!Ascending
  <1> QED BY <1>2 DEF T!At

\* The current batch of a list that has one, and what waits in it.
LEMMA OneBatch ==
    ASSUME NEW id \in Nat, NEW pending, ListInv(id, pending), pending # {}
    PROVE  /\ T!Batch(id) = [id |-> id, action |-> "subscribe", topics |-> pending]
           /\ Len(topicBatches) = 1 /\ topicBatches[1].id = id
  <1>1. topicBatches = <<[id |-> id, action |-> "subscribe", topics |-> pending]>>
    BY DEF ListInv, Batches
  <1>2. DOMAIN topicBatches = {1}
    BY <1>1
  <1> QED BY <1>1, <1>2 DEF T!Batch

LEMMA PendingIs ==
    ASSUME NEW id \in Nat, NEW pending
    PROVE  T!Pending(Batches(id, pending)) = pending
  <1>1. CASE pending = {}
    BY <1>1 DEF T!Pending, Batches
  <1>2. CASE pending # {}
    <2>1. Batches(id, pending) = <<[id |-> id, action |-> "subscribe", topics |-> pending]>>
      BY <1>2 DEF Batches
    <2>2. DOMAIN Batches(id, pending) = {1} /\ Batches(id, pending)[1].topics = pending
      BY <2>1
    <2> QED BY <2>2 DEF T!Pending
  <1> QED BY <1>1, <1>2

-----------------------------------------------------------------------------
\* An operation joins the batch that waits, or begins one.
LEMMA AddStep ==
    ASSUME TopicsInv, NEW u \in Users, T!AddOperationForTopic(u, "subscribe")
    PROVE  TopicsInv'
  <1> PICK id \in 0 .. Len(asked), pending \in SUBSET Users : ListInv(id, pending)
    BY DEF TopicsInv
  <1> DEFINE batches == T!WithOperation(u, "subscribe")
  <1> PICK batch : batch = IF pending = {} THEN Len(asked) + 1 ELSE id
    OBVIOUS
  <1>1. /\ asked' = Append(asked, [topic |-> u, action |-> "subscribe"])
        /\ topicBatches' = batches /\ archive' = T!ArchivedWith(batches)
        /\ currentBatch' = IF currentBatch = 0 THEN batches[Len(batches)].id ELSE currentBatch
        /\ resumes' \in {resumes, resumes + 1}
        /\ UNCHANGED <<topicsInFlight, requests, answers, subscribed, defaultFcmToken,
                       refused, failed, failures>>
    BY DEF T!AddOperationForTopic, T!network, TopicsInv, TopicsTyped
  <1>2. Len(asked) \in Nat /\ Len(asked') = Len(asked) + 1
        /\ DOMAIN asked' = 1 .. Len(asked) + 1 /\ DOMAIN asked = 1 .. Len(asked)
        /\ asked' \in Seq([topic : Users, action : {"subscribe"}])
    BY <1>1 DEF TopicsInv, TopicsTyped
  <1>3. batch \in Nat /\ batches = Batches(batch, pending \cup {u})
    <2>1. CASE pending = {}
      <3>1. topicBatches = <<>>
        BY <2>1 DEF ListInv, Batches
      <3>2. batches = Append(<<>>, [id |-> Len(asked) + 1, action |-> "subscribe",
                                    topics |-> {u}])
        <4>1. ~(Len(topicBatches) > 0)
          BY <3>1
        <4> QED BY <3>1, <4>1, Zenon DEF T!WithOperation
      <3>3. batch = Len(asked) + 1 /\ pending \cup {u} = {u} /\ {u} # {}
        BY <2>1
      <3> QED BY <1>2, <3>2, <3>3 DEF Batches
    <2>2. CASE pending # {}
      <3>1. topicBatches = <<[id |-> id, action |-> "subscribe", topics |-> pending]>>
        BY <2>2 DEF ListInv, Batches
      <3>2. /\ Len(topicBatches) = 1
            /\ topicBatches[1] = [id |-> id, action |-> "subscribe", topics |-> pending]
        BY <3>1
      <3>3. batches = [topicBatches EXCEPT ![1].topics = @ \cup {u}]
        BY <3>2 DEF T!WithOperation
      <3>4. batches = <<[id |-> id, action |-> "subscribe", topics |-> pending \cup {u}]>>
        BY <3>1, <3>3
      <3>5. batch = id /\ pending \cup {u} # {} /\ id \in Nat
        BY <1>2, <2>2
      <3> QED BY <3>4, <3>5 DEF Batches
    <2> QED BY <2>1, <2>2
  <1> HIDE DEF batches
  <1>4. batches[Len(batches)].id = batch
    <2>1. batches = <<[id |-> batch, action |-> "subscribe", topics |-> pending \cup {u}]>>
      BY <1>3 DEF Batches
    <2> QED BY <2>1
  <1>5. ListInv(batch, pending \cup {u})'
    <2>1. archive' = topicBatches'
      BY <1>1 DEF T!ArchivedWith, ListInv
    <2>2. \A i \in DOMAIN asked' : asked'[i].topic \in subscribed \cup refused \cup pending \cup {u}
      BY <1>1, <1>2 DEF ListInv, TopicsInv, TopicsTyped
    <2>3. /\ batch \in 1 .. Len(asked') /\ currentBatch' \in {0, batch}
          /\ pending \cup {u} # {}
      BY <1>1, <1>2, <1>4 DEF ListInv
    <2>4. topicsInFlight # {} => currentBatch' = batch
      BY <1>1, <1>4 DEF ListInv
    <2> QED BY <1>1, <1>3, <2>1, <2>2, <2>3, <2>4 DEF ListInv
  <1>6. TopicsTyped'
    BY <1>1, <1>2 DEF TopicsInv, TopicsTyped
  <1>7. OnTheWay'
    BY <1>1 DEF TopicsInv, OnTheWay
  <1> QED BY <1>2, <1>5, <1>6, <1>7 DEF TopicsInv

\* The topics of the batch that are not on their way are requested.
LEMMA ResumeStep ==
    ASSUME TopicsInv, T!ResumeOperationsIfNeeded, resumes' \in Nat,
           defaultFcmToken' \in BOOLEAN
    PROVE  TopicsInv'
  <1> PICK id \in 0 .. Len(asked), pending \in SUBSET Users : ListInv(id, pending)
    BY DEF TopicsInv
  <1>1. UNCHANGED <<topicBatches, archive, answers, subscribed, asked, refused>>
    BY DEF T!ResumeOperationsIfNeeded
  <1>2. Len(asked) \in Nat
    BY DEF TopicsInv, TopicsTyped
  <1>3. PICK begun \in SUBSET (pending \ topicsInFlight) :
            /\ begun # {} => currentBatch' = id
            /\ currentBatch' \in {currentBatch, id} /\ (pending = {} => currentBatch' = 0)
            /\ currentBatch # 0 => currentBatch' = currentBatch
            /\ topicsInFlight' = topicsInFlight \cup begun
            /\ requests' = requests \cup {[topic |-> t, action |-> "subscribe"] : t \in begun}
            /\ failed' = failed \ begun
    <2>1. CASE pending = {}
      <3>1. topicBatches = <<>> /\ currentBatch = 0
        BY <2>1 DEF ListInv, Batches
      <3> QED BY <2>1, <3>1 DEF T!ResumeOperationsIfNeeded
    <2>2. CASE pending # {}
      <3>1. /\ T!Batch(id) = [id |-> id, action |-> "subscribe", topics |-> pending]
            /\ topicBatches # <<>> /\ topicBatches[1].id = id /\ currentBatch \in {0, id}
            /\ id # 0
        <4>1. id \in Nat /\ id # 0 /\ currentBatch \in {0, id}
          BY <2>2, <1>2 DEF ListInv
        <4>2. Len(topicBatches) = 1 /\ topicBatches[1].id = id
              /\ T!Batch(id) = [id |-> id, action |-> "subscribe", topics |-> pending]
          BY <2>2, <4>1, OneBatch
        <4>3. topicBatches # <<>>
          BY <4>2
        <4> QED BY <4>1, <4>2, <4>3
      <3> DEFINE begun == IF ~defaultFcmToken' THEN {} ELSE pending \ topicsInFlight
      <3>2. /\ currentBatch' = id
            /\ topicsInFlight' = topicsInFlight \cup begun
            /\ requests' = requests \cup {[topic |-> t, action |-> "subscribe"] : t \in begun}
            /\ failed' = failed \ begun
        BY <3>1 DEF T!ResumeOperationsIfNeeded
      <3> QED BY <2>2, <3>1, <3>2
    <2> QED BY <2>1, <2>2
  <1>4. ListInv(id, pending)'
    <2>1. {r.topic : r \in requests'} = {r.topic : r \in requests} \cup begun
      <3>1. ASSUME NEW t \in begun PROVE \E r \in requests' : r.topic = t
        <4> DEFINE r == [topic |-> t, action |-> "subscribe"]
        <4>1. r \in requests' /\ r.topic = t
          BY <1>3
        <4> QED BY <4>1
      <3>2. \A r \in requests' : r \in requests \/ r.topic \in begun
        BY <1>3
      <3> QED BY <1>3, <3>1, <3>2
    <2>2. topicsInFlight' = {r.topic : r \in requests'} \cup {a.topic : a \in answers'}
      BY <1>1, <1>3, <2>1 DEF ListInv
    <2>3. topicsInFlight' \subseteq pending /\ failed' \subseteq pending \ topicsInFlight'
      BY <1>3 DEF ListInv
    <2>4. topicsInFlight' # {} => currentBatch' = id
      BY <1>3 DEF ListInv
    <2>5. currentBatch' \in {0, id} /\ (pending = {} => currentBatch' = 0)
      BY <1>3 DEF ListInv
    <2> QED BY <1>1, <2>2, <2>3, <2>4, <2>5 DEF ListInv
  <1>5. TopicsTyped'
    BY <1>1, <1>3 DEF TopicsInv, TopicsTyped
  <1>6. OnTheWay'
    BY <1>1, <1>3 DEF TopicsInv, OnTheWay, ListInv
  <1> QED BY <1>1, <1>4, <1>5, <1>6 DEF TopicsInv

\* What is left of the batch without a topic of it.
LEMMA WithoutIs ==
    ASSUME NEW id \in Nat, NEW pending, ListInv(id, pending), pending # {},
           currentBatch = id, NEW t
    PROVE  T!WithoutTopic(t) = Batches(id, pending \ {t})
  <1>1. topicBatches = <<[id |-> id, action |-> "subscribe", topics |-> pending]>>
    BY DEF ListInv, Batches
  <1>2. DOMAIN topicBatches = {1} /\ topicBatches[1].id = id
        /\ topicBatches[1] = [id |-> id, action |-> "subscribe", topics |-> pending]
    BY <1>1
  <1>3. T!Batch(currentBatch).topics = pending
    BY OneBatch
  <1>4. CASE pending = {t}
    <2>1. {i \in DOMAIN topicBatches : topicBatches[i].id # currentBatch} = {}
      BY <1>2
    <2>2. T!WithoutTopic(t) = <<>>
      BY <1>3, <1>4, <2>1, KeptNone DEF T!WithoutTopic
    <2> QED BY <1>4, <2>2 DEF Batches
  <1>5. CASE pending # {t}
    <2>1. T!WithoutTopic(t) =
            [i \in {1} |-> [id |-> id, action |-> "subscribe", topics |-> pending \ {t}]]
      BY <1>2, <1>3, <1>5 DEF T!WithoutTopic
    <2>2. pending \ {t} # {}
      BY <1>5
    <2> DEFINE batch == [id |-> id, action |-> "subscribe", topics |-> pending \ {t}]
    <2>3. Batches(id, pending \ {t}) = <<batch>>
      BY <2>2 DEF Batches
    <2>4. T!WithoutTopic(t) = [i \in {1} |-> batch]
      BY <2>1
    <2> HIDE DEF batch
    <2>5. [i \in {1} |-> batch] = <<batch>>
      OBVIOUS
    <2> QED BY <2>3, <2>4, <2>5
  <1> QED BY <1>4, <1>5

\* The completion of a request takes the topic out of the batch, or leaves it there.
LEMMA CompletedStep ==
    ASSUME TopicsInv, NEW a, T!Completed(a)
    PROVE  TopicsInv'
  <1> PICK id \in 0 .. Len(asked), pending \in SUBSET Users : ListInv(id, pending)
    BY DEF TopicsInv
  <1>1. /\ a \in answers /\ answers' = answers \ {a}
        /\ topicsInFlight' = topicsInFlight \ {a.topic}
        /\ UNCHANGED <<requests, subscribed, defaultFcmToken, asked>>
    BY DEF T!Completed, T!InFlightAfter
  <1>2. /\ a.topic \in pending /\ a.topic \notin failed /\ currentBatch = id
        /\ pending # {} /\ id \in 1 .. Len(asked)
    BY <1>1 DEF ListInv
  <1>3. Len(asked) \in Nat /\ a.topic \in Users
        /\ a.error \in {"none", "recoverable", "fatal"}
    BY <1>1 DEF TopicsInv, TopicsTyped
  <1>4. topicsInFlight' = {r.topic : r \in requests'} \cup {b.topic : b \in answers'}
    BY <1>1 DEF ListInv, TopicsInv, OnTheWay
  <1>5. OnTheWay'
    BY <1>1 DEF TopicsInv, OnTheWay
  <1>6. CASE a.error = "recoverable"
    <2>1. /\ failed' = failed \cup {a.topic}
          /\ UNCHANGED <<topicBatches, currentBatch, archive, resumes, refused>>
      BY <1>6 DEF T!Completed
    <2>2. topicsInFlight' \subseteq pending /\ failed' \subseteq pending \ topicsInFlight'
      BY <1>1, <1>2, <2>1 DEF ListInv
    <2>3. ListInv(id, pending)'
      BY <1>1, <1>2, <1>4, <2>1, <2>2 DEF ListInv
    <2>4. TopicsTyped'
      BY <1>1, <2>1 DEF TopicsInv, TopicsTyped
    <2> QED BY <1>1, <1>5, <2>3, <2>4 DEF TopicsInv
  <1>7. CASE a.error # "recoverable"
    <2> DEFINE left == pending \ {a.topic}
    <2>1. T!Batch(currentBatch).topics = pending
      BY <1>2, <1>3, OneBatch
    <2>2. T!WithoutTopic(a.topic) = Batches(id, left)
      BY <1>2, <1>3, WithoutIs
    <2>3. /\ topicBatches' = Batches(id, left) /\ archive' = topicBatches'
          /\ currentBatch' = IF left = {} THEN 0 ELSE id
          /\ resumes' = resumes + 1 /\ failed' = failed
          /\ refused' = IF a.error = "fatal" THEN refused \cup {a.topic} ELSE refused
      BY <1>2, <1>7, <2>1, <2>2 DEF T!Completed
    <2>4. topicsInFlight' \subseteq left /\ failed' \subseteq left \ topicsInFlight'
      BY <1>1, <1>2, <2>3 DEF ListInv
    <2>5. a.topic \in subscribed' \cup refused'
      BY <1>1, <1>3, <1>7, <2>3 DEF TopicsInv, OnTheWay
    <2>6. \A i \in DOMAIN asked' : asked'[i].topic \in subscribed' \cup refused' \cup left
      BY <1>1, <2>3, <2>5 DEF ListInv
    <2>7. /\ left # {} => id \in 1 .. Len(asked')
          /\ left = {} => currentBatch' = 0
          /\ currentBatch' \in {0, id}
          /\ topicsInFlight' # {} => currentBatch' = id
      BY <1>1, <1>2, <2>3, <2>4
    <2>8. ListInv(id, left)'
      BY <1>4, <2>3, <2>4, <2>6, <2>7 DEF ListInv
    <2>9. TopicsTyped'
      BY <1>1, <1>3, <2>3 DEF TopicsInv, TopicsTyped
    <2> QED BY <1>1, <1>5, <2>8, <2>9 DEF TopicsInv
  <1> QED BY <1>6, <1>7

\* The server performs or refuses a request, or nothing is heard of it.
LEMMA RespondStep ==
    ASSUME TopicsInv, T!ServerResponds
    PROVE  TopicsInv'
  <1> PICK id \in 0 .. Len(asked), pending \in SUBSET Users : ListInv(id, pending)
    BY DEF TopicsInv
  <1>1. PICK r \in requests : T!Performs(r) \/ T!Refuses(r) \/ T!TimesOut(r)
    BY DEF T!ServerResponds
  <1>2. r.topic \in Users /\ r.action = "subscribe"
    BY DEF TopicsInv, TopicsTyped
  <1>3. PICK error \in {"none", "recoverable", "fatal"} :
            /\ T!Respond(r, error)
            /\ subscribed' \in {subscribed, subscribed \cup {r.topic}}
            /\ error = "none" => r.topic \in subscribed'
    BY <1>1, <1>2 DEF T!Performs, T!Refuses, T!TimesOut, T!Performed
  <1>4. /\ requests' = requests \ {r}
        /\ answers' = answers \cup {[topic |-> r.topic, error |-> error]}
        /\ UNCHANGED <<topicBatches, currentBatch, topicsInFlight, archive, resumes,
                       defaultFcmToken, asked, refused, failed>>
    BY <1>3 DEF T!Respond, T!list, T!history
  <1>5. \A q \in requests : q.topic = r.topic => q = r
    BY <1>2 DEF TopicsInv, TopicsTyped
  <1>6. {b.topic : b \in answers'} = {b.topic : b \in answers} \cup {r.topic}
    <2>1. \E b \in answers' : b.topic = r.topic
      <3> DEFINE b == [topic |-> r.topic, error |-> error]
      <3>1. b \in answers' /\ b.topic = r.topic
        BY <1>4
      <3> QED BY <3>1
    <2> QED BY <1>4, <2>1
  <1>7. topicsInFlight' = {q.topic : q \in requests'} \cup {b.topic : b \in answers'}
    BY <1>1, <1>4, <1>5, <1>6 DEF ListInv
  <1>8. OnTheWay'
    BY <1>1, <1>3, <1>4, <1>5 DEF TopicsInv, OnTheWay
  <1>9. ListInv(id, pending)'
    BY <1>3, <1>4, <1>7 DEF ListInv
  <1>10. TopicsTyped'
    BY <1>1, <1>2, <1>3, <1>4 DEF TopicsInv, TopicsTyped
  <1> QED BY <1>4, <1>8, <1>9, <1>10 DEF TopicsInv

\* A process that starts again finds all that was pending in the archive.
LEMMA RestartStep ==
    ASSUME TopicsInv, T!RestartList
    PROVE  TopicsInv'
  <1> PICK id \in 0 .. Len(asked), pending \in SUBSET Users : ListInv(id, pending)
    BY DEF TopicsInv
  <1>1. T!Restored = archive
    <2>1. archive = Batches(id, pending)
      BY DEF ListInv
    <2>2. CASE pending = {}
      <3>1. archive = <<>> /\ {i \in DOMAIN archive : archive[i].topics # {}} = {}
        BY <2>1, <2>2 DEF Batches
      <3> QED BY <3>1, KeptNone DEF T!Restored
    <2>3. CASE pending # {}
      <3>1. archive = <<[id |-> id, action |-> "subscribe", topics |-> pending]>>
        BY <2>1, <2>3 DEF Batches
      <3>2. archive \in Seq({archive[1]}) /\ DOMAIN archive = {1}
            /\ archive[1].topics = pending
        BY <3>1
      <3>3. {i \in DOMAIN archive : archive[i].topics # {}} = DOMAIN archive
        BY <2>3, <3>2
      <3> QED BY <3>2, <3>3, KeptAll DEF T!Restored
    <2> QED BY <2>2, <2>3
  <1>2. PICK done \in SUBSET requests :
            subscribed' = (subscribed \cup {r.topic : r \in {q \in done : q.action = "subscribe"}})
                          \ {r.topic : r \in {q \in done : q.action = "unsubscribe"}}
    BY DEF T!RestartList
  <1>3. {q \in done : q.action = "unsubscribe"} = {}
    BY DEF TopicsInv, TopicsTyped
  <1>4. subscribed \subseteq subscribed' /\ subscribed' \subseteq Users
    BY <1>2, <1>3 DEF TopicsInv, TopicsTyped
  <1>5. /\ topicBatches' = topicBatches /\ archive' = archive
        /\ currentBatch' = 0 /\ topicsInFlight' = {} /\ resumes' = 0
        /\ requests' = {} /\ answers' = {} /\ failed' = {} /\ defaultFcmToken' = FALSE
        /\ asked' = asked /\ refused' = refused
    BY <1>1 DEF T!RestartList, ListInv
  <1>6. ListInv(id, pending)'
    BY <1>4, <1>5 DEF ListInv
  <1>7. TopicsTyped'
    BY <1>4, <1>5 DEF TopicsInv, TopicsTyped
  <1>8. OnTheWay'
    BY <1>5 DEF OnTheWay
  <1> QED BY <1>5, <1>6, <1>7, <1>8 DEF TopicsInv

-----------------------------------------------------------------------------
LEMMA InitIInv == Init => IInv
  <1> SUFFICES ASSUME Init PROVE IInv
    OBVIOUS
  <1> USE DEF Init, T!TopicsInit
  <1>1. SessionTyped
    <2>1. blocks \in Seq(Block(form))
      OBVIOUS
    <2>2. {hud, failedSignIn, launched} \subseteq BOOLEAN
      OBVIOUS
    <2>3. taps \in 0 .. MaxSignIns /\ ends \in 0 .. MaxEnds
      BY SessionAssumption
    <2> QED BY <2>1, <2>2, <2>3 DEF SessionTyped, Block
  <1>2. TopicsTyped /\ OnTheWay
    <2>1. asked \in Seq([topic : Users, action : {"subscribe"}])
      OBVIOUS
    <2>2. resumes \in Nat /\ defaultFcmToken \in BOOLEAN
      OBVIOUS
    <2> QED BY <2>1, <2>2 DEF TopicsTyped, OnTheWay
  <1>3. ListInv(0, {}) /\ 0 \in 0 .. Len(asked) /\ {} \in SUBSET Users
    BY DEF ListInv, Batches
  <1>4. AccountInv
    BY DEF AccountInv
  <1> QED BY <1>1, <1>2, <1>3, <1>4 DEF IInv, TopicsInv

\* A step that leaves the topics alone.
LEMMA TopicsStay == TopicsInv /\ UNCHANGED topics => TopicsInv'
  BY DEF TopicsInv, TopicsTyped, OnTheWay, ListInv, topics

\* What holds of the block that runs.
LEMMA HeadBlock ==
    ASSUME SessionTyped, blocks # <<>>
    PROVE  /\ Tail(blocks) \in Seq(Block(form))
           /\ Len(blocks) \in Nat \ {0} /\ Len(Tail(blocks)) = Len(blocks) - 1
           /\ \A i \in DOMAIN Tail(blocks) : Tail(blocks)[i] = blocks[i + 1]
           /\ Head(blocks) = blocks[1]
           /\ Head(blocks).type = "signedIn" => Head(blocks).user \in Users
           /\ Head(blocks).type = "signIn" =>
                 Head(blocks).tap \in 0 .. MaxSignIns - 1 /\ Head(blocks).form \in 1 .. form
  <1>1. blocks \in Seq(Block(form))
    BY DEF SessionTyped, Block
  <1>2. Head(blocks) \in Block(form)
    BY <1>1
  <1>3. Head(blocks).type = "signedIn" => Head(blocks).user \in Users
    BY <1>2 DEF Block
  <1>4. Head(blocks).type = "signIn" =>
          Head(blocks).tap \in 0 .. MaxSignIns - 1 /\ Head(blocks).form \in 1 .. form
    BY <1>2 DEF Block
  <1> QED BY <1>1, <1>3, <1>4

\* A later form has more blocks.
LEMMA MoreForms == ASSUME SessionTyped PROVE blocks \in Seq(Block(form + 1))
  <1>1. blocks \in Seq(Block(form)) /\ form \in Nat
    BY DEF SessionTyped, Block
  <1>2. Block(form) \subseteq Block(form + 1)
    BY <1>1 DEF Block
  <1> HIDE DEF Block
  <1> QED BY <1>1, <1>2

LEMMA TapSignInStep == ASSUME IInv, TapSignIn PROVE IInv'
  <1> DEFINE block == [type |-> "signIn", tap |-> taps, form |-> form]
  <1>1. TopicsInv'
    BY TopicsStay DEF IInv, TapSignIn
  <1>2. taps \in 0 .. MaxSignIns - 1 /\ taps' \in 0 .. MaxSignIns /\ form \in 1 .. form
    BY SessionAssumption DEF IInv, SessionTyped, TapSignIn
  <1>3. block \in Block(form)
    BY <1>2 DEF Block
  <1>4. blocks \in Seq(Block(form)) /\ blocks' = Append(blocks, block)
    BY DEF IInv, SessionTyped, TapSignIn, Block
  <1> HIDE DEF block
  <1>5. /\ blocks' \in Seq(Block(form))
        /\ \A i \in DOMAIN blocks : i \in DOMAIN blocks' /\ blocks'[i] = blocks[i]
    BY <1>3, <1>4
  <1>6. SessionTyped'
    BY <1>2, <1>5 DEF IInv, SessionTyped, TapSignIn, screens, Block
  <1>7. HasTopic => HasTopic'
    BY <1>5 DEF HasTopic, TapSignIn, topics
  <1>8. AccountInv'
    BY <1>7 DEF IInv, AccountInv, TapSignIn, screens
  <1> QED BY <1>1, <1>6, <1>8 DEF IInv

LEMMA SignInStep == ASSUME IInv, NEW u \in Users, SignIn(u) PROVE IInv'
  <1>1. TopicsInv'
    BY TopicsStay DEF IInv, SignIn
  <1>2. /\ Tail(blocks) \in Seq(Block(form)) /\ Head(blocks) = blocks[1]
        /\ \A i \in DOMAIN blocks : i # 1 =>
              i - 1 \in DOMAIN Tail(blocks) /\ Tail(blocks)[i - 1] = blocks[i]
        /\ Head(blocks).tap \in 0 .. MaxSignIns - 1 /\ Head(blocks).form \in 1 .. form
    <2>1. blocks \in Seq(Block(form)) /\ blocks # <<>> /\ Head(blocks).type = "signIn"
      BY DEF IInv, SessionTyped, Block, SignIn
    <2> QED BY <2>1, HeadBlock DEF IInv
  <1>3. attempts' \subseteq [tap : 0 .. MaxSignIns - 1, user : Users, form : 1 .. form']
    BY <1>2 DEF IInv, SessionTyped, SignIn, screens
  <1>4. SessionTyped'
    BY <1>2, <1>3 DEF IInv, SessionTyped, SignIn, screens, Block
  <1>5. HasTopic => HasTopic'
    BY <1>2 DEF HasTopic, SignIn, topics
  <1>6. AccountInv'
    BY <1>5 DEF IInv, AccountInv, SignIn, screens
  <1> QED BY <1>1, <1>4, <1>6 DEF IInv

LEMMA AnsweredStep ==
    ASSUME IInv, NEW a \in attempts, SignInSucceeds(a) \/ SignInFails(a) PROVE IInv'
  <1>1. TopicsInv'
    BY TopicsStay DEF IInv, SignInSucceeds, SignInFails
  <1>2. a.user \in Users /\ a.form \in 1 .. form /\ blocks \in Seq(Block(form))
    BY DEF IInv, SessionTyped, Block
  <1>3. CASE SignInSucceeds(a)
    <2> DEFINE block == [type |-> "signedIn", user |-> a.user, form |-> a.form]
    <2>1. block \in Block(form) /\ block.type = "signedIn" /\ block.user = a.user
      BY <1>2 DEF Block
    <2>2. blocks' = Append(blocks, block) /\ account' = a.user /\ UNCHANGED asked
      BY <1>3 DEF SignInSucceeds, topics
    <2> HIDE DEF block
    <2>3. /\ blocks' \in Seq(Block(form))
          /\ Len(blocks) + 1 \in DOMAIN blocks' /\ blocks'[Len(blocks) + 1] = block
      BY <1>2, <2>1, <2>2
    <2>4. SessionTyped'
      BY <1>2, <1>3, <2>3 DEF IInv, SessionTyped, SignInSucceeds, screens, Block
    <2>5. AccountInv'
      BY <2>1, <2>2, <2>3 DEF AccountInv, HasTopic
    <2> QED BY <1>1, <2>4, <2>5 DEF IInv
  <1>4. CASE SignInFails(a)
    <2>1. SessionTyped'
      BY <1>4 DEF IInv, SessionTyped, SignInFails, screens
    <2>2. AccountInv'
      BY <1>4 DEF IInv, AccountInv, HasTopic, SignInFails, screens, topics
    <2> QED BY <1>1, <2>1, <2>2 DEF IInv
  <1> QED BY <1>3, <1>4

LEMMA SignedInStep == ASSUME IInv, SignedIn PROVE IInv'
  <1> DEFINE u == Head(blocks).user
  <1>1. blocks # <<>> /\ Head(blocks).type = "signedIn" /\ blocks' = Tail(blocks)
    BY DEF SignedIn
  <1>2. /\ u \in Users /\ Tail(blocks) \in Seq(Block(form))
        /\ \A i \in DOMAIN blocks : i # 1 =>
              i - 1 \in DOMAIN blocks' /\ blocks'[i - 1] = blocks[i]
        /\ Head(blocks) = blocks[1]
    <2>1. blocks \in Seq(Block(form))
      BY DEF IInv, SessionTyped, Block
    <2> QED BY <1>1, <2>1, HeadBlock DEF IInv
  <1>3. T!AddOperationForTopic(u, "subscribe")
    BY DEF SignedIn
  <1>4. TopicsInv'
    BY <1>2, <1>3, AddStep DEF IInv
  <1>5. SessionTyped'
    BY <1>1, <1>2 DEF IInv, SessionTyped, SignedIn, Block
  <1>6. asked' = Append(asked, [topic |-> u, action |-> "subscribe"])
    BY <1>3 DEF T!AddOperationForTopic
  <1>7. /\ \A i \in DOMAIN asked : i \in DOMAIN asked' /\ asked'[i] = asked[i]
        /\ \E i \in DOMAIN asked' : asked'[i].topic = u
    <2>1. asked \in Seq([topic : Users, action : {"subscribe"}])
      BY DEF IInv, TopicsInv, TopicsTyped
    <2>2. Len(asked) + 1 \in DOMAIN asked' /\ asked'[Len(asked) + 1].topic = u
      BY <1>2, <1>6, <2>1
    <2> QED BY <1>2, <1>6, <2>1, <2>2
  <1>8. ASSUME HasTopic PROVE HasTopic'
    <2>1. account' = account
      BY DEF SignedIn
    <2>2. CASE \E i \in DOMAIN asked : asked[i].topic = account
      BY <1>7, <2>1, <2>2 DEF HasTopic
    <2>3. ASSUME NEW i \in DOMAIN blocks, blocks[i].type = "signedIn", blocks[i].user = account
          PROVE  HasTopic'
      BY <1>2, <1>7, <2>1, <2>3 DEF HasTopic
    <2> QED BY <1>8, <2>2, <2>3 DEF HasTopic
  <1>9. AccountInv'
    BY <1>8 DEF IInv, AccountInv, SignedIn, SessionTyped
  <1> QED BY <1>4, <1>5, <1>9 DEF IInv

LEMMA LogOutStep == ASSUME IInv, LogOut PROVE IInv'
  <1>1. TopicsInv'
    BY TopicsStay DEF IInv, LogOut
  <1>2. blocks' \in Seq(Block(form + 1))
    <2>1. [type |-> "loggedOut"] \in Block(form + 1)
      BY DEF Block
    <2> QED BY <2>1, MoreForms DEF IInv, LogOut
  <1>3. SessionTyped'
    BY <1>2 DEF IInv, SessionTyped, LogOut, signIn, Block
  <1>4. AccountInv'
    BY DEF AccountInv, LogOut
  <1> QED BY <1>1, <1>3, <1>4 DEF IInv

LEMMA LoggedOutStep == ASSUME IInv, LoggedOut PROVE IInv'
  <1>1. TopicsInv'
    BY TopicsStay DEF IInv, LoggedOut
  <1>2. /\ Tail(blocks) \in Seq(Block(form)) /\ Head(blocks) = blocks[1]
        /\ \A i \in DOMAIN blocks : i # 1 =>
              i - 1 \in DOMAIN Tail(blocks) /\ Tail(blocks)[i - 1] = blocks[i]
    <2>1. blocks \in Seq(Block(form)) /\ blocks # <<>>
      BY DEF IInv, SessionTyped, Block, LoggedOut
    <2> QED BY <2>1, HeadBlock DEF IInv
  <1>3. SessionTyped'
    BY <1>2 DEF IInv, SessionTyped, LoggedOut, screens, Block
  <1>4. HasTopic => HasTopic'
    BY <1>2 DEF HasTopic, LoggedOut, topics
  <1>5. AccountInv'
    BY <1>4 DEF IInv, AccountInv, LoggedOut, screens
  <1> QED BY <1>1, <1>3, <1>5 DEF IInv

LEMMA AccountStep ==
    ASSUME IInv, (\E u \in Users : AccountCreated(u)) \/ SessionEnds PROVE IInv'
  <1>1. TopicsInv'
    BY TopicsStay DEF IInv, AccountCreated, SessionEnds
  <1>2. SessionTyped'
    BY SessionAssumption
       DEF IInv, SessionTyped, AccountCreated, SessionEnds, screens, signIn
  <1>3. AccountInv'
    BY DEF AccountInv, AccountCreated, SessionEnds
  <1> QED BY <1>1, <1>2, <1>3 DEF IInv

LEMMA RelaunchStep == ASSUME IInv, Relaunch PROVE IInv'
  <1>1. TopicsInv'
    BY RestartStep DEF IInv, Relaunch
  <1>2. SessionTyped'
    <2>1. blocks' \in Seq(Block(form'))
      BY DEF Relaunch
    <2>2. {hud, failedSignIn, launched}' \subseteq BOOLEAN
      BY DEF Relaunch
    <2> QED BY <2>1, <2>2 DEF IInv, SessionTyped, Relaunch, Block
  <1>3. AccountInv'
    BY DEF AccountInv, Relaunch
  <1> QED BY <1>1, <1>2, <1>3 DEF IInv

LEMMA TopicsStep ==
    ASSUME IInv, T!ListStep \/ T!ServerResponds \/ T!TokenArrives \/ T!NetworkStatusChanged,
           UNCHANGED sessionVars
    PROVE  IInv'
  <1>1. asked' = asked
    BY DEF T!ListStep, T!DispatchedResume, T!Completed, T!ServerResponds, T!Performs, T!Refuses,
           T!TimesOut, T!Respond, T!history, T!TokenArrives, T!NetworkStatusChanged,
           T!ResumeOperationsIfNeeded
  <1>2. TopicsInv'
    <2>1. resumes \in Nat /\ defaultFcmToken \in BOOLEAN
      BY DEF IInv, TopicsInv, TopicsTyped
    <2>2. CASE T!DispatchedResume
      <3>1. T!ResumeOperationsIfNeeded /\ resumes' \in Nat /\ defaultFcmToken' \in BOOLEAN
        BY <2>1, <2>2 DEF T!DispatchedResume
      <3> QED BY <3>1, ResumeStep DEF IInv
    <2>3. CASE T!TokenArrives
      <3>1. T!ResumeOperationsIfNeeded /\ resumes' \in Nat /\ defaultFcmToken' \in BOOLEAN
        BY <2>1, <2>3 DEF T!TokenArrives
      <3> QED BY <3>1, ResumeStep DEF IInv
    <2>4. CASE T!NetworkStatusChanged
      <3>1. T!ResumeOperationsIfNeeded /\ resumes' \in Nat /\ defaultFcmToken' \in BOOLEAN
        BY <2>1, <2>4 DEF T!NetworkStatusChanged
      <3> QED BY <3>1, ResumeStep DEF IInv
    <2>5. CASE \E a \in answers : T!Completed(a)
      BY <2>5, CompletedStep DEF IInv
    <2>6. CASE T!ServerResponds
      BY <2>6, RespondStep DEF IInv
    <2> QED BY <2>2, <2>3, <2>4, <2>5, <2>6 DEF T!ListStep
  <1>3. SessionTyped' /\ AccountInv'
    BY <1>1 DEF IInv, SessionTyped, AccountInv, HasTopic, sessionVars, screens, signIn
  <1> QED BY <1>2, <1>3 DEF IInv

LEMMA NextIInv == IInv /\ [Next]_vars => IInv'
  <1> SUFFICES ASSUME IInv, [Next]_vars PROVE IInv'
    OBVIOUS
  <1>1. ASSUME NEW u \in Users, SignIn(u) \/ AccountCreated(u) PROVE IInv'
    BY <1>1, SignInStep, AccountStep
  <1>2. ASSUME NEW a \in attempts, SignInSucceeds(a) \/ SignInFails(a) PROVE IInv'
    BY <1>2, AnsweredStep
  <1>10. CASE TapSignIn
    BY <1>10, TapSignInStep
  <1>3. CASE SignedIn
    BY <1>3, SignedInStep
  <1>4. CASE LogOut
    BY <1>4, LogOutStep
  <1>5. CASE LoggedOut
    BY <1>5, LoggedOutStep
  <1>6. CASE SessionEnds
    BY <1>6, AccountStep
  <1>7. CASE Relaunch \/ ResetPassword
    BY <1>7, RelaunchStep DEF ResetPassword
  <1>8. CASE /\ T!ListStep \/ T!ServerResponds \/ T!TokenArrives \/ T!NetworkStatusChanged
             /\ UNCHANGED sessionVars
    BY <1>8, TopicsStep
  <1>9. CASE UNCHANGED vars
    <2>1. TopicsInv'
      BY <1>9, TopicsStay DEF IInv, vars
    <2> QED BY <1>9, <2>1 DEF IInv, SessionTyped, AccountInv, HasTopic, vars, sessionVars,
                             screens, signIn, topics
  <1> QED BY <1>1, <1>2, <1>3, <1>4, <1>5, <1>6, <1>7, <1>8, <1>9, <1>10 DEF Next

(* What the device knows of topics, of the account and of the screen fits  *)
(* together in every reachable state: the list is one batch or none, as    *)
(* the app only subscribes, and all that is asked for is accounted for.    *)
THEOREM Invariance == Spec => []IInv
  BY InitIInv, NextIInv, PTL DEF Spec

\* The type invariant of the list in the words of Topics.
LEMMA TopicsTypes == TopicsInv => T!TopicsTypeOK
  <1> SUFFICES ASSUME TopicsInv PROVE T!TopicsTypeOK
    OBVIOUS
  <1> PICK id \in 0 .. Len(asked), pending \in SUBSET Users : ListInv(id, pending)
    BY DEF TopicsInv
  <1>1. Len(asked) \in Nat
    BY DEF TopicsInv, TopicsTyped
  <1>2. failed \subseteq T!Pending(topicBatches)
    <2>1. T!Pending(topicBatches) = pending
      BY <1>1, PendingIs DEF ListInv
    <2> QED BY <2>1 DEF ListInv
  <1>3. CASE pending = {}
    <2>1. topicBatches = <<>> /\ currentBatch = 0 /\ topicsInFlight = {}
      BY <1>3 DEF ListInv, Batches
    <2>2. topicBatches \in Seq(T!BatchSet)
      BY <2>1
    <2> QED BY <1>2, <2>1, <2>2 DEF T!TopicsTypeOK, TopicsInv, TopicsTyped, ListInv
  <1>4. CASE pending # {}
    <2> DEFINE batch == [id |-> id, action |-> "subscribe", topics |-> pending]
    <2>1. topicBatches = <<batch>> /\ id \in 1 .. Len(asked)
      BY <1>4 DEF ListInv, Batches
    <2>2. batch \in T!BatchSet /\ batch.id = id
      <3>1. pending \in (SUBSET Users) \ {{}}
        BY <1>4
      <3>2. batch.id = id /\ batch \in [id : 1 .. Len(asked), action : {"subscribe"},
                                       topics : (SUBSET Users) \ {{}}]
        BY <2>1, <3>1
      <3> QED BY <3>2, Zenon DEF T!BatchSet
    <2>3. T!Batch(id).topics = pending
      BY <1>1, <1>4, OneBatch
    <2> HIDE DEF batch
    <2>4. topicBatches \in Seq(T!BatchSet) /\ DOMAIN topicBatches = {1}
          /\ topicBatches[1].id = id
      BY <2>1, <2>2
    <2>5. currentBatch \in {0} \cup {topicBatches[i].id : i \in DOMAIN topicBatches}
      BY <2>4 DEF ListInv
    <2>6. topicsInFlight # {} =>
            currentBatch # 0 /\ topicsInFlight \subseteq T!Batch(currentBatch).topics
      <3>1. id # 0
        BY <1>1, <2>1
      <3> QED BY <2>3, <3>1 DEF ListInv
    <2> QED BY <1>2, <2>4, <2>5, <2>6 DEF T!TopicsTypeOK, TopicsInv, TopicsTyped, ListInv
  <1> QED BY <1>3, <1>4

LEMMA Types == IInv => TypeOK
  BY TopicsTypes DEF IInv, SessionTyped, Block, TypeOK

(* Whoever is on the tab bar after signing in there has the topic of the   *)
(* account asked for, or its block waits, for any number of accounts,      *)
(* sign-ins, relaunches and lost requests (SignInViewController:47-52).    *)
THEOREM TopicOfAccount == Spec => []LoggedInHasTopic
  <1>1. IInv => LoggedInHasTopic
    BY Types DEF IInv, AccountInv, HasTopic, LoggedInHasTopic
  <1> QED BY <1>1, Invariance, PTL

(* The topics the app asks for are subscribed to, refused or archived,     *)
(* however requests fail and processes end (FIRMessagingPendingTopicsList  *)
(* and its archive in the user defaults).                                  *)
THEOREM TopicsKept == Spec => []NothingForgotten
  <1>1. ASSUME IInv PROVE NothingForgotten
    <2> PICK id \in 0 .. Len(asked), pending \in SUBSET Users : ListInv(id, pending)
      BY <1>1 DEF IInv, TopicsInv
    <2>1. T!Pending(archive) = pending
      <3>1. Len(asked) \in Nat
        BY <1>1 DEF IInv, TopicsInv, TopicsTyped
      <3> QED BY <3>1, PendingIs DEF ListInv
    <2> QED BY <2>1 DEF ListInv, NothingForgotten, T!NothingForgotten
  <1> QED BY <1>1, Invariance, PTL
=============================================================================
