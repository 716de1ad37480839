------------------------------- MODULE Topics -------------------------------
(***************************************************************************)
(* The topics a device is subscribed to (FirebaseMessaging:                *)
(* FIRMessagingPendingTopicsList.m, FIRMessagingPubSub.m,                  *)
(* FIRMessagingTopicOperation.m).  Operations wait in batches of the same  *)
(* kind; the topics of the current batch are requested at once, and the    *)
(* next batch follows when all are done.  The batches are archived, so     *)
(* that a process that is started again takes up what is pending.  Every   *)
(* handler locks the list, and is one action; what the list dispatches to  *)
(* a concurrent background queue is an action of its own.                  *)
(*                                                                         *)
(* Left out: completion handlers (the app passes none), topic names the    *)
(* library refuses before it does anything, and cancelled requests.  The   *)
(* server and the network are the environment.                             *)
(***************************************************************************)
EXTENDS Integers, Sequences, FiniteSets, Subsequences

CONSTANTS
    TopicNames,
    Actions,            \* what the app does, of "subscribe" and "unsubscribe"
    MaxOperations,      \* bound: operations asked for
    MaxFailures         \* bound: processes killed, requests refused or
                        \* without an answer

VARIABLES
    topicBatches,       \* the batches, oldest first
    currentBatch,       \* id of the batch being worked on, or 0
    topicsInFlight,
    resumes,            \* resumeOperationsIfNeeded dispatched, not yet run
    requests,           \* operations on their way to the server
    answers,            \* completions dispatched, not yet run
    defaultFcmToken,    \* there is a token
    archive,            \* the batches in the user defaults
    subscribed,         \* the topics the server has for this device
    asked,              \* all operations the app asked for, in order
    refused,            \* topics of operations that were given up
    failed,             \* topics of the batches whose last request failed
    failures            \* what MaxFailures bounds

list    == <<topicBatches, currentBatch, topicsInFlight, archive>>
network == <<requests, answers, subscribed>>
history == <<asked, refused, failed>>
topicsVars == <<list, resumes, network, defaultFcmToken, history, failures>>

TopicsInit ==
    /\ topicBatches = <<>> /\ currentBatch = 0 /\ topicsInFlight = {}
    /\ resumes = 0 /\ requests = {} /\ answers = {}
    /\ defaultFcmToken = FALSE /\ archive = <<>> /\ subscribed = {}
    /\ asked = <<>> /\ refused = {} /\ failed = {} /\ failures = 0

Fail == failures < MaxFailures /\ failures' = failures + 1

\* The batch with an id.
Batch(id) == topicBatches[CHOOSE i \in DOMAIN topicBatches : topicBatches[i].id = id]

Pending(batches) == UNION {batches[i].topics : i \in DOMAIN batches}
-----------------------------------------------------------------------------
\* The batches with an operation added: to the last one if it is of its
\* kind, else in a batch of its own.
WithOperation(topic, action) ==
    LET n == Len(topicBatches)
    IN  IF n > 0 /\ topicBatches[n].action = action
          THEN [topicBatches EXCEPT ![n].topics = @ \cup {topic}]
          ELSE Append(topicBatches, [id |-> Len(asked) + 1, action |-> action,
                                     topics |-> {topic}])

\* Mutant: an operation is archived only when one is done.
ArchivedWith_Not(batches) == archive

\* The list is archived when it changes.
ArchivedWith(batches) == IF batches # topicBatches THEN batches ELSE archive

\* subscribeToTopic and unsubscribeFromTopic.  A list without a current
\* batch goes on with the last one.
AddOperationForTopic(topic, action) ==
    LET batches == WithOperation(topic, action)
        last    == batches[Len(batches)].id
    IN  /\ asked' = Append(asked, [topic |-> topic, action |-> action])
        /\ topicBatches' = batches
        /\ archive' = ArchivedWith(batches)
        /\ currentBatch' = IF currentBatch = 0 THEN last ELSE currentBatch
        /\ resumes' = resumes + IF batches # topicBatches /\ currentBatch' = last
                                  THEN 1 ELSE 0
        /\ UNCHANGED <<topicsInFlight, network, defaultFcmToken, refused, failed, failures>>

\* The topics of the current batch that are not yet requested are.
ResumeOperationsIfNeeded ==
    LET current == IF currentBatch = 0 /\ topicBatches # <<>>
                     THEN topicBatches[1].id ELSE currentBatch
        begun   == IF current = 0 \/ ~defaultFcmToken' THEN {}
                   ELSE Batch(current).topics \ topicsInFlight
    IN  /\ currentBatch' = current
        /\ topicsInFlight' = topicsInFlight \cup begun
        /\ requests' = requests \cup {[topic |-> t, action |-> Batch(current).action] : t \in begun}
        /\ failed' = failed \ begun
        /\ UNCHANGED <<topicBatches, archive, answers, subscribed, asked, refused>>

DispatchedResume ==
    /\ resumes > 0 /\ resumes' = resumes - 1
    /\ UNCHANGED <<defaultFcmToken, failures>>
    /\ ResumeOperationsIfNeeded

\* didReceiveDefaultInstanceIDToken
TokenArrives ==
    /\ ~defaultFcmToken /\ defaultFcmToken' = TRUE
    /\ UNCHANGED <<resumes, failures>>
    /\ ResumeOperationsIfNeeded

\* onNetworkStatusChanged, with scheduleSync
NetworkStatusChanged ==
    /\ defaultFcmToken
    /\ UNCHANGED <<resumes, defaultFcmToken, failures>>
    /\ ResumeOperationsIfNeeded

\* The batches without a topic of the current one, which leaves the list
\* with its last topic.
WithoutTopic(topic) ==
    IF Batch(currentBatch).topics = {topic}
      THEN At(topicBatches, {i \in DOMAIN topicBatches : topicBatches[i].id # currentBatch})
      ELSE [i \in DOMAIN topicBatches |->
              [topicBatches[i] EXCEPT !.topics =
                  IF topicBatches[i].id = currentBatch THEN @ \ {topic} ELSE @]]

\* Mutant: a topic that was requested stays in flight.
InFlightAfter_Same(topic) == topicsInFlight

InFlightAfter(topic) == topicsInFlight \ {topic}

\* The completion of a request.  A network error leaves the operation in
\* its batch; otherwise it is done, for good or ill, and the list resumed.
Completed(a) ==
    /\ a \in answers
    /\ answers' = answers \ {a}
    /\ topicsInFlight' = InFlightAfter(a.topic)
    /\ IF a.error = "recoverable"
         THEN /\ failed' = failed \cup {a.topic}
              /\ UNCHANGED <<topicBatches, currentBatch, archive, resumes, refused>>
         ELSE /\ topicBatches' = WithoutTopic(a.topic) /\ archive' = topicBatches'
              /\ currentBatch' = IF Batch(currentBatch).topics = {a.topic} THEN 0
                                                                           ELSE currentBatch
              /\ resumes' = resumes + 1
              /\ refused' = IF a.error = "fatal" THEN refused \cup {a.topic} ELSE refused
              /\ UNCHANGED failed
    /\ UNCHANGED <<requests, subscribed, defaultFcmToken, asked, failures>>
-----------------------------------------------------------------------------
(* The server and the network.                                             *)

Performed(topics, r) == IF r.action = "subscribe" THEN topics \cup {r.topic}
                                                  ELSE topics \ {r.topic}

Respond(r, error) ==
    /\ r \in requests
    /\ requests' = requests \ {r}
    /\ answers' = answers \cup {[topic |-> r.topic, error |-> error]}
    /\ UNCHANGED <<list, resumes, defaultFcmToken, history>>

Performs(r) ==
    /\ Respond(r, "none")
    /\ subscribed' = Performed(subscribed, r)
    /\ UNCHANGED failures

\* Also: a device that has not checked in.
Refuses(r) == Fail /\ Respond(r, "fatal") /\ UNCHANGED subscribed

\* An error of the network tells nothing of what the server did.
TimesOut(r) ==
    /\ Fail /\ Respond(r, "recoverable")
    /\ subscribed' \in {subscribed, Performed(subscribed, r)}

\* restorePendingTopicsList
Restored == At(archive, {i \in DOMAIN archive : archive[i].topics # {}})

\* The process ends and is started again.  Requests on their way may have
\* been performed; no two of them are for one topic.
RestartList ==
    /\ Fail
    /\ \E done \in SUBSET requests :
          subscribed' = (subscribed \cup {r.topic : r \in {q \in done : q.action = "subscribe"}})
                        \ {r.topic : r \in {q \in done : q.action = "unsubscribe"}}
    /\ topicBatches' = Restored
    /\ currentBatch' = 0 /\ topicsInFlight' = {} /\ resumes' = 0
    /\ requests' = {} /\ answers' = {} /\ failed' = {}
    /\ defaultFcmToken' = FALSE
    /\ UNCHANGED <<archive, asked, refused>>
-----------------------------------------------------------------------------
AppAsks == /\ Len(asked) < MaxOperations
           /\ \E t \in TopicNames, action \in Actions : AddOperationForTopic(t, action)

ServerResponds == \E r \in requests : Performs(r) \/ Refuses(r) \/ TimesOut(r)

ListStep == DispatchedResume \/ \E a \in answers : Completed(a)

TopicsNext ==
    \/ AppAsks \/ ListStep \/ ServerResponds
    \/ TokenArrives \/ NetworkStatusChanged \/ RestartList

\* What was dispatched runs and requests are answered.  Nothing makes the
\* token arrive or the network change.
TopicsFairness ==
    /\ WF_topicsVars(DispatchedResume)
    /\ WF_topicsVars(\E a \in answers : Completed(a))
    /\ WF_topicsVars(ServerResponds)

TopicsSpec == TopicsInit /\ [][TopicsNext]_topicsVars /\ TopicsFairness
-----------------------------------------------------------------------------
BatchSet == [id : 1 .. Len(asked), action : Actions, topics : (SUBSET TopicNames) \ {{}}]

TopicsTypeOK ==
    /\ topicBatches \in Seq(BatchSet) /\ archive = topicBatches
    /\ currentBatch \in {0} \cup {topicBatches[i].id : i \in DOMAIN topicBatches}
    /\ topicsInFlight \subseteq TopicNames
    /\ resumes \in Nat
    /\ requests \subseteq [topic : TopicNames, action : Actions]
    /\ answers \subseteq [topic : TopicNames, error : {"none", "recoverable", "fatal"}]
    /\ topicsInFlight = {r.topic : r \in requests} \cup {a.topic : a \in answers}
    /\ topicsInFlight # {} => currentBatch # 0 /\ topicsInFlight \subseteq Batch(currentBatch).topics
    /\ defaultFcmToken \in BOOLEAN /\ subscribed \subseteq TopicNames
    /\ asked \in Seq([topic : TopicNames, action : Actions])
    /\ refused \subseteq TopicNames /\ failed \subseteq Pending(topicBatches)

\* What the app last asked of a topic.
LastWord(t) ==
    LET of == SelectSeq(asked, LAMBDA o : o.topic = t)
    IN  IF of = <<>> THEN "unsubscribe" ELSE of[Len(of)].action

(* The operations on one topic take effect in the order in which they were *)
(* asked for, as FIRMessagingPendingTopicsList.h says of its batches: when *)
(* nothing is pending for a topic, its subscription is what the app last   *)
(* asked for.  It is not when an operation is added after a batch is done  *)
(* and before the list is resumed: addOperationForTopic goes on with the   *)
(* last batch, ahead of those that wait.                                   *)
LastWordWins ==
    \A t \in TopicNames \ (refused \cup Pending(topicBatches)) :
        t \in subscribed <=> LastWord(t) = "subscribe"

(* With subscriptions alone, none is forgotten, whatever requests fail and *)
(* processes end: a topic is subscribed to, refused, or in the archive.    *)
NothingForgotten ==
    \A i \in DOMAIN asked :
        asked[i].topic \in subscribed \cup refused \cup Pending(archive)

(* A pending operation is worked on, unless the list waits for a token, or *)
(* for a network change after a request without an answer: after such an   *)
(* error nothing is dispatched (subscriptionErrorIsRecoverable).           *)
PendingProgresses ==
    \A t \in TopicNames :
        t \in Pending(topicBatches) ~>
            t \notin Pending(topicBatches) \/ ~defaultFcmToken \/ failed # {}
=============================================================================
