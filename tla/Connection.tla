----------------------------- MODULE Connection -----------------------------
(***************************************************************************)
(* The connection of the database client (FPersistentConnection.m): how    *)
(* the writes and the listens of the app survive lost connections, changed *)
(* accounts, and tokens that are late, refused or revoked.  All handlers   *)
(* run one at a time on the queue of the database, so each is one action.  *)
(*                                                                         *)
(* A write (a "put") is known by its index, a listen by an id of its own:  *)
(* listening again to the same query is another id.  Left out: the data of *)
(* writes and listens, the delay before a retry (a network that becomes    *)
(* reachable only shortens it), whether a token must be a fresh one, and   *)
(* the writes the server is asked to do when the client disconnects.  The  *)
(* server is the environment: it takes the requests of a connection in     *)
(* order; what it had not taken when the connection ended is lost, as are  *)
(* the answers still on their way.                                         *)
(***************************************************************************)
EXTENDS Naturals, Sequences, FiniteSets, SequencesExt, Subsequences

CONSTANTS
    MaxPuts,            \* bound: writes issued
    Hashed,             \* indices of the writes that belong to a transaction
    Listens,            \* ids of the listens, each used at most once
    Places,             \* for each path, the listens at it
    Accounts,           \* accounts that may be signed in
    NoToken,            \* no account, and its token
    NoStatus,           \* the status of a write whose completion was not called
    MaxDisturbances     \* bound: connections lost, tokens refused or revoked,
                        \* sign-ins and sign-outs, interruptions, purges

Puts     == 0 .. MaxPuts - 1
Statuses == {"ok", "refused", "cancelled", "disconnect"}

ASSUME ConnectionAssumption ==
    /\ MaxPuts \in Nat /\ MaxDisturbances \in Nat
    /\ Hashed \subseteq Puts
    /\ IsFiniteSet(Listens) /\ UNION Places = Listens
    /\ NoToken \notin Accounts
    /\ NoStatus \notin Statuses

VARIABLES
    connectionState,    \* from "Disconnected" to "Connected"
    interruptReasons,   \* why the client must not connect
    scheduledRetry,     \* a connection attempt is scheduled
    currentFetchTokenAttempt,
    fetches,            \* token requests that Firebase Auth has not answered
    authToken,
    outstandingPuts,    \* writes the server has not answered
    sent,               \* the outstanding writes that were sent, ever
    putCounter,         \* index of the next write
    putsToAck,          \* answered writes, reported once the listens are
    status,             \* what the completion of each write was called with
    listens,            \* the listens in force
    listened,           \* every listen there was
    unackedListensCount,
    account,            \* the account signed in
    notices,            \* changed tokens on their way to the client
    requests,           \* of this connection, not yet taken by the server
    answers,            \* of the server, not yet received
    serverCred,         \* the account this connection is authenticated as
    taken,              \* writes the server has judged
    runs,               \* how often each write took effect
    disturbances        \* what MaxDisturbances bounds

link   == <<connectionState, interruptReasons, scheduledRetry>>
tokens == <<currentFetchTokenAttempt, fetches, authToken>>
puts   == <<outstandingPuts, sent, putCounter, putsToAck, status>>
subs   == <<listens, listened>>
auth   == <<account, notices>>
wire   == <<requests, answers, unackedListensCount>>
server == <<serverCred, taken, runs>>
vars   == <<link, tokens, puts, subs, auth, wire, server, disturbances>>

States  == {"Disconnected", "GettingToken", "Connecting", "Authenticating",
            "Connected"}
Reasons == {"waiting_for_open", "repo_interrupt", "server_kill"}
Tokens  == Accounts \cup {NoToken}

connected     == connectionState \in {"Authenticating", "Connected"}
canSendWrites == connectionState = "Connected"
realtime      == connectionState \in {"Connecting", "Authenticating", "Connected"}

\* "as" is the token the client held when it sent the write.
AuthRequest(cred, restore) == [type |-> "auth", cred |-> cred, restore |-> restore]
PutRequest(p)    == [type |-> "put", put |-> p, as |-> authToken]
ListenRequest(l) == [type |-> "listen", listen |-> l]
Unauth           == [type |-> "unauth"]
Unlisten         == [type |-> "unlisten"]

Init ==
    /\ connectionState = "Disconnected"
    /\ interruptReasons = {"waiting_for_open"}
    /\ scheduledRetry = FALSE
    /\ currentFetchTokenAttempt = 0 /\ fetches = {}
    /\ authToken = NoToken
    /\ outstandingPuts = {} /\ sent = {} /\ putCounter = 0 /\ putsToAck = <<>>
    /\ status = [p \in Puts |-> NoStatus]
    /\ listens = {} /\ listened = {}
    /\ account \in Tokens /\ notices = <<>>
    /\ requests = <<>> /\ answers = <<>> /\ unackedListensCount = 0
    /\ serverCred = NoToken /\ taken = {}
    /\ runs = [p \in Puts |-> 0]
    /\ disturbances = 0

Disturb == disturbances < MaxDisturbances /\ disturbances' = disturbances + 1
-----------------------------------------------------------------------------
(* The connection attempt.                                                 *)

\* Mutant: a transaction is sent again like any other write.
Cancelled_None == {}

\* The sent writes that belong to a transaction end with the connection.
Cancelled == outstandingPuts \cap sent \cap Hashed

\* The connection is gone.  The listens and the other writes are kept for
\* the next one, which is scheduled unless there are "reasons" against it.
OnDisconnect(reasons) ==
    /\ connectionState' = "Disconnected"
    /\ scheduledRetry' = (scheduledRetry \/ reasons = {})
    /\ status' = [p \in Puts |-> IF p \in Cancelled THEN "disconnect" ELSE status[p]]
    /\ outstandingPuts' = outstandingPuts \ Cancelled
    /\ sent' = sent \ Cancelled
    /\ unackedListensCount' = 0
    /\ requests' = <<>> /\ answers' = <<>> /\ serverCred' = NoToken
    /\ UNCHANGED <<putCounter, putsToAck, taken, runs>>

\* The connection ends, by the network or by either side.
ConnectionLost ==
    /\ realtime /\ Disturb
    /\ OnDisconnect(interruptReasons)
    /\ UNCHANGED <<interruptReasons, tokens, subs, auth>>

\* resumeForReason
Resume(r) ==
    /\ r \in interruptReasons
    /\ interruptReasons' = interruptReasons \ {r}
    /\ scheduledRetry' = (\/ scheduledRetry
                          \/ interruptReasons' = {} /\ connectionState = "Disconnected")
    /\ UNCHANGED <<connectionState, tokens, puts, subs, auth, wire, server, disturbances>>

\* FRepo opens the connection when it is set up, and may go back online; a
\* connection killed by the server stays closed.
Open     == Resume("waiting_for_open")
GoOnline == Resume("repo_interrupt")

\* interruptForReason
Interrupt(r) ==
    /\ Disturb
    /\ interruptReasons' = interruptReasons \cup {r}
    /\ IF realtime
         THEN OnDisconnect(interruptReasons')
         ELSE /\ scheduledRetry' = FALSE
              /\ connectionState' = "Disconnected"
              /\ UNCHANGED <<puts, wire, server>>
    /\ UNCHANGED <<tokens, subs, auth>>

GoOffline  == Interrupt("repo_interrupt")
ServerKill == realtime /\ Interrupt("server_kill")

\* The scheduled attempt asks Firebase Auth for the token of the account.
ExecuteRetry ==
    /\ scheduledRetry
    /\ scheduledRetry' = FALSE
    /\ connectionState' = "GettingToken"
    /\ currentFetchTokenAttempt' = currentFetchTokenAttempt + 1
    /\ fetches' = fetches \cup {[attempt |-> currentFetchTokenAttempt', token |-> account]}
    /\ UNCHANGED <<interruptReasons, authToken, puts, subs, auth, wire, server, disturbances>>

\* Mutant: every answer counts.
Latest_Any(f) == TRUE

\* Only the answer to the latest request counts.
Latest(f) == f.attempt = currentFetchTokenAttempt

\* The token is there: the network connection is opened, unless the client
\* was interrupted while it waited.
TokenFetched(f) ==
    /\ f \in fetches
    /\ fetches' = fetches \ {f}
    /\ IF Latest(f) /\ connectionState = "GettingToken"
         THEN authToken' = f.token /\ connectionState' = "Connecting"
         ELSE UNCHANGED <<authToken, connectionState>>
    /\ UNCHANGED <<interruptReasons, scheduledRetry, currentFetchTokenAttempt,
                   puts, subs, auth, wire, server, disturbances>>

\* Mutant: a failed attempt is the last one.
TokenFetchFailed_GivesUp(f) ==
    /\ f \in fetches /\ Disturb
    /\ fetches' = fetches \ {f}
    /\ connectionState' = IF Latest(f) THEN "Disconnected" ELSE connectionState
    /\ UNCHANGED <<interruptReasons, scheduledRetry, currentFetchTokenAttempt, authToken,
                   puts, subs, auth, wire, server>>

\* The token cannot be had: the attempt starts over.
TokenFetchFailed(f) ==
    /\ f \in fetches /\ Disturb
    /\ fetches' = fetches \ {f}
    /\ IF Latest(f)
         THEN /\ connectionState' = "Disconnected"
              /\ scheduledRetry' = (scheduledRetry \/ interruptReasons = {})
         ELSE UNCHANGED <<connectionState, scheduledRetry>>
    /\ UNCHANGED <<interruptReasons, currentFetchTokenAttempt, authToken, puts,
                   subs, auth, wire, server>>

\* Mutant: in the opposite order.
InOrder_Not(S) ==
    [i \in 1 .. Cardinality(S) |-> CHOOSE p \in S : Cardinality({q \in S : q > p}) = i - 1]

\* The outstanding writes in the order in which they are sent again.
InOrder(S) == Ascending(S)

\* restoreState: the listens in some order, then the writes.
RestoreState ==
    LET again == InOrder(outstandingPuts)
        relisten == SetToSeq(listens)
    IN  /\ requests' = requests \o [i \in DOMAIN relisten |-> ListenRequest(relisten[i])]
                                \o [i \in DOMAIN again |-> PutRequest(again[i])]
        /\ unackedListensCount' = unackedListensCount + Cardinality(listens)
        /\ sent' = outstandingPuts

\* onReady and restoreAuth: the server has answered the handshake.
Ready ==
    /\ connectionState = "Connecting"
    /\ IF authToken = NoToken
         THEN connectionState' = "Connected" /\ RestoreState
         ELSE /\ connectionState' = "Authenticating"
              /\ requests' = Append(requests, AuthRequest(authToken, TRUE))
              /\ UNCHANGED <<unackedListensCount, sent>>
    /\ UNCHANGED <<interruptReasons, scheduledRetry, tokens, outstandingPuts, putCounter,
                   putsToAck, status, subs, auth, answers, server, disturbances>>
-----------------------------------------------------------------------------
(* What the app does.                                                      *)

\* putInternal: a write is sent at once or with the next connection.
Put ==
    /\ putCounter < MaxPuts
    /\ putCounter' = putCounter + 1
    /\ outstandingPuts' = outstandingPuts \cup {putCounter}
    /\ IF canSendWrites
         THEN /\ sent' = sent \cup {putCounter}
              /\ requests' = Append(requests, PutRequest(putCounter))
         ELSE UNCHANGED <<sent, requests>>
    /\ UNCHANGED <<link, tokens, putsToAck, status, subs, auth, answers,
                   unackedListensCount, server, disturbances>>

\* A listen is sent even before the connection is authenticated.
Listen(l) ==
    /\ l \in Listens \ listened
    /\ listens' = listens \cup {l} /\ listened' = listened \cup {l}
    /\ IF connected
         THEN /\ requests' = Append(requests, ListenRequest(l))
              /\ unackedListensCount' = unackedListensCount + 1
         ELSE UNCHANGED <<requests, unackedListensCount>>
    /\ UNCHANGED <<link, tokens, puts, auth, answers, server, disturbances>>

UnlistenTo(l) ==
    /\ l \in listens
    /\ listens' = listens \ {l}
    /\ requests' = IF connected THEN Append(requests, Unlisten) ELSE requests
    /\ UNCHANGED <<link, tokens, puts, listened, auth, answers, unackedListensCount,
                   server, disturbances>>

\* ackPuts: the answered writes are reported.
Acked == [p \in Puts |->
            LET held == {i \in DOMAIN putsToAck : putsToAck[i].put = p}
            IN  IF held = {} THEN status[p] ELSE putsToAck[CHOOSE i \in held : TRUE].result]

\* The answered writes are reported, and those that have no answer are given up.
PurgeOutstandingWrites ==
    /\ outstandingPuts # {} \/ putsToAck # <<>>
    /\ Disturb
    /\ status' = [p \in Puts |-> IF p \in outstandingPuts THEN "cancelled" ELSE Acked[p]]
    /\ outstandingPuts' = {} /\ sent' = {} /\ putsToAck' = <<>>
    /\ UNCHANGED <<link, tokens, putCounter, subs, auth, wire, server>>

\* Firebase Auth: somebody signs in or out, and the client will be told.
AccountChanges(a) ==
    /\ a \in Tokens \ {account}
    /\ Disturb
    /\ account' = a
    /\ notices' = Append(notices, a)
    /\ UNCHANGED <<link, tokens, puts, subs, wire, server>>

\* Mutant: the end of a session is not told to the server.
NewToken_KeepsOld(token) == IF connected /\ token # NoToken
                              THEN <<AuthRequest(token, FALSE)>> ELSE <<>>

\* The requests that tell the server of a new token.
NewToken(token) == IF ~connected THEN <<>>
                   ELSE IF token = NoToken THEN <<Unauth>>
                   ELSE <<AuthRequest(token, FALSE)>>

\* refreshAuthToken
RefreshAuthToken ==
    /\ notices # <<>>
    /\ notices' = Tail(notices)
    /\ authToken' = Head(notices)
    /\ requests' = requests \o NewToken(authToken')
    /\ UNCHANGED <<link, currentFetchTokenAttempt, fetches, puts, subs, account, answers,
                   unackedListensCount, server, disturbances>>
-----------------------------------------------------------------------------
(* The server.                                                             *)

Taken(type) ==
    /\ requests # <<>> /\ Head(requests).type = type
    /\ requests' = Tail(requests)
    /\ UNCHANGED <<link, tokens, puts, subs, auth, unackedListensCount>>

Answer(a) == answers' = Append(answers, a)

ServerAccepts ==
    /\ Taken("auth")
    /\ serverCred' = Head(requests).cred
    /\ Answer([type |-> "auth", ok |-> TRUE, restore |-> Head(requests).restore])
    /\ UNCHANGED <<taken, runs, disturbances>>

ServerDenies ==
    /\ Taken("auth") /\ Disturb
    /\ serverCred' = NoToken
    /\ Answer([type |-> "auth", ok |-> FALSE, restore |-> Head(requests).restore])
    /\ UNCHANGED <<taken, runs>>

ServerForgets ==
    /\ Taken("unauth")
    /\ serverCred' = NoToken
    /\ UNCHANGED <<answers, taken, runs, disturbances>>

ServerStores ==
    /\ Taken("put")
    /\ LET p == Head(requests).put
       IN  /\ runs' = [runs EXCEPT ![p] = @ + 1]
           /\ taken' = taken \cup {p}
           /\ Answer([type |-> "put", put |-> p, result |-> "ok"])
    /\ UNCHANGED <<serverCred, disturbances>>

ServerRefuses ==
    /\ Taken("put")
    /\ taken' = taken \cup {Head(requests).put}
    /\ Answer([type |-> "put", put |-> Head(requests).put, result |-> "refused"])
    /\ UNCHANGED <<serverCred, runs, disturbances>>

ServerListens ==
    /\ Taken("listen")
    /\ \E ok \in BOOLEAN :
          Answer([type |-> "listen", listen |-> Head(requests).listen, ok |-> ok])
    /\ UNCHANGED <<server, disturbances>>

ServerUnlistens ==
    /\ Taken("unlisten")
    /\ UNCHANGED <<answers, server, disturbances>>

\* The server withdraws the authentication of the connection.
ServerRevokes ==
    /\ serverCred # NoToken /\ Disturb
    /\ serverCred' = NoToken
    /\ Answer([type |-> "revoked"])
    /\ UNCHANGED <<link, tokens, puts, subs, auth, requests, unackedListensCount,
                   taken, runs>>

\* The server withdraws a listen it had granted.
ServerCancelsListen(l) ==
    /\ l \in listens /\ connected /\ Disturb
    /\ Answer([type |-> "listenRevoked", listen |-> l])
    /\ UNCHANGED <<link, tokens, puts, subs, auth, requests, unackedListensCount,
                   server>>
-----------------------------------------------------------------------------
(* What the client does with an answer.                                    *)

Received(type) ==
    /\ answers # <<>> /\ Head(answers).type = type
    /\ UNCHANGED <<interruptReasons, currentFetchTokenAttempt, fetches, auth, listened,
                   disturbances>>

\* The connection is authenticated; after the first time it is restored.
AuthAnswered ==
    /\ Received("auth") /\ Head(answers).ok
    /\ answers' = Tail(answers)
    /\ connectionState' = "Connected"
    /\ IF Head(answers).restore THEN RestoreState
                                ELSE UNCHANGED <<requests, unackedListensCount, sent>>
    /\ UNCHANGED <<scheduledRetry, authToken, outstandingPuts, putCounter, putsToAck,
                   status, listens, server>>

\* A token that is refused or revoked is dropped with the connection.
TokenRejected ==
    /\ \/ Received("auth") /\ ~Head(answers).ok
       \/ Received("revoked")
    /\ authToken' = NoToken
    /\ OnDisconnect(interruptReasons)
    /\ UNCHANGED listens

\* A write is reported at once only if every listen that was sent is answered.
PutAnswered ==
    /\ Received("put")
    /\ answers' = Tail(answers)
    /\ LET p == Head(answers).put
           result == Head(answers).result
       IN  /\ outstandingPuts' = outstandingPuts \ {p}
           /\ sent' = sent \ {p}
           /\ IF p \notin outstandingPuts
                THEN UNCHANGED <<status, putsToAck>>
              ELSE IF unackedListensCount = 0
                THEN status' = [status EXCEPT ![p] = result] /\ UNCHANGED putsToAck
              ELSE /\ putsToAck' = Append(putsToAck, [put |-> p, result |-> result])
                   /\ UNCHANGED status
    /\ UNCHANGED <<connectionState, scheduledRetry, authToken, putCounter, listens, requests,
                   unackedListensCount, server>>

\* The last answer to a listen releases the writes that waited for it.
ListenAnswered ==
    /\ Received("listen")
    /\ answers' = Tail(answers)
    /\ listens' = IF Head(answers).ok THEN listens ELSE listens \ {Head(answers).listen}
    /\ unackedListensCount' = unackedListensCount - 1
    /\ IF unackedListensCount = 1 THEN status' = Acked /\ putsToAck' = <<>>
                                  ELSE UNCHANGED <<status, putsToAck>>
    /\ UNCHANGED <<connectionState, scheduledRetry, authToken, outstandingPuts, sent,
                   putCounter, requests, server>>

\* Every listen at the path goes with the one that is revoked.
ListenRevoked ==
    /\ Received("listenRevoked")
    /\ answers' = Tail(answers)
    /\ listens' = {l \in listens : ~ \E P \in Places : {l, Head(answers).listen} \subseteq P}
    /\ UNCHANGED <<connectionState, scheduledRetry, authToken, puts, requests,
                   unackedListensCount, server>>
-----------------------------------------------------------------------------
ServerStep == \/ ServerAccepts \/ ServerDenies \/ ServerForgets \/ ServerStores
              \/ ServerRefuses \/ ServerListens \/ ServerUnlistens

Receive == \/ AuthAnswered \/ TokenRejected \/ PutAnswered \/ ListenAnswered
           \/ ListenRevoked

Next ==
    \/ Open \/ GoOffline \/ GoOnline \/ ServerKill \/ ConnectionLost
    \/ ExecuteRetry \/ Ready
    \/ \E f \in fetches : TokenFetched(f) \/ TokenFetchFailed(f)
    \/ Put \/ PurgeOutstandingWrites
    \/ \E l \in Listens : Listen(l) \/ UnlistenTo(l) \/ ServerCancelsListen(l)
    \/ \E a \in Tokens : AccountChanges(a)
    \/ RefreshAuthToken
    \/ ServerStep \/ ServerRevokes \/ Receive

\* The queue of the database runs what is queued, Firebase Auth answers, a
\* server that is connected takes and answers requests, and an app that went
\* offline comes back.  Nothing makes the app unlisten or the server revoke.
Fairness ==
    /\ WF_vars(Open) /\ WF_vars(GoOnline)
    /\ WF_vars(ExecuteRetry) /\ WF_vars(Ready)
    /\ WF_vars(\E f \in fetches : TokenFetched(f) \/ TokenFetchFailed(f))
    /\ WF_vars(RefreshAuthToken)
    /\ WF_vars(ServerStep) /\ WF_vars(Receive)

Spec == Init /\ [][Next]_vars /\ Fairness
-----------------------------------------------------------------------------
RequestSet ==
    [type : {"auth"}, cred : Accounts, restore : BOOLEAN]
    \cup [type : {"put"}, put : Puts, as : Tokens]
    \cup [type : {"listen"}, listen : Listens]
    \cup {Unauth, Unlisten}

AnswerSet ==
    [type : {"auth"}, ok : BOOLEAN, restore : BOOLEAN]
    \cup [type : {"put"}, put : Puts, result : {"ok", "refused"}]
    \cup [type : {"listen"}, listen : Listens, ok : BOOLEAN]
    \cup [type : {"listenRevoked"}, listen : Listens]
    \cup {[type |-> "revoked"]}

TypeOK ==
    /\ connectionState \in States
    /\ interruptReasons \subseteq Reasons
    /\ scheduledRetry \in BOOLEAN
    /\ currentFetchTokenAttempt \in Nat
    /\ fetches \subseteq [attempt : 1 .. currentFetchTokenAttempt, token : Tokens]
    /\ authToken \in Tokens
    /\ sent \subseteq outstandingPuts
    /\ putCounter \in 0 .. MaxPuts
    /\ outstandingPuts \subseteq 0 .. putCounter - 1
    /\ putsToAck \in Seq([put : 0 .. putCounter - 1, result : {"ok", "refused"}])
    /\ status \in [Puts -> Statuses \cup {NoStatus}]
    /\ listens \subseteq listened /\ listened \subseteq Listens
    /\ unackedListensCount \in Nat
    /\ account \in Tokens /\ notices \in Seq(Tokens)
    /\ requests \in Seq(RequestSet) /\ answers \in Seq(AnswerSet)
    /\ serverCred \in Tokens
    /\ taken \subseteq Puts /\ runs \in [Puts -> Nat]

\* The listens of this connection that the server has not answered.
Unanswered == Cardinality({i \in DOMAIN requests : requests[i].type = "listen"})
              + Cardinality({i \in DOMAIN answers : answers[i].type = "listen"})

\* Where this connection carries a write, or the answer to it.
Asking(p)    == {i \in DOMAIN requests : requests[i].type = "put" /\ requests[i].put = p}
Answering(p) == {i \in DOMAIN answers : answers[i].type = "put" /\ answers[i].put = p}

(* What the handlers assert of the state they find, whatever order tokens, *)
(* interruptions and answers come in (lines 392, 399, 417, 432, 493, 564,  *)
(* 683, 814, 828): an attempt is scheduled and started only by a client    *)
(* that is disconnected, a token that is awaited finds it waiting or       *)
(* disconnected, the count of listens is that of the connection, and       *)
(* without a connection there is nothing in flight.  A client that may     *)
(* connect and does not is about to.                                       *)
AssertionsHold ==
    /\ TypeOK
    /\ scheduledRetry => connectionState = "Disconnected" /\ interruptReasons = {}
    /\ connectionState = "Disconnected" /\ interruptReasons = {} => scheduledRetry
    /\ \A f \in fetches : Latest(f) => connectionState \in {"GettingToken", "Disconnected"}
    /\ connectionState = "GettingToken" => \E f \in fetches : Latest(f)
    /\ unackedListensCount = Unanswered
    /\ ~connected => requests = <<>> /\ answers = <<>>
    /\ connectionState = "Authenticating" =>
          \A i \in DOMAIN requests : requests[i].type # "put"

(* A write never takes effect as an account other than the one whose token *)
(* the client held when it sent it: the requests that change the account   *)
(* of a connection and its writes stay in order (refreshAuthToken,         *)
(* restoreAuth).  The server may have dropped the authentication.          *)
NeverAsAnother ==
    requests # <<>> /\ Head(requests).type = "put" =>
        serverCred \in {Head(requests).as, NoToken}

(* A connection carries a write once, and a write that belongs to a        *)
(* transaction takes effect once at most: it is not sent again after a     *)
(* connection that may have delivered it (cancelSentTransactions).         *)
SentOnce ==
    /\ \A p \in Puts :
          Cardinality(Asking(p)) + Cardinality(Answering(p)) <= 1
    /\ \A p \in Hashed : runs[p] <= 1

(* The writes of the client, whatever happens to its connections, are      *)
(* writes as the module Writes promises them: the server first judges them *)
(* in order, and they are reported once and truthfully.                    *)
\* The writes that took effect.
stored == {p \in Puts : runs[p] > 0}

W == INSTANCE Writes WITH issued <- putCounter
ImplementsWrites == W!WritesSpec

\* An answered write that waits for the answer to a listen nobody sent.
Stranded(p) ==
    /\ unackedListensCount = 0
    /\ \E i \in DOMAIN putsToAck : putsToAck[i].put = p

(* A write is reported in the end, unless the server has killed the        *)
(* connection or the write is left behind by a listen that was given up    *)
(* while its answer was lost.                                              *)
WritesReported ==
    \A p \in Puts :
        putCounter > p ~>
            \/ status[p] # NoStatus
            \/ "server_kill" \in interruptReasons
            \/ Stranded(p)

(* What FIRDatabaseReference.h says of the completion block of a write: it *)
(* is called after the write has been committed to the servers.  It is not *)
(* when the answer to a listen sent with it is lost and nobody listens     *)
(* any more: the write waits in putsToAck for an answer that never comes.  *)
CompletionCalled ==
    \A p \in Puts :
        p \in stored ~>
            \/ status[p] # NoStatus
            \/ "server_kill" \in interruptReasons
=============================================================================
