---------------------------- MODULE Database_proofs ---------------------------
(***************************************************************************)
(* Proofs about the database client.  About Connection, for any numbers of *)
(* writes and disturbances and any listens and accounts: the inductive     *)
(* invariant, the safety properties that follow from it, and that          *)
(* Connection implements Writes.  About WriteTree, for any tree of paths   *)
(* and any shapes of writes whose merges name children: the inductive      *)
(* invariant, and what the view shows.                                     *)
(***************************************************************************)
EXTENDS Connection, WriteTree, FiniteSetTheorems, WellFoundedInduction, TLAPS

\* The messages of one type in a sequence of them.
Of(messages, type) == {i \in DOMAIN messages : messages[i].type = type}

Listening(messages) == Cardinality(Of(messages, "listen"))

\* The client is in the state its attempt calls for, and no two token requests are of the
\* same attempt, so that the answer to the latest one is the last that counts.
LinkOK ==
    /\ scheduledRetry => connectionState = "Disconnected" /\ interruptReasons = {}
    /\ connectionState = "Disconnected" /\ interruptReasons = {} => scheduledRetry
    /\ \A f \in fetches : Latest(f) => connectionState \in {"GettingToken", "Disconnected"}
    /\ connectionState = "GettingToken" => \E f \in fetches : Latest(f)
    /\ \A f, g \in fetches : f.attempt = g.attempt => f = g

CountOK == unackedListensCount = Listening(requests) + Listening(answers)

\* Nothing is in flight without a connection, and no write before it is authenticated.
QuietOK ==
    /\ ~connected => requests = <<>> /\ answers = <<>> /\ serverCred = NoToken
    /\ connectionState = "Authenticating" => Of(requests, "put") = {} /\ Of(answers, "put") = {}

\* Of the authentications in flight only the first may restore the connection, and it is
\* in flight until the connection is restored.
RestoreOK ==
    /\ \A i, j \in Of(requests, "auth") : i < j => ~requests[j].restore
    /\ \A i, j \in Of(answers, "auth") : i < j => ~answers[j].restore
    /\ Of(answers, "auth") # {} => \A j \in Of(requests, "auth") : ~requests[j].restore
    /\ connectionState = "Authenticating" =>
          \/ \E i \in Of(requests, "auth") : requests[i].restore
          \/ \E i \in Of(answers, "auth") : answers[i].restore
    /\ connectionState = "Connected" =>
          /\ \A i \in Of(requests, "auth") : ~requests[i].restore
          /\ \A i \in Of(answers, "auth") : ~answers[i].restore

\* The account that a message tells the server of.
Mark(m) == m.type \in {"auth", "unauth"}
Cred(m) == IF m.type = "auth" THEN m.cred ELSE NoToken

\* When a server that takes the connection for that of an account has taken the messages
\* before position i, it takes it for that of the account of the token, or of nobody.
Told(messages, cred, i, token) ==
    /\ \A j \in 1 .. i - 1 :
          Mark(messages[j]) /\ (\A k \in j + 1 .. i - 1 : ~Mark(messages[k]))
              => Cred(messages[j]) = token
    /\ (\A j \in 1 .. i - 1 : ~Mark(messages[j])) => cred \in {token, NoToken}

ToldOK ==
    /\ \A i \in Of(requests, "put") : Told(requests, serverCred, i, requests[i].as)
    /\ connected => Told(requests, serverCred, Len(requests) + 1, authToken)

\* The writes of a connection are in flight in their order, each of them once.
FlightOK ==
    /\ \A i, j \in Of(requests, "put") : i < j => requests[i].put < requests[j].put
    /\ \A i, j \in Of(answers, "put") : i < j => answers[i].put < answers[j].put
    /\ \A i \in Of(answers, "put"), j \in Of(requests, "put") : answers[i].put < requests[j].put
    /\ \A i \in Of(requests, "put") : requests[i].put < putCounter
    /\ \A i \in Of(answers, "put") : answers[i].put < putCounter

InFlight(p) ==
    \/ \E i \in Of(requests, "put") : requests[i].put = p
    \/ \E i \in Of(answers, "put") : answers[i].put = p

\* Every write that has no answer is in flight once the connection is restored, and a
\* write of a transaction that was sent stays with the connection it was sent on.
SentOK ==
    /\ \A p \in outstandingPuts : InFlight(p) => p \in sent
    /\ connectionState = "Connected" => \A p \in outstandingPuts : InFlight(p)
    /\ connectionState # "Connected" => sent \cap Hashed = {}

\* What the server has judged, and that it first judges writes in their order.
TakenOK ==
    /\ taken \subseteq 0 .. putCounter - 1
    /\ \A p \in Puts : runs[p] > 0 => p \in taken
    /\ \A p \in outstandingPuts : p \in taken \/ \A q \in taken : q < p
    /\ \A i \in Of(requests, "put") : requests[i].put \in taken \/ \A q \in taken : q < requests[i].put
    /\ \A i \in Of(answers, "put") :
          /\ answers[i].put \in taken
          /\ answers[i].result = "ok" => runs[answers[i].put] > 0

\* A write of a transaction that the server may still get has not taken effect.
HashedOK ==
    \A p \in Hashed :
        /\ runs[p] <= 1
        /\ p \in outstandingPuts \ sent => runs[p] = 0
        /\ \A i \in Of(requests, "put") : requests[i].put = p => runs[p] = 0

\* What is not reported, and what waits to be.
StatusOK ==
    /\ \A p \in Puts : p >= putCounter \/ p \in outstandingPuts => status[p] = NoStatus
    /\ \A i \in DOMAIN putsToAck :
          /\ putsToAck[i].put \notin outstandingPuts
          /\ status[putsToAck[i].put] = NoStatus
          /\ putsToAck[i].result = "ok" => runs[putsToAck[i].put] > 0

IInv ==
    /\ TypeOK /\ LinkOK /\ CountOK /\ QuietOK /\ RestoreOK /\ ToldOK
    /\ FlightOK /\ SentOK /\ TakenOK /\ HashedOK /\ StatusOK
-----------------------------------------------------------------------------
\* What is taken from a sequence, added to it, or joined to it.
Rest(q, r)      == q # <<>> /\ r = Tail(q)
Longer(q, x, r) == r = Append(q, x)
Joined(q, t, r) == r = q \o t

\* A sequence without its head.
LEMMA Tails ==
    ASSUME NEW S, NEW q \in Seq(S), NEW r, Rest(q, r)
    PROVE  /\ Len(q) \in Nat /\ DOMAIN q = 1 .. Len(q) /\ 1 \in DOMAIN q /\ Head(q) = q[1]
           /\ q[1] \in S
           /\ r \in Seq(S) /\ Len(r) = Len(q) - 1 /\ Len(r) \in Nat /\ DOMAIN r = 1 .. Len(r)
           /\ \A i \in DOMAIN r : i \in Nat /\ i + 1 \in DOMAIN q /\ r[i] = q[i + 1]
           /\ \A i \in DOMAIN q : i \in Nat /\ (i = 1 \/ (i - 1 \in DOMAIN r /\ r[i - 1] = q[i]))
  <1>1. /\ Len(q) \in Nat /\ Len(q) # 0 /\ DOMAIN q = 1 .. Len(q) /\ Head(q) = q[1]
        /\ r \in Seq(S) /\ Len(r) = Len(q) - 1 /\ DOMAIN r = 1 .. Len(r)
    BY DEF Rest
  <1>2. 1 \in DOMAIN q /\ q[1] \in S /\ Len(r) \in Nat
    BY <1>1
  <1>3. \A i \in DOMAIN r : r[i] = q[i + 1]
    BY DEF Rest
  <1>4. (\A i \in DOMAIN r : i \in Nat /\ i + 1 \in DOMAIN q) /\ \A i \in DOMAIN q : i \in Nat
    BY <1>1
  <1>5. \A i \in DOMAIN r : i \in Nat /\ i + 1 \in DOMAIN q /\ r[i] = q[i + 1]
    BY <1>3, <1>4
  <1>6. ASSUME NEW i \in DOMAIN q
        PROVE  i \in Nat /\ (i = 1 \/ (i - 1 \in DOMAIN r /\ r[i - 1] = q[i]))
    <2>1. i \in Nat
      BY <1>4
    <2>2. i = 1 \/ (i - 1 \in DOMAIN r /\ (i - 1) + 1 = i)
      BY <1>1, <2>1
    <2>3. i = 1 \/ r[i - 1] = q[(i - 1) + 1]
      BY <1>3, <2>2
    <2> QED BY <2>1, <2>2, <2>3
  <1> QED BY <1>1, <1>2, <1>5, <1>6

\* A sequence with one more element.
LEMMA Appends ==
    ASSUME NEW S, NEW q \in Seq(S), NEW x \in S, NEW r, Longer(q, x, r)
    PROVE  /\ Len(q) \in Nat /\ DOMAIN q = 1 .. Len(q)
           /\ r \in Seq(S) /\ Len(r) = Len(q) + 1 /\ DOMAIN r = 1 .. Len(q) + 1
           /\ r[Len(q) + 1] = x
           /\ \A i \in DOMAIN q : i \in Nat /\ i \in DOMAIN r /\ i < Len(q) + 1 /\ r[i] = q[i]
           /\ \A i \in DOMAIN r : i \in DOMAIN q \/ i = Len(q) + 1
  BY DEF Longer

\* The positions of one type, and how their number grows and falls.
LEMMA Positions ==
    ASSUME NEW S, NEW q \in Seq(S), NEW t
    PROVE  IsFiniteSet(Of(q, t)) /\ Cardinality(Of(q, t)) \in Nat
  <1>1. IsFiniteSet(1 .. Len(q)) /\ DOMAIN q = 1 .. Len(q)
    <2>1. 1 \in Int /\ Len(q) \in Int
      OBVIOUS
    <2> QED BY <2>1, FS_Interval
  <1>2. IsFiniteSet(Of(q, t))
    BY <1>1, FS_Subset DEF Of
  <1> QED BY <1>2, FS_CardinalityType

LEMMA ListeningAppend ==
    ASSUME NEW S, NEW q \in Seq(S), NEW x \in S, NEW r, Longer(q, x, r)
    PROVE  Listening(r) = IF x.type = "listen" THEN Listening(q) + 1 ELSE Listening(q)
  <1> DEFINE n == Len(q) + 1
  <1>1. n \notin DOMAIN q /\ r[n] = x /\ DOMAIN r = DOMAIN q \cup {n}
        /\ \A i \in DOMAIN q : r[i] = q[i]
    <2>1. /\ Len(q) \in Nat /\ DOMAIN q = 1 .. Len(q) /\ DOMAIN r = 1 .. Len(q) + 1
          /\ r[n] = x /\ \A i \in DOMAIN q : r[i] = q[i]
      BY Appends
    <2>2. n \notin DOMAIN q /\ DOMAIN r = DOMAIN q \cup {n}
      BY <2>1
    <2> QED BY <2>1, <2>2
  <1> HIDE DEF n
  <1>2. n \notin Of(q, "listen")
        /\ Of(r, "listen") = IF x.type = "listen" THEN Of(q, "listen") \cup {n} ELSE Of(q, "listen")
    BY <1>1 DEF Of
  <1>3. Cardinality(Of(q, "listen") \cup {n}) = Cardinality(Of(q, "listen")) + 1
    BY <1>2, Positions, FS_AddElement
  <1> QED BY <1>2, <1>3 DEF Listening

LEMMA ListeningTail ==
    ASSUME NEW S, NEW q \in Seq(S), NEW r, Rest(q, r)
    PROVE  /\ Listening(q) \in Nat /\ Listening(r) \in Nat
           /\ Listening(q) = IF Head(q).type = "listen" THEN Listening(r) + 1 ELSE Listening(r)
  <1> DEFINE all   == Of(q, "listen")
             rest  == Of(r, "listen")
             later == all \ {1}
             next  == [i \in rest |-> i + 1]
  <1>1. /\ 1 \in DOMAIN q /\ Head(q) = q[1] /\ r \in Seq(S)
        /\ \A i \in DOMAIN r : i \in Nat /\ i + 1 \in DOMAIN q /\ i + 1 # 1 /\ r[i] = q[i + 1]
        /\ \A i \in DOMAIN q : i \in Nat /\ (i = 1 \/ (i - 1 \in DOMAIN r /\ r[i - 1] = q[i]))
    <2>1. DOMAIN r = 1 .. Len(r) /\ Len(r) \in Nat
      BY Tails
    <2>2. \A i \in DOMAIN r : i + 1 # 1
      BY <2>1
    <2>3. /\ 1 \in DOMAIN q /\ Head(q) = q[1] /\ r \in Seq(S)
          /\ \A i \in DOMAIN r : i \in Nat /\ i + 1 \in DOMAIN q /\ r[i] = q[i + 1]
      BY Tails
    <2>4. \A i \in DOMAIN q : i \in Nat /\ (i = 1 \/ (i - 1 \in DOMAIN r /\ r[i - 1] = q[i]))
      BY Tails
    <2> QED BY <2>2, <2>3, <2>4
  <1>2. IsFiniteSet(all) /\ IsFiniteSet(rest) /\ Cardinality(all) \in Nat /\ Cardinality(rest) \in Nat
    BY <1>1, Positions
  <1>3. \A i \in rest : i \in Nat /\ i + 1 \in later
    BY <1>1 DEF Of
  <1>4. ASSUME NEW j \in later PROVE j - 1 \in rest /\ (j - 1) + 1 = j
    <2>1. j \in DOMAIN q /\ j # 1 /\ q[j].type = "listen"
      BY DEF Of
    <2>2. j \in Nat /\ j - 1 \in DOMAIN r /\ r[j - 1] = q[j]
      BY <1>1, <2>1
    <2> QED BY <2>1, <2>2 DEF Of
  <1>5. (1 \in all) <=> (Head(q).type = "listen")
    BY <1>1 DEF Of
  <1> HIDE DEF all, rest, later
  <1>6. next \in Bijection(rest, later)
    <2>1. next \in Injection(rest, later)
      BY <1>3 DEF Injection, IsInjective
    <2>2. next \in Surjection(rest, later)
      BY <1>3, <1>4 DEF Surjection
    <2> QED BY <2>1, <2>2 DEF Bijection
  <1>7. Cardinality(later) = Cardinality(rest)
    BY <1>2, <1>6, FS_Bijection DEF ExistsBijection
  <1>8. Cardinality(later) = IF 1 \in all THEN Cardinality(all) - 1 ELSE Cardinality(all)
    BY <1>2, FS_RemoveElement DEF later
  <1>9. Cardinality(all) = IF 1 \in all THEN Cardinality(rest) + 1 ELSE Cardinality(rest)
    BY <1>2, <1>7, <1>8
  <1> QED BY <1>2, <1>5, <1>9 DEF Listening, all, rest

\* Two sequences, one after the other.
LEMMA Concats ==
    ASSUME NEW S, NEW q \in Seq(S), NEW t \in Seq(S), NEW r, Joined(q, t, r)
    PROVE  /\ Len(q) \in Nat /\ DOMAIN q = 1 .. Len(q) /\ Len(t) \in Nat /\ DOMAIN t = 1 .. Len(t)
           /\ r \in Seq(S) /\ Len(r) = Len(q) + Len(t) /\ DOMAIN r = 1 .. Len(q) + Len(t)
           /\ \A i \in DOMAIN q : i \in DOMAIN r /\ r[i] = q[i]
           /\ \A k \in DOMAIN t : Len(q) + k \in DOMAIN r /\ r[Len(q) + k] = t[k]
           /\ \A i \in DOMAIN r : i \in DOMAIN q \/ \E k \in DOMAIN t : i = Len(q) + k
  <1>1. \A i \in DOMAIN r : i \in DOMAIN q \/ (i - Len(q) \in DOMAIN t /\ i = Len(q) + (i - Len(q)))
    BY DEF Joined
  <1> QED BY <1>1 DEF Joined

\* What joins a sequence of messages and is all of one kind.
LEMMA ListeningConcat ==
    ASSUME NEW S, NEW q \in Seq(S), NEW t \in Seq(S), NEW r, Joined(q, t, r)
    PROVE  /\ (\A k \in DOMAIN t : t[k].type = "listen") => Listening(r) = Listening(q) + Len(t)
           /\ (\A k \in DOMAIN t : t[k].type # "listen") => Listening(r) = Listening(q)
  <1> DEFINE new == Len(q) + 1 .. Len(q) + Len(t)
  <1>1. /\ Len(q) \in Nat /\ DOMAIN q = 1 .. Len(q) /\ Len(t) \in Nat
        /\ DOMAIN r = DOMAIN q \cup new /\ DOMAIN q \cap new = {}
        /\ \A i \in DOMAIN q : r[i] = q[i]
        /\ \A i \in new : i - Len(q) \in DOMAIN t /\ r[i] = t[i - Len(q)]
    <2>1. /\ Len(q) \in Nat /\ DOMAIN q = 1 .. Len(q) /\ Len(t) \in Nat /\ DOMAIN t = 1 .. Len(t)
          /\ DOMAIN r = 1 .. Len(q) + Len(t) /\ \A i \in DOMAIN q : r[i] = q[i]
          /\ \A k \in DOMAIN t : r[Len(q) + k] = t[k]
      BY Concats
    <2>2. \A i \in new : i - Len(q) \in DOMAIN t /\ Len(q) + (i - Len(q)) = i
      BY <2>1
    <2>3. \A i \in new : r[i] = t[i - Len(q)]
      BY <2>1, <2>2
    <2>4. DOMAIN r = DOMAIN q \cup new /\ DOMAIN q \cap new = {}
      BY <2>1
    <2> QED BY <2>1, <2>2, <2>3, <2>4
  <1>2. IsFiniteSet(new) /\ Cardinality(new) = Len(t)
    <2> DEFINE a == Len(q) + 1
               b == Len(q) + Len(t)
    <2>1. a \in Int /\ b \in Int /\ a = Len(q) + 1 /\ b = Len(q) + Len(t)
      BY <1>1
    <2> HIDE DEF a, b
    <2>2. IsFiniteSet(a .. b) /\ Cardinality(a .. b) = IF a > b THEN 0 ELSE b - a + 1
      BY <2>1, FS_Interval
    <2>3. Cardinality(a .. b) = Len(t)
      BY <1>1, <2>1, <2>2
    <2> QED BY <2>2, <2>3 DEF a, b
  <1> HIDE DEF new
  <1>3. ASSUME \A k \in DOMAIN t : t[k].type = "listen"
        PROVE  Listening(r) = Listening(q) + Len(t)
    <2>1. Of(r, "listen") = Of(q, "listen") \cup new /\ Of(q, "listen") \cap new = {}
      BY <1>1, <1>3 DEF Of
    <2>2. Cardinality(Of(q, "listen") \cup new)
            = Cardinality(Of(q, "listen")) + Cardinality(new) - Cardinality(Of(q, "listen") \cap new)
      BY <1>2, Positions, FS_Union
    <2>3. Cardinality(Of(q, "listen")) \in Nat /\ Cardinality({}) = 0
      BY Positions, FS_EmptySet
    <2>4. Cardinality(Of(r, "listen")) = Cardinality(Of(q, "listen")) + Len(t) - 0
      BY <1>2, <2>1, <2>2, <2>3
    <2> QED BY <1>1, <2>3, <2>4 DEF Listening
  <1>4. ASSUME \A k \in DOMAIN t : t[k].type # "listen" PROVE Listening(r) = Listening(q)
    <2>1. Of(r, "listen") = Of(q, "listen")
      BY <1>1, <1>4 DEF Of
    <2> QED BY <2>1 DEF Listening
  <1> QED BY <1>3, <1>4

\* An empty connection carries nothing.
LEMMA NoListening == Listening(<<>>) = 0 /\ \A t : Of(<<>>, t) = {}
  <1>1. \A t : Of(<<>>, t) = {}
    BY DEF Of
  <1> QED BY <1>1, FS_EmptySet DEF Listening

\* How many members of a set of numbers are below each of them.
LEMMA Ranks ==
    ASSUME NEW P, IsFiniteSet(P), P \subseteq Nat
    PROVE  /\ Cardinality(P) \in Nat
           /\ \A k \in 1..Cardinality(P) :
                \E p \in P : Cardinality({q \in P : q < p}) = k - 1
           /\ \A p \in P : Cardinality({q \in P : q < p}) \in 0..Cardinality(P) - 1
           /\ \A p, o \in P : p < o => Cardinality({q \in P : q < p}) < Cardinality({q \in P : q < o})
  <1> DEFINE n == Cardinality(P)
             Below(p) == {q \in P : q < p}
             rank == [p \in P |-> Cardinality(Below(p))]
  <1>1. n \in Nat
    BY FS_CardinalityType
  <1>2. ASSUME NEW p \in P
        PROVE  IsFiniteSet(Below(p)) /\ Cardinality(Below(p)) \in Nat /\ Cardinality(Below(p)) < n
    <2>1. IsFiniteSet(Below(p)) /\ Cardinality(Below(p)) <= n
          /\ (n = Cardinality(Below(p)) => P = Below(p))
      BY FS_Subset
    <2>2. Cardinality(Below(p)) \in Nat
      BY <2>1, FS_CardinalityType
    <2>3. P # Below(p)
      OBVIOUS
    <2> QED BY <1>1, <2>1, <2>2, <2>3
  <1>3. ASSUME NEW p \in P, NEW o \in P, p < o
        PROVE  Cardinality(Below(p)) < Cardinality(Below(o))
    <2>1. Below(p) \subseteq Below(o) /\ p \in Below(o) /\ p \notin Below(p)
      <3>1. p \in Nat /\ o \in Nat /\ p < o /\ ~(p < p)
        BY <1>3
      <3>2. \A q \in P : q < p => q < o
        BY <3>1
      <3> QED BY <3>1, <3>2
    <2>2. Cardinality(Below(p)) <= Cardinality(Below(o))
          /\ (Cardinality(Below(o)) = Cardinality(Below(p)) => Below(o) = Below(p))
      BY <1>2, <2>1, FS_Subset
    <2> HIDE DEF Below
    <2> QED BY <1>2, <2>1, <2>2
  <1> HIDE DEF Below
  <1>4. rank \in Injection(P, 0..(n - 1))
    <2>1. rank \in [P -> 0..(n - 1)]
      BY <1>1, <1>2
    <2>2. ASSUME NEW p \in P, NEW o \in P, rank[p] = rank[o] PROVE p = o
      <3>1. p \in Nat /\ o \in Nat /\ Cardinality(Below(p)) = Cardinality(Below(o))
        BY <2>2
      <3> QED BY <1>2, <1>3, <3>1
    <2> QED BY <2>1, <2>2 DEF Injection, IsInjective
  <1>5. IsFiniteSet(0..(n - 1)) /\ Cardinality(0..(n - 1)) = n
    <2>1. 0 \in Int /\ n - 1 \in Int
      BY <1>1
    <2>2. IsFiniteSet(0..(n - 1))
          /\ Cardinality(0..(n - 1)) = IF 0 > n - 1 THEN 0 ELSE n - 1 - 0 + 1
      BY <2>1, FS_Interval
    <2> QED BY <1>1, <2>2
  <1>6. rank \in Surjection(P, 0..(n - 1))
    BY <1>4, <1>5, FS_Injection
  <1>7. ASSUME NEW k \in 1..n PROVE \E p \in P : Cardinality(Below(p)) = k - 1
    <2>1. k - 1 \in 0..(n - 1)
      BY <1>1
    <2>2. PICK p \in P : rank[p] = k - 1
      BY <1>6, <2>1 DEF Surjection
    <2> QED BY <2>2
  <1>8. \A p \in P : Cardinality(Below(p)) \in 0..(n - 1)
    BY <1>1, <1>2
  <1> QED BY <1>1, <1>3, <1>7, <1>8 DEF Below

\* The writes that are sent again: each of them once, in their order.
LEMMA Ordered ==
    ASSUME NEW P, IsFiniteSet(P), P \subseteq Nat
    PROVE  /\ InOrder(P) \in Seq(P)
           /\ DOMAIN InOrder(P) = 1..Cardinality(P) /\ Cardinality(P) \in Nat
           /\ \A k, m \in DOMAIN InOrder(P) : k < m => InOrder(P)[k] < InOrder(P)[m]
           /\ \A p \in P : \E k \in DOMAIN InOrder(P) : InOrder(P)[k] = p
  <1> DEFINE n == Cardinality(P)
             Rank(p) == Cardinality({q \in P : q < p})
             order == InOrder(P)
  <1>1. /\ n \in Nat
        /\ \A k \in 1..n : \E p \in P : Rank(p) = k - 1
        /\ \A p \in P : Rank(p) \in 0..n - 1
        /\ \A p, o \in P : p < o => Rank(p) < Rank(o)
    BY Ranks
  <1>2. order = [k \in 1..n |-> CHOOSE p \in P : Rank(p) = k - 1]
    BY DEF InOrder, Ascending
  <1> HIDE DEF Rank, order, n
  <1>3. ASSUME NEW k \in 1..n PROVE order[k] \in P /\ Rank(order[k]) = k - 1
    BY <1>1, <1>2
  <1>4. order \in Seq(P) /\ DOMAIN order = 1..n
    BY <1>1, <1>2, <1>3
  <1>5. ASSUME NEW k \in 1..n, NEW m \in 1..n, k < m PROVE order[k] < order[m]
    <2>1. order[k] \in P /\ Rank(order[k]) = k - 1 /\ order[m] \in P /\ Rank(order[m]) = m - 1
      BY <1>3
    <2>2. order[k] \in Nat /\ order[m] \in Nat
      BY <2>1
    <2>3. k - 1 < m - 1 /\ ~(m - 1 < k - 1) /\ k - 1 # m - 1
      BY <1>1, <1>5
    <2>4. ~(order[m] < order[k]) /\ order[m] # order[k]
      BY <1>1, <2>1, <2>3
    <2> QED BY <2>2, <2>4
  <1>6. ASSUME NEW p \in P PROVE \E k \in 1..n : order[k] = p
    <2> DEFINE k == Rank(p) + 1
    <2>1. k \in 1..n /\ Rank(p) = k - 1
      BY <1>1
    <2> HIDE DEF k
    <2>2. order[k] \in P /\ Rank(order[k]) = Rank(p) /\ p \in Nat /\ order[k] \in Nat
      BY <1>3, <2>1
    <2>3. ~(order[k] < p) /\ ~(p < order[k])
      BY <1>1, <2>2
    <2> QED BY <2>1, <2>2, <2>3
  <1> QED BY <1>1, <1>4, <1>5, <1>6 DEF order, n

\* The listens that are sent again: as many as there are.
LEMMA Listed ==
    ASSUME NEW L, IsFiniteSet(L)
    PROVE  SetToSeq(L) \in Seq(L) /\ Len(SetToSeq(L)) = Cardinality(L) /\ Cardinality(L) \in Nat
  <1> DEFINE n == Cardinality(L)
             list == SetToSeq(L)
  <1>1. n \in Nat /\ ExistsBijection(1..n, L)
    BY FS_CardinalityType
  <1>2. \E f \in [1..n -> L] : IsInjective(f)
    BY <1>1 DEF ExistsBijection, Bijection, Injection
  <1>3. list \in [1..n -> L]
    BY <1>2 DEF SetToSeq
  <1> HIDE DEF list
  <1>4. list \in Seq(L) /\ Len(list) = n
    BY <1>1, <1>3
  <1> QED BY <1>1, <1>4 DEF list

-----------------------------------------------------------------------------
\* What the messages of each type say.
LEMMA RequestKinds ==
    ASSUME NEW m \in RequestSet
    PROVE  /\ m.type \in {"auth", "put", "listen", "unauth", "unlisten"}
           /\ m.type = "auth" => m.cred \in Accounts /\ m.restore \in BOOLEAN
           /\ m.type = "put" => m.put \in Puts /\ m.as \in Tokens
           /\ m.type = "listen" => m.listen \in Listens
  BY DEF RequestSet, Unauth, Unlisten

LEMMA AnswerKinds ==
    ASSUME NEW m \in AnswerSet
    PROVE  /\ m.type \in {"auth", "put", "listen", "listenRevoked", "revoked"}
           /\ m.type = "auth" => m.ok \in BOOLEAN /\ m.restore \in BOOLEAN
           /\ m.type = "put" => m.put \in Puts /\ m.result \in {"ok", "refused"}
           /\ m.type = "listen" => m.listen \in Listens /\ m.ok \in BOOLEAN
           /\ m.type = "listenRevoked" => m.listen \in Listens
  BY DEF AnswerSet

LEMMA Requested ==
    /\ \A c \in Accounts, b \in BOOLEAN :
          /\ AuthRequest(c, b) \in RequestSet /\ AuthRequest(c, b).type = "auth"
          /\ AuthRequest(c, b).cred = c /\ AuthRequest(c, b).restore = b
    /\ \A p \in Puts : authToken \in Tokens =>
          /\ PutRequest(p) \in RequestSet /\ PutRequest(p).type = "put"
          /\ PutRequest(p).put = p /\ PutRequest(p).as = authToken
    /\ \A l \in Listens : ListenRequest(l) \in RequestSet /\ ListenRequest(l).type = "listen"
    /\ Unauth \in RequestSet /\ Unauth.type = "unauth"
    /\ Unlisten \in RequestSet /\ Unlisten.type = "unlisten"
  BY DEF RequestSet, AuthRequest, PutRequest, ListenRequest, Unauth, Unlisten

\* The initial states satisfy the inductive invariant.
LEMMA InitIInv == Init => IInv
  <1> SUFFICES ASSUME Init PROVE IInv
    OBVIOUS
  <1>1. requests = <<>> /\ answers = <<>> /\ connectionState = "Disconnected" /\ ~connected
    BY DEF Init, connected
  <1>2. \A t : Of(requests, t) = {} /\ Of(answers, t) = {}
    BY <1>1, NoListening
  <1>3. TypeOK
    <2>1. /\ connectionState \in States /\ interruptReasons \subseteq Reasons /\ scheduledRetry \in BOOLEAN
          /\ currentFetchTokenAttempt \in Nat
          /\ fetches \subseteq [attempt : 1 .. currentFetchTokenAttempt, token : Tokens]
          /\ {authToken, account, serverCred} \subseteq Tokens
      BY DEF Init, States, Reasons, Tokens
    <2>2. /\ sent \subseteq outstandingPuts /\ putCounter \in 0 .. MaxPuts
          /\ outstandingPuts \subseteq 0 .. putCounter - 1
          /\ putsToAck \in Seq([put : 0 .. putCounter - 1, result : {"ok", "refused"}])
          /\ status \in [Puts -> Statuses \cup {NoStatus}]
      BY ConnectionAssumption DEF Init
    <2>3. /\ listens \subseteq listened /\ listened \subseteq Listens /\ unackedListensCount \in Nat
          /\ notices \in Seq(Tokens) /\ requests \in Seq(RequestSet) /\ answers \in Seq(AnswerSet)
          /\ taken \subseteq Puts /\ runs \in [Puts -> Nat]
      BY DEF Init
    <2> QED BY <2>1, <2>2, <2>3 DEF TypeOK
  <1>4. LinkOK /\ CountOK
    BY <1>1, NoListening DEF Init, LinkOK, CountOK
  <1>5. QuietOK /\ RestoreOK /\ ToldOK /\ FlightOK
    BY <1>1, <1>2 DEF Init, QuietOK, RestoreOK, ToldOK, FlightOK
  <1>6. SentOK /\ TakenOK
    BY <1>1, <1>2 DEF Init, SentOK, TakenOK, InFlight
  <1>7. HashedOK /\ StatusOK
    BY <1>1, <1>2, ConnectionAssumption DEF Init, HashedOK, StatusOK, Puts
  <1> QED BY <1>3, <1>4, <1>5, <1>6, <1>7 DEF IInv

\* The invariant but for the types and for what the attempt looks like.
Traffic ==
    /\ CountOK /\ QuietOK /\ RestoreOK /\ ToldOK
    /\ FlightOK /\ SentOK /\ TakenOK /\ HashedOK /\ StatusOK

\* What the client and the server know of a connection stays as long as nothing is sent
\* and the state changes only while there is no connection.
LEMMA TrafficStays ==
    ASSUME IInv, UNCHANGED <<puts, wire, server>>,
           \/ connectionState' = connectionState /\ (authToken' = authToken \/ ~connected)
           \/ ~connected /\ ~connected'
    PROVE  Traffic'
  <1> USE DEF puts, wire, server
  <1>1. connected' = connected
    BY DEF connected
  <1>2. (connectionState' = connectionState) \/ (~connected /\ ~connected')
    OBVIOUS
  <1>3. CountOK'
    BY DEF IInv, CountOK
  <1>4. QuietOK'
    BY <1>2 DEF IInv, QuietOK, connected
  <1>5. RestoreOK'
    BY <1>2 DEF IInv, RestoreOK, connected
  <1>6. ToldOK'
    BY <1>1 DEF IInv, ToldOK
  <1>7. FlightOK'
    BY DEF IInv, FlightOK
  <1>8. SentOK'
    BY <1>2 DEF IInv, SentOK, InFlight, connected
  <1>9. TakenOK' /\ HashedOK' /\ StatusOK'
    BY DEF IInv, TakenOK, HashedOK, StatusOK
  <1> QED BY <1>3, <1>4, <1>5, <1>6, <1>7, <1>8, <1>9 DEF Traffic

\* Resuming, and the steps of a connection attempt before there is a connection.
LEMMA AttemptStep ==
    ASSUME IInv,
           \/ \E r \in Reasons : Resume(r)
           \/ ExecuteRetry
           \/ \E f \in fetches : TokenFetched(f) \/ TokenFetchFailed(f)
    PROVE  IInv'
  <1>1. CASE \E r \in Reasons : Resume(r)
    <2>1. TypeOK'
      BY <1>1 DEF IInv, TypeOK, Resume, tokens, puts, subs, auth, wire, server
    <2>2. LinkOK'
      BY <1>1 DEF IInv, TypeOK, LinkOK, Resume, tokens, Latest
    <2>3. Traffic'
      BY <1>1, TrafficStays DEF Resume, tokens
    <2> QED BY <2>1, <2>2, <2>3 DEF IInv, Traffic
  <1>2. CASE ExecuteRetry
    <2> DEFINE n == currentFetchTokenAttempt
    <2> DEFINE f == [attempt |-> n + 1, token |-> account]
    <2>1. /\ n' = n + 1 /\ n \in Nat /\ fetches' = fetches \cup {f}
          /\ f.attempt = n + 1 /\ f \in [attempt : 1 .. n + 1, token : Tokens]
      BY <1>2 DEF ExecuteRetry, IInv, TypeOK
    <2>6. \A g \in fetches :
             g.attempt \in 1 .. n /\ g.attempt # n + 1 /\ g \in [attempt : 1 .. n + 1, token : Tokens]
      <3>1. 1 .. n \subseteq 1 .. n + 1 /\ n + 1 \notin 1 .. n
        BY <2>1
      <3>2. fetches \subseteq [attempt : 1 .. n, token : Tokens]
        BY DEF IInv, TypeOK
      <3> QED BY <3>1, <3>2
    <2> HIDE DEF f
    <2>2. TypeOK'
      <3>1. n' \in Nat /\ fetches' \subseteq [attempt : 1 .. n', token : Tokens]
        BY <2>1, <2>6
      <3> QED BY <1>2, <3>1 DEF IInv, TypeOK, ExecuteRetry, States, puts, subs, auth, wire, server
    <2>3. connectionState = "Disconnected" /\ connectionState' = "GettingToken" /\ scheduledRetry' = FALSE
      BY <1>2 DEF ExecuteRetry, IInv, LinkOK
    <2>4. LinkOK'
      <3>1. \A g \in fetches' : g \in fetches \/ g = f
        BY <2>1
      <3>2. \A g, h \in fetches' : g.attempt = h.attempt => g = h
        BY <2>1, <2>6, <3>1 DEF IInv, LinkOK
      <3>3. \E g \in fetches' : g.attempt = n'
        BY <2>1
      <3> QED BY <2>3, <3>2, <3>3 DEF LinkOK, Latest
    <2>5. Traffic'
      BY <1>2, <2>3, TrafficStays DEF ExecuteRetry, connected
    <2> QED BY <2>2, <2>4, <2>5 DEF IInv, Traffic
  <1>3. ASSUME NEW f \in fetches, TokenFetched(f) PROVE IInv'
    <2>1. TypeOK'
      BY <1>3 DEF IInv, TypeOK, TokenFetched, States, puts, subs, auth, wire, server
    <2>2. LinkOK'
      BY <1>3 DEF IInv, LinkOK, TokenFetched, Latest
    <2>3. Traffic'
      BY <1>3, TrafficStays DEF TokenFetched, connected
    <2> QED BY <2>1, <2>2, <2>3 DEF IInv, Traffic
  <1>4. ASSUME NEW f \in fetches, TokenFetchFailed(f) PROVE IInv'
    <2>1. TypeOK'
      BY <1>4 DEF IInv, TypeOK, TokenFetchFailed, States, puts, subs, auth, wire, server
    <2>2. LinkOK'
      <3>1. \A g \in fetches : Latest(g)' <=> Latest(g)
        BY <1>4 DEF TokenFetchFailed, Latest
      <3>2. CASE Latest(f)
        BY <1>4, <3>1, <3>2 DEF IInv, LinkOK, TokenFetchFailed
      <3>3. CASE ~Latest(f)
        BY <1>4, <3>1, <3>3 DEF IInv, LinkOK, TokenFetchFailed
      <3> QED BY <3>2, <3>3
    <2>3. Traffic'
      BY <1>4, TrafficStays DEF TokenFetchFailed, connected, IInv, LinkOK
    <2> QED BY <2>1, <2>2, <2>3 DEF IInv, Traffic
  <1> QED BY <1>1, <1>2, <1>3, <1>4

\* A write that waits has been issued and answered.
LEMMA Waits ==
    ASSUME TypeOK, NEW i \in DOMAIN putsToAck
    PROVE  /\ putsToAck[i].put \in 0 .. putCounter - 1 /\ putsToAck[i].put \in Puts
           /\ putsToAck[i].result \in {"ok", "refused"}
  <1> DEFINE T == [put : 0 .. putCounter - 1, result : {"ok", "refused"}]
  <1>1. putsToAck \in Seq(T)
    BY DEF TypeOK
  <1> HIDE DEF T
  <1>2. putsToAck[i] \in T
    BY <1>1
  <1>3. putsToAck[i].put \in 0 .. putCounter - 1 /\ putsToAck[i].result \in {"ok", "refused"}
    BY <1>2 DEF T
  <1>4. putCounter \in 0 .. MaxPuts
    BY DEF TypeOK
  <1> QED BY <1>3, <1>4, ConnectionAssumption DEF Puts

\* What reporting the writes that wait would report of each write.
LEMMA Reports ==
    ASSUME IInv
    PROVE  /\ Acked \in [Puts -> Statuses \cup {NoStatus}]
           /\ \A p \in Puts :
                 \/ Acked[p] = status[p] /\ \A i \in DOMAIN putsToAck : putsToAck[i].put # p
                 \/ /\ status[p] = NoStatus /\ p \notin outstandingPuts /\ p < putCounter
                    /\ Acked[p] \in {"ok", "refused"} /\ (Acked[p] = "ok" => runs[p] > 0)
  <1> DEFINE Held(p) == {i \in DOMAIN putsToAck : putsToAck[i].put = p}
  <1>1. /\ putsToAck \in Seq([put : 0 .. putCounter - 1, result : {"ok", "refused"}])
        /\ putCounter \in Nat /\ status \in [Puts -> Statuses \cup {NoStatus}]
    BY ConnectionAssumption DEF IInv, TypeOK
  <1>2. \A i \in DOMAIN putsToAck :
           putsToAck[i].put \in 0 .. putCounter - 1 /\ putsToAck[i].result \in {"ok", "refused"}
    BY Waits DEF IInv
  <1>3. \A i \in DOMAIN putsToAck :
           /\ putsToAck[i].put \notin outstandingPuts /\ status[putsToAck[i].put] = NoStatus
           /\ putsToAck[i].result = "ok" => runs[putsToAck[i].put] > 0
    BY DEF IInv, StatusOK
  <1>4. Acked = [p \in Puts |-> IF Held(p) = {} THEN status[p]
                                ELSE putsToAck[CHOOSE i \in Held(p) : TRUE].result]
    BY DEF Acked
  <1>5. ASSUME NEW p \in Puts, Held(p) = {}
        PROVE  Acked[p] = status[p] /\ \A i \in DOMAIN putsToAck : putsToAck[i].put # p
    BY <1>4, <1>5
  <1>6. ASSUME NEW p \in Puts, Held(p) # {}
        PROVE  /\ status[p] = NoStatus /\ p \notin outstandingPuts /\ p < putCounter
               /\ Acked[p] \in {"ok", "refused"} /\ (Acked[p] = "ok" => runs[p] > 0)
    <2>1. PICK i \in Held(p) : Acked[p] = putsToAck[i].result
      BY <1>4, <1>6
    <2>2. i \in DOMAIN putsToAck /\ putsToAck[i].put = p
      BY <2>1
    <2>3. p \in 0 .. putCounter - 1 /\ putsToAck[i].result \in {"ok", "refused"}
      BY <1>2, <2>2
    <2>4. p < putCounter
      BY <1>1, <2>3
    <2> QED BY <1>3, <2>1, <2>2, <2>3, <2>4
  <1> HIDE DEF Held
  <1>7. \A p \in Puts : Acked[p] \in Statuses \cup {NoStatus}
    BY <1>1, <1>5, <1>6 DEF Statuses
  <1>8. Acked \in [Puts -> Statuses \cup {NoStatus}]
    BY <1>4, <1>7
  <1> QED BY <1>5, <1>6, <1>8

\* The account changes, or the writes are given up.
LEMMA AccountStep == ASSUME IInv, NEW a \in Tokens, AccountChanges(a) PROVE IInv'
  <1>1. TypeOK'
    BY DEF IInv, TypeOK, AccountChanges, link, tokens, puts, subs, wire, server
  <1>2. LinkOK'
    BY DEF IInv, LinkOK, AccountChanges, link, tokens, Latest
  <1>3. Traffic'
    BY TrafficStays DEF AccountChanges, link, tokens
  <1> QED BY <1>1, <1>2, <1>3 DEF IInv, Traffic

LEMMA PurgeStep == ASSUME IInv, PurgeOutstandingWrites PROVE IInv'
  <1> USE DEF link, tokens, subs, auth, wire, server
  <1>1. /\ UNCHANGED <<link, tokens, putCounter, subs, auth, wire, server>>
        /\ status' = [p \in Puts |-> IF p \in outstandingPuts THEN "cancelled" ELSE Acked[p]]
        /\ outstandingPuts' = {} /\ sent' = {} /\ putsToAck' = <<>>
    BY DEF PurgeOutstandingWrites
  <1>2. \A p \in Puts : Acked[p] \in Statuses \cup {NoStatus}
    BY Reports
  <1>3. TypeOK'
    <2>1. status' \in [Puts -> Statuses \cup {NoStatus}]
      BY <1>1, <1>2 DEF Statuses
    <2> QED BY <1>1, <2>1 DEF IInv, TypeOK
  <1>4. LinkOK' /\ CountOK' /\ QuietOK' /\ RestoreOK' /\ FlightOK'
    BY <1>1 DEF IInv, LinkOK, Latest, CountOK, QuietOK, RestoreOK, FlightOK, connected
  <1>5. ToldOK'
    BY <1>1 DEF IInv, ToldOK, connected
  <1>6. SentOK'
    BY <1>1 DEF IInv, SentOK
  <1>7. TakenOK' /\ HashedOK'
    BY <1>1 DEF IInv, TakenOK, HashedOK
  <1>8. StatusOK'
    <2>1. ASSUME NEW p \in Puts, p >= putCounter PROVE status'[p] = NoStatus
      <3>1. p \in Nat /\ putCounter \in Nat /\ p \notin outstandingPuts /\ ~(p < putCounter)
        BY <2>1, ConnectionAssumption DEF IInv, TypeOK, Puts
      <3>2. status[p] = NoStatus /\ Acked[p] = status[p]
        BY <2>1, <3>1, Reports DEF IInv, StatusOK
      <3> QED BY <1>1, <3>1, <3>2
    <2> QED BY <1>1, <2>1 DEF StatusOK
  <1> QED BY <1>3, <1>4, <1>5, <1>6, <1>7, <1>8 DEF IInv

\* The connection is gone, with all that was in flight.
LEMMA OnDisconnectStep ==
    ASSUME IInv, NEW reasons, OnDisconnect(reasons)
    PROVE  /\ Traffic'
           /\ sent' \subseteq outstandingPuts' /\ outstandingPuts' \subseteq outstandingPuts
           /\ status' \in [Puts -> Statuses \cup {NoStatus}]
  <1>1. /\ requests' = <<>> /\ answers' = <<>> /\ unackedListensCount' = 0 /\ serverCred' = NoToken
        /\ connectionState' = "Disconnected" /\ ~connected'
        /\ status' = [p \in Puts |-> IF p \in Cancelled THEN "disconnect" ELSE status[p]]
        /\ outstandingPuts' = outstandingPuts \ Cancelled /\ sent' = sent \ Cancelled
        /\ UNCHANGED <<putCounter, putsToAck, taken, runs>>
    BY DEF OnDisconnect, connected
  <1>2. \A t : Of(requests, t)' = {} /\ Of(answers, t)' = {}
    BY <1>1 DEF Of
  <1>3. Cancelled = outstandingPuts \cap sent \cap Hashed /\ sent \subseteq outstandingPuts
    BY DEF Cancelled, IInv, TypeOK
  <1>4. CountOK'
    BY <1>1, NoListening DEF CountOK
  <1>5. QuietOK' /\ RestoreOK' /\ ToldOK' /\ FlightOK'
    BY <1>1, <1>2 DEF QuietOK, RestoreOK, ToldOK, FlightOK
  <1>6. SentOK'
    BY <1>1, <1>2, <1>3 DEF SentOK, InFlight
  <1>7. TakenOK'
    BY <1>1, <1>2 DEF IInv, TakenOK
  <1>8. HashedOK'
    BY <1>1, <1>2, <1>3 DEF IInv, HashedOK
  <1>9. StatusOK' /\ status' \in [Puts -> Statuses \cup {NoStatus}]
    <2>1. ASSUME NEW i \in DOMAIN putsToAck
          PROVE  putsToAck[i].put \in Puts /\ putsToAck[i].put \notin Cancelled
      <3>1. putsToAck[i].put \in Puts
        BY Waits DEF IInv
      <3> QED BY <1>3, <3>1 DEF IInv, StatusOK
    <2>2. ASSUME NEW p \in Puts, p >= putCounter PROVE p \notin Cancelled
      BY <1>3, <2>2, ConnectionAssumption DEF IInv, TypeOK, Puts
    <2>3. status' \in [Puts -> Statuses \cup {NoStatus}]
      BY <1>1 DEF IInv, TypeOK, Statuses
    <2> QED BY <1>1, <2>1, <2>2, <2>3 DEF IInv, StatusOK
  <1> QED BY <1>1, <1>3, <1>4, <1>5, <1>6, <1>7, <1>8, <1>9 DEF Traffic

\* Every way in which a connection ends, or is kept from being opened.
LEMMA DisconnectStep ==
    ASSUME IInv, ConnectionLost \/ TokenRejected \/ \E r \in Reasons : Interrupt(r)
    PROVE  IInv'
  <1>1. ASSUME OnDisconnect(interruptReasons'), connectionState # "Disconnected",
               interruptReasons' \subseteq Reasons, authToken' \in Tokens,
               UNCHANGED <<currentFetchTokenAttempt, fetches, listens, listened, auth>>
        PROVE  IInv'
    <2>1. TypeOK'
      <3>1. /\ sent' \subseteq outstandingPuts' /\ outstandingPuts' \subseteq outstandingPuts
            /\ status' \in [Puts -> Statuses \cup {NoStatus}]
        BY <1>1, OnDisconnectStep
      <3>2. /\ connectionState' \in States /\ scheduledRetry' \in BOOLEAN
            /\ unackedListensCount' = 0 /\ requests' = <<>> /\ answers' = <<>>
            /\ serverCred' = NoToken /\ UNCHANGED <<putCounter, putsToAck, taken, runs>>
        BY <1>1 DEF IInv, TypeOK, OnDisconnect, States
      <3>3. TypeOK
        BY DEF IInv
      <3> QED BY <1>1, <3>1, <3>2, <3>3 DEF TypeOK, auth, Tokens
    <2>2. LinkOK'
      BY <1>1 DEF IInv, LinkOK, OnDisconnect, Latest
    <2> QED BY <1>1, <2>1, <2>2, OnDisconnectStep DEF IInv, Traffic
  <1>2. CASE ConnectionLost
    BY <1>1, <1>2 DEF ConnectionLost, realtime, tokens, subs, IInv, TypeOK
  <1>3. CASE TokenRejected
    <2>1. connectionState # "Disconnected"
      BY <1>3 DEF TokenRejected, Received, IInv, QuietOK, connected
    <2> QED BY <1>1, <1>3, <2>1 DEF TokenRejected, Received, IInv, TypeOK, Tokens
  <1>4. ASSUME NEW r \in Reasons, Interrupt(r) PROVE IInv'
    <2>1. CASE realtime
      BY <1>1, <1>4, <2>1 DEF Interrupt, realtime, tokens, subs, IInv, TypeOK
    <2>2. CASE ~realtime
      <3>1. /\ interruptReasons' = interruptReasons \cup {r} /\ scheduledRetry' = FALSE
            /\ connectionState' = "Disconnected" /\ UNCHANGED <<puts, wire, server, tokens, subs, auth>>
        BY <1>4, <2>2 DEF Interrupt
      <3>2. TypeOK'
        BY <3>1 DEF IInv, TypeOK, States, tokens, puts, subs, auth, wire, server
      <3>3. LinkOK'
        BY <3>1 DEF IInv, LinkOK, tokens, Latest
      <3>4. Traffic'
        BY <2>2, <3>1, TrafficStays DEF realtime, connected
      <3> QED BY <3>2, <3>3, <3>4 DEF IInv, Traffic
    <2> QED BY <2>1, <2>2
  <1> QED BY <1>2, <1>3, <1>4

-----------------------------------------------------------------------------
\* What joins the requests does not change what was told to the server before, and what
\* tells it nothing leaves the last word to what was there.
LEMMA ToldBefore ==
    ASSUME NEW q \in Seq(RequestSet), NEW r, NEW cred, NEW t,
           \A i \in DOMAIN q : r[i] = q[i],
           NEW i \in 1 .. Len(q) + 1, Told(q, cred, i, t)
    PROVE  Told(r, cred, i, t)
  <1>1. DOMAIN q = 1 .. Len(q) /\ Len(q) \in Nat
    OBVIOUS
  <1>2. \A j \in 1 .. i - 1 : j \in DOMAIN q
    BY <1>1
  <1>3. \A j \in 1 .. i - 1 : r[j] = q[j]
    BY <1>2
  <1>4. \A j \in 1 .. i - 1 : \A k \in j + 1 .. i - 1 : r[k] = q[k]
    BY <1>3
  <1> QED BY <1>3, <1>4 DEF Told

LEMMA ToldAfter ==
    ASSUME NEW q \in Seq(RequestSet), NEW r \in Seq(RequestSet), NEW cred, NEW t,
           \A i \in DOMAIN q : r[i] = q[i], Len(r) >= Len(q),
           \A i \in DOMAIN r : i > Len(q) => ~Mark(r[i]),
           Told(q, cred, Len(q) + 1, t),
           NEW i \in Len(q) + 1 .. Len(r) + 1
    PROVE  Told(r, cred, i, t)
  <1> DEFINE n == Len(q)
  <1>1. /\ DOMAIN q = 1 .. n /\ n \in Nat
        /\ DOMAIN r = 1 .. Len(r) /\ Len(r) \in Nat /\ n <= Len(r)
    OBVIOUS
  <1>2. ASSUME NEW j \in 1 .. i - 1 PROVE j \in DOMAIN r /\ (j \in 1 .. n \/ j > n)
    BY <1>1
  <1>3. \A j \in 1 .. n : r[j] = q[j] /\ j \in 1 .. i - 1 /\ j \in 1 .. (n + 1) - 1
    BY <1>1
  <1>4. ASSUME NEW j \in 1 .. i - 1, Mark(r[j]), \A k \in j + 1 .. i - 1 : ~Mark(r[k])
        PROVE  Cred(r[j]) = t
    <2>1. j \in 1 .. n
      BY <1>2, <1>4
    <2>2. \A k \in j + 1 .. (n + 1) - 1 : k \in 1 .. n /\ k \in j + 1 .. i - 1
      BY <1>1, <2>1
    <2>3. \A k \in j + 1 .. (n + 1) - 1 : ~Mark(q[k])
      BY <1>3, <1>4, <2>2
    <2>4. Mark(q[j]) /\ r[j] = q[j] /\ j \in 1 .. (n + 1) - 1
      BY <1>3, <1>4, <2>1
    <2>5. Cred(q[j]) = t
      BY <2>3, <2>4 DEF Told
    <2> QED BY <2>4, <2>5
  <1>5. ASSUME \A j \in 1 .. i - 1 : ~Mark(r[j]) PROVE cred \in {t, NoToken}
    <2>1. \A j \in 1 .. (n + 1) - 1 : j \in 1 .. n
      BY <1>1
    <2>2. \A j \in 1 .. (n + 1) - 1 : ~Mark(q[j])
      BY <1>3, <1>5, <2>1
    <2> QED BY <2>2 DEF Told
  <1> QED BY <1>4, <1>5 DEF Told

\* What a restored connection carries: what it carried, the listens, and the writes.
LEMMA Restored ==
    ASSUME TypeOK, RestoreState
    PROVE  \E before, again \in Seq(RequestSet) :
              /\ requests' \in Seq(RequestSet) /\ Joined(before, again, requests')
              /\ Len(before) >= Len(requests)
              /\ Listening(requests') = Listening(requests) + Cardinality(listens)
              /\ Cardinality(listens) \in Nat
              /\ \A i \in DOMAIN requests : i \in DOMAIN before /\ before[i] = requests[i]
              /\ \A i \in DOMAIN before : i \in DOMAIN requests \/ before[i].type = "listen"
              /\ \A k \in DOMAIN again :
                    again[k].type = "put" /\ again[k].as = authToken /\ again[k].put \in outstandingPuts
              /\ \A k, m \in DOMAIN again : k < m => again[k].put < again[m].put
              /\ \A p \in outstandingPuts : \E k \in DOMAIN again : again[k].put = p
  <1> DEFINE order  == InOrder(outstandingPuts)
             list   == SetToSeq(listens)
             again  == [i \in DOMAIN order |-> PutRequest(order[i])]
             listen == [i \in DOMAIN list |-> ListenRequest(list[i])]
             before == requests \o listen
  <1>1. /\ requests \in Seq(RequestSet) /\ authToken \in Tokens
        /\ outstandingPuts \subseteq Puts /\ listens \subseteq Listens
        /\ IsFiniteSet(outstandingPuts) /\ outstandingPuts \subseteq Nat /\ IsFiniteSet(listens)
    <2>1. outstandingPuts \subseteq 0 .. MaxPuts - 1 /\ MaxPuts \in Nat
      BY ConnectionAssumption DEF TypeOK
    <2>2. IsFiniteSet(0 .. MaxPuts - 1)
      <3>1. 0 \in Int /\ MaxPuts - 1 \in Int
        BY <2>1
      <3> QED BY <3>1, FS_Interval
    <2>3. IsFiniteSet(outstandingPuts)
      BY <2>1, <2>2, FS_Subset
    <2>4. listens \subseteq Listens /\ IsFiniteSet(listens)
      BY FS_Subset, ConnectionAssumption DEF TypeOK
    <2> QED BY <2>1, <2>3, <2>4 DEF TypeOK, Puts
  <1>2. /\ order \in Seq(outstandingPuts) /\ Cardinality(outstandingPuts) \in Nat
        /\ DOMAIN order = 1 .. Cardinality(outstandingPuts)
        /\ \A k, m \in DOMAIN order : k < m => order[k] < order[m]
        /\ \A p \in outstandingPuts : \E k \in DOMAIN order : order[k] = p
    BY <1>1, Ordered
  <1>3. list \in Seq(listens) /\ Len(list) = Cardinality(listens) /\ Cardinality(listens) \in Nat
    BY <1>1, Listed
  <1>4. requests' = before \o again
    BY DEF RestoreState
  <1> HIDE DEF order, list
  <1>5. ASSUME NEW k \in DOMAIN order PROVE order[k] \in outstandingPuts /\ order[k] \in Puts
    <2>1. order \in Seq(outstandingPuts)
      BY <1>2
    <2>2. order[k] \in outstandingPuts
      BY <2>1
    <2> QED BY <1>1, <2>2
  <1>6. /\ \A k \in DOMAIN order :
              /\ PutRequest(order[k]) \in RequestSet /\ PutRequest(order[k]).type = "put"
              /\ PutRequest(order[k]).put = order[k] /\ PutRequest(order[k]).as = authToken
    BY <1>1, <1>5, Requested
  <1>7. again \in Seq(RequestSet) /\ DOMAIN again = DOMAIN order
    <2> DEFINE n == Cardinality(outstandingPuts)
    <2>1. DOMAIN order = 1 .. n /\ n \in Nat
      BY <1>2
    <2> HIDE DEF n
    <2>2. again \in [1 .. n -> RequestSet]
      BY <1>6, <2>1
    <2> QED BY <2>1, <2>2
  <1>8. DOMAIN list = 1 .. Len(list) /\ \A k \in DOMAIN list : list[k] \in Listens
    BY <1>1, <1>3
  <1>9. \A k \in DOMAIN list :
           ListenRequest(list[k]) \in RequestSet /\ ListenRequest(list[k]).type = "listen"
    BY <1>8, Requested
  <1>10. /\ listen \in Seq(RequestSet) /\ Len(listen) = Len(list)
         /\ \A k \in DOMAIN listen : listen[k].type = "listen"
    BY <1>3, <1>8, <1>9
  <1>11. \A k \in DOMAIN again :
            again[k].type = "put" /\ again[k].as = authToken /\ again[k].put = order[k]
    BY <1>6
  <1> HIDE DEF again, listen
  <1>12. Joined(requests, listen, before) /\ Joined(before, again, requests')
    BY <1>4 DEF Joined
  <1> HIDE DEF before
  <1>13. /\ before \in Seq(RequestSet) /\ Len(before) = Len(requests) + Len(listen)
         /\ Len(requests) \in Nat /\ Len(listen) \in Nat
         /\ \A i \in DOMAIN requests : i \in DOMAIN before /\ before[i] = requests[i]
    BY <1>1, <1>10, <1>12, Concats
  <1>14. ASSUME NEW i \in DOMAIN before PROVE i \in DOMAIN requests \/ before[i].type = "listen"
    <2>1. i \in DOMAIN requests \/ \E k \in DOMAIN listen : i = Len(requests) + k
      BY <1>1, <1>10, <1>12, Concats
    <2>2. \A k \in DOMAIN listen : before[Len(requests) + k] = listen[k]
      BY <1>1, <1>10, <1>12, Concats
    <2> QED BY <1>10, <2>1, <2>2
  <1>15. requests' \in Seq(RequestSet)
    BY <1>7, <1>12, <1>13, Concats
  <1>16. Listening(requests') = Listening(requests) + Cardinality(listens)
    <2>1. Listening(before) = Listening(requests) + Len(listen)
      BY <1>1, <1>10, <1>12, ListeningConcat
    <2>2. \A k \in DOMAIN again : again[k].type # "listen"
      BY <1>11
    <2>3. Listening(requests') = Listening(before)
      BY <1>7, <1>12, <1>13, <2>2, ListeningConcat
    <2> QED BY <1>3, <1>10, <2>1, <2>3
  <1>17. Len(before) >= Len(requests)
    BY <1>13
  <1>18. /\ \A k \in DOMAIN again : again[k].put \in outstandingPuts
         /\ \A k, m \in DOMAIN again : k < m => again[k].put < again[m].put
         /\ \A p \in outstandingPuts : \E k \in DOMAIN again : again[k].put = p
    BY <1>2, <1>5, <1>7, <1>11
  <1> QED BY <1>3, <1>7, <1>11, <1>12, <1>13, <1>14, <1>15, <1>16, <1>17, <1>18, SMTT(30)

\* The connection is restored: the writes that have no answer are in flight again.
LEMMA RestoreTraffic ==
    ASSUME IInv, RestoreState,
           connectionState # "Connected", connectionState' = "Connected",
           Of(requests, "put") = {}, Of(answers', "put") = {},
           \A i \in Of(requests, "auth") : ~requests[i].restore,
           \A i \in Of(answers', "auth") : ~answers'[i].restore,
           Listening(answers') = Listening(answers), Listening(answers) \in Nat,
           Told(requests, serverCred, Len(requests) + 1, authToken),
           UNCHANGED <<authToken, outstandingPuts, putCounter, putsToAck, status, server>>
    PROVE  /\ Traffic' /\ sent' = outstandingPuts
           /\ requests' \in Seq(RequestSet) /\ unackedListensCount' \in Nat
  <1> USE DEF server
  <1>1. TypeOK /\ requests \in Seq(RequestSet)
    BY DEF IInv, TypeOK
  <1>2. PICK before \in Seq(RequestSet), again \in Seq(RequestSet) :
              /\ requests' \in Seq(RequestSet) /\ Joined(before, again, requests')
              /\ Len(before) >= Len(requests)
              /\ Listening(requests') = Listening(requests) + Cardinality(listens)
              /\ Cardinality(listens) \in Nat
              /\ \A i \in DOMAIN requests : i \in DOMAIN before /\ before[i] = requests[i]
              /\ \A i \in DOMAIN before : i \in DOMAIN requests \/ before[i].type = "listen"
              /\ \A k \in DOMAIN again :
                    again[k].type = "put" /\ again[k].as = authToken /\ again[k].put \in outstandingPuts
              /\ \A k, m \in DOMAIN again : k < m => again[k].put < again[m].put
              /\ \A p \in outstandingPuts : \E k \in DOMAIN again : again[k].put = p
    BY <1>1, Restored
  <1> DEFINE n == Len(before)
  <1>3. /\ n \in Nat /\ DOMAIN before = 1 .. n /\ DOMAIN again = 1 .. Len(again) /\ Len(again) \in Nat
        /\ DOMAIN requests' = 1 .. n + Len(again) /\ Len(requests') = n + Len(again)
        /\ DOMAIN requests = 1 .. Len(requests) /\ Len(requests) \in Nat /\ Len(requests) <= n
    BY <1>1, <1>2, Concats
  <1>4. \A i \in DOMAIN before : i \in DOMAIN requests' /\ requests'[i] = before[i]
    BY <1>2, Concats
  <1>5. \A k \in DOMAIN again : n + k \in DOMAIN requests' /\ requests'[n + k] = again[k]
    BY <1>2, Concats
  <1>6. \A i \in DOMAIN requests' : i \in DOMAIN before \/ \E k \in DOMAIN again : i = n + k
    BY <1>2, Concats
  <1> HIDE DEF n
  <1>7. ASSUME NEW i \in Of(requests', "put") PROVE \E k \in DOMAIN again : i = n + k /\ requests'[i] = again[k]
    <2>1. i \in DOMAIN requests' /\ requests'[i].type = "put"
      BY DEF Of
    <2>2. i \notin DOMAIN before
      BY <1>2, <1>4, <2>1 DEF Of
    <2> QED BY <1>5, <1>6, <2>1, <2>2
  <1>8. ASSUME NEW i \in DOMAIN requests', Mark(requests'[i])
        PROVE  i \in DOMAIN requests /\ requests'[i] = requests[i]
    <2>1. i \in DOMAIN before
      BY <1>2, <1>5, <1>6, <1>8 DEF Mark
    <2> QED BY <1>2, <1>4, <1>8, <2>1 DEF Mark
  <1>9. \A i \in Of(requests', "auth") : i \in Of(requests, "auth") /\ requests'[i] = requests[i]
    BY <1>8 DEF Of, Mark
  <1>10. \A k \in DOMAIN again : n + k \in Of(requests', "put")
    BY <1>2, <1>5 DEF Of
  <1>11. CountOK' /\ unackedListensCount' \in Nat
    <2>1. unackedListensCount' = unackedListensCount + Cardinality(listens)
      BY DEF RestoreState
    <2>2. Listening(requests) \in Nat
      BY <1>1, Positions DEF Listening
    <2> QED BY <1>2, <2>1, <2>2 DEF IInv, CountOK
  <1>12. connected' /\ QuietOK'
    BY DEF QuietOK, connected
  <1>13. RestoreOK'
    BY <1>9 DEF RestoreOK
  <1>14. ToldOK'
    <2>1. \A i \in DOMAIN requests : requests'[i] = requests[i]
      BY <1>2, <1>4
    <2>2. \A i \in DOMAIN requests' : i > Len(requests) => ~Mark(requests'[i])
      BY <1>3, <1>8
    <2>3. Len(requests') >= Len(requests)
      BY <1>3
    <2>4. \A i \in Len(requests) + 1 .. Len(requests') + 1 : Told(requests', serverCred, i, authToken)
      BY <1>1, <1>2, <2>1, <2>2, <2>3, ToldAfter
    <2>5. \A i \in Of(requests', "put") : i \in Len(requests) + 1 .. Len(requests') + 1
      BY <1>3, <1>7
    <2>6. \A i \in Of(requests', "put") : requests'[i].as = authToken
      BY <1>2, <1>7
    <2>7. Len(requests') + 1 \in Len(requests) + 1 .. Len(requests') + 1
      BY <1>3
    <2> QED BY <2>4, <2>5, <2>6, <2>7 DEF ToldOK
  <1>15. \A i \in Of(requests', "put") : requests'[i].put \in outstandingPuts
    BY <1>2, <1>7
  <1>16. \A p \in outstandingPuts : p \in Nat /\ p < putCounter /\ p \in Puts
    BY ConnectionAssumption DEF IInv, TypeOK, Puts
  <1>17. FlightOK'
    <2>1. ASSUME NEW i \in Of(requests', "put"), NEW j \in Of(requests', "put"), i < j
          PROVE  requests'[i].put < requests'[j].put
      <3>1. PICK k \in DOMAIN again : i = n + k /\ requests'[i] = again[k]
        BY <1>7
      <3>2. PICK m \in DOMAIN again : j = n + m /\ requests'[j] = again[m]
        BY <1>7
      <3>3. k < m
        BY <1>3, <2>1, <3>1, <3>2
      <3> QED BY <1>2, <3>1, <3>2, <3>3
    <2> QED BY <1>15, <1>16, <2>1 DEF FlightOK
  <1>18. sent' = outstandingPuts
    BY DEF RestoreState
  <1>19. SentOK'
    <2>1. ASSUME NEW p \in outstandingPuts PROVE InFlight(p)'
      <3>1. PICK k \in DOMAIN again : again[k].put = p
        BY <1>2
      <3> QED BY <1>5, <1>10, <3>1 DEF InFlight
    <2> QED BY <1>18, <2>1 DEF SentOK
  <1>20. TakenOK'
    BY <1>15 DEF IInv, TakenOK
  <1>21. HashedOK'
    BY <1>15, <1>18 DEF IInv, HashedOK, SentOK
  <1>22. StatusOK'
    BY DEF IInv, StatusOK
  <1> QED BY <1>2, <1>11, <1>12, <1>13, <1>14, <1>17, <1>18, <1>19, <1>20, <1>21, <1>22 DEF Traffic

\* The server has answered the handshake.
LEMMA ReadyStep == ASSUME IInv, Ready PROVE IInv'
  <1> USE DEF tokens, subs, auth, server
  <1>1. /\ requests = <<>> /\ answers = <<>> /\ serverCred = NoToken /\ connectionState = "Connecting"
        /\ UNCHANGED <<interruptReasons, scheduledRetry, tokens, outstandingPuts, putCounter,
                       putsToAck, status, subs, auth, answers, server, disturbances>>
    BY DEF Ready, IInv, QuietOK, connected
  <1>2. \A t : Of(requests, t) = {} /\ Of(answers, t) = {} /\ Of(answers', t) = {}
    BY <1>1, NoListening
  <1>3. Listening(requests) = 0 /\ Listening(answers) = 0 /\ Listening(answers') = 0
    BY <1>1, NoListening
  <1>4. LinkOK'
    <2>1. connectionState' \in {"Connected", "Authenticating"}
      BY DEF Ready
    <2>2. \A f \in fetches : ~Latest(f)
      BY <1>1 DEF IInv, LinkOK
    <2> QED BY <1>1, <2>1, <2>2 DEF IInv, LinkOK, Latest
  <1>5. CASE authToken = NoToken
    <2>1. RestoreState /\ connectionState' = "Connected"
      BY <1>5 DEF Ready
    <2>2. Told(requests, serverCred, Len(requests) + 1, authToken)
      BY <1>1, <1>5 DEF Told
    <2>3. /\ Traffic' /\ sent' = outstandingPuts
          /\ requests' \in Seq(RequestSet) /\ unackedListensCount' \in Nat
      BY <1>1, <1>2, <1>3, <2>1, <2>2, RestoreTraffic
    <2>4. TypeOK'
      BY <1>1, <2>1, <2>3 DEF IInv, TypeOK, States
    <2> QED BY <1>4, <2>3, <2>4 DEF IInv, Traffic
  <1>6. CASE authToken # NoToken
    <2> DEFINE m == AuthRequest(authToken, TRUE)
    <2>1. /\ connectionState' = "Authenticating" /\ requests' = Append(requests, m)
          /\ UNCHANGED <<unackedListensCount, sent>>
      BY <1>6 DEF Ready
    <2>2. authToken \in Accounts /\ requests \in Seq(RequestSet)
      BY <1>6 DEF IInv, TypeOK, Tokens
    <2>3. m \in RequestSet /\ m.type = "auth" /\ m.cred = authToken /\ m.restore = TRUE
      BY <2>2, Requested
    <2> HIDE DEF m
    <2>4. requests' = <<m>> /\ requests' \in Seq(RequestSet) /\ Len(requests') = 1 /\ DOMAIN requests' = {1}
          /\ requests'[1] = m
      BY <1>1, <2>1, <2>3
    <2>5. Of(requests', "auth") = {1} /\ \A t : t # "auth" => Of(requests', t) = {}
      BY <2>3, <2>4 DEF Of
    <2>6. TypeOK'
      BY <1>1, <2>1, <2>4 DEF IInv, TypeOK, States
    <2>7. CountOK'
      <3>1. Listening(requests') = 0
        BY <2>5, FS_EmptySet DEF Listening
      <3> QED BY <1>1, <1>3, <2>1, <3>1 DEF IInv, CountOK
    <2>8. QuietOK' /\ connected'
      BY <1>2, <2>1, <2>5 DEF QuietOK, connected
    <2>9. RestoreOK'
      BY <1>2, <2>1, <2>3, <2>4, <2>5 DEF RestoreOK
    <2>10. ToldOK'
      <3>1. Told(requests', serverCred, 2, authToken)
        <4>1. \A j \in 1 .. 2 - 1 : j = 1
          OBVIOUS
        <4>2. 1 \in 1 .. 2 - 1
          OBVIOUS
        <4>3. Mark(m) /\ Cred(m) = authToken
          BY <2>3 DEF Mark, Cred
        <4> QED BY <2>4, <4>1, <4>2, <4>3 DEF Told
      <3> QED BY <1>1, <2>4, <2>5, <3>1 DEF ToldOK
    <2>11. FlightOK'
      BY <1>2, <2>5 DEF FlightOK
    <2>12. SentOK'
      BY <1>1, <1>2, <2>1, <2>5 DEF IInv, SentOK, InFlight
    <2>13. TakenOK' /\ HashedOK' /\ StatusOK'
      BY <1>1, <1>2, <2>1, <2>5 DEF IInv, TakenOK, HashedOK, StatusOK
    <2> QED BY <1>4, <2>6, <2>7, <2>8, <2>9, <2>10, <2>11, <2>12, <2>13 DEF IInv
  <1> QED BY <1>5, <1>6

-----------------------------------------------------------------------------
\* Telling the server of a listen, or that it ended, disturbs no write and no
\* authentication that is in flight.
LEMMA SendTraffic ==
    ASSUME IInv, connected, NEW m \in RequestSet, m.type \in {"listen", "unlisten"},
           Longer(requests, m, requests'), CountOK',
           UNCHANGED <<connectionState, authToken, puts, answers, server>>
    PROVE  Traffic' /\ requests' \in Seq(RequestSet)
  <1> USE DEF puts, server
  <1>1. requests \in Seq(RequestSet)
    BY DEF IInv, TypeOK
  <1> DEFINE n == Len(requests) + 1
  <1>2. /\ requests' \in Seq(RequestSet) /\ Len(requests') = n /\ DOMAIN requests' = 1 .. n
        /\ Len(requests) \in Nat /\ DOMAIN requests = 1 .. Len(requests) /\ requests'[n] = m
        /\ \A i \in DOMAIN requests : i \in DOMAIN requests' /\ requests'[i] = requests[i]
        /\ \A i \in DOMAIN requests' : i \in DOMAIN requests \/ i = n
    BY <1>1, Appends
  <1>3. \A t \in {"put", "auth"} : Of(requests', t) = Of(requests, t)
                                   /\ \A i \in Of(requests, t) : requests'[i] = requests[i]
    BY <1>2 DEF Of
  <1>4. QuietOK'
    BY <1>3 DEF IInv, QuietOK, connected
  <1>5. RestoreOK'
    BY <1>3 DEF IInv, RestoreOK
  <1>6. ToldOK'
    <2>1. \A i \in DOMAIN requests' : i > Len(requests) => ~Mark(requests'[i])
      BY <1>2 DEF Mark
    <2>2. Told(requests, serverCred, Len(requests) + 1, authToken)
      BY DEF IInv, ToldOK
    <2>3. Len(requests') >= Len(requests) /\ Len(requests') + 1 \in Len(requests) + 1 .. Len(requests') + 1
      BY <1>2
    <2>4. Told(requests', serverCred, Len(requests') + 1, authToken)
      BY <1>1, <1>2, <2>1, <2>2, <2>3, ToldAfter
    <2>5. ASSUME NEW i \in Of(requests, "put") PROVE Told(requests', serverCred, i, requests[i].as)
      <3>1. i \in 1 .. Len(requests) + 1
        BY <1>2 DEF Of
      <3>2. Told(requests, serverCred, i, requests[i].as)
        BY DEF IInv, ToldOK
      <3> QED BY <1>1, <1>2, <3>1, <3>2, ToldBefore
    <2> QED BY <1>3, <2>4, <2>5 DEF ToldOK
  <1>7. FlightOK'
    BY <1>3 DEF IInv, FlightOK
  <1>8. SentOK'
    BY <1>3 DEF IInv, SentOK, InFlight
  <1>9. TakenOK' /\ HashedOK' /\ StatusOK'
    BY <1>3 DEF IInv, TakenOK, HashedOK, StatusOK
  <1> QED BY <1>2, <1>4, <1>5, <1>6, <1>7, <1>8, <1>9 DEF Traffic

LEMMA ListenStep == ASSUME IInv, NEW l \in Listens, Listen(l) \/ UnlistenTo(l) PROVE IInv'
  <1> USE DEF link, tokens, puts, auth, server
  <1>1. LinkOK'
    BY DEF Listen, UnlistenTo, IInv, LinkOK, Latest
  <1>2. /\ UNCHANGED <<link, tokens, puts, auth, answers, server>>
        /\ listens' \subseteq listened' /\ listened' \subseteq Listens
    BY DEF Listen, UnlistenTo, IInv, TypeOK
  <1>3. requests \in Seq(RequestSet)
    BY DEF IInv, TypeOK
  <1>4. CASE ~connected
    <2>1. UNCHANGED wire
      BY <1>4, <1>2 DEF Listen, UnlistenTo, wire
    <2>2. Traffic'
      BY <1>2, <1>4, <2>1, TrafficStays
    <2>3. TypeOK'
      BY <1>2, <2>1 DEF IInv, TypeOK, wire
    <2> QED BY <1>1, <2>2, <2>3 DEF IInv, Traffic
  <1>5. ASSUME connected, Listen(l) PROVE IInv'
    <2> DEFINE m == ListenRequest(l)
    <2>1. requests' = Append(requests, m) /\ unackedListensCount' = unackedListensCount + 1
      BY <1>5 DEF Listen
    <2>2. m \in RequestSet /\ m.type = "listen"
      BY Requested
    <2> HIDE DEF m
    <2>3. Longer(requests, m, requests')
      BY <2>1 DEF Longer
    <2>4. Listening(requests') = Listening(requests) + 1
      BY <1>3, <2>2, <2>3, ListeningAppend
    <2>5. CountOK' /\ unackedListensCount' \in Nat
      <3>1. Listening(requests) \in Nat /\ Listening(answers) \in Nat
        BY Positions DEF Listening, IInv, TypeOK
      <3> QED BY <1>2, <2>1, <2>4, <3>1 DEF IInv, CountOK
    <2>6. Traffic' /\ requests' \in Seq(RequestSet)
      BY <1>2, <1>5, <2>2, <2>3, <2>5, SendTraffic
    <2>7. TypeOK'
      BY <1>2, <2>5, <2>6 DEF IInv, TypeOK
    <2> QED BY <1>1, <2>6, <2>7 DEF IInv, Traffic
  <1>6. ASSUME connected, UnlistenTo(l) PROVE IInv'
    <2>1. requests' = Append(requests, Unlisten) /\ unackedListensCount' = unackedListensCount
      BY <1>6 DEF UnlistenTo
    <2>2. Unlisten \in RequestSet /\ Unlisten.type = "unlisten"
      BY Requested
    <2>3. Longer(requests, Unlisten, requests')
      BY <2>1 DEF Longer
    <2>4. Listening(requests') = Listening(requests)
      BY <1>3, <2>2, <2>3, ListeningAppend
    <2>5. CountOK'
      BY <1>2, <2>1, <2>4 DEF IInv, CountOK
    <2>6. Traffic' /\ requests' \in Seq(RequestSet)
      BY <1>2, <1>6, <2>2, <2>3, <2>5, SendTraffic
    <2>7. TypeOK'
      BY <1>2, <2>1, <2>6 DEF IInv, TypeOK
    <2> QED BY <1>1, <2>6, <2>7 DEF IInv, Traffic
  <1> QED BY <1>4, <1>5, <1>6

\* A new write: no write is behind it, and the server knows nothing of it.
LEMMA PutStep == ASSUME IInv, Put PROVE IInv'
  <1> USE DEF link, tokens, subs, auth, server
  <1>3. PICK p : p = putCounter
    OBVIOUS
  <1>1. /\ p \in Nat /\ p < MaxPuts /\ p \in Puts /\ putCounter' = p + 1 /\ putCounter' \in 0 .. MaxPuts
        /\ outstandingPuts' = outstandingPuts \cup {p} /\ p \notin outstandingPuts
        /\ UNCHANGED <<link, tokens, putsToAck, status, subs, auth, answers, unackedListensCount,
                       server, disturbances>>
    BY <1>3, ConnectionAssumption DEF Put, IInv, TypeOK, Puts
  <1>2. /\ \A q \in outstandingPuts : q \in Nat /\ q < p
        /\ \A q \in taken : q \in Nat /\ q < p
        /\ runs[p] = 0 /\ status[p] = NoStatus /\ requests \in Seq(RequestSet)
    <2>1. \A q \in taken : q \in 0 .. p - 1
      BY <1>3 DEF IInv, TakenOK
    <2>2. p \notin taken /\ \A q \in taken : q \in Nat /\ q < p
      BY <1>1, <2>1
    <2>3. \A q \in outstandingPuts : q \in 0 .. p - 1
      BY <1>3 DEF IInv, TypeOK
    <2>4. \A q \in outstandingPuts : q \in Nat /\ q < p
      BY <1>1, <2>3
    <2>5. runs[p] = 0
      BY <1>1, <2>2 DEF IInv, TypeOK, TakenOK
    <2>6. status[p] = NoStatus
      BY <1>1, <1>3 DEF IInv, StatusOK
    <2> QED BY <2>2, <2>4, <2>5, <2>6 DEF IInv, TypeOK
  <1>4. LinkOK'
    BY <1>1 DEF IInv, LinkOK, Latest
  <1>5. StatusOK'
    <2>1. \A i \in DOMAIN putsToAck : putsToAck[i].put \in 0 .. p - 1
      BY Waits, <1>3 DEF IInv
    <2>2. \A i \in DOMAIN putsToAck : putsToAck[i].put # p
      BY <1>1, <2>1
    <2>3. ASSUME NEW q \in Puts, q >= p + 1 \/ q \in outstandingPuts \cup {p}
          PROVE  q >= p \/ q \in outstandingPuts
      BY <1>1, <2>3 DEF Puts
    <2> QED BY <1>1, <1>3, <2>2, <2>3 DEF IInv, StatusOK
  <1>6. putsToAck' \in Seq([put : 0 .. putCounter' - 1, result : {"ok", "refused"}])
    <2> DEFINE T == [put : 0 .. p - 1, result : {"ok", "refused"}]
               U == [put : 0 .. putCounter' - 1, result : {"ok", "refused"}]
    <2>1. 0 .. p - 1 \subseteq 0 .. putCounter' - 1
      BY <1>1
    <2>2. T \subseteq U
      BY <2>1
    <2>3. putsToAck \in Seq(T)
      BY <1>3 DEF IInv, TypeOK
    <2> HIDE DEF T, U
    <2>4. putsToAck \in Seq(U)
      BY <2>2, <2>3
    <2> QED BY <1>1, <2>4 DEF U
  <1>7. outstandingPuts' \subseteq 0 .. putCounter' - 1
    BY <1>1, <1>2
  <1>8. CASE ~canSendWrites
    <2>1. connectionState # "Connected" /\ UNCHANGED <<sent, requests>>
      BY <1>8 DEF Put, canSendWrites
    <2>2. TypeOK'
      BY <1>1, <1>6, <1>7, <2>1 DEF IInv, TypeOK
    <2>3. CountOK' /\ QuietOK' /\ RestoreOK'
      BY <1>1, <2>1 DEF IInv, CountOK, QuietOK, RestoreOK, connected
    <2>4. ToldOK'
      BY <1>1, <2>1 DEF IInv, ToldOK, connected
    <2>5. ~InFlight(p)
      BY <1>1, <1>3 DEF IInv, FlightOK, InFlight
    <2>6. FlightOK'
      <3>1. \A i \in Of(requests, "put") : requests[i].put \in Nat
        BY RequestKinds DEF Of, IInv, TypeOK, Puts
      <3>2. \A i \in Of(answers, "put") : answers[i].put \in Nat
        BY AnswerKinds DEF Of, IInv, TypeOK, Puts
      <3> QED BY <1>1, <1>3, <2>1, <3>1, <3>2 DEF IInv, FlightOK
    <2>7. SentOK'
      BY <1>1, <1>2, <2>1, <2>5 DEF IInv, SentOK, InFlight
    <2>8. TakenOK'
      <3>1. taken \subseteq 0 .. putCounter' - 1
        BY <1>1, <1>2
      <3> QED BY <1>1, <1>2, <2>1, <3>1 DEF IInv, TakenOK
    <2>9. HashedOK'
      BY <1>1, <1>2, <2>1 DEF IInv, HashedOK
    <2> QED BY <1>4, <1>5, <2>2, <2>3, <2>4, <2>6, <2>7, <2>8, <2>9 DEF IInv
  <1>9. CASE canSendWrites
    <2> DEFINE m == PutRequest(p)
               n == Len(requests) + 1
    <2>1. connectionState = "Connected" /\ sent' = sent \cup {p} /\ requests' = Append(requests, m)
      BY <1>3, <1>9 DEF Put, canSendWrites
    <2>2. m \in RequestSet /\ m.type = "put" /\ m.put = p /\ m.as = authToken
      BY <1>1, Requested DEF IInv, TypeOK
    <2> HIDE DEF m
    <2>3. /\ requests' \in Seq(RequestSet) /\ Len(requests') = n /\ DOMAIN requests' = 1 .. n
          /\ Len(requests) \in Nat /\ DOMAIN requests = 1 .. Len(requests) /\ requests'[n] = m
          /\ \A i \in DOMAIN requests : i < n /\ i \in DOMAIN requests' /\ requests'[i] = requests[i]
          /\ \A i \in DOMAIN requests' : i \in DOMAIN requests \/ i = n
      BY <1>2, <2>1, <2>2, Appends DEF Longer
    <2>4. TypeOK'
      BY <1>1, <1>6, <1>7, <2>1, <2>3 DEF IInv, TypeOK
    <2>5. CountOK'
      <3>1. Listening(requests') = Listening(requests)
        BY <1>2, <2>1, <2>2, ListeningAppend DEF Longer
      <3> QED BY <1>1, <3>1 DEF IInv, CountOK
    <2>6. QuietOK'
      BY <1>1, <2>1 DEF IInv, QuietOK, connected
    <2>7. /\ Of(requests', "auth") = Of(requests, "auth")
          /\ \A i \in Of(requests, "auth") : requests'[i] = requests[i]
      BY <2>2, <2>3 DEF Of
    <2>8. RestoreOK'
      BY <1>1, <2>7 DEF IInv, RestoreOK
    <2>9. /\ Of(requests', "put") = Of(requests, "put") \cup {n}
          /\ \A i \in Of(requests, "put") : i < n /\ n # i /\ ~(n < i) /\ requests'[i] = requests[i]
          /\ n \in Nat
      BY <2>2, <2>3 DEF Of
    <2>10. ToldOK'
      <3>1. \A i \in DOMAIN requests' : i > Len(requests) => ~Mark(requests'[i])
        BY <2>2, <2>3 DEF Mark
      <3>2. Told(requests, serverCred, n, authToken)
        BY <2>1 DEF IInv, ToldOK, connected
      <3>3. /\ Len(requests') >= Len(requests) /\ n + 1 \in Len(requests) + 1 .. Len(requests') + 1
            /\ n \in Len(requests) + 1 .. Len(requests') + 1
        BY <2>3
      <3>4. \A i \in Len(requests) + 1 .. Len(requests') + 1 : Told(requests', serverCred, i, authToken)
        BY <1>2, <2>3, <3>1, <3>2, <3>3, ToldAfter
      <3>5. ASSUME NEW i \in Of(requests, "put") PROVE Told(requests', serverCred, i, requests[i].as)
        <4>1. i \in 1 .. Len(requests) + 1
          BY <2>3 DEF Of
        <4>2. Told(requests, serverCred, i, requests[i].as)
          BY DEF IInv, ToldOK
        <4> QED BY <1>2, <2>3, <4>1, <4>2, ToldBefore
      <3>6. Told(requests', serverCred, n, authToken) /\ Told(requests', serverCred, n + 1, authToken)
        BY <3>3, <3>4
      <3> HIDE DEF n
      <3> QED BY <1>1, <2>2, <2>3, <2>9, <3>5, <3>6 DEF ToldOK
    <2> HIDE DEF n
    <2>15. /\ \A i \in Of(requests, "put") : requests[i].put \in Nat /\ requests[i].put < p
           /\ \A i \in Of(answers, "put") : answers[i].put \in Nat /\ answers[i].put < p
      <3>1. \A i \in Of(requests, "put") : requests[i].put \in Nat
        BY RequestKinds DEF Of, IInv, TypeOK, Puts
      <3>2. \A i \in Of(answers, "put") : answers[i].put \in Nat
        BY AnswerKinds DEF Of, IInv, TypeOK, Puts
      <3> QED BY <1>3, <3>1, <3>2 DEF IInv, FlightOK
    <2>11. FlightOK'
      <3>1. ASSUME NEW i \in Of(requests', "put"), NEW j \in Of(requests', "put"), i < j
            PROVE  requests'[i].put < requests'[j].put
        <4>1. i \in Of(requests, "put")
          BY <2>9, <3>1
        <4>2. CASE j \in Of(requests, "put")
          BY <2>9, <3>1, <4>1, <4>2 DEF IInv, FlightOK
        <4>3. CASE j = n
          BY <2>2, <2>3, <2>9, <2>15, <4>1, <4>3
        <4> QED BY <2>9, <4>2, <4>3
      <3>2. ASSUME NEW i \in Of(requests', "put")
            PROVE  /\ requests'[i].put < putCounter'
                   /\ \A j \in Of(answers, "put") : answers[j].put < requests'[i].put
        <4>1. CASE i \in Of(requests, "put")
          <5>1. requests'[i].put = requests[i].put /\ requests[i].put < p /\ requests[i].put \in Nat
            BY <2>9, <2>15, <4>1
          <5> QED BY <1>1, <4>1, <5>1 DEF IInv, FlightOK
        <4>2. CASE i = n
          BY <1>1, <2>2, <2>3, <2>15, <4>2
        <4> QED BY <2>9, <4>1, <4>2
      <3>3. \A i \in Of(answers, "put") : answers[i].put < putCounter'
        BY <1>1, <2>15
      <3> QED BY <1>1, <3>1, <3>2, <3>3 DEF IInv, FlightOK
    <2>12. SentOK'
      <3>1. InFlight(p)'
        BY <2>2, <2>3, <2>9 DEF InFlight
      <3>2. \A q : InFlight(q) => InFlight(q)'
        BY <1>1, <2>9 DEF InFlight
      <3>3. \A q : InFlight(q)' => InFlight(q) \/ q = p
        BY <1>1, <2>2, <2>3, <2>9 DEF InFlight
      <3> QED BY <1>1, <2>1, <3>1, <3>2, <3>3 DEF IInv, SentOK
    <2>13. TakenOK'
      <3>1. taken \subseteq 0 .. putCounter' - 1
        BY <1>1, <1>2
      <3> QED BY <1>1, <1>2, <2>2, <2>3, <2>9, <3>1 DEF IInv, TakenOK
    <2>14. HashedOK'
      BY <1>1, <1>2, <2>1, <2>2, <2>3, <2>9 DEF IInv, HashedOK
    <2> QED BY <1>4, <1>5, <2>4, <2>5, <2>6, <2>8, <2>10, <2>11, <2>12, <2>13, <2>14 DEF IInv
  <1> QED BY <1>8, <1>9


-----------------------------------------------------------------------------
\* A changed token, while connected, is the last word in what the server will be told.
LEMMA RefreshStep == ASSUME IInv, RefreshAuthToken PROVE IInv'
  <1> USE DEF link, puts, subs, server
  <1>1. /\ UNCHANGED <<link, currentFetchTokenAttempt, fetches, puts, subs, account, answers,
                       unackedListensCount, server, disturbances>>
        /\ authToken' \in Tokens /\ notices' \in Seq(Tokens)
    <2>1. notices \in Seq(Tokens) /\ notices # <<>>
      BY DEF RefreshAuthToken, IInv, TypeOK
    <2>2. Head(notices) \in Tokens /\ Tail(notices) \in Seq(Tokens)
      BY <2>1
    <2> QED BY <2>2 DEF RefreshAuthToken
  <1>2. requests \in Seq(RequestSet) /\ requests' = requests \o NewToken(authToken')
    BY DEF RefreshAuthToken, IInv, TypeOK
  <1>3. LinkOK'
    BY <1>1 DEF IInv, LinkOK, Latest
  <1>4. CASE ~connected
    <2>1. requests' = requests
      BY <1>2, <1>4 DEF NewToken
    <2>2. Traffic'
      BY <1>1, <1>4, <2>1, TrafficStays DEF wire
    <2>3. TypeOK'
      BY <1>1, <2>1 DEF IInv, TypeOK
    <2> QED BY <1>3, <2>2, <2>3 DEF IInv, Traffic
  <1>5. CASE connected
    <2>1. PICK m \in RequestSet :
             /\ m.type = "unauth" \/ (m.type = "auth" /\ m.restore = FALSE)
             /\ Mark(m) /\ Cred(m) = authToken' /\ NewToken(authToken') = <<m>>
      <3>1. CASE authToken' = NoToken
        <4>1. Unauth \in RequestSet /\ Unauth.type = "unauth"
          BY Requested
        <4> QED BY <1>5, <3>1, <4>1 DEF NewToken, Mark, Cred
      <3>2. CASE authToken' # NoToken
        <4> DEFINE m == AuthRequest(authToken', FALSE)
        <4>1. authToken' \in Accounts
          BY <1>1, <3>2 DEF Tokens
        <4>2. m \in RequestSet /\ m.type = "auth" /\ m.restore = FALSE /\ m.cred = authToken'
          BY <4>1, Requested
        <4>3. NewToken(authToken') = <<m>>
          BY <1>5, <3>2 DEF NewToken
        <4> HIDE DEF m
        <4> QED BY <4>2, <4>3 DEF Mark, Cred
      <3> QED BY <3>1, <3>2
    <2> DEFINE n == Len(requests) + 1
    <2>2. Longer(requests, m, requests')
      BY <1>2, <2>1 DEF Longer
    <2>3. /\ requests' \in Seq(RequestSet) /\ Len(requests') = n /\ DOMAIN requests' = 1 .. n
          /\ Len(requests) \in Nat /\ DOMAIN requests = 1 .. Len(requests) /\ requests'[n] = m
          /\ \A i \in DOMAIN requests : i < n /\ i \in DOMAIN requests' /\ requests'[i] = requests[i]
          /\ \A i \in DOMAIN requests' : i \in DOMAIN requests \/ i = n
      BY <1>2, <2>1, <2>2, Appends
    <2>4. /\ Of(requests', "put") = Of(requests, "put")
          /\ \A i \in Of(requests, "put") : requests'[i] = requests[i]
      BY <2>1, <2>3 DEF Of
    <2>5. /\ \A i \in Of(requests', "auth") :
                \/ i \in Of(requests, "auth") /\ requests'[i] = requests[i]
                \/ i = n /\ ~requests'[i].restore
          /\ \A i \in Of(requests, "auth") : i < n /\ ~(n < i) /\ i \in Of(requests', "auth")
                                             /\ requests'[i] = requests[i]
          /\ n \in Nat /\ ~(n < n)
      BY <2>1, <2>3 DEF Of
    <2>6. TypeOK'
      BY <1>1, <2>3 DEF IInv, TypeOK
    <2>7. CountOK'
      <3>1. Listening(requests') = Listening(requests)
        BY <1>2, <2>1, <2>2, ListeningAppend
      <3> QED BY <1>1, <3>1 DEF IInv, CountOK
    <2>8. QuietOK'
      BY <1>1, <1>5, <2>4 DEF IInv, QuietOK, connected
    <2>9. RestoreOK'
      <3> HIDE DEF n
      <3>1. \A i, j \in Of(requests', "auth") : i < j => ~requests'[j].restore
        BY <2>5 DEF IInv, RestoreOK
      <3>2. \A i, j \in Of(answers', "auth") : i < j => ~answers'[j].restore
        BY <1>1 DEF IInv, RestoreOK
      <3>3. Of(answers', "auth") # {} => \A j \in Of(requests', "auth") : ~requests'[j].restore
        BY <1>1, <2>5 DEF IInv, RestoreOK
      <3>4. connectionState' = "Authenticating" =>
              \/ \E i \in Of(requests', "auth") : requests'[i].restore
              \/ \E i \in Of(answers', "auth") : answers'[i].restore
        BY <1>1, <2>5 DEF IInv, RestoreOK
      <3>5. connectionState' = "Connected" =>
              /\ \A i \in Of(requests', "auth") : ~requests'[i].restore
              /\ \A i \in Of(answers', "auth") : ~answers'[i].restore
        BY <1>1, <2>5 DEF IInv, RestoreOK
      <3> QED BY <3>1, <3>2, <3>3, <3>4, <3>5 DEF RestoreOK
    <2>10. ToldOK'
      <3>1. Told(requests', serverCred, n + 1, authToken')
        <4>1. n \in 1 .. (n + 1) - 1 /\ Mark(requests'[n]) /\ Cred(requests'[n]) = authToken'
          BY <2>1, <2>3
        <4>2. \A j \in 1 .. (n + 1) - 1 : j = n \/ n \in j + 1 .. (n + 1) - 1
          BY <2>3
        <4> HIDE DEF n
        <4> QED BY <4>1, <4>2 DEF Told
      <3>2. ASSUME NEW i \in Of(requests, "put") PROVE Told(requests', serverCred, i, requests[i].as)
        <4>1. i \in 1 .. Len(requests) + 1
          BY <2>3 DEF Of
        <4>2. Told(requests, serverCred, i, requests[i].as)
          BY DEF IInv, ToldOK
        <4> QED BY <1>2, <2>3, <4>1, <4>2, ToldBefore
      <3> HIDE DEF n
      <3> QED BY <1>1, <2>3, <2>4, <3>1, <3>2 DEF ToldOK
    <2> HIDE DEF n
    <2>11. FlightOK'
      BY <1>1, <2>4 DEF IInv, FlightOK
    <2>12. SentOK'
      BY <1>1, <2>4 DEF IInv, SentOK, InFlight
    <2>13. TakenOK' /\ HashedOK' /\ StatusOK'
      BY <1>1, <2>4 DEF IInv, TakenOK, HashedOK, StatusOK
    <2> QED BY <1>3, <2>6, <2>7, <2>8, <2>9, <2>10, <2>11, <2>12, <2>13 DEF IInv
  <1> QED BY <1>4, <1>5

-----------------------------------------------------------------------------
\* The messages of a type are the same as before: none was added or taken, and at most a
\* message of another type was taken before them.
Kept(q, r, t) ==
    \E d \in {0, 1} :
        /\ \A i \in Of(r, t) : i \in Nat /\ i + d \in Of(q, t) /\ r[i] = q[i + d]
        /\ \A i \in Of(q, t) : i \in Nat /\ i - d \in Of(r, t) /\ r[i - d] = q[i]

LEMMA KeptAll ==
    ASSUME NEW S, NEW q \in Seq(S), NEW t
    PROVE  Kept(q, q, t)
  <1>1. \A i \in Of(q, t) : i \in Nat /\ i + 0 = i /\ i - 0 = i
    BY DEF Of
  <1>2. /\ \A i \in Of(q, t) : i \in Nat /\ i + 0 \in Of(q, t) /\ q[i] = q[i + 0]
        /\ \A i \in Of(q, t) : i \in Nat /\ i - 0 \in Of(q, t) /\ q[i - 0] = q[i]
    BY <1>1
  <1> QED BY <1>2 DEF Kept

LEMMA KeptRest ==
    ASSUME NEW S, NEW q \in Seq(S), NEW r, Rest(q, r), NEW t, Head(q).type # t
    PROVE  Kept(q, r, t)
  <1>1. /\ Head(q) = q[1]
        /\ \A i \in DOMAIN r : i \in Nat /\ i + 1 \in DOMAIN q /\ r[i] = q[i + 1]
        /\ \A i \in DOMAIN q : i \in Nat /\ (i = 1 \/ (i - 1 \in DOMAIN r /\ r[i - 1] = q[i]))
    BY Tails
  <1>2. \A i \in Of(r, t) : i \in Nat /\ i + 1 \in Of(q, t) /\ r[i] = q[i + 1]
    BY <1>1 DEF Of
  <1>3. \A i \in Of(q, t) : i \in Nat /\ i - 1 \in Of(r, t) /\ r[i - 1] = q[i]
    BY <1>1 DEF Of
  <1> QED BY <1>2, <1>3 DEF Kept

LEMMA KeptLonger ==
    ASSUME NEW S, NEW q \in Seq(S), NEW x \in S, NEW r, Longer(q, x, r), NEW t, x.type # t
    PROVE  Kept(q, r, t)
  <1>1. /\ r[Len(q) + 1] = x
        /\ \A i \in DOMAIN q : i \in Nat /\ i \in DOMAIN r /\ r[i] = q[i]
        /\ \A i \in DOMAIN r : i \in DOMAIN q \/ i = Len(q) + 1
    BY Appends
  <1>2. \A i \in Of(r, t) : i \in Of(q, t) /\ r[i] = q[i]
    BY <1>1 DEF Of
  <1>3. \A i \in Of(q, t) : i \in Nat /\ i + 0 = i /\ i - 0 = i /\ i \in Of(r, t) /\ r[i] = q[i]
    BY <1>1 DEF Of
  <1>4. /\ \A i \in Of(r, t) : i \in Nat /\ i + 0 \in Of(q, t) /\ r[i] = q[i + 0]
        /\ \A i \in Of(q, t) : i \in Nat /\ i - 0 \in Of(r, t) /\ r[i - 0] = q[i]
    BY <1>2, <1>3
  <1> QED BY <1>4 DEF Kept

\* What the parts of the invariant about the messages of one type ask of them.
LEMMA KeptFacts ==
    ASSUME NEW q, NEW r, NEW t, Kept(q, r, t)
    PROVE  /\ \A i \in Of(r, t) : \E k \in Of(q, t) : r[i] = q[k]
           /\ \A i \in Of(q, t) : \E k \in Of(r, t) : r[k] = q[i]
           /\ \A i, j \in Of(r, t) : i < j =>
                 \E k, m \in Of(q, t) : k < m /\ r[i] = q[k] /\ r[j] = q[m]
  <1>1. PICK d \in {0, 1} :
           /\ \A i \in Of(r, t) : i \in Nat /\ i + d \in Of(q, t) /\ r[i] = q[i + d]
           /\ \A i \in Of(q, t) : i \in Nat /\ i - d \in Of(r, t) /\ r[i - d] = q[i]
    BY DEF Kept
  <1>2. ASSUME NEW i \in Of(r, t), NEW j \in Of(r, t), i < j
        PROVE  \E k, m \in Of(q, t) : k < m /\ r[i] = q[k] /\ r[j] = q[m]
    <2>1. i + d \in Of(q, t) /\ r[i] = q[i + d] /\ j + d \in Of(q, t) /\ r[j] = q[j + d]
      BY <1>1
    <2>2. i + d < j + d
      BY <1>1, <1>2
    <2> QED BY <2>1, <2>2
  <1> QED BY <1>1, <1>2

\* As long as the writes in flight are the same, so is what is known of them.
LEMMA PutsKept ==
    ASSUME IInv, Kept(requests, requests', "put"), Kept(answers, answers', "put"),
           UNCHANGED <<connectionState, outstandingPuts, sent, putCounter, taken, runs>>,
           ~connected => requests' = <<>> /\ answers' = <<>> /\ serverCred' = NoToken
    PROVE  QuietOK' /\ FlightOK' /\ SentOK' /\ TakenOK' /\ HashedOK'
  <1>1. /\ \A i \in Of(requests', "put") : \E k \in Of(requests, "put") : requests'[i] = requests[k]
        /\ \A i \in Of(requests, "put") : \E k \in Of(requests', "put") : requests'[k] = requests[i]
        /\ \A i, j \in Of(requests', "put") : i < j =>
              \E k, m \in Of(requests, "put") :
                 k < m /\ requests'[i] = requests[k] /\ requests'[j] = requests[m]
    BY KeptFacts
  <1>2. /\ \A i \in Of(answers', "put") : \E k \in Of(answers, "put") : answers'[i] = answers[k]
        /\ \A i \in Of(answers, "put") : \E k \in Of(answers', "put") : answers'[k] = answers[i]
        /\ \A i, j \in Of(answers', "put") : i < j =>
              \E k, m \in Of(answers, "put") :
                 k < m /\ answers'[i] = answers[k] /\ answers'[j] = answers[m]
    BY KeptFacts
  <1>3. QuietOK'
    <2>1. connected' = connected
      BY DEF connected
    <2>2. connectionState' = "Authenticating" => Of(requests', "put") = {} /\ Of(answers', "put") = {}
      BY <1>1, <1>2 DEF IInv, QuietOK
    <2> QED BY <2>1, <2>2 DEF QuietOK
  <1>4. FlightOK'
    <2>1. \A i, j \in Of(requests', "put") : i < j => requests'[i].put < requests'[j].put
      BY <1>1 DEF IInv, FlightOK
    <2>2. \A i, j \in Of(answers', "put") : i < j => answers'[i].put < answers'[j].put
      BY <1>2 DEF IInv, FlightOK
    <2>3. \A i \in Of(answers', "put"), j \in Of(requests', "put") :
             answers'[i].put < requests'[j].put
      BY <1>1, <1>2 DEF IInv, FlightOK
    <2>4. /\ \A i \in Of(requests', "put") : requests'[i].put < putCounter
          /\ \A i \in Of(answers', "put") : answers'[i].put < putCounter
      BY <1>1, <1>2 DEF IInv, FlightOK
    <2> QED BY <2>1, <2>2, <2>3, <2>4 DEF FlightOK
  <1>5. SentOK'
    <2>1. \A p : InFlight(p)' <=> InFlight(p)
      BY <1>1, <1>2 DEF InFlight
    <2> QED BY <2>1 DEF IInv, SentOK
  <1>6. TakenOK'
    BY <1>1, <1>2 DEF IInv, TakenOK
  <1>7. HashedOK'
    BY <1>1 DEF IInv, HashedOK
  <1> QED BY <1>3, <1>4, <1>5, <1>6, <1>7

\* The same for the authentications.
LEMMA AuthKept ==
    ASSUME IInv, Kept(requests, requests', "auth"), Kept(answers, answers', "auth"),
           UNCHANGED connectionState
    PROVE  RestoreOK'
  <1>1. /\ \A i \in Of(requests', "auth") : \E k \in Of(requests, "auth") : requests'[i] = requests[k]
        /\ \A i \in Of(requests, "auth") : \E k \in Of(requests', "auth") : requests'[k] = requests[i]
        /\ \A i, j \in Of(requests', "auth") : i < j =>
              \E k, m \in Of(requests, "auth") :
                 k < m /\ requests'[i] = requests[k] /\ requests'[j] = requests[m]
    BY KeptFacts
  <1>2. /\ \A i \in Of(answers', "auth") : \E k \in Of(answers, "auth") : answers'[i] = answers[k]
        /\ \A i \in Of(answers, "auth") : \E k \in Of(answers', "auth") : answers'[k] = answers[i]
        /\ \A i, j \in Of(answers', "auth") : i < j =>
              \E k, m \in Of(answers, "auth") :
                 k < m /\ answers'[i] = answers[k] /\ answers'[j] = answers[m]
    BY KeptFacts
  <1>3. \A i, j \in Of(requests', "auth") : i < j => ~requests'[j].restore
    BY <1>1 DEF IInv, RestoreOK
  <1>4. \A i, j \in Of(answers', "auth") : i < j => ~answers'[j].restore
    BY <1>2 DEF IInv, RestoreOK
  <1>5. Of(answers', "auth") # {} => \A j \in Of(requests', "auth") : ~requests'[j].restore
    BY <1>1, <1>2 DEF IInv, RestoreOK
  <1>6. connectionState' = "Authenticating" =>
          \/ \E i \in Of(requests', "auth") : requests'[i].restore
          \/ \E i \in Of(answers', "auth") : answers'[i].restore
    BY <1>1, <1>2 DEF IInv, RestoreOK
  <1>7. connectionState' = "Connected" =>
          /\ \A i \in Of(requests', "auth") : ~requests'[i].restore
          /\ \A i \in Of(answers', "auth") : ~answers'[i].restore
    BY <1>1, <1>2 DEF IInv, RestoreOK
  <1> QED BY <1>3, <1>4, <1>5, <1>6, <1>7 DEF RestoreOK

\* What the server was told is still so when it has taken the first message, and when it
\* forgets whom the connection is of.
LEMMA ToldRest ==
    ASSUME NEW q \in Seq(RequestSet), NEW r, Rest(q, r), NEW cred, NEW c, NEW t,
           NEW i \in 2 .. Len(q) + 1, Told(q, cred, i, t),
           IF Mark(Head(q)) THEN c \in {Cred(Head(q)), NoToken} ELSE c \in {cred, NoToken}
    PROVE  Told(r, c, i - 1, t)
  <1>1. /\ Len(q) \in Nat /\ DOMAIN q = 1 .. Len(q) /\ Head(q) = q[1]
        /\ Len(r) = Len(q) - 1 /\ DOMAIN r = 1 .. Len(r)
        /\ \A j \in DOMAIN r : r[j] = q[j + 1]
    BY Tails
  <1>2. \A j \in 1 .. (i - 1) - 1 : j \in Nat /\ j + 1 \in 1 .. i - 1 /\ j \in DOMAIN r /\ r[j] = q[j + 1]
    BY <1>1
  <1>3. \A k \in 2 .. i - 1 : k - 1 \in 1 .. (i - 1) - 1 /\ r[k - 1] = q[k]
    <2>1. \A k \in 2 .. i - 1 : k - 1 \in 1 .. (i - 1) - 1 /\ (k - 1) + 1 = k
      BY <1>1
    <2> QED BY <1>2, <2>1
  <1>4. ASSUME NEW j \in 1 .. (i - 1) - 1, Mark(r[j]), \A k \in j + 1 .. (i - 1) - 1 : ~Mark(r[k])
        PROVE  Cred(r[j]) = t
    <2>1. j + 1 \in 1 .. i - 1 /\ r[j] = q[j + 1]
      BY <1>2
    <2>2. \A k \in (j + 1) + 1 .. i - 1 : k \in 2 .. i - 1 /\ k - 1 \in j + 1 .. (i - 1) - 1
      BY <1>1
    <2>3. \A k \in (j + 1) + 1 .. i - 1 : ~Mark(q[k])
      BY <1>3, <1>4, <2>2
    <2> QED BY <1>4, <2>1, <2>3 DEF Told
  <1>5. ASSUME \A j \in 1 .. (i - 1) - 1 : ~Mark(r[j]) PROVE c \in {t, NoToken}
    <2>1. \A k \in 2 .. i - 1 : ~Mark(q[k])
      BY <1>3, <1>5
    <2>2. 1 \in 1 .. i - 1 /\ \A k \in 1 .. i - 1 : k = 1 \/ k \in 2 .. i - 1
      BY <1>1
    <2>3. \A k \in 1 + 1 .. i - 1 : k \in 2 .. i - 1
      OBVIOUS
    <2>4. CASE Mark(q[1])
      BY <1>1, <2>1, <2>2, <2>3, <2>4 DEF Told
    <2>5. CASE ~Mark(q[1])
      BY <1>1, <2>1, <2>2, <2>5 DEF Told
    <2> QED BY <2>4, <2>5
  <1> QED BY <1>4, <1>5 DEF Told

\* The connection took the first message of those that were sent.
LEMMA TakeTold ==
    ASSUME IInv, Rest(requests, requests'), UNCHANGED <<connectionState, authToken>>,
           IF Mark(Head(requests)) THEN serverCred' \in {Cred(Head(requests)), NoToken}
                                   ELSE serverCred' \in {serverCred, NoToken}
    PROVE  ToldOK' /\ connected
  <1>1. requests \in Seq(RequestSet)
    BY DEF IInv, TypeOK
  <1>2. /\ Len(requests) \in Nat /\ DOMAIN requests = 1 .. Len(requests)
        /\ Len(requests') = Len(requests) - 1 /\ Len(requests') \in Nat
        /\ 1 \in DOMAIN requests
        /\ DOMAIN requests' = 1 .. Len(requests')
        /\ \A i \in DOMAIN requests' : i \in Nat /\ i + 1 \in DOMAIN requests /\ requests'[i] = requests[i + 1]
    BY <1>1, Tails
  <1>3. connected
    BY DEF IInv, QuietOK, Rest
  <1>4. Told(requests', serverCred', Len(requests') + 1, authToken')
    <2>1. Told(requests, serverCred, Len(requests) + 1, authToken)
      BY <1>3 DEF IInv, ToldOK
    <2>2. Len(requests) + 1 \in 2 .. Len(requests) + 1 /\ (Len(requests) + 1) - 1 = Len(requests') + 1
      BY <1>2
    <2>3. Told(requests', serverCred', (Len(requests) + 1) - 1, authToken)
      BY <1>1, <2>1, <2>2, ToldRest
    <2> QED BY <2>2, <2>3
  <1>5. ASSUME NEW i \in Of(requests', "put") PROVE Told(requests', serverCred', i, requests'[i].as)
    <2>1. i \in Nat /\ i + 1 \in Of(requests, "put") /\ requests'[i] = requests[i + 1]
          /\ i + 1 \in 2 .. Len(requests) + 1 /\ (i + 1) - 1 = i
      BY <1>2 DEF Of
    <2>2. Told(requests, serverCred, i + 1, requests'[i].as)
      BY <2>1 DEF IInv, ToldOK
    <2>3. Told(requests', serverCred', (i + 1) - 1, requests'[i].as)
      BY <1>1, <2>1, <2>2, ToldRest
    <2> QED BY <2>1, <2>3
  <1> QED BY <1>3, <1>4, <1>5 DEF ToldOK

LEMMA ForgetTold ==
    ASSUME IInv, UNCHANGED <<requests, connectionState, authToken>>, serverCred' \in {serverCred, NoToken}
    PROVE  ToldOK'
  <1>1. \A i, t : Told(requests, serverCred, i, t) => Told(requests, serverCred', i, t)
    BY DEF Told
  <1> QED BY <1>1 DEF IInv, ToldOK, connected

-----------------------------------------------------------------------------
\* The server takes the first request of the connection.
LEMMA TakenFirst ==
    ASSUME IInv, NEW type, Taken(type)
    PROVE  /\ requests \in Seq(RequestSet) /\ Rest(requests, requests') /\ requests' \in Seq(RequestSet)
           /\ answers \in Seq(AnswerSet) /\ Head(requests) \in RequestSet
           /\ Head(requests) = requests[1] /\ 1 \in Of(requests, type) /\ connected
           /\ Listening(requests) \in Nat /\ Listening(requests') \in Nat
           /\ Listening(requests) = IF type = "listen" THEN Listening(requests') + 1
                                                       ELSE Listening(requests')
  <1>1. requests \in Seq(RequestSet) /\ answers \in Seq(AnswerSet)
    BY DEF IInv, TypeOK
  <1>2. Rest(requests, requests') /\ Head(requests).type = type
    BY DEF Taken, Rest
  <1>3. /\ 1 \in DOMAIN requests /\ Head(requests) = requests[1] /\ requests[1] \in RequestSet
        /\ requests' \in Seq(RequestSet)
    BY <1>1, <1>2, Tails
  <1>4. 1 \in Of(requests, type)
    BY <1>2, <1>3 DEF Of
  <1>5. connected
    BY <1>2 DEF IInv, QuietOK, Rest
  <1>6. /\ Listening(requests) \in Nat /\ Listening(requests') \in Nat
        /\ Listening(requests) = IF Head(requests).type = "listen" THEN Listening(requests') + 1
                                                                   ELSE Listening(requests')
    BY <1>1, <1>2, ListeningTail
  <1> QED BY <1>1, <1>2, <1>3, <1>4, <1>5, <1>6

\* The first request is an authentication: its answer is the last of those that are in
\* flight, and keeps to the connection whether it is to be restored.
LEMMA ServerAuthStep == ASSUME IInv, ServerAccepts \/ ServerDenies PROVE IInv'
  <1> USE DEF link, tokens, puts, subs, auth
  <1>1. PICK ok \in BOOLEAN :
           /\ Answer([type |-> "auth", ok |-> ok, restore |-> Head(requests).restore])
           /\ serverCred' \in {Head(requests).cred, NoToken} /\ Taken("auth")
           /\ UNCHANGED <<taken, runs>>
    BY DEF ServerAccepts, ServerDenies
  <1>2. UNCHANGED <<link, tokens, puts, subs, auth, unackedListensCount>>
    BY <1>1 DEF Taken
  <1>3. /\ requests \in Seq(RequestSet) /\ Rest(requests, requests') /\ requests' \in Seq(RequestSet)
        /\ answers \in Seq(AnswerSet) /\ Head(requests) \in RequestSet
        /\ Head(requests) = requests[1] /\ 1 \in Of(requests, "auth") /\ connected
        /\ Listening(requests) = Listening(requests')
    BY <1>1, TakenFirst
  <1>4. PICK a \in AnswerSet : /\ a.type = "auth" /\ a.restore = Head(requests).restore
                               /\ Longer(answers, a, answers')
    <2> DEFINE a == [type |-> "auth", ok |-> ok, restore |-> Head(requests).restore]
    <2>1. Head(requests).type = "auth" /\ Head(requests).restore \in BOOLEAN
      BY <1>1, <1>3, RequestKinds DEF Taken
    <2>2. a \in AnswerSet /\ a.type = "auth" /\ a.restore = Head(requests).restore
      BY <1>1, <2>1 DEF AnswerSet
    <2>3. Longer(answers, a, answers')
      BY <1>1 DEF Answer, Longer
    <2> QED BY <2>2, <2>3
  <1>5. Head(requests).type = "auth" /\ Head(requests).cred \in Tokens
    BY <1>1, <1>3, RequestKinds DEF Taken, Tokens
  <1>6. /\ answers' \in Seq(AnswerSet) /\ Listening(answers') = Listening(answers)
    BY <1>3, <1>4, Appends, ListeningAppend
  <1>7. TypeOK'
    BY <1>1, <1>2, <1>3, <1>5, <1>6 DEF IInv, TypeOK, Tokens
  <1>8. LinkOK'
    BY <1>2 DEF IInv, LinkOK, Latest
  <1>9. CountOK' /\ StatusOK'
    BY <1>1, <1>2, <1>3, <1>6 DEF IInv, CountOK, StatusOK
  <1>10. Kept(requests, requests', "put") /\ Kept(answers, answers', "put")
    BY <1>3, <1>4, <1>5, KeptRest, KeptLonger
  <1>11. QuietOK' /\ FlightOK' /\ SentOK' /\ TakenOK' /\ HashedOK'
    BY <1>1, <1>2, <1>3, <1>10, PutsKept
  <1>12. ToldOK'
    BY <1>1, <1>2, <1>3, <1>5, TakeTold DEF Mark, Cred
  <1>13. RestoreOK'
    <2> DEFINE n == Len(answers) + 1
    <2>1. /\ \A i \in Of(requests', "auth") :
                i \in Nat /\ i + 1 \in Of(requests, "auth") /\ 1 < i + 1 /\ requests'[i] = requests[i + 1]
          /\ \A i \in Of(requests, "auth") : i \in Nat /\ (i = 1 \/ i - 1 \in Of(requests', "auth"))
      <3>1. /\ \A i \in DOMAIN requests' : i \in Nat /\ i + 1 \in DOMAIN requests /\ requests'[i] = requests[i + 1]
            /\ \A i \in DOMAIN requests :
                  i \in Nat /\ (i = 1 \/ (i - 1 \in DOMAIN requests' /\ requests'[i - 1] = requests[i]))
            /\ DOMAIN requests' = 1 .. Len(requests') /\ Len(requests') \in Nat
        BY <1>3, Tails
      <3>2. \A i \in DOMAIN requests' : 1 < i + 1
        BY <3>1
      <3> QED BY <3>1, <3>2 DEF Of
    <2>2. \A i \in Of(requests', "auth") : ~requests'[i].restore
      BY <1>3, <2>1 DEF IInv, RestoreOK
    <2>3. /\ Of(answers', "auth") = Of(answers, "auth") \cup {n} /\ answers'[n] = a
          /\ \A i \in Of(answers, "auth") : i < n /\ ~(n < i) /\ answers'[i] = answers[i]
          /\ ~(n < n)
      <3>1. /\ Len(answers) \in Nat /\ DOMAIN answers' = 1 .. Len(answers) + 1 /\ answers'[n] = a
            /\ DOMAIN answers = 1 .. Len(answers)
            /\ \A i \in DOMAIN answers : i \in Nat /\ i \in DOMAIN answers' /\ i < n /\ answers'[i] = answers[i]
            /\ \A i \in DOMAIN answers' : i \in DOMAIN answers \/ i = n
        BY <1>3, <1>4, Appends
      <3>2. n \in DOMAIN answers' /\ ~(n < n) /\ \A i \in DOMAIN answers : ~(n < i)
        BY <3>1
      <3> HIDE DEF n
      <3> QED BY <1>4, <3>1, <3>2 DEF Of
    <2> HIDE DEF n
    <2>4. a.restore = requests[1].restore
      BY <1>3, <1>4
    <2>5. Of(answers, "auth") # {} => ~a.restore
      BY <1>3, <2>4 DEF IInv, RestoreOK
    <2>6. \A i, j \in Of(answers', "auth") : i < j => ~answers'[j].restore
      BY <2>3, <2>5 DEF IInv, RestoreOK
    <2>7. connectionState' = "Authenticating" => \E i \in Of(answers', "auth") : answers'[i].restore
      <3>1. ASSUME NEW i \in Of(requests, "auth"), requests[i].restore PROVE i = 1
        <4>1. i \in Nat /\ (i = 1 \/ i - 1 \in Of(requests', "auth"))
          BY <2>1
        <4>2. i # 1 => requests'[i - 1] = requests[i]
          BY <2>1, <4>1
        <4> QED BY <2>2, <3>1, <4>1, <4>2
      <3> QED BY <1>2, <2>3, <2>4, <3>1 DEF IInv, RestoreOK
    <2>8. connectionState' = "Connected" => \A i \in Of(answers', "auth") : ~answers'[i].restore
      BY <1>2, <1>3, <2>3, <2>4 DEF IInv, RestoreOK
    <2>9. \A i, j \in Of(requests', "auth") : i < j => ~requests'[j].restore
      BY <2>2
    <2> QED BY <2>2, <2>6, <2>7, <2>8, <2>9 DEF RestoreOK
  <1> QED BY <1>7, <1>8, <1>9, <1>11, <1>12, <1>13 DEF IInv

\* The first request is about a listen, or ends the account of the connection.
LEMMA ServerListenStep ==
    ASSUME IInv, ServerForgets \/ ServerListens \/ ServerUnlistens PROVE IInv'
  <1> USE DEF link, tokens, puts, subs, auth, server
  <1>1. PICK type \in {"unauth", "listen", "unlisten"} :
           /\ Taken(type)
           /\ IF type = "listen"
                THEN \E ok \in BOOLEAN :
                        Answer([type |-> "listen", listen |-> Head(requests).listen, ok |-> ok])
                ELSE answers' = answers
           /\ serverCred' = IF type = "unauth" THEN NoToken ELSE serverCred
           /\ UNCHANGED <<taken, runs>>
    BY DEF ServerForgets, ServerListens, ServerUnlistens
  <1>2. UNCHANGED <<link, tokens, puts, subs, auth, unackedListensCount>>
    BY <1>1 DEF Taken
  <1>3. /\ requests \in Seq(RequestSet) /\ Rest(requests, requests') /\ requests' \in Seq(RequestSet)
        /\ answers \in Seq(AnswerSet) /\ Head(requests) \in RequestSet /\ connected
        /\ Listening(requests') \in Nat
        /\ Listening(requests) = IF type = "listen" THEN Listening(requests') + 1
                                                    ELSE Listening(requests')
    BY <1>1, TakenFirst
  <1>4. Head(requests).type = type /\ (type = "listen" => Head(requests).listen \in Listens)
    BY <1>1, <1>3, RequestKinds DEF Taken
  <1>5. /\ answers' \in Seq(AnswerSet) /\ Kept(answers, answers', "put") /\ Kept(answers, answers', "auth")
        /\ Listening(answers) \in Nat
        /\ Listening(answers') = IF type = "listen" THEN Listening(answers) + 1 ELSE Listening(answers)
    <2>1. Listening(answers) \in Nat
      BY <1>3, Positions DEF Listening
    <2>2. CASE type = "listen"
      <3>1. PICK a \in AnswerSet : a.type = "listen" /\ Longer(answers, a, answers')
        <4>1. PICK ok \in BOOLEAN :
                 Answer([type |-> "listen", listen |-> Head(requests).listen, ok |-> ok])
          BY <1>1, <2>2
        <4> DEFINE a == [type |-> "listen", listen |-> Head(requests).listen, ok |-> ok]
        <4>2. a \in AnswerSet /\ a.type = "listen"
          BY <1>4, <2>2 DEF AnswerSet
        <4>3. Longer(answers, a, answers')
          BY <4>1 DEF Answer, Longer
        <4> QED BY <4>2, <4>3
      <3>2. Kept(answers, answers', "put") /\ Kept(answers, answers', "auth")
        BY <1>3, <3>1, KeptLonger
      <3>3. answers' \in Seq(AnswerSet)
        BY <1>3, <3>1, Appends
      <3>4. Listening(answers') = Listening(answers) + 1
        BY <1>3, <3>1, ListeningAppend
      <3> QED BY <2>1, <2>2, <3>2, <3>3, <3>4
    <2>3. CASE type # "listen"
      <3>1. answers' = answers
        BY <1>1, <2>3
      <3> QED BY <1>3, <2>1, <2>3, <3>1, KeptAll
    <2> QED BY <2>2, <2>3
  <1>6. serverCred' \in Tokens /\ serverCred' \in {serverCred, NoToken}
    BY <1>1 DEF IInv, TypeOK, Tokens
  <1>7. TypeOK'
    BY <1>1, <1>2, <1>3, <1>5, <1>6 DEF IInv, TypeOK
  <1>8. LinkOK'
    BY <1>2 DEF IInv, LinkOK, Latest
  <1>9. CountOK'
    BY <1>2, <1>3, <1>5 DEF IInv, CountOK
  <1>10. Kept(requests, requests', "put") /\ Kept(requests, requests', "auth")
    BY <1>1, <1>3, <1>4, KeptRest
  <1>11. QuietOK' /\ FlightOK' /\ SentOK' /\ TakenOK' /\ HashedOK'
    BY <1>1, <1>2, <1>3, <1>5, <1>10, PutsKept
  <1>12. RestoreOK'
    BY <1>2, <1>5, <1>10, AuthKept
  <1>13. ToldOK'
    <2>1. IF Mark(Head(requests)) THEN serverCred' \in {Cred(Head(requests)), NoToken}
                                  ELSE serverCred' \in {serverCred, NoToken}
      BY <1>1, <1>4 DEF Mark, Cred
    <2> QED BY <1>2, <1>3, <2>1, TakeTold
  <1>14. StatusOK'
    BY <1>1, <1>2 DEF IInv, StatusOK
  <1> QED BY <1>7, <1>8, <1>9, <1>11, <1>12, <1>13, <1>14 DEF IInv

\* The server withdraws what it granted.
LEMMA RevokeStep ==
    ASSUME IInv, ServerRevokes \/ \E l \in Listens : ServerCancelsListen(l) PROVE IInv'
  <1> USE DEF link, tokens, puts, subs, auth, server
  <1>1. /\ UNCHANGED <<link, tokens, puts, subs, auth, requests, unackedListensCount, taken, runs>>
        /\ serverCred' \in {serverCred, NoToken} /\ connected
    BY DEF ServerRevokes, ServerCancelsListen, IInv, QuietOK
  <1>2. requests \in Seq(RequestSet) /\ answers \in Seq(AnswerSet)
    BY DEF IInv, TypeOK
  <1>3. PICK a \in AnswerSet : a.type \in {"revoked", "listenRevoked"} /\ Longer(answers, a, answers')
    <2>1. CASE ServerRevokes
      <3> DEFINE a == [type |-> "revoked"]
      <3>1. a \in AnswerSet /\ a.type = "revoked" /\ Longer(answers, a, answers')
        BY <2>1 DEF ServerRevokes, Answer, Longer, AnswerSet
      <3> QED BY <3>1
    <2>2. ASSUME NEW l \in Listens, ServerCancelsListen(l)
          PROVE  \E a \in AnswerSet : a.type = "listenRevoked" /\ Longer(answers, a, answers')
      <3> DEFINE a == [type |-> "listenRevoked", listen |-> l]
      <3>1. a \in AnswerSet /\ a.type = "listenRevoked" /\ Longer(answers, a, answers')
        BY <2>2 DEF ServerCancelsListen, Answer, Longer, AnswerSet
      <3> QED BY <3>1
    <2> QED BY <2>1, <2>2
  <1>4. /\ answers' \in Seq(AnswerSet) /\ Listening(answers') = Listening(answers)
    BY <1>2, <1>3, Appends, ListeningAppend
  <1>5. /\ Kept(answers, answers', "put") /\ Kept(answers, answers', "auth")
        /\ Kept(requests, requests', "put") /\ Kept(requests, requests', "auth")
    BY <1>1, <1>2, <1>3, KeptLonger, KeptAll
  <1>6. TypeOK'
    BY <1>1, <1>4 DEF IInv, TypeOK, Tokens
  <1>7. LinkOK' /\ CountOK' /\ StatusOK'
    BY <1>1, <1>4 DEF IInv, LinkOK, Latest, CountOK, StatusOK
  <1>8. QuietOK' /\ FlightOK' /\ SentOK' /\ TakenOK' /\ HashedOK'
    BY <1>1, <1>5, PutsKept
  <1>9. RestoreOK' /\ ToldOK'
    BY <1>1, <1>5, AuthKept, ForgetTold
  <1> QED BY <1>6, <1>7, <1>8, <1>9 DEF IInv

-----------------------------------------------------------------------------
\* The first request is a write: it is the earliest one in flight, and every write that
\* has no answer and was not judged comes after it.
LEMMA ServerPutStep == ASSUME IInv, ServerStores \/ ServerRefuses PROVE IInv'
  <1> USE DEF link, tokens, puts, subs, auth
  <1>1. PICK p, result :
           /\ p = Head(requests).put /\ Taken("put") /\ taken' = taken \cup {p}
           /\ result \in {"ok", "refused"}
           /\ runs' = IF result = "ok" THEN [runs EXCEPT ![p] = @ + 1] ELSE runs
           /\ Answer([type |-> "put", put |-> p, result |-> result])
           /\ serverCred' = serverCred
    <2>1. PICK p : p = Head(requests).put
      OBVIOUS
    <2>2. CASE ServerStores
      BY <2>1, <2>2 DEF ServerStores
    <2>3. CASE ServerRefuses
      BY <2>1, <2>3 DEF ServerRefuses
    <2> QED BY <2>2, <2>3
  <1>2. UNCHANGED <<link, tokens, puts, subs, auth, unackedListensCount>>
    BY <1>1 DEF Taken
  <1>3. /\ requests \in Seq(RequestSet) /\ Rest(requests, requests') /\ requests' \in Seq(RequestSet)
        /\ answers \in Seq(AnswerSet) /\ Head(requests) \in RequestSet
        /\ Head(requests) = requests[1] /\ 1 \in Of(requests, "put") /\ connected
        /\ Listening(requests) = Listening(requests')
    BY <1>1, TakenFirst
  <1>4. /\ Head(requests).type = "put" /\ p \in Puts /\ p \in Nat /\ requests[1].put = p
        /\ p < putCounter /\ putCounter \in Nat
    <2>1. Head(requests).type = "put" /\ p \in Puts
      BY <1>1, <1>3, RequestKinds DEF Taken
    <2> QED BY <1>1, <1>3, <2>1, ConnectionAssumption DEF Puts, IInv, FlightOK, TypeOK
  <1>5. PICK a \in AnswerSet : /\ a.type = "put" /\ a.put = p /\ a.result = result
                               /\ Longer(answers, a, answers')
    <2> DEFINE a == [type |-> "put", put |-> p, result |-> result]
    <2>1. a \in AnswerSet /\ a.type = "put" /\ a.put = p /\ a.result = result
      BY <1>1, <1>4 DEF AnswerSet
    <2>2. Longer(answers, a, answers')
      BY <1>1 DEF Answer, Longer
    <2> QED BY <2>1, <2>2
  <1>6. /\ answers' \in Seq(AnswerSet) /\ Listening(answers') = Listening(answers)
    BY <1>3, <1>5, Appends, ListeningAppend
  <1>7. /\ runs' \in [Puts -> Nat] /\ \A q \in Puts : q # p => runs'[q] = runs[q]
        /\ runs'[p] = IF result = "ok" THEN runs[p] + 1 ELSE runs[p]
        /\ \A q \in Puts : runs[q] \in Nat /\ (runs[q] > 0 => runs'[q] > 0)
    <2>1. runs \in [Puts -> Nat] /\ runs[p] \in Nat /\ runs[p] + 1 \in Nat
      BY <1>4 DEF IInv, TypeOK
    <2>2. CASE result = "ok"
      <3>1. runs' = [runs EXCEPT ![p] = runs[p] + 1]
        BY <1>1, <2>2
      <3> QED BY <1>4, <2>1, <2>2, <3>1
    <2>3. CASE result # "ok"
      <3>1. runs' = runs
        BY <1>1, <2>3
      <3> QED BY <1>4, <2>1, <2>3, <3>1
    <2> QED BY <2>2, <2>3
  <1>8. connectionState = "Connected"
    BY <1>3 DEF IInv, QuietOK, connected
  <1>9. TypeOK'
    BY <1>1, <1>2, <1>3, <1>4, <1>6, <1>7 DEF IInv, TypeOK
  <1>10. LinkOK' /\ QuietOK'
    BY <1>2, <1>8 DEF IInv, LinkOK, Latest, QuietOK, connected
  <1>11. CountOK'
    BY <1>2, <1>3, <1>6 DEF IInv, CountOK
  <1>12. RestoreOK'
    <2>1. Kept(requests, requests', "auth") /\ Kept(answers, answers', "auth")
      BY <1>3, <1>4, <1>5, KeptRest, KeptLonger
    <2> QED BY <1>2, <2>1, AuthKept
  <1>13. ToldOK'
    BY <1>1, <1>2, <1>3, <1>4, TakeTold DEF Mark
  <1>14. /\ \A i \in Of(requests', "put") :
               i \in Nat /\ i + 1 \in Of(requests, "put") /\ 1 < i + 1 /\ requests'[i] = requests[i + 1]
         /\ \A i \in Of(requests, "put") :
               i \in Nat /\ (i = 1 \/ (i - 1 \in Of(requests', "put") /\ requests'[i - 1] = requests[i]))
    <2>1. /\ \A i \in DOMAIN requests' : i \in Nat /\ i + 1 \in DOMAIN requests /\ requests'[i] = requests[i + 1]
          /\ \A i \in DOMAIN requests :
                i \in Nat /\ (i = 1 \/ (i - 1 \in DOMAIN requests' /\ requests'[i - 1] = requests[i]))
          /\ DOMAIN requests' = 1 .. Len(requests') /\ Len(requests') \in Nat
      BY <1>3, Tails
    <2>2. \A i \in DOMAIN requests' : 1 < i + 1
      BY <2>1
    <2> QED BY <2>1, <2>2 DEF Of
  <1> DEFINE n == Len(answers) + 1
  <1>15. /\ Of(answers', "put") = Of(answers, "put") \cup {n} /\ answers'[n] = a
         /\ \A i \in Of(answers, "put") : i < n /\ ~(n < i) /\ answers'[i] = answers[i]
         /\ ~(n < n)
    <2>1. /\ Len(answers) \in Nat /\ DOMAIN answers' = 1 .. Len(answers) + 1 /\ answers'[n] = a
          /\ DOMAIN answers = 1 .. Len(answers)
          /\ \A i \in DOMAIN answers : i \in Nat /\ i \in DOMAIN answers' /\ i < n /\ answers'[i] = answers[i]
          /\ \A i \in DOMAIN answers' : i \in DOMAIN answers \/ i = n
      BY <1>3, <1>5, Appends
    <2>2. n \in DOMAIN answers' /\ ~(n < n) /\ \A i \in DOMAIN answers : ~(n < i)
      BY <2>1
    <2> HIDE DEF n
    <2> QED BY <1>5, <2>1, <2>2 DEF Of
  <1> HIDE DEF n
  <1>16. \A i \in Of(requests, "put") :
            /\ requests[i].put \in Nat /\ requests[i].put \in Puts
            /\ i = 1 \/ p < requests[i].put
    <2>1. \A i \in Of(requests, "put") : requests[i].put \in Puts
      BY <1>3, RequestKinds DEF Of
    <2>2. ASSUME NEW i \in Of(requests, "put"), i # 1 PROVE p < requests[i].put
      <3>1. 1 < i
        <4>1. i \in Nat /\ i - 1 \in Of(requests', "put")
          BY <1>14, <2>2
        <4>2. 1 < (i - 1) + 1
          BY <1>14, <4>1
        <4> QED BY <4>1, <4>2
      <3> QED BY <1>3, <1>4, <3>1 DEF IInv, FlightOK
    <2> QED BY <2>1, <2>2 DEF Puts
  <1>17. \A i \in Of(requests', "put") :
            /\ requests'[i].put \in Nat /\ requests'[i].put \in Puts /\ p < requests'[i].put
            /\ requests'[i].put # p
            /\ \E k \in Of(requests, "put") : requests'[i] = requests[k]
    <2>1. ASSUME NEW i \in Of(requests', "put")
          PROVE  /\ i + 1 \in Of(requests, "put") /\ i + 1 # 1 /\ requests'[i] = requests[i + 1]
      BY <1>14
    <2> QED BY <1>4, <1>16, <2>1
  <1>18. FlightOK'
    <2>1. ASSUME NEW i \in Of(requests', "put"), NEW j \in Of(requests', "put"), i < j
          PROVE  requests'[i].put < requests'[j].put
      <3>1. i + 1 < j + 1 /\ i + 1 \in Of(requests, "put") /\ j + 1 \in Of(requests, "put")
            /\ requests'[i] = requests[i + 1] /\ requests'[j] = requests[j + 1]
        BY <1>14, <2>1
      <3> QED BY <3>1 DEF IInv, FlightOK
    <2>2. \A i \in Of(answers, "put") : answers[i].put < p
      BY <1>3, <1>4 DEF IInv, FlightOK
    <2>3. \A i, j \in Of(answers', "put") : i < j => answers'[i].put < answers'[j].put
      BY <1>5, <1>15, <2>2 DEF IInv, FlightOK
    <2>4. \A i \in Of(answers', "put"), j \in Of(requests', "put") :
             answers'[i].put < requests'[j].put
      BY <1>5, <1>15, <1>17 DEF IInv, FlightOK
    <2>5. \A i \in Of(requests', "put") : requests'[i].put < putCounter'
      BY <1>2, <1>17 DEF IInv, FlightOK
    <2>6. \A i \in Of(answers', "put") : answers'[i].put < putCounter'
      BY <1>2, <1>4, <1>5, <1>15 DEF IInv, FlightOK
    <2> QED BY <2>1, <2>3, <2>4, <2>5, <2>6 DEF FlightOK
  <1>19. \A q : InFlight(q)' <=> InFlight(q)
    <2>1. ASSUME NEW q, InFlight(q) PROVE InFlight(q)'
      <3>1. ASSUME NEW i \in Of(requests, "put"), requests[i].put = q PROVE InFlight(q)'
        <4>1. CASE i = 1
          BY <1>4, <1>5, <1>15, <3>1, <4>1 DEF InFlight
        <4>2. CASE i # 1
          BY <1>14, <3>1, <4>2 DEF InFlight
        <4> QED BY <4>1, <4>2
      <3>2. ASSUME NEW i \in Of(answers, "put"), answers[i].put = q PROVE InFlight(q)'
        BY <1>15, <3>2 DEF InFlight
      <3> QED BY <2>1, <3>1, <3>2 DEF InFlight
    <2>2. ASSUME NEW q, InFlight(q)' PROVE InFlight(q)
      <3>1. ASSUME NEW i \in Of(requests', "put"), requests'[i].put = q PROVE InFlight(q)
        BY <1>17, <3>1 DEF InFlight
      <3>2. ASSUME NEW i \in Of(answers', "put"), answers'[i].put = q PROVE InFlight(q)
        BY <1>3, <1>4, <1>5, <1>15, <3>2 DEF InFlight
      <3> QED BY <2>2, <3>1, <3>2 DEF InFlight
    <2> QED BY <2>1, <2>2
  <1>20. SentOK'
    BY <1>2, <1>19 DEF IInv, SentOK
  <1>21. TakenOK'
    <2>1. taken' \subseteq 0 .. putCounter' - 1
      <3>1. p \in 0 .. putCounter - 1
        BY <1>4
      <3> QED BY <1>1, <1>2, <3>1 DEF IInv, TakenOK
    <2>2. \A q \in Puts : runs'[q] > 0 => q \in taken'
      BY <1>1, <1>7 DEF IInv, TakenOK
    <2>3. ASSUME NEW q \in outstandingPuts PROVE q \in taken' \/ \A o \in taken' : o < q
      <3>1. CASE q \in taken \/ q = p
        BY <1>1, <3>1
      <3>2. CASE q \notin taken /\ q # p
        <4>1. \A o \in taken : o < q
          BY <3>2 DEF IInv, TakenOK
        <4>2. InFlight(q) /\ \A i \in Of(answers, "put") : answers[i].put # q
          BY <1>8, <3>2 DEF IInv, SentOK, TakenOK
        <4>3. PICK i \in Of(requests, "put") : requests[i].put = q
          BY <4>2 DEF InFlight
        <4>4. p < q
          BY <1>4, <1>16, <3>2, <4>3
        <4> QED BY <1>1, <4>1, <4>4
      <3> QED BY <3>1, <3>2
    <2>4. ASSUME NEW i \in Of(requests', "put")
          PROVE  requests'[i].put \in taken' \/ \A q \in taken' : q < requests'[i].put
      BY <1>1, <1>17 DEF IInv, TakenOK
    <2>5. ASSUME NEW i \in Of(answers', "put")
          PROVE  /\ answers'[i].put \in taken'
                 /\ answers'[i].result = "ok" => runs'[answers'[i].put] > 0
      <3>1. CASE i \in Of(answers, "put")
        <4>1. answers[i].put \in Puts
          BY <1>3, <3>1, AnswerKinds DEF Of
        <4> QED BY <1>1, <1>7, <1>15, <3>1, <4>1 DEF IInv, TakenOK
      <3>2. CASE i = n
        <4>1. runs[p] \in Nat
          BY <1>4, <1>7
        <4> QED BY <1>1, <1>5, <1>7, <1>15, <3>2, <4>1
      <3> QED BY <1>15, <3>1, <3>2
    <2> QED BY <1>2, <2>1, <2>2, <2>3, <2>4, <2>5 DEF TakenOK
  <1>22. HashedOK'
    <2>1. ASSUME NEW q \in Hashed
          PROVE  /\ runs'[q] <= 1
                 /\ q \in outstandingPuts \ sent => runs'[q] = 0
                 /\ \A i \in Of(requests', "put") : requests'[i].put = q => runs'[q] = 0
      <3>1. q \in Puts
        BY ConnectionAssumption
      <3>2. CASE q # p
        BY <1>7, <1>17, <2>1, <3>1, <3>2 DEF IInv, HashedOK
      <3>3. CASE q = p
        <4>1. runs[p] = 0
          BY <1>3, <1>4, <2>1, <3>3 DEF IInv, HashedOK
        <4>2. InFlight(p) 
          BY <1>3, <1>4 DEF InFlight
        <4>3. p \notin outstandingPuts \ sent
          BY <4>2 DEF IInv, SentOK
        <4> QED BY <1>7, <1>17, <3>3, <4>1, <4>3
      <3> QED BY <3>2, <3>3
    <2> QED BY <1>2, <2>1 DEF HashedOK
  <1>23. StatusOK'
    <2>1. \A i \in DOMAIN putsToAck : putsToAck[i].put \in Puts
      BY Waits DEF IInv
    <2> QED BY <1>2, <1>7, <2>1 DEF IInv, StatusOK
  <1> QED BY <1>9, <1>10, <1>11, <1>12, <1>13, <1>18, <1>20, <1>21, <1>22, <1>23 DEF IInv

-----------------------------------------------------------------------------
\* The client takes the first answer.
LEMMA ReceivedFirst ==
    ASSUME IInv, NEW type, Received(type), answers' = Tail(answers)
    PROVE  /\ requests \in Seq(RequestSet) /\ answers \in Seq(AnswerSet)
           /\ Rest(answers, answers') /\ answers' \in Seq(AnswerSet)
           /\ Head(answers) \in AnswerSet /\ Head(answers) = answers[1]
           /\ Head(answers).type = type /\ 1 \in Of(answers, type) /\ connected
           /\ Listening(answers) \in Nat /\ Listening(answers') \in Nat /\ Listening(requests) \in Nat
           /\ Listening(answers) = IF type = "listen" THEN Listening(answers') + 1
                                                      ELSE Listening(answers')
           /\ \A i \in Of(answers', type) :
                 i \in Nat /\ i + 1 \in Of(answers, type) /\ 1 < i + 1 /\ answers'[i] = answers[i + 1]
           /\ \A i \in Of(answers, type) :
                 i \in Nat /\ (i = 1 \/ (1 < i /\ i - 1 \in Of(answers', type) /\ answers'[i - 1] = answers[i]))
  <1>1. requests \in Seq(RequestSet) /\ answers \in Seq(AnswerSet)
    BY DEF IInv, TypeOK
  <1>2. Rest(answers, answers') /\ Head(answers).type = type
    BY DEF Received, Rest
  <1>3. /\ 1 \in DOMAIN answers /\ Head(answers) = answers[1] /\ answers[1] \in AnswerSet
        /\ answers' \in Seq(AnswerSet) /\ DOMAIN answers' = 1 .. Len(answers') /\ Len(answers') \in Nat
        /\ \A i \in DOMAIN answers' : i \in Nat /\ i + 1 \in DOMAIN answers /\ answers'[i] = answers[i + 1]
        /\ \A i \in DOMAIN answers :
              i \in Nat /\ (i = 1 \/ (i - 1 \in DOMAIN answers' /\ answers'[i - 1] = answers[i]))
    <2> HIDE DEF Rest
    <2>1. answers \in Seq(AnswerSet) /\ Rest(answers, answers')
      BY <1>1, <1>2
    <2>2. /\ 1 \in DOMAIN answers /\ Head(answers) = answers[1] /\ answers[1] \in AnswerSet
          /\ answers' \in Seq(AnswerSet) /\ DOMAIN answers' = 1 .. Len(answers') /\ Len(answers') \in Nat
      BY <2>1, Tails
    <2>3. \A i \in DOMAIN answers' : i \in Nat /\ i + 1 \in DOMAIN answers /\ answers'[i] = answers[i + 1]
      BY <2>1, Tails
    <2>4. \A i \in DOMAIN answers :
             i \in Nat /\ (i = 1 \/ (i - 1 \in DOMAIN answers' /\ answers'[i - 1] = answers[i]))
      <3>1. PICK q, r : q = answers /\ r = answers'
        OBVIOUS
      <3>2. q \in Seq(AnswerSet) /\ Rest(q, r)
        BY <2>1, <3>1
      <3>3. \A i \in DOMAIN q : i \in Nat /\ (i = 1 \/ (i - 1 \in DOMAIN r /\ r[i - 1] = q[i]))
        BY <3>2, Tails
      <3> QED BY <3>1, <3>3
    <2> QED BY <2>2, <2>3, <2>4
  <1>4. 1 \in Of(answers, type)
    BY <1>2, <1>3 DEF Of
  <1>5. connected
    BY <1>2 DEF IInv, QuietOK, Rest
  <1>6. /\ Listening(answers) \in Nat /\ Listening(answers') \in Nat
        /\ Listening(answers) = IF Head(answers).type = "listen" THEN Listening(answers') + 1
                                                                 ELSE Listening(answers')
    BY <1>1, <1>2, ListeningTail
  <1>7. Listening(requests) \in Nat
    BY <1>1, Positions DEF Listening
  <1>8. /\ \A i \in DOMAIN answers' : 1 < i + 1
        /\ \A i \in DOMAIN answers : i - 1 \in DOMAIN answers' => 1 < i
    BY <1>3
  <1>9. /\ \A i \in Of(answers', type) :
              i \in Nat /\ i + 1 \in Of(answers, type) /\ 1 < i + 1 /\ answers'[i] = answers[i + 1]
        /\ \A i \in Of(answers, type) :
              i \in Nat /\ (i = 1 \/ (1 < i /\ i - 1 \in Of(answers', type) /\ answers'[i - 1] = answers[i]))
    BY <1>3, <1>8 DEF Of
  <1> QED BY <1>1, <1>2, <1>3, <1>4, <1>5, <1>6, <1>7, <1>9

\* The first authentication restores the connection, and only that one.
LEMMA AuthAnsweredStep == ASSUME IInv, AuthAnswered PROVE IInv'
  <1> USE DEF auth, server
  <1>1. /\ Received("auth") /\ answers' = Tail(answers) /\ connectionState' = "Connected"
        /\ UNCHANGED <<scheduledRetry, authToken, outstandingPuts, putCounter, putsToAck, status, listens,
                       server, interruptReasons, currentFetchTokenAttempt, fetches, auth, listened,
                       disturbances>>
    BY DEF AuthAnswered, Received
  <1>2. /\ requests \in Seq(RequestSet) /\ answers \in Seq(AnswerSet)
        /\ Rest(answers, answers') /\ answers' \in Seq(AnswerSet)
        /\ Head(answers) = answers[1] /\ Head(answers).type = "auth"
        /\ 1 \in Of(answers, "auth") /\ connected
        /\ Listening(answers) = Listening(answers') /\ Listening(answers) \in Nat
    BY <1>1, ReceivedFirst
  <1>3. /\ \A i \in Of(requests, "auth") : ~requests[i].restore
        /\ \A i \in Of(answers, "auth") : i = 1 \/ ~answers[i].restore
        /\ \A i \in Of(answers', "auth") : ~answers'[i].restore
    <2>1. /\ \A i \in Of(answers', "auth") :
                i \in Nat /\ i + 1 \in Of(answers, "auth") /\ 1 < i + 1 /\ answers'[i] = answers[i + 1]
          /\ \A i \in Of(answers, "auth") : i = 1 \/ 1 < i
      BY <1>1, ReceivedFirst
    <2>2. \A i \in Of(requests, "auth") : ~requests[i].restore
      BY <1>2 DEF IInv, RestoreOK
    <2>3. \A i \in Of(answers, "auth") : i = 1 \/ ~answers[i].restore
      BY <1>2, <2>1 DEF IInv, RestoreOK
    <2>4. \A i \in Of(answers', "auth") : ~answers'[i].restore
      BY <1>2, <2>1 DEF IInv, RestoreOK
    <2> QED BY <2>2, <2>3, <2>4
  <1>4. LinkOK'
    BY <1>1, <1>2 DEF IInv, LinkOK, Latest, connected
  <1>5. Kept(answers, answers', "put")
    BY <1>2, KeptRest
  <1>6. CASE Head(answers).restore
    <2>1. RestoreState
      BY <1>6 DEF AuthAnswered
    <2>2. connectionState = "Authenticating"
      BY <1>2, <1>6 DEF IInv, RestoreOK, connected
    <2>3. Of(requests, "put") = {} /\ Of(answers, "put") = {}
      BY <2>2 DEF IInv, QuietOK
    <2>4. Of(answers', "put") = {}
      BY <1>5, <2>3, KeptFacts
    <2>5. Told(requests, serverCred, Len(requests) + 1, authToken)
      BY <1>2 DEF IInv, ToldOK
    <2>6. /\ Traffic' /\ sent' = outstandingPuts
          /\ requests' \in Seq(RequestSet) /\ unackedListensCount' \in Nat
      BY <1>1, <1>2, <1>3, <2>1, <2>2, <2>3, <2>4, <2>5, RestoreTraffic
    <2>7. TypeOK'
      BY <1>1, <1>2, <2>6 DEF IInv, TypeOK, States
    <2> QED BY <1>4, <2>6, <2>7 DEF IInv, Traffic
  <1>7. CASE ~Head(answers).restore
    <2>1. UNCHANGED <<requests, unackedListensCount, sent>>
      BY <1>7 DEF AuthAnswered
    <2>2. connectionState = "Connected"
      BY <1>2, <1>3, <1>7 DEF IInv, RestoreOK, connected
    <2>3. TypeOK'
      BY <1>1, <1>2, <2>1 DEF IInv, TypeOK, States
    <2>4. CountOK' /\ StatusOK'
      BY <1>1, <1>2, <2>1 DEF IInv, CountOK, StatusOK
    <2>5. Kept(requests, requests', "put")
      BY <1>2, <2>1, KeptAll
    <2>6. QuietOK' /\ FlightOK' /\ SentOK' /\ TakenOK' /\ HashedOK'
      BY <1>1, <1>2, <1>5, <2>1, <2>2, <2>5, PutsKept
    <2>7. ToldOK'
      BY <1>1, <2>1, <2>2, ForgetTold
    <2>8. RestoreOK'
      BY <1>1, <1>3, <2>1 DEF RestoreOK
    <2> QED BY <1>4, <2>3, <2>4, <2>6, <2>7, <2>8 DEF IInv
  <1> QED BY <1>6, <1>7

\* A listen is answered or withdrawn: this releases the writes that waited, or nothing.
LEMMA ListenAnsweredStep == ASSUME IInv, ListenAnswered \/ ListenRevoked PROVE IInv'
  <1> USE DEF auth, server, puts
  <1>1. PICK type \in {"listen", "listenRevoked"} :
        /\ Received(type) /\ answers' = Tail(answers)
        /\ unackedListensCount' = IF type = "listen" THEN unackedListensCount - 1 ELSE unackedListensCount
        /\ listens' \subseteq listens
        /\ (status' = Acked /\ putsToAck' = <<>>) \/ UNCHANGED <<status, putsToAck>>
        /\ UNCHANGED <<connectionState, scheduledRetry, authToken, outstandingPuts, sent, putCounter,
                       requests, server, interruptReasons, currentFetchTokenAttempt, fetches, auth,
                       listened, disturbances>>
    <2>1. CASE ListenAnswered
      BY <2>1 DEF ListenAnswered, Received
    <2>2. CASE ListenRevoked
      BY <2>2 DEF ListenRevoked, Received
    <2> QED BY <2>1, <2>2
  <1>2. /\ requests \in Seq(RequestSet) /\ answers \in Seq(AnswerSet)
        /\ Rest(answers, answers') /\ answers' \in Seq(AnswerSet) /\ Head(answers).type = type
        /\ connected /\ Listening(answers) \in Nat /\ Listening(answers') \in Nat /\ Listening(requests) \in Nat
        /\ Listening(answers) = IF type = "listen" THEN Listening(answers') + 1 ELSE Listening(answers')
    BY <1>1, ReceivedFirst
  <1>3. CountOK' /\ unackedListensCount' \in Nat
    <2>1. PICK a, b, c : a = Listening(requests) /\ b = Listening(answers) /\ c = Listening(answers')
      OBVIOUS
    <2>2. a \in Nat /\ b \in Nat /\ c \in Nat /\ b = IF type = "listen" THEN c + 1 ELSE c
      BY <1>2, <2>1
    <2>3. unackedListensCount = a + b
      BY <2>1 DEF IInv, CountOK
    <2>4. unackedListensCount' = IF type = "listen" THEN unackedListensCount - 1
                                                    ELSE unackedListensCount
      BY <1>1
    <2>5. unackedListensCount' = a + c
      BY <2>2, <2>3, <2>4
    <2>6. Listening(requests)' = a
      BY <1>1, <2>1
    <2> QED BY <2>1, <2>2, <2>5, <2>6 DEF CountOK
  <1>4. /\ status' \in [Puts -> Statuses \cup {NoStatus}]
        /\ putsToAck' \in Seq([put : 0 .. putCounter - 1, result : {"ok", "refused"}])
    <2> DEFINE T == [put : 0 .. putCounter - 1, result : {"ok", "refused"}]
    <2>1. status \in [Puts -> Statuses \cup {NoStatus}] /\ putsToAck \in Seq(T)
      BY DEF IInv, TypeOK
    <2>2. Acked \in [Puts -> Statuses \cup {NoStatus}] /\ <<>> \in Seq(T)
      BY Reports
    <2> HIDE DEF T
    <2>3. putsToAck' \in Seq(T)
      BY <1>1, <2>1, <2>2
    <2>4. status' \in [Puts -> Statuses \cup {NoStatus}]
      BY <1>1, <2>1, <2>2
    <2> QED BY <2>3, <2>4 DEF T
  <1>5. TypeOK'
    BY <1>1, <1>2, <1>3, <1>4 DEF IInv, TypeOK
  <1>6. LinkOK'
    BY <1>1 DEF IInv, LinkOK, Latest
  <1>7. /\ Kept(answers, answers', "put") /\ Kept(answers, answers', "auth")
        /\ Kept(requests, requests', "put") /\ Kept(requests, requests', "auth")
    BY <1>1, <1>2, KeptRest, KeptAll
  <1>8. QuietOK' /\ FlightOK' /\ SentOK' /\ TakenOK' /\ HashedOK'
    BY <1>1, <1>2, <1>7, PutsKept
  <1>9. RestoreOK' /\ ToldOK'
    BY <1>1, <1>7, AuthKept, ForgetTold
  <1>10. StatusOK'
    <2>1. CASE UNCHANGED <<status, putsToAck>>
      BY <1>1, <2>1 DEF IInv, StatusOK
    <2>2. CASE status' = Acked /\ putsToAck' = <<>>
      <3>1. ASSUME NEW q \in Puts, q >= putCounter \/ q \in outstandingPuts PROVE Acked[q] = NoStatus
        <4>1. q \in Nat /\ putCounter \in Nat /\ status[q] = NoStatus
          BY <3>1, ConnectionAssumption DEF IInv, TypeOK, StatusOK, Puts
        <4>2. ~(q \notin outstandingPuts /\ q < putCounter)
          BY <3>1, <4>1
        <4> QED BY <4>1, <4>2, Reports
      <3> QED BY <1>1, <2>2, <3>1 DEF StatusOK
    <2> QED BY <1>1, <2>1, <2>2
  <1> QED BY <1>3, <1>5, <1>6, <1>8, <1>9, <1>10 DEF IInv

\* A write is answered: it is reported, or waits for the answers to the listens.
LEMMA PutAnsweredStep == ASSUME IInv, PutAnswered PROVE IInv'
  <1> USE DEF auth, server
  <1>1. PICK p, result :
        /\ Received("put") /\ answers' = Tail(answers)
        /\ p = Head(answers).put /\ result = Head(answers).result
        /\ outstandingPuts' = outstandingPuts \ {p} /\ sent' = sent \ {p}
        /\ \/ UNCHANGED <<status, putsToAck>>
           \/ p \in outstandingPuts /\ status' = [status EXCEPT ![p] = result] /\ UNCHANGED putsToAck
           \/ /\ p \in outstandingPuts /\ UNCHANGED status
              /\ putsToAck' = Append(putsToAck, [put |-> p, result |-> result])
        /\ UNCHANGED <<connectionState, scheduledRetry, authToken, putCounter, listens, requests,
                       unackedListensCount, server, interruptReasons, currentFetchTokenAttempt, fetches,
                       auth, listened, disturbances>>
    BY DEF PutAnswered, Received
  <1>2. /\ requests \in Seq(RequestSet) /\ answers \in Seq(AnswerSet)
        /\ Rest(answers, answers') /\ answers' \in Seq(AnswerSet)
        /\ Head(answers) \in AnswerSet /\ Head(answers) = answers[1] /\ Head(answers).type = "put"
        /\ 1 \in Of(answers, "put") /\ connected /\ Listening(answers) = Listening(answers')
        /\ \A i \in Of(answers', "put") :
              i \in Nat /\ i + 1 \in Of(answers, "put") /\ 1 < i + 1 /\ answers'[i] = answers[i + 1]
        /\ \A i \in Of(answers, "put") :
              i \in Nat /\ (i = 1 \/ (1 < i /\ i - 1 \in Of(answers', "put") /\ answers'[i - 1] = answers[i]))
    <2>1. Received("put") /\ answers' = Tail(answers)
      BY <1>1
    <2>2. /\ requests \in Seq(RequestSet) /\ answers \in Seq(AnswerSet)
          /\ Rest(answers, answers') /\ answers' \in Seq(AnswerSet)
          /\ Head(answers) \in AnswerSet /\ Head(answers) = answers[1] /\ Head(answers).type = "put"
          /\ 1 \in Of(answers, "put") /\ connected /\ Listening(answers) = Listening(answers')
      BY <2>1, ReceivedFirst
    <2>3. \A i \in Of(answers', "put") :
             i \in Nat /\ i + 1 \in Of(answers, "put") /\ 1 < i + 1 /\ answers'[i] = answers[i + 1]
      BY <2>1, ReceivedFirst
    <2>4. \A i \in Of(answers, "put") :
             i \in Nat /\ (i = 1 \/ (1 < i /\ i - 1 \in Of(answers', "put") /\ answers'[i - 1] = answers[i]))
      BY <2>1, ReceivedFirst
    <2> QED BY <2>2, <2>3, <2>4
  <1>15. /\ \A i \in Of(answers', "put") : \E k \in Of(answers, "put") : answers'[i] = answers[k]
         /\ \A i \in Of(answers, "put") :
               answers[i].put = p \/ \E k \in Of(answers', "put") : answers'[k] = answers[i]
    <2>1. \A i \in Of(answers, "put") : i = 1 => answers[i].put = p
      BY <1>1, <1>2
    <2> QED BY <1>2, <2>1
  <1>16. requests' = requests /\ UNCHANGED <<putCounter, taken, runs, connectionState>>
    BY <1>1
  <1>3. /\ p \in Puts /\ result \in {"ok", "refused"} /\ answers[1].put = p
        /\ p \in Nat /\ p < putCounter /\ putCounter \in Nat /\ p \in 0 .. putCounter - 1
        /\ result = "ok" => runs[p] > 0
    <2>1. p \in Puts /\ result \in {"ok", "refused"} /\ answers[1].put = p
      BY <1>1, <1>2, AnswerKinds
    <2>2. p < putCounter /\ (result = "ok" => runs[p] > 0)
      BY <1>1, <1>2, <2>1 DEF IInv, FlightOK, TakenOK
    <2>3. p \in Nat /\ putCounter \in Nat
      BY <2>1, ConnectionAssumption DEF Puts, IInv, TypeOK
    <2> QED BY <2>1, <2>2, <2>3
  <1>4. \A i \in DOMAIN putsToAck : putsToAck[i].put \notin outstandingPuts
    BY DEF IInv, StatusOK
  <1>5. TypeOK'
    <2> DEFINE T == [put : 0 .. putCounter - 1, result : {"ok", "refused"}]
               x == [put |-> p, result |-> result]
    <2>1. x \in T
      BY <1>3
    <2>2. putsToAck \in Seq(T)
      BY DEF IInv, TypeOK
    <2> HIDE DEF T, x
    <2>3. Append(putsToAck, x) \in Seq(T)
      BY <2>1, <2>2
    <2>4. putsToAck' \in Seq(T)
      BY <1>1, <2>2, <2>3 DEF x
    <2>5. status' \in [Puts -> Statuses \cup {NoStatus}]
      BY <1>1, <1>3 DEF IInv, TypeOK, Statuses
    <2> QED BY <1>1, <1>2, <2>4, <2>5 DEF IInv, TypeOK, T
  <1>6. LinkOK' /\ CountOK'
    BY <1>1, <1>2 DEF IInv, LinkOK, Latest, CountOK
  <1>7. QuietOK'
    BY <1>1, <1>2 DEF IInv, QuietOK, connected
  <1>8. RestoreOK' /\ ToldOK'
    <2>1. Kept(requests, requests', "auth") /\ Kept(answers, answers', "auth")
      BY <1>1, <1>2, KeptRest, KeptAll
    <2> QED BY <1>1, <2>1, AuthKept, ForgetTold
  <1>9. FlightOK'
    <2>1. ASSUME NEW i \in Of(answers', "put"), NEW j \in Of(answers', "put"), i < j
          PROVE  answers'[i].put < answers'[j].put
      <3>1. i + 1 < j + 1 /\ i + 1 \in Of(answers, "put") /\ j + 1 \in Of(answers, "put")
            /\ answers'[i] = answers[i + 1] /\ answers'[j] = answers[j + 1]
        BY <1>2, <2>1
      <3> QED BY <3>1 DEF IInv, FlightOK
    <2>2. \A i, j \in Of(requests, "put") : i < j => requests[i].put < requests[j].put
      BY DEF IInv, FlightOK
    <2>3. \A i \in Of(answers', "put"), j \in Of(requests, "put") : answers'[i].put < requests[j].put
      BY <1>15 DEF IInv, FlightOK
    <2>4. /\ \A i \in Of(requests, "put") : requests[i].put < putCounter
          /\ \A i \in Of(answers', "put") : answers'[i].put < putCounter
      BY <1>15 DEF IInv, FlightOK
    <2> QED BY <1>16, <2>1, <2>2, <2>3, <2>4 DEF FlightOK
  <1>10. /\ \A q : InFlight(q)' => InFlight(q)
         /\ \A q : InFlight(q) => (q = p \/ InFlight(q)')
    BY <1>15, <1>16 DEF InFlight
  <1>11. SentOK'
    BY <1>1, <1>10 DEF IInv, SentOK
  <1>12. TakenOK'
    <2>1. \A q \in outstandingPuts' : q \in outstandingPuts
      BY <1>1
    <2>2. TakenOK
      BY DEF IInv
    <2>3. \A i \in Of(answers', "put") :
            answers'[i].put \in taken /\ (answers'[i].result = "ok" => runs[answers'[i].put] > 0)
      BY <1>15, <2>2 DEF TakenOK
    <2> QED BY <1>16, <2>1, <2>2, <2>3 DEF TakenOK
  <1>13. HashedOK'
    BY <1>1 DEF IInv, HashedOK
  <1>14. StatusOK'
    <2>1. \A q \in Puts : (q >= putCounter \/ q \in outstandingPuts') => q # p
      BY <1>1, <1>3
    <2>2. \A i \in DOMAIN putsToAck : putsToAck[i].put \in Puts
      BY Waits DEF IInv
    <2>3. status \in [Puts -> Statuses \cup {NoStatus}]
      BY DEF IInv, TypeOK
    <2>4. CASE UNCHANGED <<status, putsToAck>>
      BY <1>1, <2>4 DEF IInv, StatusOK
    <2>5. CASE p \in outstandingPuts /\ status' = [status EXCEPT ![p] = result] /\ UNCHANGED putsToAck
      <3>1. \A q \in Puts : q # p => status'[q] = status[q]
        BY <2>3, <2>5
      <3>2. \A i \in DOMAIN putsToAck : putsToAck[i].put # p
        BY <1>4, <2>5
      <3> QED BY <1>1, <2>1, <2>2, <2>5, <3>1, <3>2 DEF IInv, StatusOK
    <2>6. CASE /\ p \in outstandingPuts /\ UNCHANGED status
               /\ putsToAck' = Append(putsToAck, [put |-> p, result |-> result])
      <3> DEFINE x == [put |-> p, result |-> result]
      <3>1. x.put = p /\ x.result = result
        OBVIOUS
      <3>2. putsToAck' = Append(putsToAck, x) /\ putsToAck \in Seq([put : 0 .. putCounter - 1, result : {"ok", "refused"}])
        BY <2>6 DEF IInv, TypeOK
      <3> HIDE DEF x
      <3>3. \A i \in DOMAIN putsToAck' :
               putsToAck'[i] = x \/ (i \in DOMAIN putsToAck /\ putsToAck'[i] = putsToAck[i])
        BY <3>2
      <3>4. status[p] = NoStatus
        BY <1>3, <2>6 DEF IInv, StatusOK
      <3> QED BY <1>1, <1>3, <2>1, <2>6, <3>1, <3>3, <3>4 DEF IInv, StatusOK
    <2> QED BY <1>1, <2>4, <2>5, <2>6
  <1> QED BY <1>5, <1>6, <1>7, <1>8, <1>9, <1>11, <1>12, <1>13, <1>14 DEF IInv

-----------------------------------------------------------------------------
\* Every step keeps the inductive invariant.
LEMMA NextIInv == IInv /\ [Next]_vars => IInv'
  <1> SUFFICES ASSUME IInv, [Next]_vars PROVE IInv'
    OBVIOUS
  <1>1. CASE Open \/ GoOnline
    <2>1. \E r \in Reasons : Resume(r)
      BY <1>1 DEF Open, GoOnline, Reasons
    <2> QED BY <2>1, AttemptStep
  <1>2. CASE GoOffline \/ ServerKill
    <2>1. \E r \in Reasons : Interrupt(r)
      BY <1>2 DEF GoOffline, ServerKill, Reasons
    <2> QED BY <2>1, DisconnectStep
  <1>3. CASE ConnectionLost
    BY <1>3, DisconnectStep
  <1>4. CASE ExecuteRetry \/ \E f \in fetches : TokenFetched(f) \/ TokenFetchFailed(f)
    BY <1>4, AttemptStep
  <1>5. CASE Ready
    BY <1>5, ReadyStep
  <1>6. CASE Put \/ PurgeOutstandingWrites
    BY <1>6, PutStep, PurgeStep
  <1>7. ASSUME NEW l \in Listens, Listen(l) \/ UnlistenTo(l) \/ ServerCancelsListen(l)
        PROVE  IInv'
    BY <1>7, ListenStep, RevokeStep
  <1>8. CASE \E a \in Tokens : AccountChanges(a)
    BY <1>8, AccountStep
  <1>9. CASE RefreshAuthToken
    BY <1>9, RefreshStep
  <1>10. CASE ServerStep
    BY <1>10, ServerAuthStep, ServerListenStep, ServerPutStep DEF ServerStep
  <1>11. CASE ServerRevokes
    BY <1>11, RevokeStep
  <1>12. CASE Receive
    BY <1>12, AuthAnsweredStep, DisconnectStep, PutAnsweredStep, ListenAnsweredStep DEF Receive
  <1>13. CASE UNCHANGED vars
    <2>1. UNCHANGED <<link, tokens, puts, subs, auth, wire, server>>
      BY <1>13 DEF vars
    <2>2. TypeOK'
      BY <2>1 DEF IInv, TypeOK, link, tokens, puts, subs, auth, wire, server
    <2>3. LinkOK'
      BY <2>1 DEF IInv, LinkOK, Latest, link, tokens
    <2>4. Traffic'
      BY <2>1, TrafficStays DEF link, tokens
    <2> QED BY <2>2, <2>3, <2>4 DEF IInv, Traffic
  <1> QED BY <1>1, <1>2, <1>3, <1>4, <1>5, <1>6, <1>7, <1>8, <1>9, <1>10, <1>11, <1>12, <1>13 DEF Next

\* The connection, its tokens, its traffic and its writes are at all times what IInv says
\* of them, for any writes, listens, accounts and disturbances.
THEOREM Invariance == Spec => []IInv
  <1>1. Init => IInv
    BY InitIInv
  <1>2. IInv /\ [Next]_vars => IInv'
    BY NextIInv
  <1> QED BY <1>1, <1>2, PTL DEF Spec

\* What the handlers assert holds: a scheduled attempt finds the client disconnected, the
\* count of the listens is that of the connection, and nothing is in flight without one.
THEOREM Assertions == Spec => []AssertionsHold
  <1>1. IInv => AssertionsHold
    <2> SUFFICES ASSUME IInv PROVE AssertionsHold
      OBVIOUS
    <2>1. unackedListensCount = Unanswered
      BY DEF IInv, CountOK, Unanswered, Listening, Of
    <2>2. ~connected => requests = <<>> /\ answers = <<>>
      BY DEF IInv, QuietOK
    <2>3. connectionState = "Authenticating" => \A i \in DOMAIN requests : requests[i].type # "put"
      BY DEF IInv, QuietOK, Of
    <2>4. TypeOK /\ LinkOK
      BY DEF IInv
    <2> QED BY <2>1, <2>2, <2>3, <2>4 DEF AssertionsHold, LinkOK
  <1> QED BY <1>1, Invariance, PTL

\* A write takes effect as nobody but the account whose token the client held when it
\* sent it: what tells the server of another account stays behind the write.
THEOREM OnlyAsSent == Spec => []NeverAsAnother
  <1>1. IInv => NeverAsAnother
    <2> SUFFICES ASSUME IInv, requests # <<>>, Head(requests).type = "put"
                 PROVE  serverCred \in {Head(requests).as, NoToken}
      BY DEF NeverAsAnother
    <2>1. requests \in Seq(RequestSet)
      BY DEF IInv, TypeOK
    <2>2. 1 \in DOMAIN requests /\ Head(requests) = requests[1]
      BY <2>1
    <2>3. 1 \in Of(requests, "put")
      BY <2>2 DEF Of
    <2>4. Told(requests, serverCred, 1, requests[1].as)
      BY <2>3 DEF IInv, ToldOK
    <2>5. 1 .. 1 - 1 = {}
      OBVIOUS
    <2> QED BY <2>2, <2>4, <2>5 DEF Told
  <1> QED BY <1>1, Invariance, PTL

\* A connection carries each write once, and no write of a transaction takes effect twice.
THEOREM OnceOnly == Spec => []SentOnce
  <1>1. IInv => SentOnce
    <2> SUFFICES ASSUME IInv PROVE SentOnce
      OBVIOUS
    <2>1. ASSUME NEW p \in Puts PROVE Cardinality(Asking(p)) + Cardinality(Answering(p)) <= 1
      <3>1. Asking(p) \subseteq Of(requests, "put") /\ \A i \in Asking(p) : requests[i].put = p
        BY DEF Asking, Of
      <3>2. Answering(p) \subseteq Of(answers, "put") /\ \A i \in Answering(p) : answers[i].put = p
        BY DEF Answering, Of
      <3>3. p \in Nat /\ ~(p < p)
        BY ConnectionAssumption DEF Puts
      <3>4. \A i \in Of(requests, "put") : i \in Nat
        BY DEF Of, IInv, TypeOK
      <3>5. \A i \in Of(answers, "put") : i \in Nat
        BY DEF Of, IInv, TypeOK
      <3>6. ASSUME NEW i \in Asking(p), NEW j \in Asking(p) PROVE i = j
        <4>1. ~(i < j) /\ ~(j < i)
          BY <3>1, <3>3 DEF IInv, FlightOK
        <4> QED BY <3>1, <3>4, <4>1
      <3>7. ASSUME NEW i \in Answering(p), NEW j \in Answering(p) PROVE i = j
        <4>1. ~(i < j) /\ ~(j < i)
          BY <3>2, <3>3 DEF IInv, FlightOK
        <4> QED BY <3>2, <3>5, <4>1
      <3>8. Asking(p) = {} \/ Answering(p) = {}
        BY <3>1, <3>2, <3>3 DEF IInv, FlightOK
      <3>9. ASSUME NEW S, \A i, j \in S : i = j
            PROVE  Cardinality(S) \in {0, 1} /\ (S = {} => Cardinality(S) = 0)
        <4>1. CASE S = {}
          BY <4>1, FS_EmptySet
        <4>2. CASE S # {}
          <5>1. PICK i : S = {i}
            BY <3>9, <4>2
          <5> QED BY <4>2, <5>1, FS_Singleton
        <4> QED BY <4>1, <4>2
      <3>10. Cardinality(Asking(p)) \in {0, 1} /\ (Asking(p) = {} => Cardinality(Asking(p)) = 0)
        BY <3>6, <3>9
      <3>11. Cardinality(Answering(p)) \in {0, 1} /\ (Answering(p) = {} => Cardinality(Answering(p)) = 0)
        BY <3>7, <3>9
      <3> QED BY <3>8, <3>10, <3>11
    <2>2. \A p \in Hashed : runs[p] <= 1
      BY DEF IInv, HashedOK
    <2> QED BY <2>1, <2>2 DEF SentOnce
  <1> QED BY <1>1, Invariance, PTL

-----------------------------------------------------------------------------
\* A step of the client reports writes that were not, and only a stored one as stored.
Reporting ==
    /\ UNCHANGED <<putCounter, taken, runs>>
    /\ status' \in [Puts -> Statuses \cup {NoStatus}]
    /\ \A p \in Puts :
          \/ status'[p] = status[p]
          \/ /\ status[p] = NoStatus /\ p < putCounter /\ status'[p] \in Statuses
             /\ status'[p] = "ok" => runs[p] > 0

LEMMA ReportingReports == ASSUME IInv, Reporting PROVE [W!WritesNext]_(W!writesVars)
  <1> DEFINE S == {p \in Puts : status'[p] # status[p]}
             r == [p \in S |-> status'[p]]
  <1>1. putCounter \in 0 .. MaxPuts /\ MaxPuts \in Nat
        /\ status \in [Puts -> Statuses \cup {NoStatus}]
    BY ConnectionAssumption DEF IInv, TypeOK
  <1>2. \A p \in S : /\ p \in Puts /\ status[p] = NoStatus /\ p < putCounter
                     /\ status'[p] \in Statuses /\ (status'[p] = "ok" => runs[p] > 0)
    BY DEF Reporting
  <1>3. \A p \in S : p \in 0 .. putCounter - 1
    BY <1>1, <1>2 DEF Puts
  <1>4. S \in SUBSET {p \in 0 .. putCounter - 1 : status[p] = NoStatus}
    BY <1>2, <1>3
  <1>5. r \in [S -> Statuses]
    BY <1>2
  <1>6. \A p \in S : r[p] = "ok" => p \in stored
    BY <1>2 DEF stored
  <1>7. status' = [p \in Puts |-> IF p \in S THEN r[p] ELSE status[p]]
    <2>1. \A p \in Puts : status'[p] = IF p \in S THEN r[p] ELSE status[p]
      OBVIOUS
    <2>2. status' = [p \in Puts |-> status'[p]]
      BY DEF Reporting
    <2> QED BY <2>1, <2>2
  <1>8. UNCHANGED <<putCounter, taken, stored>>
    BY DEF Reporting, stored
  <1> HIDE DEF S, r
  <1>9. W!Puts = Puts
    BY DEF W!Puts, Puts
  <1>10. W!ReportWrites
    BY <1>4, <1>5, <1>6, <1>7, <1>8, <1>9 DEF W!ReportWrites
  <1> QED BY <1>10 DEF W!WritesNext

\* Giving up what a connection carried reports nothing but failures.
LEMMA DisconnectReports == ASSUME IInv, NEW reasons, OnDisconnect(reasons) PROVE Reporting
  <1>1. /\ status' = [p \in Puts |-> IF p \in Cancelled THEN "disconnect" ELSE status[p]]
        /\ UNCHANGED <<putCounter, taken, runs>>
    BY DEF OnDisconnect
  <1>2. ASSUME NEW p \in Puts, p \in Cancelled PROVE status[p] = NoStatus /\ p < putCounter
    <2>1. p \in outstandingPuts /\ p \in 0 .. putCounter - 1
      BY <1>2 DEF Cancelled, IInv, TypeOK
    <2> QED BY <2>1, ConnectionAssumption DEF IInv, StatusOK, TypeOK
  <1>3. status' \in [Puts -> Statuses \cup {NoStatus}]
    BY OnDisconnectStep
  <1> QED BY <1>1, <1>2, <1>3 DEF Reporting, Statuses

\* Reporting the writes that waited.
LEMMA AckedReports ==
    ASSUME IInv, status' = Acked, UNCHANGED <<putCounter, taken, runs>> PROVE Reporting
  <1>1. Acked \in [Puts -> Statuses \cup {NoStatus}]
    BY Reports
  <1>2. \A p \in Puts :
           \/ Acked[p] = status[p]
           \/ /\ status[p] = NoStatus /\ p < putCounter /\ Acked[p] \in Statuses
              /\ Acked[p] = "ok" => runs[p] > 0
    BY Reports DEF Statuses
  <1> QED BY <1>1, <1>2 DEF Reporting

\* Every step is a step that Writes allows, or changes nothing that Writes speaks of.
LEMMA StepWrites == IInv /\ [Next]_vars => [W!WritesNext]_(W!writesVars)
  <1> SUFFICES ASSUME IInv, [Next]_vars PROVE [W!WritesNext]_(W!writesVars)
    OBVIOUS
  <1>1. /\ putCounter \in 0 .. MaxPuts /\ MaxPuts \in Nat
        /\ status \in [Puts -> Statuses \cup {NoStatus}]
        /\ \A p \in outstandingPuts : p \in Puts /\ p < putCounter /\ status[p] = NoStatus
    <2>1. \A p \in outstandingPuts : p \in 0 .. putCounter - 1
      BY DEF IInv, TypeOK
    <2> QED BY <2>1, ConnectionAssumption DEF IInv, TypeOK, StatusOK, Puts
  <1>2. ASSUME UNCHANGED <<putCounter, taken, runs, status>> PROVE [W!WritesNext]_(W!writesVars)
    BY <1>2 DEF W!writesVars, stored
  <1>3. ASSUME NEW r, Interrupt(r) PROVE [W!WritesNext]_(W!writesVars)
    <2>1. CASE realtime
      <3>1. OnDisconnect(interruptReasons')
        BY <1>3, <2>1 DEF Interrupt
      <3> QED BY <3>1, DisconnectReports, ReportingReports
    <2>2. CASE ~realtime
      BY <1>2, <1>3, <2>2 DEF Interrupt, puts, server
    <2> QED BY <2>1, <2>2
  <1>4. CASE Open \/ GoOnline
    BY <1>2, <1>4 DEF Open, GoOnline, Resume, puts, server
  <1>5. CASE GoOffline \/ ServerKill
    BY <1>3, <1>5 DEF GoOffline, ServerKill
  <1>6. CASE ConnectionLost
    BY <1>6, DisconnectReports, ReportingReports DEF ConnectionLost
  <1>7. CASE ExecuteRetry \/ \E f \in fetches : TokenFetched(f) \/ TokenFetchFailed(f)
    BY <1>2, <1>7 DEF ExecuteRetry, TokenFetched, TokenFetchFailed, puts, server
  <1>8. CASE Ready
    BY <1>2, <1>8 DEF Ready, server
  <1>9. CASE Put
    <2>1. putCounter < MaxPuts /\ putCounter' = putCounter + 1 /\ UNCHANGED <<taken, runs, status>>
      BY <1>9 DEF Put, server
    <2>2. W!IssueWrite
      BY <2>1 DEF W!IssueWrite, stored
    <2> QED BY <2>2 DEF W!WritesNext
  <1>10. CASE PurgeOutstandingWrites
    <2>1. /\ status' = [p \in Puts |-> IF p \in outstandingPuts THEN "cancelled" ELSE Acked[p]]
          /\ UNCHANGED <<putCounter, taken, runs>>
      BY <1>10 DEF PurgeOutstandingWrites, server
    <2>2. \A p \in Puts :
             /\ Acked[p] \in Statuses \cup {NoStatus}
             /\ \/ Acked[p] = status[p]
                \/ /\ status[p] = NoStatus /\ p < putCounter /\ Acked[p] \in Statuses
                   /\ Acked[p] = "ok" => runs[p] > 0
      BY Reports DEF Statuses
    <2>3. status' \in [Puts -> Statuses \cup {NoStatus}]
      BY <2>1, <2>2 DEF Statuses
    <2>4. Reporting
      BY <1>1, <2>1, <2>2, <2>3 DEF Reporting, Statuses
    <2> QED BY <2>4, ReportingReports
  <1>11. CASE \E l \in Listens : Listen(l) \/ UnlistenTo(l) \/ ServerCancelsListen(l)
    BY <1>2, <1>11 DEF Listen, UnlistenTo, ServerCancelsListen, puts, server
  <1>12. CASE RefreshAuthToken \/ \E a \in Tokens : AccountChanges(a)
    BY <1>2, <1>12 DEF RefreshAuthToken, AccountChanges, puts, server
  <1>13. CASE ServerAccepts \/ ServerDenies \/ ServerForgets \/ ServerListens \/ ServerUnlistens
    BY <1>2, <1>13 DEF ServerAccepts, ServerDenies, ServerForgets, ServerListens, ServerUnlistens,
                       Taken, puts, server
  <1>14. CASE ServerRevokes
    BY <1>2, <1>14 DEF ServerRevokes, puts
  <1>15. CASE ServerStores \/ ServerRefuses
    <2>1. PICK p : p = Head(requests).put
      OBVIOUS
    <2>2. /\ Taken("put") /\ taken' = taken \cup {p} /\ UNCHANGED <<putCounter, status>>
          /\ runs' = runs \/ runs' = [runs EXCEPT ![p] = @ + 1]
      BY <1>15, <2>1 DEF ServerStores, ServerRefuses, Taken, puts
    <2>3. /\ Head(requests) \in RequestSet /\ Head(requests) = requests[1]
          /\ 1 \in Of(requests, "put")
      BY <2>2, TakenFirst
    <2>4. p \in Puts /\ p < putCounter /\ (p \in taken \/ \A q \in taken : q < p)
      BY <2>1, <2>3, RequestKinds DEF Of, IInv, FlightOK, TakenOK
    <2>5. p \in 0 .. putCounter - 1
      BY <1>1, <2>4 DEF Puts
    <2>6. runs \in [Puts -> Nat]
      BY DEF IInv, TypeOK
    <2>7. stored' \in {stored, stored \cup {p}}
      <3>1. CASE runs' = runs
        BY <3>1 DEF stored
      <3>2. CASE runs' = [runs EXCEPT ![p] = @ + 1]
        <4>1. runs'[p] > 0 /\ \A q \in Puts : q # p => runs'[q] = runs[q]
          BY <2>4, <2>6, <3>2
        <4> QED BY <2>4, <4>1 DEF stored
      <3> QED BY <2>2, <3>1, <3>2
    <2>8. W!TakeWrite
      BY <2>2, <2>4, <2>5, <2>7 DEF W!TakeWrite
    <2> QED BY <2>8 DEF W!WritesNext
  <1>16. CASE AuthAnswered
    <2>1. UNCHANGED <<putCounter, taken, runs, status>>
      BY <1>16 DEF AuthAnswered, server
    <2> QED BY <1>2, <2>1
  <1>17. CASE TokenRejected
    BY <1>17, DisconnectReports, ReportingReports DEF TokenRejected
  <1>18. CASE PutAnswered
    <2>1. PICK p, result :
             /\ Received("put") /\ answers' = Tail(answers)
             /\ p = Head(answers).put /\ result = Head(answers).result
             /\ UNCHANGED <<putCounter, taken, runs>>
             /\ \/ status' = status
                \/ p \in outstandingPuts /\ status' = [status EXCEPT ![p] = result]
      BY <1>18 DEF PutAnswered, server
    <2>2. CASE status' = status
      BY <1>2, <2>1, <2>2
    <2>3. CASE p \in outstandingPuts /\ status' = [status EXCEPT ![p] = result]
      <3>1. /\ Head(answers) \in AnswerSet /\ Head(answers) = answers[1] /\ Head(answers).type = "put"
            /\ 1 \in Of(answers, "put")
        BY <2>1, ReceivedFirst
      <3>2. result \in {"ok", "refused"} /\ (result = "ok" => runs[p] > 0)
        BY <2>1, <3>1, AnswerKinds DEF IInv, TakenOK
      <3>3. Reporting
        <4>1. p \in Puts /\ p < putCounter /\ status[p] = NoStatus /\ result \in Statuses
          BY <1>1, <2>3, <3>2 DEF Statuses
        <4>2. \A q \in Puts : status'[q] = IF q = p THEN result ELSE status[q]
          BY <1>1, <2>3
        <4>3. status' \in [Puts -> Statuses \cup {NoStatus}]
          BY <1>1, <2>3, <4>1
        <4> QED BY <2>1, <3>2, <4>1, <4>2, <4>3 DEF Reporting
      <3> QED BY <3>3, ReportingReports
    <2> QED BY <2>1, <2>2, <2>3
  <1>19. CASE ListenAnswered
    <2>1. UNCHANGED <<putCounter, taken, runs>> /\ (status' = Acked \/ status' = status)
      BY <1>19 DEF ListenAnswered, server
    <2> QED BY <1>2, <2>1, AckedReports, ReportingReports
  <1>20. CASE ListenRevoked
    BY <1>2, <1>20 DEF ListenRevoked, puts, server
  <1>21. CASE UNCHANGED vars
    BY <1>2, <1>21 DEF vars, puts, server
  <1> QED
    BY <1>4, <1>5, <1>6, <1>7, <1>8, <1>9, <1>10, <1>11, <1>12, <1>13, <1>14, <1>15, <1>16,
       <1>17, <1>18, <1>19, <1>20, <1>21 DEF Next, ServerStep, Receive

\* Whatever happens to its connections, what the client does with writes is what Writes
\* promises: first judged in order, reported once, and as stored only if they are.
THEOREM Implementation == Spec => ImplementsWrites
  <1>1. Init => W!WritesInit
    <2> SUFFICES ASSUME Init PROVE W!WritesInit
      OBVIOUS
    <2>1. stored = {}
      BY DEF Init, stored
    <2> QED BY <2>1 DEF Init, W!WritesInit, W!Puts, Puts
  <1>2. IInv /\ [Next]_vars => [W!WritesNext]_(W!writesVars)
    BY StepWrites
  <1> QED BY <1>1, <1>2, Invariance, PTL DEF Spec, ImplementsWrites, W!WritesSpec
-----------------------------------------------------------------------------
(***************************************************************************)
(* WriteTree: what the screens show.  A leaf holds the id of the newest    *)
(* pending write that writes it, or what the server's data says; the       *)
(* layers of the pending writes say so path by path, and what is shown     *)
(* follows both through every write, answer and message.                   *)
(***************************************************************************)

\* The merges the app issues name children of their path, so that no other
\* path of the database lies between.
ShallowMerges ==
    \A s \in Shapes : s.at # {s.path} =>
        \A p \in s.at : \A q \in Paths : p \subseteq q /\ q \subseteq s.path => q \in {p, s.path}

Area(r) == UNION r.at

Records == {r \in [id : 1 .. MaxWrites, path : Paths, at : SUBSET Paths] :
              [path |-> r.path, at |-> r.at] \in Shapes}

\* The newest of the records that write a leaf.
NewestAt(records, l, i) ==
    /\ i \in DOMAIN records /\ l \in Area(records[i])
    /\ \A j \in DOMAIN records : j > i => l \notin Area(records[j])

Covered(records, l) == \E i \in DOMAIN records : l \in Area(records[i])

\* A leaf under the records, above a value.
Holds(records, l, value, below) ==
    \/ ~ Covered(records, l) /\ value = below
    \/ \E i \in DOMAIN records : NewestAt(records, l, i) /\ value = records[i].id

LayersOf(writes, records) ==
    /\ \A q \in DOMAIN writes : \E i \in DOMAIN records : q \in records[i].at
    /\ \A i \in DOMAIN records : \A p \in records[i].at : Shadowing(writes, p)
    /\ \A q \in DOMAIN writes : \A l \in q :
         \E i \in DOMAIN records : NewestAt(records, l, i) /\ writes[q][l] = records[i].id

Ids == 1 .. MaxWrites

\* Layers of writes: nodes at paths none of which is in another.
Trees ==
    {w \in UNION {[D -> UNION {[p -> Ids] : p \in Paths}] : D \in SUBSET Paths} :
       /\ \A q \in DOMAIN w : w[q] \in [q -> Ids]
       /\ \A p, q \in DOMAIN w : p # q => p \cap q = {}}

Values == -MaxOthers .. MaxWrites

DataMessages == [type : {"data"}, shape : [path : Paths, at : SUBSET Paths],
                 node : UNION {[D -> Values] : D \in SUBSET Root}]
Judgements   == [type : {"answer"}, write : Records, ok : BOOLEAN]
Messages     == DataMessages \cup Judgements

\* What a message tells of.
Tells(m, records) ==
    /\ m.type = "data" => DOMAIN m.node = UNION m.shape.at /\ DOMAIN m.node \subseteq Root
    /\ m.type = "answer" => \E j \in DOMAIN records : m.write = records[j]

KindsOK ==
    /\ allWrites \in Seq(Records)
    /\ visibleWrites \in Trees
    /\ toClient \in Seq(Messages)
    /\ \A i \in DOMAIN toClient : Tells(toClient[i], allWrites)

\* Writes are numbered as they are issued.
NumbersOK ==
    /\ \A i, j \in DOMAIN allWrites : i < j => allWrites[i].id < allWrites[j].id
    /\ \A i \in DOMAIN allWrites : allWrites[i].id < writeIdCounter
    /\ judged < writeIdCounter

LayersOK == LayersOf(visibleWrites, allWrites)

ShownOK == \A l \in Root : Holds(allWrites, l, eventCache[l], serverCache[l])

IsAnswer(messages, i, r) == messages[i].type = "answer" /\ messages[i].write = r

\* The writes that are judged have one answer each on the way, in their order.
AnswersIn(messages, records, last) ==
    /\ \A j \in DOMAIN records :
         records[j].id <= last <=> \E i \in DOMAIN messages : IsAnswer(messages, i, records[j])
    /\ \A i, k \in DOMAIN messages : \A j \in DOMAIN records :
         IsAnswer(messages, i, records[j]) /\ IsAnswer(messages, k, records[j]) => i = k
    /\ \A i \in DOMAIN messages : \A j \in DOMAIN records :
         IsAnswer(messages, i, records[j]) /\ j > 1 =>
           \E k \in 1 .. i - 1 : IsAnswer(messages, k, records[j - 1])

AnswersOK == AnswersIn(toClient, allWrites, judged)

\* The data of a write that succeeds comes right before its answer.
DataFirstIn(messages, cache) ==
    \A i \in DOMAIN messages : messages[i].type = "answer" /\ messages[i].ok =>
        LET r == messages[i].write
        IN  IF i = 1 THEN \A l \in Area(r) : cache[l] = r.id
            ELSE /\ messages[i - 1].type = "data"
                 /\ messages[i - 1].node = Node(Area(r), r.id)

DataFirst == DataFirstIn(toClient, serverCache)

Brings(messages, i, l) == messages[i].type = "data" /\ l \in DOMAIN messages[i].node

\* The data of the server is what the client has, and what it will get of it.
DataIn(messages, cache, all) ==
    \A l \in Root :
        \/ cache[l] = all[l] /\ \A i \in DOMAIN messages : ~ Brings(messages, i, l)
        \/ \E i \in DOMAIN messages :
             /\ Brings(messages, i, l) /\ messages[i].node[l] = all[l]
             /\ \A k \in DOMAIN messages : k > i => ~ Brings(messages, k, l)

DataOK == DataIn(toClient, serverCache, data)

TreeInv ==
    /\ WTTypeOK /\ KindsOK /\ NumbersOK
    /\ LayersOK /\ ShownOK /\ AnswersOK /\ DataFirst /\ DataOK
-----------------------------------------------------------------------------
(* Induction over data.  A set of finite sets has a smallest member, and a *)
(* set of numbers a least one: taken of the counterexamples, that is an    *)
(* induction, stated of a set because no prover here can instantiate a     *)
(* theorem of a predicate.                                                 *)

\* Some member of a set of finite sets contains no other.
LEMMA SmallestSubset ==
    ASSUME NEW S, IsFiniteSet(S), NEW T \in SUBSET SUBSET S, T # {}
    PROVE  \E m \in T : \A k \in T : k \subseteq m => k = m
<1>1. IsWellFoundedOn(StrictSubsetOrdering(S), FiniteSubsetsOf(S))
  BY FS_StrictSubsetOrderingWellFounded
<1>2. T \subseteq FiniteSubsetsOf(S)
  BY FS_FiniteSubsetsOfFinite
<1>3. PICK m \in T : \A k \in T : ~ (<<k, m>> \in StrictSubsetOrdering(S))
  BY <1>1, <1>2, WFMin
<1>4. \A k \in T : ~ (k \subseteq m /\ k # m)
  BY <1>3 DEF StrictSubsetOrdering
<1> QED BY <1>4

\* Some member of a set of natural numbers is the least one.
LEMMA LeastNumber ==
    ASSUME NEW T \in SUBSET Nat, T # {}
    PROVE  \E m \in T : \A k \in T : m <= k
<1>1. PICK n \in T : TRUE
  OBVIOUS
<1> DEFINE Below == {s \in SUBSET (0 .. n) : \E k \in T : k <= n /\ s = 0 .. k}
<1>2. IsFiniteSet(0 .. n)
  BY FS_Interval
<1>3. 0 .. n \in Below
  OBVIOUS
<1>4. PICK s \in Below : \A r \in Below : r \subseteq s => r = s
  <2> DEFINE Upto == 0 .. n
  <2>1. IsFiniteSet(Upto) /\ Below \in SUBSET SUBSET Upto /\ Below # {}
    BY <1>2, <1>3
  <2> HIDE DEF Below, Upto
  <2> QED BY <2>1, SmallestSubset
<1>5. PICK m \in T : m <= n /\ s = 0 .. m
  OBVIOUS
<1>6. ASSUME NEW k \in T, k < m PROVE FALSE
  <2>1. 0 .. k \in Below /\ 0 .. k \subseteq s
    BY <1>5, <1>6
  <2>2. 0 .. k = 0 .. m
    BY <1>4, <1>5, <2>1
  <2>3. m \in 0 .. m /\ m \notin 0 .. k
    BY <1>6
  <2> QED BY <2>2, <2>3
<1> QED BY <1>6

\* A function picks an element of each set that has one.
Picks(pick, S) == \A s \in SUBSET S : s # {} => pick[s] \in s

\* A function of sets is the recursive one behind a fold.
Unfolds(f, S, base, pick, step) ==
    \A s \in SUBSET S :
        f[s] = IF s = {} THEN base ELSE step[<<pick[s], f[s \ {pick[s]}]>>]

\* The recursive function behind a fold exists, whatever element is picked.
LEMMA Recursion ==
    ASSUME NEW S, IsFiniteSet(S), NEW B, NEW base \in B, NEW pick, Picks(pick, S),
           NEW step \in [S \X B -> B]
    PROVE  \E f \in [SUBSET S -> B] : Unfolds(f, S, base, pick, step)
<1> DEFINE Small(n) == {s \in SUBSET S : Cardinality(s) <= n}
           Fits(g, n) == \A s \in Small(n) :
              g[s] = IF s = {} THEN base ELSE step[<<pick[s], g[s \ {pick[s]}]>>]
           Bad == {n \in Nat : ~ \E g \in [Small(n) -> B] : Fits(g, n)}
<1>1. \A s \in SUBSET S : Cardinality(s) \in Nat /\ Cardinality(s) <= Cardinality(S)
      /\ (Cardinality(s) = 0 <=> s = {})
  BY FS_Subset, FS_CardinalityType, FS_EmptySet
<1>2. \A s \in SUBSET S : s # {} =>
        /\ pick[s] \in S /\ s \ {pick[s]} \in SUBSET S
        /\ Cardinality(s \ {pick[s]}) = Cardinality(s) - 1
  BY FS_RemoveElement, FS_Subset DEF Picks
<1>3. 0 \notin Bad
  <2>1. Small(0) = {{}}
    BY <1>1
  <2>2. [s \in Small(0) |-> base] \in [Small(0) -> B]
    OBVIOUS
  <2>3. Fits([s \in Small(0) |-> base], 0)
    BY <2>1
  <2> QED BY <2>2, <2>3
<1>4. ASSUME NEW n \in Nat, n \notin Bad PROVE n + 1 \notin Bad
  <2>1. PICK g \in [Small(n) -> B] : Fits(g, n)
    BY <1>4
  <2> DEFINE h == [s \in Small(n + 1) |-> IF s \in Small(n) THEN g[s]
                     ELSE step[<<pick[s], g[s \ {pick[s]}]>>]]
  <2>2. \A s \in Small(n + 1) : s # {} => s \ {pick[s]} \in Small(n) /\ pick[s] \in S
    BY <1>1, <1>2
  <2>3. {} \in Small(n)
    BY <1>1
  <2>4. Small(n) \subseteq Small(n + 1)
    BY <1>1
  <2>5. h \in [Small(n + 1) -> B]
    <3>1. ASSUME NEW s \in Small(n + 1), s \notin Small(n)
          PROVE  step[<<pick[s], g[s \ {pick[s]}]>>] \in B
      <4>1. s # {}
        BY <2>3, <3>1
      <4> HIDE DEF Small, Fits
      <4>2. g[s \ {pick[s]}] \in B
        BY <2>1, <2>2, <4>1
      <4> QED BY <2>2, <4>1, <4>2
    <3> HIDE DEF Small, Fits
    <3> QED BY <2>1, <3>1
  <2>6. Fits(h, n + 1)
    <3> SUFFICES ASSUME NEW s \in Small(n + 1)
                 PROVE  h[s] = IF s = {} THEN base ELSE step[<<pick[s], h[s \ {pick[s]}]>>]
      BY ZenonT(30)
    <3>1. s # {} => h[s \ {pick[s]}] = g[s \ {pick[s]}]
      <4> HIDE DEF Small
      <4> QED BY <2>2, <2>4
    <3>2. s \in Small(n) => g[s] = IF s = {} THEN base ELSE step[<<pick[s], g[s \ {pick[s]}]>>]
      BY <2>1
    <3>3. s \notin Small(n) => s # {}
      BY <2>3
    <3> HIDE DEF Small, Fits
    <3> QED BY <3>1, <3>2, <3>3
  <2>7. n + 1 \in Nat
    OBVIOUS
  <2> HIDE DEF Small, Fits, h
  <2> QED BY <2>5, <2>6, <2>7
<1>5. Bad = {}
  <2> SUFFICES ASSUME Bad # {} PROVE FALSE
    OBVIOUS
  <2> Bad \in SUBSET Nat
    OBVIOUS
  <2> HIDE DEF Bad
  <2>1. PICK m \in Bad : \A k \in Bad : m <= k
    BY LeastNumber
  <2>2. m \in Nat /\ m # 0
    BY <1>3
  <2>3. m - 1 \in Nat /\ m - 1 \notin Bad
    BY <2>1, <2>2
  <2>4. (m - 1) + 1 \notin Bad
    BY <1>4, <2>3
  <2> QED BY <2>2, <2>4
<1>6. Cardinality(S) \in Nat
  BY FS_CardinalityType
<1>7. PICK f \in [Small(Cardinality(S)) -> B] : Fits(f, Cardinality(S))
  BY <1>5, <1>6
<1>8. Small(Cardinality(S)) = SUBSET S
  BY <1>1
<1>9. \A s \in SUBSET S :
        f[s] = IF s = {} THEN base ELSE step[<<pick[s], f[s \ {pick[s]}]>>]
  BY <1>7, <1>8
<1>10. f \in [SUBSET S -> B]
  BY <1>7, <1>8
<1> HIDE DEF Small, Fits
<1> QED BY <1>9, <1>10 DEF Unfolds

-----------------------------------------------------------------------------
(* Compound writes.                                                        *)

\* What is in Trees, without the sets of functions.
LEMMA TreesIs ==
    ASSUME NEW w
    PROVE  w \in Trees <=>
             /\ w = [q \in DOMAIN w |-> w[q]]
             /\ DOMAIN w \subseteq Paths
             /\ \A q \in DOMAIN w : w[q] \in [q -> Ids]
             /\ \A p, q \in DOMAIN w : p # q => p \cap q = {}
<1>1. ASSUME w \in Trees
      PROVE  w = [q \in DOMAIN w |-> w[q]] /\ DOMAIN w \subseteq Paths
  <2>1. PICK D \in SUBSET Paths : w \in [D -> UNION {[p -> Ids] : p \in Paths}]
    BY <1>1 DEF Trees
  <2> QED BY <2>1
<1>2. ASSUME w = [q \in DOMAIN w |-> w[q]], DOMAIN w \subseteq Paths,
             \A q \in DOMAIN w : w[q] \in [q -> Ids]
      PROVE  w \in UNION {[D -> UNION {[p -> Ids] : p \in Paths}] : D \in SUBSET Paths}
  <2>1. w \in [DOMAIN w -> UNION {[p -> Ids] : p \in Paths}]
    BY <1>2
  <2> QED BY <1>2, <2>1
<1> QED BY <1>1, <1>2 DEF Trees

\* Two paths are one below the other or apart; no path is empty.
LEMMA PathsApart ==
    ASSUME NEW p \in Paths, NEW q \in Paths
    PROVE  /\ p \subseteq q \/ q \subseteq p \/ p \cap q = {}
           /\ p # {} /\ p \subseteq Root
  BY WriteTreeAssumption DEF Root

\* A write below an entry goes into its node; any other is an entry of its
\* own, in the place of those below it.
LEMMA AddWriteIs ==
    ASSUME NEW w \in Trees, NEW p \in Paths, NEW id \in Ids
    PROVE  /\ AddWrite(w, p, Node(p, id)) \in Trees
           /\ Shadowing(w, p) => DOMAIN AddWrite(w, p, Node(p, id)) = DOMAIN w
           /\ ~ Shadowing(w, p) => \A q : q \in DOMAIN AddWrite(w, p, Node(p, id)) <=>
                q = p \/ (q \in DOMAIN w /\ ~ q \subseteq p)
           /\ \A q \in DOMAIN AddWrite(w, p, Node(p, id)) : \A l \in q :
                AddWrite(w, p, Node(p, id))[q][l] = IF l \in p THEN id ELSE w[q][l]
<1> DEFINE u == AddWrite(w, p, Node(p, id))
<1>0. /\ w = [q \in DOMAIN w |-> w[q]] /\ DOMAIN w \subseteq Paths
      /\ \A q \in DOMAIN w : w[q] \in [q -> Ids]
      /\ \A q, s \in DOMAIN w : q # s => q \cap s = {}
  BY TreesIs
<1>1. CASE Shadowing(w, p)
  <2>1. u = [q \in DOMAIN w |-> IF p \subseteq q THEN Upon(Node(p, id), w[q]) ELSE w[q]]
    BY <1>1 DEF AddWrite, Shadowing
  <2>2. ASSUME NEW q \in DOMAIN w, p \subseteq q
        PROVE  /\ Upon(Node(p, id), w[q]) \in [q -> Ids]
               /\ \A l \in q : Upon(Node(p, id), w[q])[l] = IF l \in p THEN id ELSE w[q][l]
    BY <1>0, <2>2 DEF Node, Upon
  <2>3. ASSUME NEW q \in DOMAIN w, ~ p \subseteq q
        PROVE  q \cap p = {}
    <3>1. PICK s \in DOMAIN w : p \subseteq s
      BY <1>1 DEF Shadowing
    <3> QED BY <1>0, <2>3, <3>1, PathsApart
  <2>4. \A q \in DOMAIN w : u[q] \in [q -> Ids]
    BY <1>0, <2>1, <2>2
  <2>5. DOMAIN u = DOMAIN w /\ u = [q \in DOMAIN u |-> u[q]]
    BY <2>1
  <2>6. u \in Trees
    BY <1>0, <2>4, <2>5, TreesIs
  <2>7. \A q \in DOMAIN u : \A l \in q : u[q][l] = IF l \in p THEN id ELSE w[q][l]
    BY <2>1, <2>2, <2>3
  <2> QED BY <1>1, <2>5, <2>6, <2>7
<1>2. CASE ~ Shadowing(w, p)
  <2> DEFINE Apart == {q \in DOMAIN w : ~ q \subseteq p}
  <2>1. u = [q \in {p} \cup Apart |-> IF q = p THEN Node(p, id) ELSE w[q]]
    <3>1. {q \in DOMAIN w : p \subseteq q} = {}
      BY <1>2 DEF Shadowing
    <3>2. DOMAIN w \ SUBSET p = Apart
      OBVIOUS
    <3> QED BY <3>1, <3>2 DEF AddWrite
  <2>2. p \notin Apart
    OBVIOUS
  <2>3. /\ DOMAIN u = {p} \cup Apart /\ u = [q \in DOMAIN u |-> u[q]]
        /\ u[p] = Node(p, id)
        /\ \A q \in Apart : u[q] = w[q]
    <3> HIDE DEF Apart
    <3> QED BY <2>1, <2>2
  <2>4. \A q \in Apart : q \cap p = {}
    BY <1>0, <1>2, PathsApart DEF Shadowing
  <2>5. \A q \in DOMAIN u : u[q] \in [q -> Ids]
    BY <1>0, <2>3 DEF Node
  <2>6. u \in Trees
    <3> QED BY <1>0, <2>3, <2>4, <2>5, TreesIs
  <2>7. \A q \in DOMAIN u : \A l \in q : u[q][l] = IF l \in p THEN id ELSE w[q][l]
    BY <2>3, <2>4 DEF Node
  <2> HIDE DEF u
  <2>8. \A q : q \in DOMAIN u <=> q = p \/ (q \in DOMAIN w /\ ~ q \subseteq p)
    <3>1. DOMAIN u = {p} \cup Apart
      BY <2>3
    <3> QED BY <3>1
  <2>9. u \in Trees /\ (~ Shadowing(w, p) => \A q : q \in DOMAIN u <=>
             q = p \/ (q \in DOMAIN w /\ ~ q \subseteq p))
    BY <2>6, <2>8
  <2> QED BY <1>2, <2>7, <2>9 DEF u
<1> QED BY <1>1, <1>2

-----------------------------------------------------------------------------
(* The folds.  Each is the last value of a recursive function, whose steps *)
(* are those of the fold.                                                  *)

\* The greatest of the first n numbers is the last one.
LEMMA MaxOfInterval ==
    ASSUME NEW n \in Nat, n # 0
    PROVE  Max(1 .. n) = n
<1>1. n \in 1 .. n /\ \A y \in 1 .. n : n >= y
  OBVIOUS
<1>2. \A x \in 1 .. n : (\A y \in 1 .. n : x >= y) => x = n
  BY <1>1
<1>3. (CHOOSE x \in 1 .. n : \A y \in 1 .. n : x >= y) = n
  BY <1>1, <1>2
<1> QED BY <1>3 DEF Max

\* Every set of the first n numbers has a greatest one.
LEMMA MaxIsMember ==
    ASSUME NEW n \in Nat, NEW s \in SUBSET (1 .. n), s # {}
    PROVE  Max(s) \in s /\ \A y \in s : Max(s) >= y
<1> DEFINE Gap == {k \in Nat : \E x \in s : k = n - x}
<1>1. Gap \in SUBSET Nat /\ Gap # {}
  <2>1. PICK x \in s : TRUE
    OBVIOUS
  <2>2. n - x \in Gap
    OBVIOUS
  <2> QED BY <2>2
<1>2. PICK g \in Gap : \A k \in Gap : g <= k
  <2> HIDE DEF Gap
  <2> QED BY <1>1, LeastNumber
<1>3. PICK x \in s : g = n - x
  OBVIOUS
<1>4. \A y \in s : x >= y
  BY <1>2, <1>3
<1> QED BY <1>3, <1>4 DEF Max

\* A merge adds its paths one by one.
LEMMA AddRecordFolds ==
    ASSUME NEW writes \in Trees, NEW r \in Records
    PROVE  \E f \in [SUBSET r.at -> Trees] :
             /\ f[{}] = writes
             /\ \A s \in SUBSET r.at : s # {} =>
                  \E p \in s : f[s] = AddWrite(f[s \ {p}], p, Node(p, r.id))
             /\ AddRecord(writes, r) = f[r.at]
<1> DEFINE S == r.at
           pick == [s \in SUBSET S |-> CHOOSE p \in s : TRUE]
           step == [pw \in S \X Trees |-> AddWrite(pw[2], pw[1], Node(pw[1], r.id))]
           F(f) == [s \in SUBSET S |-> IF s = {} THEN writes
                      ELSE LET p == CHOOSE p \in s : TRUE
                           IN  AddWrite(f[s \ {p}], p, Node(p, r.id))]
<1>1. IsFiniteSet(S) /\ S \in SUBSET Paths /\ r.id \in Ids
  BY WriteTreeAssumption DEF Records, Ids
<1>2. ASSUME NEW p \in S, NEW w \in Trees
      PROVE  AddWrite(w, p, Node(p, r.id)) \in Trees /\ step[<<p, w>>] = AddWrite(w, p, Node(p, r.id))
  <2>1. p \in Paths
    BY <1>1
  <2>2. AddWrite(w, p, Node(p, r.id)) \in Trees
    BY <1>1, <2>1, AddWriteIs
  <2> QED BY <2>2
<1>3. step \in [S \X Trees -> Trees]
  BY <1>2
<1>4. Picks(pick, S) /\ \A s \in SUBSET S : s # {} => pick[s] \in s
  BY DEF Picks
<1>5. PICK f \in [SUBSET S -> Trees] : Unfolds(f, S, writes, pick, step)
  <2> HIDE DEF S, step, pick
  <2> QED BY <1>1, <1>3, <1>4, Recursion
<1>6. ASSUME NEW s \in SUBSET S, s # {}
      PROVE  f[s] = AddWrite(f[s \ {pick[s]}], pick[s], Node(pick[s], r.id))
  <2>1. pick[s] \in S /\ s \ {pick[s]} \in SUBSET S
    BY <1>4, <1>6
  <2>2. f[s \ {pick[s]}] \in Trees
    BY <1>5, <2>1
  <2>3. f[s] = step[<<pick[s], f[s \ {pick[s]}]>>]
    <3> HIDE DEF S, step, pick
    <3> QED BY <1>5, <1>6 DEF Unfolds
  <2> HIDE DEF step
  <2> QED BY <1>2, <2>1, <2>2, <2>3
<1>7. f[{}] = writes
  <2> HIDE DEF S, step, pick
  <2> QED BY <1>5 DEF Unfolds
<1>8. f = F(f)
  <2> DEFINE h == F(f)
  <2>0. h = F(f)
    OBVIOUS
  <2> HIDE DEF h
  <2>1. ASSUME NEW s \in SUBSET S PROVE f[s] = h[s]
    <3> DEFINE c == CHOOSE p \in s : TRUE
    <3>1. pick[s] = c
      OBVIOUS
    <3>2. h[s] = IF s = {} THEN writes ELSE AddWrite(f[s \ {c}], c, Node(c, r.id))
      BY <2>0, Zenon
    <3> HIDE DEF c, S, pick
    <3> QED BY <1>6, <1>7, <3>1, <3>2
  <2>2. DOMAIN f = SUBSET S /\ f = [s \in DOMAIN f |-> f[s]]
    BY <1>5
  <2>3. DOMAIN h = SUBSET S /\ h = [s \in DOMAIN h |-> h[s]]
    BY <2>0
  <2> HIDE DEF S
  <2> QED BY <2>0, <2>1, <2>2, <2>3
<1> DEFINE g == CHOOSE g : g = F(g)
<1>9. g = F(g)
  BY <1>8, Zenon
<1>10. AddRecord(writes, r) = g[S]
  BY Zenon DEF AddRecord, FoldSet, MapThenFoldSet
<1>11. ASSUME NEW s \in SUBSET S
       PROVE  g[s] = IF s = {} THEN writes
                     ELSE AddWrite(g[s \ {pick[s]}], pick[s], Node(pick[s], r.id))
  <2>1. pick[s] = CHOOSE p \in s : TRUE
    OBVIOUS
  <2> HIDE DEF g
  <2> QED BY <1>9, <2>1, Zenon
<1>12. g[S] = f[S]
  <2> HIDE DEF g
  <2> DEFINE Differ == {s \in SUBSET S : g[s] # f[s]}
  <2> SUFFICES ASSUME Differ # {} PROVE FALSE
    OBVIOUS
  <2>1. PICK s \in Differ : \A t \in Differ : t \subseteq s => t = s
    <3> Differ \in SUBSET SUBSET S
      OBVIOUS
    <3> HIDE DEF Differ
    <3> QED BY <1>1, SmallestSubset
  <2>2. s # {}
    BY <1>7, <1>11
  <2>3. pick[s] \in s /\ s \ {pick[s]} \notin Differ
    BY <1>4, <2>1, <2>2
  <2>4. g[s \ {pick[s]}] = f[s \ {pick[s]}]
    BY <2>3
  <2>5. g[s] = AddWrite(g[s \ {pick[s]}], pick[s], Node(pick[s], r.id))
    BY <1>11, <2>2
  <2>6. f[s] = AddWrite(f[s \ {pick[s]}], pick[s], Node(pick[s], r.id))
    BY <1>6, <2>2
  <2> QED BY <2>4, <2>5, <2>6
<1> HIDE DEF g
<1> QED BY <1>4, <1>5, <1>6, <1>7, <1>10, <1>12

\* What a record does to the layers: its paths are in them, what was in them
\* stays in them, and its leaves have its id.
LEMMA AddRecordIs ==
    ASSUME NEW w \in Trees, NEW r \in Records, NEW u, u = AddRecord(w, r)
    PROVE  /\ u \in Trees
           /\ \A q \in DOMAIN u : q \in DOMAIN w \/ q \in r.at
           /\ \A q \in DOMAIN w : Shadowing(u, q)
           /\ \A p \in r.at : Shadowing(u, p)
           /\ \A q \in DOMAIN u : \A l \in q :
                IF l \in Area(r) THEN u[q][l] = r.id
                ELSE \E q0 \in DOMAIN w : l \in q0 /\ u[q][l] = w[q0][l]
<1> DEFINE S == r.at
           Good(s, t) ==
             /\ \A q \in DOMAIN t : q \in DOMAIN w \/ q \in s
             /\ \A q \in DOMAIN w : Shadowing(t, q)
             /\ \A p \in s : Shadowing(t, p)
             /\ \A q \in DOMAIN t : \A l \in q :
                  IF l \in UNION s THEN t[q][l] = r.id
                  ELSE \E q0 \in DOMAIN w : l \in q0 /\ t[q][l] = w[q0][l]
<1>1. IsFiniteSet(S) /\ S \in SUBSET Paths /\ r.id \in Ids
  BY WriteTreeAssumption DEF Records, Ids
<1>2. PICK f \in [SUBSET S -> Trees] :
        /\ f[{}] = w
        /\ \A s \in SUBSET S : s # {} =>
             \E p \in s : f[s] = AddWrite(f[s \ {p}], p, Node(p, r.id))
        /\ AddRecord(w, r) = f[S]
  BY AddRecordFolds
<1>3. Good({}, f[{}])
  <2>1. \A q \in DOMAIN w : Shadowing(w, q)
    BY DEF Shadowing
  <2> QED BY <1>2, <2>1
<1>4. ASSUME NEW s \in SUBSET S, NEW p \in s, f[s] = AddWrite(f[s \ {p}], p, Node(p, r.id)),
             Good(s \ {p}, f[s \ {p}])
      PROVE  Good(s, f[s])
  <2> DEFINE v == f[s \ {p}]
             x == f[s]
  <2>1. v \in Trees /\ p \in Paths /\ UNION s = p \cup UNION (s \ {p})
    BY <1>1, <1>2
  <2> HIDE DEF v, S
  <2>2. /\ Shadowing(v, p) => DOMAIN x = DOMAIN v
        /\ ~ Shadowing(v, p) => \A q : q \in DOMAIN x <=>
             q = p \/ (q \in DOMAIN v /\ ~ q \subseteq p)
        /\ \A q \in DOMAIN x : \A l \in q : x[q][l] = IF l \in p THEN r.id ELSE v[q][l]
    <3>1. x = AddWrite(v, p, Node(p, r.id))
      BY <1>4 DEF v
    <3> HIDE DEF x
    <3>2. v \in Trees /\ p \in Paths /\ r.id \in Ids
      BY <1>1, <2>1
    <3> QED BY <3>1, <3>2, AddWriteIs
  <2>3. Good(s \ {p}, v)
    BY <1>4 DEF v
  <2> HIDE DEF x
  <2>4. ASSUME NEW q0 \in DOMAIN v PROVE \E q \in DOMAIN x : q0 \subseteq q
    <3>1. CASE Shadowing(v, p)
      BY <2>2, <3>1
    <3>2. CASE ~ Shadowing(v, p)
      <4>1. CASE q0 \subseteq p
        BY <2>2, <3>2, <4>1
      <4>2. CASE ~ q0 \subseteq p
        BY <2>2, <3>2, <4>2
      <4> QED BY <4>1, <4>2
    <3> QED BY <3>1, <3>2
  <2>5. Shadowing(x, p)
    <3>1. CASE Shadowing(v, p)
      BY <2>2, <3>1 DEF Shadowing
    <3>2. CASE ~ Shadowing(v, p)
      <4>1. p \in DOMAIN x
        BY <2>2, <3>2
      <4> QED BY <4>1 DEF Shadowing
    <3> QED BY <3>1, <3>2
  <2>6. \A q \in DOMAIN x : q \in DOMAIN w \/ q \in s
    BY <2>2, <2>3
  <2>7. (\A q \in DOMAIN w : Shadowing(x, q)) /\ (\A q \in s : Shadowing(x, q))
    <3>1. ASSUME NEW q, Shadowing(v, q) PROVE Shadowing(x, q)
      <4>1. PICK q0 \in DOMAIN v : q \subseteq q0
        BY <3>1 DEF Shadowing
      <4>2. PICK q1 \in DOMAIN x : q0 \subseteq q1
        BY <2>4
      <4> QED BY <4>1, <4>2 DEF Shadowing
    <3> QED BY <2>3, <2>5, <3>1
  <2>8. ASSUME NEW q \in DOMAIN x, NEW l \in q
        PROVE  IF l \in UNION s THEN x[q][l] = r.id
               ELSE \E q0 \in DOMAIN w : l \in q0 /\ x[q][l] = w[q0][l]
    <3>1. CASE l \in p
      BY <2>1, <2>2, <3>1
    <3>2. CASE l \notin p
      <4>1. q \in DOMAIN v /\ x[q][l] = v[q][l]
        BY <2>2, <3>2
      <4>2. l \in UNION s <=> l \in UNION (s \ {p})
        BY <2>1, <3>2
      <4> QED BY <2>3, <4>1, <4>2
    <3> QED BY <3>1, <3>2
  <2>9. Good(s, x)
    BY <2>6, <2>7, <2>8
  <2> QED BY <2>9 DEF x
<1>5. Good(S, f[S])
  <2> DEFINE Bad == {s \in SUBSET S : ~ Good(s, f[s])}
  <2> SUFFICES ASSUME Bad # {} PROVE FALSE
    OBVIOUS
  <2>1. PICK s \in Bad : \A k \in Bad : k \subseteq s => k = s
    <3> Bad \in SUBSET SUBSET S
      OBVIOUS
    <3> HIDE DEF Bad, S
    <3> QED BY <1>1, SmallestSubset
  <2>2. s \in SUBSET S /\ ~ Good(s, f[s])
    OBVIOUS
  <2> HIDE DEF Good
  <2>3. s # {}
    BY <1>3, <2>2
  <2>4. PICK p \in s : f[s] = AddWrite(f[s \ {p}], p, Node(p, r.id))
    BY <1>2, <2>2, <2>3
  <2>5. s \ {p} \notin Bad /\ s \ {p} \in SUBSET S
    BY <2>1, <2>4
  <2>6. Good(s \ {p}, f[s \ {p}])
    BY <2>5
  <2> QED BY <1>4, <2>2, <2>4, <2>6
<1> QED BY <1>2, <1>5 DEF Area

\* The first of the records.
Prefix(records, n) == [i \in 1 .. n |-> records[i]]

\* A record more: the layers are still those of the records.
LEMMA AddRecordLayers ==
    ASSUME NEW n \in Nat, NEW records, DOMAIN records = 1 .. n + 1, records[n + 1] \in Records,
           NEW w \in Trees, LayersOf(w, Prefix(records, n))
    PROVE  LayersOf(AddRecord(w, records[n + 1]), records)
<1> DEFINE r == records[n + 1]
           u == AddRecord(w, r)
           old == Prefix(records, n)
<1>1. /\ u \in Trees
      /\ \A q \in DOMAIN u : q \in DOMAIN w \/ q \in r.at
      /\ \A q \in DOMAIN w : Shadowing(u, q)
      /\ \A p \in r.at : Shadowing(u, p)
      /\ \A q \in DOMAIN u : \A l \in q :
           IF l \in Area(r) THEN u[q][l] = r.id
           ELSE \E q0 \in DOMAIN w : l \in q0 /\ u[q][l] = w[q0][l]
  BY AddRecordIs
<1>2. DOMAIN old = 1 .. n /\ \A i \in 1 .. n : old[i] = records[i]
  BY DEF Prefix
<1> HIDE DEF u, old
<1>3. LayersOf(w, old)
  BY DEF old
<1>4. \A q \in DOMAIN u : \E i \in DOMAIN records : q \in records[i].at
  <2> SUFFICES ASSUME NEW q \in DOMAIN u
               PROVE  \E i \in DOMAIN records : q \in records[i].at
    OBVIOUS
  <2>1. CASE q \in r.at
    BY <2>1
  <2>2. CASE q \in DOMAIN w
    <3>1. PICK i \in DOMAIN old : q \in old[i].at
      BY <1>3, <2>2 DEF LayersOf
    <3> QED BY <1>2, <3>1
  <2> QED BY <1>1, <2>1, <2>2
<1>5. ASSUME NEW i \in DOMAIN records, NEW p \in records[i].at PROVE Shadowing(u, p)
  <2>1. CASE i = n + 1
    BY <1>1, <1>5, <2>1
  <2>2. CASE i # n + 1
    <3>1. Shadowing(w, p)
      BY <1>2, <1>3, <1>5, <2>2 DEF LayersOf
    <3> QED BY <1>1, <3>1 DEF Shadowing
  <2> QED BY <2>1, <2>2
<1>6. ASSUME NEW q \in DOMAIN u, NEW l \in q
      PROVE  \E i \in DOMAIN records : NewestAt(records, l, i) /\ u[q][l] = records[i].id
  <2>1. CASE l \in Area(r)
    <3>1. NewestAt(records, l, n + 1)
      BY <2>1 DEF NewestAt
    <3> QED BY <1>1, <1>6, <2>1, <3>1
  <2>2. CASE l \notin Area(r)
    <3>1. PICK q0 \in DOMAIN w : l \in q0 /\ u[q][l] = w[q0][l]
      BY <1>1, <1>6, <2>2
    <3>2. PICK i \in DOMAIN old : NewestAt(old, l, i) /\ w[q0][l] = old[i].id
      BY <1>3, <3>1 DEF LayersOf
    <3>3. NewestAt(records, l, i)
      BY <1>2, <2>2, <3>2 DEF NewestAt
    <3> QED BY <1>2, <3>1, <3>2, <3>3
  <2> QED BY <2>1, <2>2
<1>7. LayersOf(u, records)
  BY <1>4, <1>5, <1>6 DEF LayersOf
<1> QED BY <1>7 DEF u

\* Nothing is written yet.
LEMMA NoLayers ==
    /\ <<>> \in Trees
    /\ \A records : DOMAIN records = {} => LayersOf(<<>>, records)
<1>1. DOMAIN <<>> = {} /\ <<>> = [q \in DOMAIN <<>> |-> <<>>[q]]
  OBVIOUS
<1>2. <<>> \in Trees
  BY <1>1, TreesIs
<1> QED BY <1>1, <1>2 DEF LayersOf

\* Records layered anew are the layers of these records.
LEMMA LayeredIs ==
    ASSUME NEW records \in Seq(Records)
    PROVE  Layered(records) \in Trees /\ LayersOf(Layered(records), records)
<1> DEFINE n == Len(records)
           S == 1 .. n
           pick == [s \in SUBSET S |-> Max(s)]
           step == [iw \in S \X Trees |-> AddRecord(iw[2], records[iw[1]])]
           F(f) == [s \in SUBSET S |-> IF s = {} THEN <<>>
                      ELSE LET i == Max(s) IN AddRecord(f[s \ {i}], records[i])]
<1>1. n \in Nat /\ DOMAIN records = S /\ IsFiniteSet(S)
  BY FS_Interval
<1>2. ASSUME NEW i \in S, NEW w \in Trees
      PROVE  AddRecord(w, records[i]) \in Trees /\ step[<<i, w>>] = AddRecord(w, records[i])
  <2>1. records[i] \in Records
    OBVIOUS
  <2>2. AddRecord(w, records[i]) \in Trees
    BY <2>1, AddRecordIs
  <2> QED BY <2>2
<1>3. step \in [S \X Trees -> Trees]
  BY <1>2
<1>4. Picks(pick, S) /\ \A s \in SUBSET S : s # {} => pick[s] = Max(s) /\ pick[s] \in s
  <2> HIDE DEF n
  <2>1. \A s \in SUBSET S : s # {} => Max(s) \in s
    BY <1>1, MaxIsMember
  <2> QED BY <2>1 DEF Picks
<1>5. PICK f \in [SUBSET S -> Trees] : Unfolds(f, S, <<>>, pick, step)
  <2> HIDE DEF S, step, pick
  <2> QED BY <1>1, <1>3, <1>4, NoLayers, Recursion
<1>6. ASSUME NEW s \in SUBSET S, s # {}
      PROVE  f[s] = AddRecord(f[s \ {Max(s)}], records[Max(s)])
  <2>1. pick[s] = Max(s) /\ pick[s] \in S /\ s \ {pick[s]} \in SUBSET S
    BY <1>4, <1>6
  <2>2. f[s \ {pick[s]}] \in Trees
    BY <1>5, <2>1
  <2>3. f[s] = step[<<pick[s], f[s \ {pick[s]}]>>]
    <3> HIDE DEF S, step, pick
    <3> QED BY <1>5, <1>6 DEF Unfolds
  <2> HIDE DEF step, pick
  <2> QED BY <1>2, <2>1, <2>2, <2>3
<1>7. f[{}] = <<>>
  <2> HIDE DEF S, step, pick
  <2> QED BY <1>5 DEF Unfolds
<1>8. f = F(f)
  <2> DEFINE h == F(f)
  <2>0. h = F(f)
    OBVIOUS
  <2> HIDE DEF h
  <2>1. ASSUME NEW s \in SUBSET S PROVE f[s] = h[s]
    <3> DEFINE c == Max(s)
    <3>1. h[s] = IF s = {} THEN <<>> ELSE AddRecord(f[s \ {c}], records[c])
      BY <2>0, Zenon
    <3>2. s # {} => f[s] = AddRecord(f[s \ {c}], records[c])
      BY <1>6
    <3> HIDE DEF c, S
    <3> QED BY <1>7, <3>1, <3>2
  <2>2. DOMAIN f = SUBSET S /\ f = [s \in DOMAIN f |-> f[s]]
    BY <1>5
  <2>3. DOMAIN h = SUBSET S /\ h = [s \in DOMAIN h |-> h[s]]
    BY <2>0
  <2> HIDE DEF S
  <2> QED BY <2>0, <2>1, <2>2, <2>3
<1> DEFINE g == CHOOSE g : g = F(g)
<1>9. g = F(g)
  BY <1>8, Zenon
<1>10. Layered(records) = g[S]
  <2>1. Layered(records) = (CHOOSE x : x = [s \in SUBSET DOMAIN records |-> IF s = {} THEN <<>>
                      ELSE LET i == Max(s) IN AddRecord(x[s \ {i}], records[i])])[DOMAIN records]
    BY Zenon DEF Layered, FoldLeft, MapThenFoldSet
  <2> QED BY <1>1, <2>1, Zenon
<1>11. ASSUME NEW s \in SUBSET S
       PROVE  g[s] = IF s = {} THEN <<>> ELSE AddRecord(g[s \ {Max(s)}], records[Max(s)])
  <2> HIDE DEF g
  <2> QED BY <1>9, Zenon
<1> HIDE DEF g
<1>12. ASSUME NEW k \in 0 .. n
       PROVE  g[1 .. k] = f[1 .. k] /\ LayersOf(f[1 .. k], Prefix(records, k))
  <2> DEFINE Good(i) == g[1 .. i] = f[1 .. i] /\ LayersOf(f[1 .. i], Prefix(records, i))
             Bad == {i \in 0 .. n : ~ Good(i)}
  <2> SUFFICES ASSUME Bad # {} PROVE FALSE
    OBVIOUS
  <2>1. PICK i \in Bad : \A j \in Bad : i <= j
    <3> Bad \in SUBSET Nat
      BY <1>1
    <3> HIDE DEF Bad
    <3> QED BY LeastNumber
  <2>2. i \in 0 .. n /\ ~ Good(i)
    OBVIOUS
  <2>3. i # 0
    <3>1. 1 .. 0 = {} /\ DOMAIN Prefix(records, 0) = {}
      BY DEF Prefix
    <3>2. g[{}] = <<>>
      BY <1>11
    <3>3. LayersOf(f[{}], Prefix(records, 0))
      BY <1>7, <3>1, NoLayers
    <3> QED BY <1>7, <2>2, <3>1, <3>2, <3>3
  <2>4. i \in 1 .. n /\ i - 1 \in 0 .. n /\ i - 1 \notin Bad
    BY <1>1, <2>1, <2>2, <2>3
  <2>5. Good(i - 1)
    BY <2>4
  <2>6. /\ 1 .. i \in SUBSET S /\ 1 .. i # {} /\ Max(1 .. i) = i
        /\ (1 .. i) \ {i} = 1 .. i - 1 /\ 1 .. i - 1 \in SUBSET S
    BY <1>1, <2>4, MaxOfInterval
  <2>7. f[1 .. i] = AddRecord(f[1 .. i - 1], records[i])
        /\ g[1 .. i] = AddRecord(g[1 .. i - 1], records[i])
    BY <1>6, <1>11, <2>6
  <2>8. LayersOf(f[1 .. i], Prefix(records, i))
    <3> DEFINE p == Prefix(records, i)
               m == i - 1
    <3>1. DOMAIN p = 1 .. m + 1 /\ p[m + 1] = records[i] /\ records[i] \in Records /\ m \in Nat
      BY <1>1, <2>4 DEF Prefix
    <3>2. Prefix(p, m) = Prefix(records, m)
      BY <2>4 DEF Prefix
    <3>3. f[1 .. m] \in Trees /\ LayersOf(f[1 .. m], Prefix(p, m))
      BY <1>5, <2>5, <2>6, <3>2
    <3> HIDE DEF p
    <3>4. LayersOf(AddRecord(f[1 .. m], p[m + 1]), p)
      <4> HIDE DEF m
      <4> QED BY <3>1, <3>3, AddRecordLayers
    <3> QED BY <2>7, <3>1, <3>4 DEF p
  <2> QED BY <2>2, <2>5, <2>7, <2>8
<1>13. g[S] = f[S] /\ LayersOf(f[S], Prefix(records, n))
  BY <1>1, <1>12
<1>14. Prefix(records, n) = records
  BY <1>1 DEF Prefix
<1>15. f[S] \in Trees
  BY <1>5
<1> QED BY <1>10, <1>13, <1>14, <1>15

\* What is left of the layers without the entries of a record.
LEMMA RemovedIs ==
    ASSUME NEW r, IsFiniteSet(r.at), visibleWrites = [q \in DOMAIN visibleWrites |-> visibleWrites[q]]
    PROVE  /\ Removed(r) = [q \in DOMAIN Removed(r) |-> visibleWrites[q]]
           /\ \A q : q \in DOMAIN Removed(r) <=>
                q \in DOMAIN visibleWrites /\ \A p \in r.at : ~ q \subseteq p
<1> DEFINE S == r.at
           w == visibleWrites
           Left(s) == [q \in {q \in DOMAIN w : \A p \in s : ~ q \subseteq p} |-> w[q]]
           f == [s \in SUBSET S |-> Left(s)]
           F(x) == [s \in SUBSET S |-> IF s = {} THEN w
                      ELSE LET p == CHOOSE p \in s : TRUE IN RemoveWriteAtPath(x[s \ {p}], p)]
<1>1. ASSUME NEW s, NEW p \in s
      PROVE  Left(s) = RemoveWriteAtPath(Left(s \ {p}), p)
  <2> DEFINE D == {q \in DOMAIN w : \A k \in s : ~ q \subseteq k}
             v == Left(s \ {p})
  <2>1. D = DOMAIN v \ SUBSET p
    OBVIOUS
  <2>2. \A q \in D : v[q] = w[q]
    OBVIOUS
  <2>3. Left(s) = [q \in D |-> w[q]]
    OBVIOUS
  <2>4. RemoveWriteAtPath(v, p) = [q \in DOMAIN v \ SUBSET p |-> v[q]]
    BY DEF RemoveWriteAtPath, Without
  <2> HIDE DEF D, v, Left
  <2>5. Left(s) = RemoveWriteAtPath(v, p)
    BY <2>1, <2>2, <2>3, <2>4
  <2> QED BY <2>5 DEF v
<1>2. Left({}) = w
  <2>1. {q \in DOMAIN w : \A p \in {} : ~ q \subseteq p} = DOMAIN w
    OBVIOUS
  <2> QED BY <2>1
<1>3. \A s \in SUBSET S : f[s] = Left(s)
  OBVIOUS
<1> HIDE DEF Left
<1>4. f = F(f)
  <2> DEFINE h == F(f)
  <2>0. h = F(f)
    OBVIOUS
  <2> HIDE DEF h, S
  <2>1. ASSUME NEW s \in SUBSET S PROVE f[s] = h[s]
    <3> DEFINE c == CHOOSE p \in s : TRUE
    <3>1. h[s] = IF s = {} THEN w ELSE RemoveWriteAtPath(f[s \ {c}], c)
      BY <2>0, Zenon
    <3>2. s # {} => c \in s /\ s \ {c} \in SUBSET S
      OBVIOUS
    <3>3. s # {} => Left(s) = RemoveWriteAtPath(Left(s \ {c}), c)
      BY <1>1, <3>2
    <3> HIDE DEF c, f
    <3> QED BY <1>2, <1>3, <3>1, <3>2, <3>3
  <2>2. DOMAIN f = SUBSET S /\ f = [s \in DOMAIN f |-> f[s]]
    OBVIOUS
  <2>3. DOMAIN h = SUBSET S /\ h = [s \in DOMAIN h |-> h[s]]
    BY <2>0
  <2> HIDE DEF f
  <2>4. f = h
    BY <2>1, <2>2, <2>3
  <2> QED BY <2>0, <2>4
<1> DEFINE g == CHOOSE g : g = F(g)
<1>5. g = F(g)
  BY <1>4, Zenon
<1>6. Removed(r) = g[S]
  BY Zenon DEF Removed, FoldSet, MapThenFoldSet
<1>7. ASSUME NEW s \in SUBSET S, s # {}
      PROVE  \E p \in s : g[s] = RemoveWriteAtPath(g[s \ {p}], p)
  <2> DEFINE c == CHOOSE p \in s : TRUE
  <2> HIDE DEF g
  <2>1. g[s] = RemoveWriteAtPath(g[s \ {c}], c)
    BY <1>5, <1>7, Zenon
  <2>2. c \in s
    BY <1>7
  <2> QED BY <2>1, <2>2
<1>8. g[{}] = w
  <2> HIDE DEF g
  <2> QED BY <1>5, Zenon
<1> HIDE DEF g, f, S
<1>9. g[S] = Left(S)
  <2> DEFINE Differ == {s \in SUBSET S : g[s] # Left(s)}
  <2> SUFFICES ASSUME Differ # {} PROVE FALSE
    OBVIOUS
  <2>1. PICK s \in Differ : \A t \in Differ : t \subseteq s => t = s
    <3>1. Differ \in SUBSET SUBSET S /\ IsFiniteSet(S)
      BY DEF S
    <3> HIDE DEF Differ
    <3> QED BY <3>1, SmallestSubset
  <2>2. s # {}
    BY <1>2, <1>8
  <2>3. PICK p \in s : g[s] = RemoveWriteAtPath(g[s \ {p}], p)
    BY <1>7, <2>2
  <2>4. s \ {p} \notin Differ
    BY <2>1
  <2>5. g[s \ {p}] = Left(s \ {p})
    BY <2>4
  <2> QED BY <1>1, <2>3, <2>5
<1>10. Removed(r) = Left(r.at)
  BY <1>6, <1>9 DEF S
<1> QED BY <1>10 DEF Left

\* A leaf under the records has one value only.
LEMMA HoldsOnce ==
    ASSUME NEW records, DOMAIN records \in SUBSET Int, NEW l, NEW below, NEW a, NEW b,
           Holds(records, l, a, below), Holds(records, l, b, below)
    PROVE  a = b
<1>1. \A i, j \in DOMAIN records : NewestAt(records, l, i) /\ NewestAt(records, l, j) => i = j
  BY DEF NewestAt
<1>2. \A i \in DOMAIN records : NewestAt(records, l, i) => Covered(records, l)
  BY DEF NewestAt, Covered
<1> QED BY <1>1, <1>2 DEF Holds

\* What the records show of a node: of each leaf the newest of them that
\* writes it, or what is below them.
LEMMA ShownIs ==
    ASSUME NEW records, NEW n \in Nat, DOMAIN records = 1 .. n,
           NEW node, node = [l \in DOMAIN node |-> node[l]]
    PROVE  /\ Shown(records, node) = [l \in DOMAIN node |-> Shown(records, node)[l]]
           /\ \A l \in DOMAIN node : Holds(records, l, Shown(records, node)[l], node[l])
<1> DEFINE S == 1 .. n
           Writers(s, l) == {i \in s : l \in Area(records[i])}
           Top(s) == [l \in DOMAIN node |-> IF Writers(s, l) = {} THEN node[l]
                        ELSE records[Max(Writers(s, l))].id]
           f == [s \in SUBSET S |-> Top(s)]
           After(x, i) == Upon(Node(UNION records[i].at, records[i].id), x)
           F(x) == [s \in SUBSET S |-> IF s = {} THEN node
                      ELSE LET i == Max(s) IN After(x[s \ {i}], i)]
<1>1. ASSUME NEW s \in SUBSET S, s # {}
      PROVE  Max(s) \in s /\ \A y \in s : Max(s) >= y
  BY <1>1, MaxIsMember
<1>2. ASSUME NEW s \in SUBSET S, s # {}
      PROVE  Top(s) = After(Top(s \ {Max(s)}), Max(s))
  <2> DEFINE m == Max(s)
             v == Top(s \ {m})
             u == Top(s)
  <2>1. m \in s /\ \A y \in s : m >= y
    BY <1>1, <1>2
  <2>2. v = [l \in DOMAIN node |-> v[l]] /\ DOMAIN v = DOMAIN node
        /\ u = [l \in DOMAIN node |-> u[l]] /\ DOMAIN u = DOMAIN node
    OBVIOUS
  <2>3. After(v, m) = [l \in DOMAIN v |-> IF l \in Area(records[m]) THEN records[m].id ELSE v[l]]
    <3> HIDE DEF v, m
    <3> QED BY DEF Upon, Node, Area
  <2>4. ASSUME NEW l \in DOMAIN node, l \in Area(records[m]) PROVE u[l] = records[m].id
    <3> DEFINE c == Writers(s, l)
    <3>1. m \in c /\ c \in SUBSET S /\ c \subseteq s
      BY <2>1, <2>4
    <3>2. u[l] = IF c = {} THEN node[l] ELSE records[Max(c)].id
      OBVIOUS
    <3> HIDE DEF c, u, m
    <3>3. Max(c) \in c /\ Max(c) >= m
      BY <1>1, <3>1
    <3>4. m >= Max(c) /\ Max(c) \in Int /\ m \in Int
      BY <2>1, <3>1, <3>3
    <3>5. Max(c) = m
      BY <3>3, <3>4
    <3> QED BY <3>1, <3>2, <3>5
  <2>5. ASSUME NEW l \in DOMAIN node, l \notin Area(records[m]) PROVE u[l] = v[l]
    <3>1. Writers(s, l) = Writers(s \ {m}, l)
      <4> HIDE DEF m
      <4> QED BY <2>5
    <3>2. u[l] = IF Writers(s, l) = {} THEN node[l] ELSE records[Max(Writers(s, l))].id
      OBVIOUS
    <3>3. v[l] = IF Writers(s \ {m}, l) = {} THEN node[l] ELSE records[Max(Writers(s \ {m}, l))].id
      OBVIOUS
    <3> HIDE DEF Writers, u, v, m
    <3> QED BY <3>1, <3>2, <3>3
  <2> HIDE DEF u, v, m, After
  <2>6. u = After(v, m)
    BY <2>2, <2>3, <2>4, <2>5
  <2> QED BY <2>6 DEF u, v, m
<1>3. Top({}) = node
  <2>1. \A l : Writers({}, l) = {}
    OBVIOUS
  <2> HIDE DEF Writers
  <2> QED BY <2>1
<1>4. \A s \in SUBSET S : f[s] = Top(s)
  OBVIOUS
<1> HIDE DEF Top, After
<1>5. f = F(f)
  <2> DEFINE h == F(f)
  <2>0. h = F(f)
    OBVIOUS
  <2> HIDE DEF h, S
  <2>1. ASSUME NEW s \in SUBSET S PROVE f[s] = h[s]
    <3> DEFINE c == Max(s)
    <3>1. h[s] = IF s = {} THEN node ELSE After(f[s \ {c}], c)
      BY <2>0, Zenon
    <3>2. s # {} => s \ {c} \in SUBSET S
      OBVIOUS
    <3>3. s # {} => Top(s) = After(Top(s \ {c}), c)
      BY <1>2
    <3> HIDE DEF c, f
    <3> QED BY <1>3, <1>4, <3>1, <3>2, <3>3
  <2>2. DOMAIN f = SUBSET S /\ f = [s \in DOMAIN f |-> f[s]]
    OBVIOUS
  <2>3. DOMAIN h = SUBSET S /\ h = [s \in DOMAIN h |-> h[s]]
    BY <2>0
  <2> HIDE DEF f
  <2>4. f = h
    BY <2>1, <2>2, <2>3
  <2> QED BY <2>0, <2>4
<1> DEFINE g == CHOOSE g : g = F(g)
<1>6. g = F(g)
  BY <1>5, Zenon
<1>7. Shown(records, node) = g[S]
  <2>1. Shown(records, node) = (CHOOSE x : x = [s \in SUBSET DOMAIN records |-> IF s = {} THEN node
                      ELSE LET i == Max(s) IN After(x[s \ {i}], i)])[DOMAIN records]
    BY Zenon DEF Shown, FoldLeft, MapThenFoldSet, After
  <2> QED BY <2>1, Zenon
<1>8. ASSUME NEW s \in SUBSET S, s # {}
      PROVE  g[s] = After(g[s \ {Max(s)}], Max(s))
  <2> HIDE DEF g
  <2> QED BY <1>6, <1>8, Zenon
<1>9. g[{}] = node
  <2> HIDE DEF g
  <2> QED BY <1>6, Zenon
<1>10. IsFiniteSet(S)
  BY FS_Interval
<1> HIDE DEF g, f, S
<1>11. g[S] = Top(S)
  <2> DEFINE Differ == {s \in SUBSET S : g[s] # Top(s)}
  <2> SUFFICES ASSUME Differ # {} PROVE FALSE
    OBVIOUS
  <2>1. PICK s \in Differ : \A t \in Differ : t \subseteq s => t = s
    <3>1. Differ \in SUBSET SUBSET S
      OBVIOUS
    <3> HIDE DEF Differ
    <3> QED BY <1>10, <3>1, SmallestSubset
  <2>2. s # {} /\ s \in SUBSET S
    BY <1>3, <1>9
  <2>3. s \ {Max(s)} \notin Differ
    BY <1>1, <2>1, <2>2
  <2>4. g[s \ {Max(s)}] = Top(s \ {Max(s)})
    BY <2>2, <2>3
  <2> QED BY <1>2, <1>8, <2>2, <2>4
<1>12. Shown(records, node) = Top(S)
  BY <1>7, <1>11
<1>13. ASSUME NEW l \in DOMAIN node PROVE Holds(records, l, Top(S)[l], node[l])
  <2> DEFINE c == Writers(S, l)
  <2>0. Top(S)[l] = IF c = {} THEN node[l] ELSE records[Max(c)].id
    BY DEF Top
  <2>1. CASE c = {}
    <3>1. ~ Covered(records, l)
      BY <2>1 DEF Covered, S
    <3> HIDE DEF c
    <3> QED BY <2>0, <2>1, <3>1 DEF Holds
  <2>2. CASE c # {}
    <3>1. c \in SUBSET S
      OBVIOUS
    <3>2. Max(c) \in c /\ \A y \in c : Max(c) >= y
      <4> HIDE DEF c
      <4> QED BY <1>1, <2>2, <3>1
    <3> DEFINE m == Max(c)
    <3>3. \A i : i \in c <=> i \in DOMAIN records /\ l \in Area(records[i])
      BY DEF S
    <3>4. m \in c /\ \A y \in c : m >= y
      BY <3>2
    <3> HIDE DEF c, m
    <3>5. NewestAt(records, l, m) /\ m \in DOMAIN records
      BY <3>3, <3>4 DEF NewestAt
    <3> USE DEF m
    <3> QED BY <2>0, <2>2, <3>5 DEF Holds
  <2> QED BY <2>1, <2>2
<1>14. Top(S) = [l \in DOMAIN node |-> Top(S)[l]]
  BY DEF Top
<1> QED BY <1>12, <1>13, <1>14

-----------------------------------------------------------------------------
(* What a leaf holds, as records come and go.                              *)

LEMMA RecordIs ==
    ASSUME NEW r \in Records
    PROVE  /\ r.id \in Ids /\ r.id \in Int /\ r.path \in Paths /\ r.path \subseteq Root
           /\ r.at \subseteq Paths /\ IsFiniteSet(r.at)
           /\ Area(r) \subseteq r.path /\ Area(r) \subseteq Root
           /\ \A p \in r.at : p \subseteq r.path
           /\ [path |-> r.path, at |-> r.at] \in Shapes
<1>1. /\ r.id \in Ids /\ r.path \in Paths /\ r.at \subseteq Paths
      /\ [path |-> r.path, at |-> r.at] \in Shapes
  BY DEF Records, Ids
<1>2. IsFiniteSet(r.at) /\ \A p \in r.at : p \subseteq r.path
  BY <1>1, WriteTreeAssumption
<1>3. r.path \subseteq Root /\ r.id \in Int
  BY <1>1 DEF Root, Ids
<1> QED BY <1>1, <1>2, <1>3 DEF Area

\* A record more is the newest where it writes.
LEMMA HoldsAppend ==
    ASSUME NEW s \in Seq(Records), NEW r \in Records, NEW l, NEW v, NEW below,
           Holds(s, l, v, below)
    PROVE  Holds(Append(s, r), l, IF l \in Area(r) THEN r.id ELSE v, below)
<1> DEFINE t == Append(s, r)
           n == Len(s)
<1>1. /\ n \in Nat /\ DOMAIN s = 1 .. n /\ DOMAIN t = 1 .. n + 1
      /\ t[n + 1] = r /\ \A i \in 1 .. n : t[i] = s[i]
  OBVIOUS
<1> HIDE DEF t, n
<1>2. CASE l \in Area(r)
  <2>1. NewestAt(t, l, n + 1)
    BY <1>1, <1>2 DEF NewestAt
  <2>2. n + 1 \in DOMAIN t
    BY <1>1
  <2> QED BY <1>1, <1>2, <2>1, <2>2 DEF Holds, t
<1>3. CASE l \notin Area(r)
  <2>1. \A i \in DOMAIN s : NewestAt(s, l, i) => NewestAt(t, l, i)
    BY <1>1, <1>3 DEF NewestAt
  <2>2. Covered(t, l) => Covered(s, l)
    BY <1>1, <1>3 DEF Covered
  <2>3. DOMAIN s \subseteq DOMAIN t
    BY <1>1
  <2> QED BY <1>1, <1>3, <2>1, <2>2, <2>3 DEF Holds, t
<1> QED BY <1>2, <1>3

\* The first record is what it writes as long as no other covers it.
LEMMA NewestOfRest ==
    ASSUME NEW s \in Seq(Records), s # <<>>, NEW l
    PROVE  /\ \A i \in DOMAIN s : NewestAt(s, l, i) /\ i # 1 =>
                i - 1 \in DOMAIN Tail(s) /\ NewestAt(Tail(s), l, i - 1)
                /\ s[i] = Tail(s)[i - 1]
           /\ Covered(Tail(s), l) => ~ NewestAt(s, l, 1)
           /\ Covered(s, l) <=> l \in Area(s[1]) \/ Covered(Tail(s), l)
<1> DEFINE t == Tail(s)
           n == Len(s)
<1>1. /\ n \in Nat /\ n # 0 /\ DOMAIN s = 1 .. n /\ DOMAIN t = 1 .. n - 1
      /\ \A i \in 1 .. n - 1 : t[i] = s[i + 1]
  OBVIOUS
<1> HIDE DEF t, n
<1>2. \A i \in DOMAIN t : i \in Int /\ i + 1 \in DOMAIN s /\ i + 1 > 1 /\ t[i] = s[i + 1]
  BY <1>1
<1>3. \A i \in DOMAIN s : i \in Int /\ (i # 1 =>
        i - 1 \in DOMAIN t /\ s[i] = t[i - 1])
  BY <1>1
<1>4. ASSUME NEW i \in DOMAIN s, NewestAt(s, l, i), i # 1
      PROVE  i - 1 \in DOMAIN t /\ NewestAt(t, l, i - 1) /\ s[i] = t[i - 1]
  <2>1. ASSUME NEW j \in DOMAIN t, j > i - 1 PROVE l \notin Area(t[j])
    <3>1. j + 1 \in DOMAIN s /\ j + 1 > i /\ t[j] = s[j + 1]
      BY <1>2, <1>3, <2>1
    <3> QED BY <1>4, <3>1 DEF NewestAt
  <2>2. i - 1 \in DOMAIN t /\ s[i] = t[i - 1]
    BY <1>3, <1>4
  <2> QED BY <1>4, <2>1, <2>2 DEF NewestAt
<1>5. Covered(t, l) => ~ NewestAt(s, l, 1)
  BY <1>2 DEF Covered, NewestAt
<1>6. Covered(s, l) <=> l \in Area(s[1]) \/ Covered(t, l)
  <2>1. 1 \in DOMAIN s
    BY <1>1
  <2> QED BY <1>2, <1>3, <2>1 DEF Covered
<1> QED BY <1>4, <1>5, <1>6 DEF t

\* Without the first record a leaf that another covers, or that the first
\* does not write, holds what it held; any other held the id of the first.
LEMMA HoldsTail ==
    ASSUME NEW s \in Seq(Records), s # <<>>, NEW l, NEW v, NEW below, Holds(s, l, v, below)
    PROVE  /\ Covered(Tail(s), l) \/ l \notin Area(s[1]) => Holds(Tail(s), l, v, below)
           /\ ~ Covered(Tail(s), l) /\ l \in Area(s[1]) => v = s[1].id
<1> DEFINE t == Tail(s)
<1>1. /\ \A i \in DOMAIN s : NewestAt(s, l, i) /\ i # 1 =>
           i - 1 \in DOMAIN t /\ NewestAt(t, l, i - 1) /\ s[i] = t[i - 1]
      /\ Covered(t, l) => ~ NewestAt(s, l, 1)
      /\ Covered(s, l) <=> l \in Area(s[1]) \/ Covered(t, l)
  BY NewestOfRest
<1>2. \A i \in DOMAIN t : NewestAt(t, l, i) => Covered(t, l)
  BY DEF NewestAt, Covered
<1>3. \A i : NewestAt(s, l, i) => l \in Area(s[i])
  BY DEF NewestAt
<1> HIDE DEF t
<1>4. CASE ~ Covered(s, l)
  BY <1>1, <1>4 DEF Holds, t, NewestAt, Covered
<1>5. CASE Covered(s, l)
  <2>1. PICK i \in DOMAIN s : NewestAt(s, l, i) /\ v = s[i].id
    BY <1>5 DEF Holds
  <2>2. CASE i = 1
    BY <1>1, <1>3, <2>1, <2>2 DEF t
  <2>3. CASE i # 1
    <3>1. i - 1 \in DOMAIN t /\ NewestAt(t, l, i - 1) /\ v = t[i - 1].id
      BY <1>1, <2>1, <2>3
    <3>2. Holds(t, l, v, below) /\ Covered(t, l)
      BY <1>2, <3>1 DEF Holds
    <3> QED BY <3>2 DEF t
  <2> QED BY <2>2, <2>3
<1> QED BY <1>4, <1>5

\* What is under a record does not matter.
LEMMA HoldsOver ==
    ASSUME NEW s, NEW l, NEW v, NEW below, NEW other, Holds(s, l, v, below), Covered(s, l)
    PROVE  Holds(s, l, v, other)
BY DEF Holds

\* A leaf of an entry is covered by a record, and one of a record is in an entry.
LEMMA LayersCover ==
    ASSUME NEW w, NEW records, LayersOf(w, records), NEW l
    PROVE  /\ \A p : Shadowing(w, p) /\ l \in p => Covered(records, l)
           /\ Covered(records, l) => Shadowing(w, {l})
<1>1. ASSUME NEW p, Shadowing(w, p), l \in p PROVE Covered(records, l)
  <2>1. PICK q \in DOMAIN w : l \in q
    BY <1>1 DEF Shadowing
  <2> QED BY <2>1 DEF LayersOf, Covered, Area
<1>2. ASSUME Covered(records, l) PROVE Shadowing(w, {l})
  <2>1. PICK i \in DOMAIN records : l \in Area(records[i])
    BY <1>2 DEF Covered
  <2>2. PICK p \in records[i].at : l \in p
    BY <2>1 DEF Area
  <2>3. Shadowing(w, p)
    BY DEF LayersOf
  <2> QED BY <2>2, <2>3 DEF Shadowing
<1> QED BY <1>1, <1>2

\* The layers on top of a node are the records on top of it.
LEMMA ApplyToHolds ==
    ASSUME NEW w, NEW records, LayersOf(w, records), NEW node, NEW l \in DOMAIN node
    PROVE  Holds(records, l, ApplyTo(w, node)[l], node[l])
<1>1. CASE Shadowing(w, {l})
  <2> DEFINE q == CHOOSE q \in DOMAIN w : l \in q
  <2>1. \E k \in DOMAIN w : l \in k
    BY <1>1 DEF Shadowing
  <2>2. q \in DOMAIN w /\ l \in q
    BY <2>1
  <2>3. ApplyTo(w, node)[l] = w[q][l]
    BY <1>1 DEF ApplyTo
  <2> HIDE DEF q
  <2> QED BY <2>2, <2>3 DEF LayersOf, Holds
<1>2. CASE ~ Shadowing(w, {l})
  <2>1. ApplyTo(w, node)[l] = node[l] /\ ~ Covered(records, l)
    BY <1>2, LayersCover DEF ApplyTo
  <2> QED BY <2>1 DEF Holds
<1> QED BY <1>1, <1>2

\* The view brought up to date: every leaf holds what it should when those
\* that did not are in a zone, and were only wrong about what is not covered.
LEMMA ShownAfterHolds ==
    ASSUME NEW w, NEW records, LayersOf(w, records), NEW cache, DOMAIN cache = Root, NEW zones,
           NEW l \in Root,
           \/ Holds(records, l, eventCache[l], cache[l])
           \/ (\E z \in zones : l \in z)
              /\ (Covered(records, l) => Holds(records, l, eventCache[l], cache[l]))
    PROVE  Holds(records, l, ShownAfter(w, cache, zones)[l], cache[l])
<1>1. CASE \E z \in zones : l \in z /\ ~ Shadowing(w, z)
  BY <1>1, ApplyToHolds DEF ShownAfter
<1>2. CASE ~ \E z \in zones : l \in z /\ ~ Shadowing(w, z)
  <2>1. ShownAfter(w, cache, zones)[l] = eventCache[l]
    BY <1>2 DEF ShownAfter
  <2>2. (\E z \in zones : l \in z) => Covered(records, l)
    BY <1>2, LayersCover
  <2> QED BY <2>1, <2>2
<1> QED BY <1>1, <1>2

\* What a leaf holds is a value.
LEMMA HoldsValue ==
    ASSUME NEW s \in Seq(Records), NEW l, NEW v, NEW below \in Values, Holds(s, l, v, below)
    PROVE  v \in Values
<1>1. \A i \in DOMAIN s : s[i].id \in Values
  <2>1. \A i \in DOMAIN s : s[i] \in Records
    OBVIOUS
  <2>2. Ids \subseteq Values
    BY WriteTreeAssumption DEF Ids, Values
  <2> QED BY <2>1, <2>2, RecordIs
<1> QED BY <1>1 DEF Holds

-----------------------------------------------------------------------------
(* What is on its way to the client, a message more or less.               *)

LEMMA MessageAppend ==
    ASSUME NEW s \in Seq(Messages), NEW m \in Messages
    PROVE  /\ Append(s, m) \in Seq(Messages) /\ Len(s) \in Nat
           /\ DOMAIN s = 1 .. Len(s) /\ DOMAIN Append(s, m) = 1 .. Len(s) + 1
           /\ Append(s, m)[Len(s) + 1] = m
           /\ \A i \in DOMAIN s : Append(s, m)[i] = s[i]
  OBVIOUS

LEMMA MessageTail ==
    ASSUME NEW s \in Seq(Messages), s # <<>>
    PROVE  /\ Tail(s) \in Seq(Messages) /\ Len(s) \in Nat \ {0}
           /\ DOMAIN s = 1 .. Len(s) /\ DOMAIN Tail(s) = 1 .. Len(s) - 1
           /\ Head(s) = s[1] /\ s[1] \in Messages
           /\ \A i \in DOMAIN Tail(s) : Tail(s)[i] = s[i + 1] /\ i + 1 \in DOMAIN s
  OBVIOUS

\* Data is no answer.
LEMMA AnswersAppendData ==
    ASSUME NEW s \in Seq(Messages), NEW m \in Messages, m.type = "data",
           NEW records \in Seq(Records), NEW last \in Int, AnswersIn(s, records, last)
    PROVE  AnswersIn(Append(s, m), records, last)
<1> DEFINE t == Append(s, m)
           n == Len(s)
<1>1. /\ n \in Nat /\ DOMAIN s = 1 .. n /\ DOMAIN t = 1 .. n + 1
      /\ t[n + 1] = m /\ \A i \in DOMAIN s : t[i] = s[i]
  BY MessageAppend
<1> HIDE DEF t, n
<1>2. \A i \in DOMAIN t : \A r : IsAnswer(t, i, r) <=> i \in DOMAIN s /\ IsAnswer(s, i, r)
  BY <1>1 DEF IsAnswer
<1>3. \A j \in DOMAIN records :
        records[j].id <= last <=> \E i \in DOMAIN t : IsAnswer(t, i, records[j])
  BY <1>1, <1>2 DEF AnswersIn
<1>4. \A i, k \in DOMAIN t : \A j \in DOMAIN records :
        IsAnswer(t, i, records[j]) /\ IsAnswer(t, k, records[j]) => i = k
  BY <1>2 DEF AnswersIn
<1>5. ASSUME NEW i \in DOMAIN t, NEW j \in DOMAIN records, IsAnswer(t, i, records[j]), j > 1
      PROVE  \E k \in 1 .. i - 1 : IsAnswer(t, k, records[j - 1])
  <2>1. i \in DOMAIN s /\ IsAnswer(s, i, records[j])
    BY <1>2, <1>5
  <2>2. PICK k \in 1 .. i - 1 : IsAnswer(s, k, records[j - 1])
    BY <1>5, <2>1 DEF AnswersIn
  <2>3. k \in DOMAIN s /\ k \in DOMAIN t
    BY <1>1, <2>1, <2>2
  <2> QED BY <1>2, <2>2, <2>3
<1>6. AnswersIn(t, records, last)
  BY <1>3, <1>4, <1>5 DEF AnswersIn
<1> QED BY <1>6 DEF t

\* The oldest write that is not judged is answered next.
LEMMA AnswersAppendJudgement ==
    ASSUME NEW s \in Seq(Messages), NEW records \in Seq(Records), NEW last \in Int,
           AnswersIn(s, records, last),
           \A i, j \in DOMAIN records : i < j => records[i].id < records[j].id,
           NEW k \in DOMAIN records, records[k].id > last,
           \A j \in DOMAIN records : j < k => records[j].id <= last,
           NEW m \in Messages, m.type = "answer", m.write = records[k]
    PROVE  AnswersIn(Append(s, m), records, records[k].id)
<1> DEFINE t == Append(s, m)
           n == Len(s)
<1>1. /\ n \in Nat /\ DOMAIN s = 1 .. n /\ DOMAIN t = 1 .. n + 1
      /\ t[n + 1] = m /\ \A i \in DOMAIN s : t[i] = s[i]
  BY MessageAppend
<1>2. \A j \in DOMAIN records : j \in Int /\ records[j].id \in Int
  <2>1. \A j \in DOMAIN records : j \in Int /\ records[j] \in Records
    OBVIOUS
  <2> QED BY <2>1, RecordIs
<1>3. DOMAIN records = 1 .. Len(records) /\ Len(records) \in Nat
  OBVIOUS
<1>4. \A j \in DOMAIN records : j # k => records[j].id # records[k].id
       /\ (records[j].id <= records[k].id => records[j].id <= last)
  <2>1. ASSUME NEW j \in DOMAIN records, j < k
        PROVE  records[j].id # records[k].id /\ records[j].id <= last
    BY <1>2, <2>1
  <2>2. ASSUME NEW j \in DOMAIN records, k < j
        PROVE  records[j].id # records[k].id /\ ~ records[j].id <= records[k].id
    <3>1. records[k].id < records[j].id
      BY <2>2
    <3> QED BY <1>2, <3>1
  <2> QED BY <1>2, <2>1, <2>2
<1> HIDE DEF t, n
<1>5. \A i \in DOMAIN s : \A r : IsAnswer(t, i, r) <=> IsAnswer(s, i, r)
  BY <1>1 DEF IsAnswer
<1>6. \A j \in DOMAIN records : IsAnswer(t, n + 1, records[j]) <=> j = k
  <2>1. ASSUME NEW j \in DOMAIN records, IsAnswer(t, n + 1, records[j]) PROVE j = k
    <3>1. records[j] = records[k]
      BY <1>1, <2>1 DEF IsAnswer
    <3> QED BY <1>4, <3>1
  <2>2. IsAnswer(t, n + 1, records[k])
    BY <1>1 DEF IsAnswer
  <2> QED BY <2>1, <2>2
<1>7. \A j \in DOMAIN records : records[j].id <= records[k].id <=> j = k \/ records[j].id <= last
  BY <1>2, <1>4
<1>8. ASSUME NEW j \in DOMAIN records
      PROVE  records[j].id <= records[k].id <=> \E i \in DOMAIN t : IsAnswer(t, i, records[j])
  <2>1. records[j].id <= last <=> \E i \in DOMAIN s : IsAnswer(t, i, records[j])
    BY <1>5 DEF AnswersIn
  <2> QED BY <1>1, <1>6, <1>7, <2>1
<1>9. ASSUME NEW i \in DOMAIN t, NEW i2 \in DOMAIN t, NEW j \in DOMAIN records,
             IsAnswer(t, i, records[j]), IsAnswer(t, i2, records[j])
      PROVE  i = i2
  <2>1. ~ \E h \in DOMAIN s : IsAnswer(s, h, records[k])
    <3>1. ~ records[k].id <= last
      BY <1>2
    <3> QED BY <3>1 DEF AnswersIn
  <2>2. CASE j = k
    <3>1. i \notin DOMAIN s /\ i2 \notin DOMAIN s
      BY <1>5, <1>9, <2>1, <2>2
    <3> QED BY <1>1, <3>1
  <2>3. CASE j # k
    <3>1. i # n + 1 /\ i2 # n + 1
      BY <1>6, <1>9, <2>3
    <3>2. i \in DOMAIN s /\ i2 \in DOMAIN s
      BY <1>1, <3>1
    <3>3. IsAnswer(s, i, records[j]) /\ IsAnswer(s, i2, records[j])
      BY <1>5, <1>9, <3>2
    <3> QED BY <3>2, <3>3 DEF AnswersIn
  <2> QED BY <2>2, <2>3
<1>10. ASSUME NEW i \in DOMAIN t, NEW j \in DOMAIN records, IsAnswer(t, i, records[j]), j > 1
      PROVE  \E h \in 1 .. i - 1 : IsAnswer(t, h, records[j - 1])
  <2>1. j - 1 \in DOMAIN records /\ j - 1 < j
    BY <1>3, <1>10
  <2>2. CASE i = n + 1
    <3>1. j = k
      BY <1>6, <1>10, <2>2
    <3>2. PICK h \in DOMAIN s : IsAnswer(s, h, records[j - 1])
      BY <2>1, <3>1 DEF AnswersIn
    <3> QED BY <1>1, <1>5, <2>2, <3>2
  <2>3. CASE i # n + 1
    <3>1. i \in DOMAIN s /\ IsAnswer(s, i, records[j])
      BY <1>1, <1>5, <1>10, <2>3
    <3>2. PICK h \in 1 .. i - 1 : IsAnswer(s, h, records[j - 1])
      BY <1>10, <3>1 DEF AnswersIn
    <3>3. h \in DOMAIN s
      BY <1>1, <3>1, <3>2
    <3> QED BY <1>5, <3>2, <3>3
  <2> QED BY <2>2, <2>3
<1>11. AnswersIn(t, records, records[k].id)
  BY <1>8, <1>9, <1>10 DEF AnswersIn
<1> QED BY <1>11 DEF t

LEMMA AnswersTailData ==
    ASSUME NEW s \in Seq(Messages), s # <<>>, Head(s).type = "data",
           NEW records \in Seq(Records), NEW last \in Int, AnswersIn(s, records, last)
    PROVE  AnswersIn(Tail(s), records, last)
<1> DEFINE t == Tail(s)
           n == Len(s)
<1>1. /\ n \in Nat \ {0} /\ DOMAIN s = 1 .. n /\ DOMAIN t = 1 .. n - 1 /\ s[1].type = "data"
      /\ \A i \in DOMAIN t : t[i] = s[i + 1] /\ i + 1 \in DOMAIN s
  BY MessageTail
<1> HIDE DEF t, n
<1>2. \A r : ~ IsAnswer(s, 1, r) /\ \A i \in DOMAIN t : IsAnswer(t, i, r) <=> IsAnswer(s, i + 1, r)
  BY <1>1 DEF IsAnswer
<1>3. ASSUME NEW j \in DOMAIN records
      PROVE  records[j].id <= last <=> \E i \in DOMAIN t : IsAnswer(t, i, records[j])
  <2>1. ASSUME NEW i \in DOMAIN s, IsAnswer(s, i, records[j])
        PROVE  \E h \in DOMAIN t : IsAnswer(t, h, records[j])
    <3>1. i # 1
      BY <1>2, <2>1
    <3>2. i - 1 \in DOMAIN t /\ (i - 1) + 1 = i
      BY <1>1, <3>1
    <3> QED BY <1>2, <2>1, <3>2
  <2> QED BY <1>1, <1>2, <2>1 DEF AnswersIn
<1>4. ASSUME NEW i \in DOMAIN t, NEW k \in DOMAIN t, NEW j \in DOMAIN records,
             IsAnswer(t, i, records[j]), IsAnswer(t, k, records[j])
      PROVE  i = k
  <2>1. i + 1 = k + 1
    BY <1>1, <1>2, <1>4 DEF AnswersIn
  <2> QED BY <1>1, <2>1
<1>5. ASSUME NEW i \in DOMAIN t, NEW j \in DOMAIN records, IsAnswer(t, i, records[j]), j > 1
      PROVE  \E h \in 1 .. i - 1 : IsAnswer(t, h, records[j - 1])
  <2>1. PICK h \in 1 .. (i + 1) - 1 : IsAnswer(s, h, records[j - 1])
    BY <1>1, <1>2, <1>5 DEF AnswersIn
  <2>2. h # 1
    BY <1>2, <2>1
  <2>3. h - 1 \in 1 .. i - 1 /\ h - 1 \in DOMAIN t /\ (h - 1) + 1 = h
    BY <1>1, <2>1, <2>2
  <2> QED BY <1>2, <2>1, <2>3
<1>6. AnswersIn(t, records, last)
  BY <1>3, <1>4, <1>5 DEF AnswersIn
<1> QED BY <1>6 DEF t

\* The first answer on its way is about the oldest write.
LEMMA AnswersFirst ==
    ASSUME NEW s \in Seq(Messages), s # <<>>, Head(s).type = "answer",
           NEW records \in Seq(Records), NEW last \in Int, AnswersIn(s, records, last),
           \E j \in DOMAIN records : Head(s).write = records[j]
    PROVE  records # <<>> /\ Head(s).write = Head(records) /\ IsAnswer(s, 1, records[1])
<1>1. PICK j \in DOMAIN records : Head(s).write = records[j]
  OBVIOUS
<1>2. 1 \in DOMAIN s /\ Head(s) = s[1]
  BY MessageTail
<1>3. IsAnswer(s, 1, records[j])
  BY <1>1, <1>2 DEF IsAnswer
<1>4. 1 .. 1 - 1 = {} /\ j \in Nat \ {0}
  OBVIOUS
<1>5. ~ j > 1
  BY <1>2, <1>3, <1>4 DEF AnswersIn
<1>6. j = 1
  BY <1>4, <1>5
<1> QED BY <1>1, <1>3, <1>6

\* With its answer the oldest write leaves.
LEMMA AnswersTailAnswer ==
    ASSUME NEW s \in Seq(Messages), s # <<>>,
           NEW records \in Seq(Records), records # <<>>, NEW last \in Int,
           AnswersIn(s, records, last), IsAnswer(s, 1, records[1]),
           \A i, j \in DOMAIN records : i < j => records[i].id < records[j].id
    PROVE  /\ AnswersIn(Tail(s), Tail(records), last)
           /\ \A i \in DOMAIN Tail(s) : ~ IsAnswer(Tail(s), i, records[1])
<1> DEFINE t == Tail(s)
           n == Len(s)
           rest == Tail(records)
<1>1. /\ n \in Nat \ {0} /\ DOMAIN s = 1 .. n /\ DOMAIN t = 1 .. n - 1
      /\ \A i \in DOMAIN t : t[i] = s[i + 1] /\ i + 1 \in DOMAIN s
  BY MessageTail
<1>2. \A j \in DOMAIN records : records[j].id \in Int
  <2>1. \A j \in DOMAIN records : records[j] \in Records
    OBVIOUS
  <2> QED BY <2>1, RecordIs
<1>3. /\ DOMAIN records = 1 .. Len(records) /\ Len(records) \in Nat \ {0}
      /\ DOMAIN rest = 1 .. Len(records) - 1
      /\ \A j \in DOMAIN rest : rest[j] = records[j + 1] /\ j + 1 \in DOMAIN records /\ j \in Nat \ {0}
  OBVIOUS
<1> HIDE DEF t, n, rest
<1>4. \A r : \A i \in DOMAIN t : IsAnswer(t, i, r) <=> IsAnswer(s, i + 1, r)
  BY <1>1 DEF IsAnswer
<1>5. \A j \in DOMAIN rest : ~ IsAnswer(s, 1, rest[j])
  <2>1. ASSUME NEW j \in DOMAIN rest, IsAnswer(s, 1, rest[j]) PROVE FALSE
    <3>1. records[1] = records[j + 1]
      BY <1>3, <2>1 DEF IsAnswer
    <3>2. records[1].id < records[j + 1].id
      BY <1>3
    <3> QED BY <1>2, <1>3, <3>1, <3>2
  <2> QED BY <2>1
<1>6. ASSUME NEW j \in DOMAIN rest
      PROVE  rest[j].id <= last <=> \E i \in DOMAIN t : IsAnswer(t, i, rest[j])
  <2>1. ASSUME NEW i \in DOMAIN s, IsAnswer(s, i, rest[j])
        PROVE  \E h \in DOMAIN t : IsAnswer(t, h, rest[j])
    <3>1. i # 1
      BY <1>5, <2>1
    <3>2. i - 1 \in DOMAIN t /\ (i - 1) + 1 = i
      BY <1>1, <3>1
    <3> QED BY <1>4, <2>1, <3>2
  <2>2. rest[j].id <= last <=> \E i \in DOMAIN s : IsAnswer(s, i, rest[j])
    BY <1>3 DEF AnswersIn
  <2> QED BY <1>1, <1>4, <2>1, <2>2
<1>7. ASSUME NEW i \in DOMAIN t, NEW k \in DOMAIN t, NEW j \in DOMAIN rest,
             IsAnswer(t, i, rest[j]), IsAnswer(t, k, rest[j])
      PROVE  i = k
  <2>1. i + 1 = k + 1
    BY <1>1, <1>3, <1>4, <1>7 DEF AnswersIn
  <2> QED BY <1>1, <2>1
<1>8. ASSUME NEW i \in DOMAIN t, NEW j \in DOMAIN rest, IsAnswer(t, i, rest[j]), j > 1
      PROVE  \E h \in 1 .. i - 1 : IsAnswer(t, h, rest[j - 1])
  <2>1. /\ j - 1 \in DOMAIN rest /\ rest[j - 1] = records[j] /\ j + 1 \in DOMAIN records
        /\ j + 1 > 1 /\ (j + 1) - 1 = j /\ rest[j] = records[j + 1]
    <3>1. j \in Nat \ {0} /\ j - 1 \in DOMAIN rest
      BY <1>3, <1>8
    <3>2. rest[j - 1] = records[(j - 1) + 1]
      BY <1>3, <3>1
    <3>3. (j - 1) + 1 = j /\ (j + 1) - 1 = j /\ j + 1 > 1
      <4>1. j \in Int /\ j > 0
        BY <3>1
      <4> QED BY <4>1, SMTT(30)
    <3> QED BY <1>3, <3>1, <3>2, <3>3
  <2>2. IsAnswer(s, i + 1, records[j + 1]) /\ i + 1 \in DOMAIN s
    BY <1>1, <1>4, <1>8, <2>1
  <2>3. PICK h \in 1 .. (i + 1) - 1 : IsAnswer(s, h, records[(j + 1) - 1])
    BY <2>1, <2>2 DEF AnswersIn
  <2>4. IsAnswer(s, h, rest[j - 1])
    BY <2>1, <2>3
  <2>5. h # 1
    BY <1>5, <2>1, <2>4
  <2>6. h - 1 \in 1 .. i - 1 /\ h - 1 \in DOMAIN t /\ (h - 1) + 1 = h
    BY <1>1, <2>3, <2>5
  <2> QED BY <1>4, <2>4, <2>6
<1>9. ASSUME NEW i \in DOMAIN t, IsAnswer(t, i, records[1]) PROVE FALSE
  <2>1. IsAnswer(s, i + 1, records[1]) /\ i + 1 \in DOMAIN s /\ 1 \in DOMAIN s
        /\ 1 \in DOMAIN records
    BY <1>1, <1>3, <1>4, <1>9
  <2>2. i + 1 = 1
    BY <2>1 DEF AnswersIn
  <2> QED BY <1>1, <2>2
<1>10. AnswersIn(t, rest, last)
  BY <1>6, <1>7, <1>8 DEF AnswersIn
<1> QED BY <1>9, <1>10 DEF t, rest

\* Where the data goes when it is answered.
LEMMA DataFirstAppend ==
    ASSUME NEW s \in Seq(Messages), NEW m \in Messages, NEW cache, DataFirstIn(s, cache),
           m.type = "answer" /\ m.ok =>
             /\ Len(s) > 0 /\ s[Len(s)].type = "data"
             /\ s[Len(s)].node = Node(Area(m.write), m.write.id)
    PROVE  DataFirstIn(Append(s, m), cache)
<1> DEFINE t == Append(s, m)
           n == Len(s)
<1>1. /\ n \in Nat /\ DOMAIN s = 1 .. n /\ DOMAIN t = 1 .. n + 1
      /\ t[n + 1] = m /\ \A i \in DOMAIN s : t[i] = s[i]
  BY MessageAppend
<1>2. m.type = "answer" /\ m.ok => n > 0 /\ s[n].type = "data"
                                  /\ s[n].node = Node(Area(m.write), m.write.id)
  OBVIOUS
<1> HIDE DEF t, n
<1> SUFFICES ASSUME NEW i \in DOMAIN t, t[i].type = "answer", t[i].ok
             PROVE  IF i = 1 THEN \A l \in Area(t[i].write) : cache[l] = t[i].write.id
                    ELSE /\ t[i - 1].type = "data"
                         /\ t[i - 1].node = Node(Area(t[i].write), t[i].write.id)
  BY DEF DataFirstIn, t
<1>3. CASE i = n + 1
  <2>1. i # 1 /\ i - 1 = n /\ n \in DOMAIN s /\ t[i] = m /\ t[i - 1] = s[n]
    BY <1>1, <1>2, <1>3
  <2> QED BY <1>2, <2>1
<1>4. CASE i # n + 1
  <2>1. i \in DOMAIN s /\ t[i] = s[i] /\ (i # 1 => t[i - 1] = s[i - 1])
    BY <1>1, <1>4
  <2> QED BY <2>1 DEF DataFirstIn
<1> QED BY <1>3, <1>4

\* The first message is data, which is in the cache with it.
LEMMA DataFirstTailData ==
    ASSUME NEW s \in Seq(Messages), s # <<>>, Head(s).type = "data",
           NEW cache, NEW after, DataFirstIn(s, cache),
           \A l \in DOMAIN Head(s).node : after[l] = Head(s).node[l]
    PROVE  DataFirstIn(Tail(s), after)
<1> DEFINE t == Tail(s)
           n == Len(s)
<1>1. /\ n \in Nat \ {0} /\ DOMAIN s = 1 .. n /\ DOMAIN t = 1 .. n - 1 /\ Head(s) = s[1]
      /\ \A i \in DOMAIN t : t[i] = s[i + 1] /\ i + 1 \in DOMAIN s
  BY MessageTail
<1> HIDE DEF t, n
<1> SUFFICES ASSUME NEW i \in DOMAIN t, t[i].type = "answer", t[i].ok
             PROVE  IF i = 1 THEN \A l \in Area(t[i].write) : after[l] = t[i].write.id
                    ELSE /\ t[i - 1].type = "data"
                         /\ t[i - 1].node = Node(Area(t[i].write), t[i].write.id)
  BY DEF DataFirstIn, t
<1>2. /\ i + 1 \in DOMAIN s /\ t[i] = s[i + 1] /\ i + 1 # 1 /\ (i + 1) - 1 = i
      /\ (i # 1 => t[i - 1] = s[i])
  BY <1>1
<1>3. s[i].type = "data" /\ s[i].node = Node(Area(t[i].write), t[i].write.id)
  <2> DEFINE h == i + 1
  <2>1. h \in DOMAIN s /\ h # 1 /\ s[h].type = "answer" /\ s[h].ok /\ h - 1 = i /\ t[i] = s[h]
    BY <1>2
  <2> HIDE DEF h
  <2>2. s[h - 1].type = "data" /\ s[h - 1].node = Node(Area(s[h].write), s[h].write.id)
    BY <2>1 DEF DataFirstIn
  <2> QED BY <2>1, <2>2
<1>4. CASE i = 1
  BY <1>1, <1>3, <1>4 DEF Node
<1>5. CASE i # 1
  BY <1>2, <1>3, <1>5
<1> QED BY <1>4, <1>5

\* The first message is an answer, so that no other answer follows.
LEMMA DataFirstTailAnswer ==
    ASSUME NEW s \in Seq(Messages), s # <<>>, Head(s).type = "answer",
           NEW cache, NEW after, DataFirstIn(s, cache)
    PROVE  DataFirstIn(Tail(s), after)
<1> DEFINE t == Tail(s)
           n == Len(s)
<1>1. /\ n \in Nat \ {0} /\ DOMAIN s = 1 .. n /\ DOMAIN t = 1 .. n - 1 /\ Head(s) = s[1]
      /\ \A i \in DOMAIN t : t[i] = s[i + 1] /\ i + 1 \in DOMAIN s
  BY MessageTail
<1> HIDE DEF t, n
<1> SUFFICES ASSUME NEW i \in DOMAIN t, t[i].type = "answer", t[i].ok
             PROVE  IF i = 1 THEN \A l \in Area(t[i].write) : after[l] = t[i].write.id
                    ELSE /\ t[i - 1].type = "data"
                         /\ t[i - 1].node = Node(Area(t[i].write), t[i].write.id)
  BY DEF DataFirstIn, t
<1>2. /\ i + 1 \in DOMAIN s /\ t[i] = s[i + 1] /\ i + 1 # 1 /\ (i + 1) - 1 = i
      /\ (i # 1 => t[i - 1] = s[i])
  BY <1>1
<1>3. s[i].type = "data" /\ s[i].node = Node(Area(t[i].write), t[i].write.id)
  <2> DEFINE h == i + 1
  <2>1. h \in DOMAIN s /\ h # 1 /\ s[h].type = "answer" /\ s[h].ok /\ h - 1 = i /\ t[i] = s[h]
    BY <1>2
  <2> HIDE DEF h
  <2>2. s[h - 1].type = "data" /\ s[h - 1].node = Node(Area(s[h].write), s[h].write.id)
    BY <2>1 DEF DataFirstIn
  <2> QED BY <2>1, <2>2
<1> QED BY <1>1, <1>2, <1>3

\* What the server stores it sends.
LEMMA DataAppend ==
    ASSUME NEW s \in Seq(Messages), NEW m \in Messages, m.type = "data",
           NEW cache, NEW all, DOMAIN all = Root, DataIn(s, cache, all)
    PROVE  DataIn(Append(s, m), cache, Upon(m.node, all))
<1> DEFINE t == Append(s, m)
           n == Len(s)
<1>1. /\ n \in Nat /\ DOMAIN s = 1 .. n /\ DOMAIN t = 1 .. n + 1
      /\ t[n + 1] = m /\ \A i \in DOMAIN s : t[i] = s[i]
  BY MessageAppend
<1> HIDE DEF t, n
<1>2. \A l : Brings(t, n + 1, l) <=> l \in DOMAIN m.node
  BY <1>1 DEF Brings
<1>3. \A l : \A i \in DOMAIN s : Brings(t, i, l) <=> Brings(s, i, l)
  BY <1>1 DEF Brings
<1> DEFINE new == Upon(m.node, all)
<1>4. \A l \in Root : new[l] = IF l \in DOMAIN m.node THEN m.node[l] ELSE all[l]
  BY DEF Upon
<1> HIDE DEF new
<1>5. ASSUME NEW l \in Root
      PROVE  \/ cache[l] = new[l] /\ \A i \in DOMAIN t : ~ Brings(t, i, l)
             \/ \E i \in DOMAIN t :
                  /\ Brings(t, i, l) /\ t[i].node[l] = new[l]
                  /\ \A k \in DOMAIN t : k > i => ~ Brings(t, k, l)
  <2>1. CASE l \in DOMAIN m.node
    <3>1. Brings(t, n + 1, l) /\ t[n + 1].node[l] = new[l] /\ n + 1 \in DOMAIN t
      BY <1>1, <1>2, <1>4, <2>1
    <3>2. \A k \in DOMAIN t : ~ k > n + 1
      BY <1>1
    <3> QED BY <3>1, <3>2
  <2>2. CASE l \notin DOMAIN m.node
    <3>1. new[l] = all[l] /\ ~ Brings(t, n + 1, l)
      BY <1>2, <1>4, <2>2
    <3>2. CASE cache[l] = all[l] /\ \A i \in DOMAIN s : ~ Brings(s, i, l)
      BY <1>1, <1>3, <3>1, <3>2
    <3>3. CASE \E i \in DOMAIN s :
                 /\ Brings(s, i, l) /\ s[i].node[l] = all[l]
                 /\ \A k \in DOMAIN s : k > i => ~ Brings(s, k, l)
      <4>1. PICK i \in DOMAIN s :
                 /\ Brings(s, i, l) /\ s[i].node[l] = all[l]
                 /\ \A k \in DOMAIN s : k > i => ~ Brings(s, k, l)
        BY <3>3
      <4>2. i \in DOMAIN t /\ t[i] = s[i] /\ Brings(t, i, l)
        BY <1>1, <1>3, <4>1
      <4>3. ASSUME NEW k \in DOMAIN t, k > i PROVE ~ Brings(t, k, l)
        <5>1. k = n + 1 \/ k \in DOMAIN s
          BY <1>1
        <5> QED BY <1>3, <3>1, <4>1, <4>3, <5>1
      <4> QED BY <3>1, <4>1, <4>2, <4>3
    <3> QED BY <3>2, <3>3 DEF DataIn
  <2> QED BY <2>1, <2>2
<1> QED BY <1>5 DEF DataIn, t, new

\* An answer brings no data.
LEMMA DataAppendAnswer ==
    ASSUME NEW s \in Seq(Messages), NEW m \in Messages, m.type = "answer",
           NEW cache, NEW all, DataIn(s, cache, all)
    PROVE  DataIn(Append(s, m), cache, all)
<1> DEFINE t == Append(s, m)
           n == Len(s)
<1>1. /\ n \in Nat /\ DOMAIN s = 1 .. n /\ DOMAIN t = 1 .. n + 1
      /\ t[n + 1] = m /\ \A i \in DOMAIN s : t[i] = s[i]
  BY MessageAppend
<1> HIDE DEF t, n
<1>2. \A l : ~ Brings(t, n + 1, l)
  BY <1>1 DEF Brings
<1>3. \A l : \A i \in DOMAIN s : Brings(t, i, l) <=> Brings(s, i, l)
  BY <1>1 DEF Brings
<1>4. \A l : \A i \in DOMAIN t : Brings(t, i, l) => i \in DOMAIN s /\ Brings(s, i, l)
  BY <1>1, <1>2, <1>3
<1>5. ASSUME NEW l \in Root
      PROVE  \/ cache[l] = all[l] /\ \A i \in DOMAIN t : ~ Brings(t, i, l)
             \/ \E i \in DOMAIN t :
                  /\ Brings(t, i, l) /\ t[i].node[l] = all[l]
                  /\ \A k \in DOMAIN t : k > i => ~ Brings(t, k, l)
  <2>1. CASE cache[l] = all[l] /\ \A i \in DOMAIN s : ~ Brings(s, i, l)
    BY <1>4, <2>1
  <2>2. CASE \E i \in DOMAIN s :
               /\ Brings(s, i, l) /\ s[i].node[l] = all[l]
               /\ \A k \in DOMAIN s : k > i => ~ Brings(s, k, l)
    <3>1. PICK i \in DOMAIN s :
               /\ Brings(s, i, l) /\ s[i].node[l] = all[l]
               /\ \A k \in DOMAIN s : k > i => ~ Brings(s, k, l)
      BY <2>2
    <3>2. i \in DOMAIN t /\ t[i] = s[i]
      BY <1>1
    <3> QED BY <1>3, <1>4, <3>1, <3>2
  <2> QED BY <2>1, <2>2 DEF DataIn
<1> QED BY <1>5 DEF DataIn, t

\* What comes goes into the cache.
LEMMA DataTail ==
    ASSUME NEW s \in Seq(Messages), s # <<>>, NEW cache, NEW after, NEW all,
           DataIn(s, cache, all),
           \A l \in Root : after[l] = IF Brings(s, 1, l) THEN s[1].node[l] ELSE cache[l]
    PROVE  DataIn(Tail(s), after, all)
<1> DEFINE t == Tail(s)
           n == Len(s)
<1>1. /\ n \in Nat \ {0} /\ DOMAIN s = 1 .. n /\ DOMAIN t = 1 .. n - 1
      /\ \A i \in DOMAIN t : t[i] = s[i + 1] /\ i + 1 \in DOMAIN s
  BY MessageTail
<1> HIDE DEF t, n
<1>2. \A l : \A i \in DOMAIN t : Brings(t, i, l) <=> Brings(s, i + 1, l)
  BY <1>1 DEF Brings
<1>3. \A i \in DOMAIN s : i \in Int /\ (i # 1 => i - 1 \in DOMAIN t /\ (i - 1) + 1 = i
                                                /\ t[i - 1] = s[i])
  BY <1>1
<1>4. ASSUME NEW l \in Root
      PROVE  \/ after[l] = all[l] /\ \A i \in DOMAIN t : ~ Brings(t, i, l)
             \/ \E i \in DOMAIN t :
                  /\ Brings(t, i, l) /\ t[i].node[l] = all[l]
                  /\ \A k \in DOMAIN t : k > i => ~ Brings(t, k, l)
  <2>1. CASE cache[l] = all[l] /\ \A i \in DOMAIN s : ~ Brings(s, i, l)
    <3>1. 1 \in DOMAIN s
      BY <1>1
    <3> QED BY <1>1, <1>2, <2>1, <3>1
  <2>2. CASE \E i \in DOMAIN s :
               /\ Brings(s, i, l) /\ s[i].node[l] = all[l]
               /\ \A k \in DOMAIN s : k > i => ~ Brings(s, k, l)
    <3>1. PICK i \in DOMAIN s :
               /\ Brings(s, i, l) /\ s[i].node[l] = all[l]
               /\ \A k \in DOMAIN s : k > i => ~ Brings(s, k, l)
      BY <2>2
    <3>2. \A k \in DOMAIN t : k \in Int /\ k > i - 1 => ~ Brings(t, k, l)
      BY <1>1, <1>2, <1>3, <3>1
    <3>3. \A k \in DOMAIN t : k \in Int /\ k > 0
      BY <1>1
    <3>4. CASE i = 1
      BY <3>1, <3>2, <3>3, <3>4
    <3>5. CASE i # 1
      <4>1. i - 1 \in DOMAIN t /\ Brings(t, i - 1, l) /\ t[i - 1].node[l] = all[l]
        BY <1>2, <1>3, <3>1, <3>5
      <4> QED BY <3>2, <3>3, <4>1
    <3> QED BY <3>4, <3>5
  <2> QED BY <2>1, <2>2 DEF DataIn
<1> QED BY <1>4 DEF DataIn, t

\* The next write to be judged is the oldest one that is not.
LEMMA NextWriteIs ==
    ASSUME allWrites \in Seq(Records), NextWrite # 0
    PROVE  /\ NextWrite \in DOMAIN allWrites /\ allWrites[NextWrite].id > judged
           /\ \A j \in DOMAIN allWrites : j < NextWrite => ~ allWrites[j].id > judged
<1> DEFINE I == {i \in 1 .. Len(allWrites) : allWrites[i].id > judged}
<1>1. NextWrite = IF I = {} THEN 0 ELSE Min(I)
  BY DEF NextWrite, SelectInSeq
<1>2. I \in SUBSET Nat /\ I # {}
  BY <1>1
<1>3. PICK k \in I : \A j \in I : k <= j
  <2> HIDE DEF I
  <2> QED BY <1>2, LeastNumber
<1>4. Min(I) \in I /\ \A j \in I : Min(I) <= j
  <2> HIDE DEF I
  <2> QED BY <1>2, <1>3 DEF Min
<1>5. NextWrite \in I /\ \A j \in I : NextWrite <= j
  BY <1>1, <1>2, <1>4
<1>6. NextWrite \in Nat /\ DOMAIN allWrites = 1 .. Len(allWrites)
  BY <1>2, <1>5
<1> HIDE DEF NextWrite
<1> QED BY <1>5, <1>6

-----------------------------------------------------------------------------
(* The inductive invariant, action by action.                              *)

\* Data of values is a message.
LEMMA DataMessage ==
    ASSUME NEW path \in Paths, NEW at \in SUBSET Paths, NEW node \in [UNION at -> Values],
           NEW shape, shape.path = path, shape.at = at, NEW records
    PROVE  /\ Data(shape, node) \in Messages
           /\ Data(shape, node).type = "data" /\ Data(shape, node).node = node
           /\ Tells(Data(shape, node), records)
<1>1. DOMAIN node = UNION at /\ UNION at \subseteq Root
  BY DEF Root
<1>2. node \in UNION {[D -> Values] : D \in SUBSET Root}
  BY <1>1
<1>3. Data(shape, node) = [type |-> "data", shape |-> [path |-> path, at |-> at], node |-> node]
  BY DEF Data
<1>4. Data(shape, node) \in DataMessages
  BY <1>2, <1>3 DEF DataMessages
<1> QED BY <1>1, <1>3, <1>4 DEF Tells, Messages

LEMMA JudgementMessage ==
    ASSUME NEW records \in Seq(Records), NEW k \in DOMAIN records, NEW ok \in BOOLEAN
    PROVE  /\ Judgement(records[k], ok) \in Messages
           /\ Judgement(records[k], ok).type = "answer"
           /\ Judgement(records[k], ok).write = records[k]
           /\ Judgement(records[k], ok).ok = ok
           /\ Tells(Judgement(records[k], ok), records)
<1>1. records[k] \in Records
  OBVIOUS
<1> QED BY <1>1 DEF Judgement, Judgements, Messages, Tells

LEMMA TreeFacts ==
    ASSUME TreeInv
    PROVE  /\ serverCache \in [Root -> Values] /\ eventCache \in [Root -> Values]
           /\ data \in [Root -> Values]
           /\ judged \in 0 .. MaxWrites /\ judged \in Int /\ judged < writeIdCounter
           /\ writeIdCounter \in 1 .. MaxWrites + 1 /\ lastWriteId < writeIdCounter
           /\ toClient \in Seq(Messages)
           /\ \A i \in DOMAIN toClient : Tells(toClient[i], allWrites)
           /\ allWrites \in Seq(Records)
           /\ \A i \in DOMAIN allWrites : allWrites[i] \in Records /\ allWrites[i].id \in Ids
           /\ visibleWrites \in Trees
           /\ Ids \subseteq Values /\ Ids \subseteq Int
           /\ others \in 0 .. MaxOthers /\ losses \in 0 .. MaxLosses
<1>1. Ids \subseteq Values /\ Ids \subseteq Int
  BY WriteTreeAssumption DEF Ids, Values
<1>2. allWrites \in Seq(Records)
  BY DEF TreeInv, KindsOK
<1>3. \A i \in DOMAIN allWrites : allWrites[i] \in Records
  BY <1>2
<1>4. \A i \in DOMAIN allWrites : allWrites[i].id \in Ids
  BY <1>3, RecordIs
<1>5. {serverCache, eventCache, data} \subseteq [Root -> Values]
  BY DEF TreeInv, WTTypeOK, Values
<1> QED BY <1>1, <1>2, <1>3, <1>4, <1>5 DEF TreeInv, WTTypeOK, KindsOK, NumbersOK

\* The types follow from the rest.
LEMMA TypeAfter ==
    ASSUME KindsOK', ShownOK', NumbersOK',
           lastWriteId' < writeIdCounter', writeIdCounter' \in 1 .. MaxWrites + 1,
           serverCache' \in [Root -> Values], data' \in [Root -> Values],
           judged' \in 0 .. MaxWrites, others' \in 0 .. MaxOthers, losses' \in 0 .. MaxLosses,
           eventCache' = [l \in Root |-> eventCache'[l]]
    PROVE  WTTypeOK'
<1>1. /\ DOMAIN visibleWrites' \subseteq Paths
      /\ \A p \in DOMAIN visibleWrites' : visibleWrites'[p] \in [p -> 1 .. MaxWrites]
      /\ \A p, q \in DOMAIN visibleWrites' : p # q => p \cap q = {}
  <2>1. visibleWrites' \in Trees
    BY DEF KindsOK
  <2> QED BY <2>1, TreesIs DEF Ids
<1>2. allWrites' \in Seq([id : 1 .. MaxWrites, path : Paths, at : SUBSET Paths])
  <2> DEFINE R == [id : 1 .. MaxWrites, path : Paths, at : SUBSET Paths]
  <2>1. Records \subseteq R
    BY DEF Records
  <2>2. allWrites' \in Seq(Records)
    BY DEF KindsOK
  <2> HIDE DEF R
  <2>3. Len(allWrites') \in Nat /\ allWrites' \in [1 .. Len(allWrites') -> R]
    BY <2>1, <2>2
  <2>4. allWrites' \in Seq(R)
    BY <2>3
  <2> QED BY <2>4 DEF R
<1>3. \A i \in DOMAIN toClient' : toClient'[i].type \in {"data", "answer"}
  <2>1. toClient' \in Seq(Messages)
    BY DEF KindsOK
  <2>2. \A i \in DOMAIN toClient' : toClient'[i] \in Messages
    BY <2>1
  <2> QED BY <2>2 DEF Messages, DataMessages, Judgements
<1>4. \A l \in Root : eventCache'[l] \in Values
  <2> SUFFICES ASSUME NEW l \in Root PROVE eventCache'[l] \in Values
    OBVIOUS
  <2>1. Holds(allWrites', l, eventCache'[l], serverCache'[l])
    BY DEF ShownOK
  <2>2. serverCache'[l] \in Values /\ allWrites' \in Seq(Records)
    BY DEF KindsOK
  <2> QED BY <2>1, <2>2, HoldsValue
<1>5. eventCache' \in [Root -> Values]
  BY <1>4
<1> QED BY <1>1, <1>2, <1>3, <1>5 DEF WTTypeOK, Values

\* The server and the connection leave the client alone.
LEMMA RemoteStep ==
    ASSUME TreeInv, UNCHANGED <<tree, view>>, toClient' \in Seq(Messages),
           \A i \in DOMAIN toClient' : Tells(toClient'[i], allWrites),
           judged' \in 0 .. MaxWrites, judged' < writeIdCounter, data' \in [Root -> Values],
           others' \in 0 .. MaxOthers, losses' \in 0 .. MaxLosses,
           AnswersIn(toClient', allWrites, judged'), DataFirstIn(toClient', serverCache),
           DataIn(toClient', serverCache, data')
    PROVE  TreeInv'
<1>1. /\ allWrites' = allWrites /\ visibleWrites' = visibleWrites /\ lastWriteId' = lastWriteId
      /\ writeIdCounter' = writeIdCounter /\ serverCache' = serverCache
      /\ eventCache' = eventCache
  BY DEF tree, view
<1>2. KindsOK' /\ NumbersOK'
  BY <1>1 DEF TreeInv, KindsOK, NumbersOK
<1>3. LayersOK' /\ ShownOK'
  BY <1>1 DEF TreeInv, LayersOK, ShownOK
<1>4. AnswersOK' /\ DataFirst' /\ DataOK'
  BY <1>1 DEF AnswersOK, DataFirst, DataOK
<1>5. WTTypeOK'
  <2>1. /\ lastWriteId' < writeIdCounter' /\ writeIdCounter' \in 1 .. MaxWrites + 1
        /\ serverCache' \in [Root -> Values] /\ eventCache' = [l \in Root |-> eventCache'[l]]
    BY <1>1, TreeFacts
  <2> QED BY <1>2, <1>3, <2>1, TypeAfter
<1> QED BY <1>2, <1>3, <1>4, <1>5 DEF TreeInv

\* A message more tells of the writes when it does itself.
LEMMA TellsAppend ==
    ASSUME NEW s \in Seq(Messages), NEW records, NEW m \in Messages, Tells(m, records),
           \A i \in DOMAIN s : Tells(s[i], records)
    PROVE  \A i \in DOMAIN Append(s, m) : Tells(Append(s, m)[i], records)
<1>1. /\ Len(s) \in Nat
      /\ DOMAIN s = 1 .. Len(s) /\ DOMAIN Append(s, m) = 1 .. Len(s) + 1
      /\ Append(s, m)[Len(s) + 1] = m /\ \A i \in DOMAIN s : Append(s, m)[i] = s[i]
  BY MessageAppend
<1>2. \A i \in DOMAIN Append(s, m) : i = Len(s) + 1 \/ i \in DOMAIN s
  BY <1>1
<1> QED BY <1>1, <1>2

LEMMA UponValues ==
    ASSUME NEW D \in SUBSET Root, NEW node \in [D -> Values], NEW below \in [Root -> Values]
    PROVE  Upon(node, below) \in [Root -> Values]
  BY DEF Upon

\* The next write and its number.
LEMMA NextFacts ==
    ASSUME TreeInv, NextWrite # 0, NEW r, r = allWrites[NextWrite]
    PROVE  /\ NextWrite \in DOMAIN allWrites /\ r \in Records /\ r.id \in Ids
           /\ r.id > judged /\ \A j \in DOMAIN allWrites : j < NextWrite => allWrites[j].id <= judged
           /\ r.id \in 0 .. MaxWrites /\ r.id < writeIdCounter
           /\ Node(Area(r), r.id) \in [Area(r) -> Values]
<1>1. /\ NextWrite \in DOMAIN allWrites /\ allWrites[NextWrite].id > judged
      /\ \A j \in DOMAIN allWrites : j < NextWrite => ~ allWrites[j].id > judged
  BY TreeFacts, NextWriteIs
<1> HIDE DEF NextWrite
<1>2. /\ \A i \in DOMAIN allWrites : allWrites[i] \in Records /\ allWrites[i].id \in Ids
      /\ judged \in Int /\ Ids \subseteq Values /\ Ids \subseteq Int
  BY TreeFacts
<1>3. r \in Records /\ r.id \in Ids
  BY <1>1, <1>2
<1>4. r.id < writeIdCounter
  BY <1>1 DEF TreeInv, NumbersOK
<1>5. Node(Area(r), r.id) \in [Area(r) -> Values]
  BY <1>2, <1>3 DEF Node
<1>6. r.id \in 0 .. MaxWrites
  BY <1>3 DEF Ids
<1>7. ASSUME NEW j \in DOMAIN allWrites, j < NextWrite PROVE allWrites[j].id <= judged
  <2>1. ~ allWrites[j].id > judged /\ allWrites[j].id \in Int /\ judged \in Int
    BY <1>1, <1>2, <1>7
  <2> QED BY <2>1
<1> QED BY <1>1, <1>3, <1>4, <1>5, <1>6, <1>7

LEMMA AppliesStep == ASSUME TreeInv, ServerApplies PROVE TreeInv'
<1> DEFINE r == allWrites[NextWrite]
           node == Node(Area(r), r.id)
           d == Data(r, node)
           a == Judgement(r, TRUE)
           s == Append(toClient, d)
<1>1. /\ NextWrite # 0 /\ data' = Upon(node, data) /\ judged' = r.id
      /\ toClient' = toClient \o <<d, a>> /\ UNCHANGED <<tree, view>>
  BY DEF ServerApplies, Area
<1>2. /\ NextWrite \in DOMAIN allWrites /\ r \in Records /\ r.id \in Ids
      /\ r.id > judged /\ \A j \in DOMAIN allWrites : j < NextWrite => allWrites[j].id <= judged
      /\ r.id \in 0 .. MaxWrites /\ r.id < writeIdCounter
      /\ node \in [Area(r) -> Values]
  <2> HIDE DEF NextWrite
  <2> QED BY <1>1, NextFacts
<1> HIDE DEF NextWrite
<1>3. /\ toClient \in Seq(Messages) /\ \A i \in DOMAIN toClient : Tells(toClient[i], allWrites)
      /\ allWrites \in Seq(Records) /\ judged \in Int /\ data \in [Root -> Values]
  BY TreeFacts
<1>4. /\ d \in Messages /\ d.type = "data" /\ d.node = node /\ Tells(d, allWrites)
  <2>1. r.path \in Paths /\ r.at \in SUBSET Paths /\ Area(r) = UNION r.at
    BY <1>2, RecordIs DEF Area
  <2> HIDE DEF r, node
  <2> QED BY <1>2, <2>1, DataMessage, SMTT(30)
<1>5. /\ a \in Messages /\ a.type = "answer" /\ a.write = r /\ a.ok = TRUE /\ Tells(a, allWrites)
  BY <1>2, <1>3, JudgementMessage
<1> HIDE DEF d, a, node
<1>6. /\ s \in Seq(Messages) /\ toClient' = Append(s, a) /\ Append(s, a) \in Seq(Messages)
      /\ Len(s) > 0 /\ s[Len(s)] = d
  BY <1>1, <1>3, <1>4, <1>5
<1>7. /\ \A i \in DOMAIN s : Tells(s[i], allWrites)
      /\ AnswersIn(s, allWrites, judged) /\ DataFirstIn(s, serverCache)
      /\ DataIn(s, serverCache, data')
  <2>1. /\ AnswersIn(toClient, allWrites, judged) /\ DataFirstIn(toClient, serverCache)
        /\ DataIn(toClient, serverCache, data)
    BY DEF TreeInv, AnswersOK, DataFirst, DataOK
  <2>2. \A i \in DOMAIN s : Tells(s[i], allWrites)
    BY <1>3, <1>4, TellsAppend
  <2>3. AnswersIn(s, allWrites, judged)
    BY <1>3, <1>4, <2>1, AnswersAppendData
  <2>4. DataFirstIn(s, serverCache)
    BY <1>3, <1>4, <2>1, DataFirstAppend
  <2>5. DataIn(s, serverCache, data')
    <3>1. DOMAIN data = Root
      BY <1>3
    <3>2. DataIn(s, serverCache, Upon(d.node, data))
      BY <1>3, <1>4, <2>1, <3>1, DataAppend
    <3> QED BY <1>1, <1>4, <3>2
  <2> QED BY <2>2, <2>3, <2>4, <2>5
<1> HIDE DEF s
<1>8. \A i \in DOMAIN toClient' : Tells(toClient'[i], allWrites)
  BY <1>5, <1>6, <1>7, TellsAppend
<1>9. AnswersIn(toClient', allWrites, judged')
  <2>1. \A i, j \in DOMAIN allWrites : i < j => allWrites[i].id < allWrites[j].id
    BY DEF TreeInv, NumbersOK
  <2> QED BY <1>1, <1>2, <1>3, <1>5, <1>6, <1>7, <2>1, AnswersAppendJudgement
<1>10. DataFirstIn(toClient', serverCache)
  <2>1. s[Len(s)].type = "data" /\ s[Len(s)].node = Node(Area(a.write), a.write.id)
    BY <1>4, <1>5, <1>6 DEF node
  <2> QED BY <1>5, <1>6, <1>7, <2>1, DataFirstAppend
<1>11. DataIn(toClient', serverCache, data')
  BY <1>5, <1>6, <1>7, DataAppendAnswer
<1>12. data' \in [Root -> Values]
  <2>1. Area(r) \in SUBSET Root
    BY <1>2, RecordIs
  <2> HIDE DEF r
  <2> QED BY <1>1, <1>2, <1>3, <2>1, UponValues
<1>13. others' \in 0 .. MaxOthers /\ losses' \in 0 .. MaxLosses
  BY TreeFacts DEF ServerApplies
<1> QED BY <1>1, <1>2, <1>6, <1>8, <1>9, <1>10, <1>11, <1>12, <1>13, RemoteStep

LEMMA RejectsStep == ASSUME TreeInv, ServerRejects PROVE TreeInv'
<1> DEFINE r == allWrites[NextWrite]
           a == Judgement(r, FALSE)
<1>1. /\ NextWrite # 0 /\ judged' = r.id /\ toClient' = Append(toClient, a)
      /\ UNCHANGED <<tree, view>> /\ data' = data
  BY DEF ServerRejects
<1>2. /\ NextWrite \in DOMAIN allWrites /\ r \in Records /\ r.id \in Ids
      /\ r.id > judged /\ \A j \in DOMAIN allWrites : j < NextWrite => allWrites[j].id <= judged
      /\ r.id \in 0 .. MaxWrites /\ r.id < writeIdCounter
  <2> HIDE DEF NextWrite
  <2> QED BY <1>1, NextFacts
<1> HIDE DEF NextWrite
<1>3. /\ toClient \in Seq(Messages) /\ \A i \in DOMAIN toClient : Tells(toClient[i], allWrites)
      /\ allWrites \in Seq(Records) /\ judged \in Int /\ data \in [Root -> Values]
  BY TreeFacts
<1>4. /\ a \in Messages /\ a.type = "answer" /\ a.write = r /\ a.ok = FALSE /\ Tells(a, allWrites)
  BY <1>2, <1>3, JudgementMessage
<1> HIDE DEF a
<1>5. /\ AnswersIn(toClient, allWrites, judged) /\ DataFirstIn(toClient, serverCache)
      /\ DataIn(toClient, serverCache, data)
      /\ \A i, j \in DOMAIN allWrites : i < j => allWrites[i].id < allWrites[j].id
  BY DEF TreeInv, AnswersOK, DataFirst, DataOK, NumbersOK
<1>6. toClient' \in Seq(Messages) /\ \A i \in DOMAIN toClient' : Tells(toClient'[i], allWrites)
  BY <1>1, <1>3, <1>4, TellsAppend, MessageAppend
<1>7. AnswersIn(toClient', allWrites, judged')
  BY <1>1, <1>2, <1>3, <1>4, <1>5, AnswersAppendJudgement
<1>8. DataFirstIn(toClient', serverCache) /\ DataIn(toClient', serverCache, data')
  BY <1>1, <1>3, <1>4, <1>5, DataFirstAppend, DataAppendAnswer
<1>9. others' \in 0 .. MaxOthers /\ losses' \in 0 .. MaxLosses
  BY TreeFacts DEF ServerRejects
<1> QED BY <1>1, <1>2, <1>3, <1>6, <1>7, <1>8, <1>9, RemoteStep

LEMMA OthersStep == ASSUME TreeInv, NEW p \in Paths, OthersWrite(p) PROVE TreeInv'
<1> DEFINE node == Node(p, -others')
           d == Data(Overwrite(p), node)
<1>1. /\ data' = Upon(node, data) /\ judged' = judged /\ toClient' = Append(toClient, d)
      /\ UNCHANGED <<tree, view>>
  BY DEF OthersWrite
<1>2. /\ toClient \in Seq(Messages) /\ \A i \in DOMAIN toClient : Tells(toClient[i], allWrites)
      /\ allWrites \in Seq(Records) /\ judged \in Int /\ data \in [Root -> Values]
      /\ judged \in 0 .. MaxWrites /\ judged < writeIdCounter
  BY TreeFacts
<1>3. node \in [p -> Values] /\ p \in SUBSET Root
  <2>1. -others' \in Values
    BY WriteTreeAssumption DEF TreeInv, WTTypeOK, OthersWrite, Values
  <2> QED BY <2>1 DEF Node, Root
<1>4. d \in Messages /\ d.type = "data" /\ d.node = node /\ Tells(d, allWrites)
  <2>1. /\ Overwrite(p).path = p /\ Overwrite(p).at = {p} /\ UNION {p} = p
        /\ {p} \in SUBSET Paths
    BY DEF Overwrite
  <2>2. node \in [UNION {p} -> Values]
    BY <1>3, <2>1
  <2> HIDE DEF node
  <2> QED BY <2>1, <2>2, DataMessage
<1> HIDE DEF d, node
<1>5. /\ AnswersIn(toClient, allWrites, judged) /\ DataFirstIn(toClient, serverCache)
      /\ DataIn(toClient, serverCache, data)
  BY DEF TreeInv, AnswersOK, DataFirst, DataOK
<1>6. toClient' \in Seq(Messages) /\ \A i \in DOMAIN toClient' : Tells(toClient'[i], allWrites)
  BY <1>1, <1>2, <1>4, TellsAppend, MessageAppend
<1>7. AnswersIn(toClient', allWrites, judged')
  BY <1>1, <1>2, <1>4, <1>5, AnswersAppendData
<1>8. DataFirstIn(toClient', serverCache)
  BY <1>1, <1>2, <1>4, <1>5, DataFirstAppend
<1>9. DataIn(toClient', serverCache, data')
  <2>1. DOMAIN data = Root
    BY <1>2
  <2>2. DataIn(Append(toClient, d), serverCache, Upon(d.node, data))
    BY <1>2, <1>4, <1>5, <2>1, DataAppend
  <2> QED BY <1>1, <1>4, <2>2
<1>10. data' \in [Root -> Values]
  BY <1>1, <1>2, <1>3, UponValues
<1>11. others' \in 0 .. MaxOthers /\ losses' \in 0 .. MaxLosses
  BY TreeFacts, WriteTreeAssumption DEF OthersWrite
<1> QED BY <1>1, <1>2, <1>6, <1>7, <1>8, <1>9, <1>10, <1>11, RemoteStep

LEMMA ReplacedStep == ASSUME TreeInv, ConnectionReplaced PROVE TreeInv'
<1> DEFINE d == Data(Overwrite(Root), data)
<1>1. /\ data' = data /\ judged' = 0 /\ toClient' = <<d>> /\ UNCHANGED <<tree, view>>
  BY DEF ConnectionReplaced
<1>2. /\ data \in [Root -> Values] /\ writeIdCounter \in 1 .. MaxWrites + 1
      /\ \A i \in DOMAIN allWrites : allWrites[i].id \in Ids
  BY TreeFacts
<1>3. d \in Messages /\ d.type = "data" /\ d.node = data /\ Tells(d, allWrites)
  <2>1. /\ Overwrite(Root).path = Root /\ Overwrite(Root).at = {Root} /\ UNION {Root} = Root
        /\ {Root} \in SUBSET Paths /\ Root \in Paths
    BY WriteTreeAssumption DEF Overwrite
  <2>2. data \in [UNION {Root} -> Values]
    BY <1>2, <2>1
  <2> QED BY <2>1, <2>2, DataMessage
<1> HIDE DEF d
<1>4. /\ toClient' \in Seq(Messages) /\ DOMAIN toClient' = {1} /\ toClient'[1] = d
  BY <1>1, <1>3
<1>5. \A i \in DOMAIN toClient' : Tells(toClient'[i], allWrites)
  BY <1>3, <1>4
<1>6. AnswersIn(toClient', allWrites, 0)
  <2>1. \A j \in DOMAIN allWrites : ~ allWrites[j].id <= 0
    BY <1>2 DEF Ids
  <2>2. \A i \in DOMAIN toClient' : \A r : ~ IsAnswer(toClient', i, r)
    BY <1>3, <1>4 DEF IsAnswer
  <2> QED BY <2>1, <2>2 DEF AnswersIn
<1>7. DataFirstIn(toClient', serverCache)
  BY <1>3, <1>4 DEF DataFirstIn
<1>8. DataIn(toClient', serverCache, data)
  BY <1>2, <1>3, <1>4 DEF DataIn, Brings
<1>9. 0 \in 0 .. MaxWrites /\ 0 < writeIdCounter
  BY <1>2, WriteTreeAssumption
<1>10. others' \in 0 .. MaxOthers /\ losses' \in 0 .. MaxLosses
  BY TreeFacts, WriteTreeAssumption DEF ConnectionReplaced
<1> QED BY <1>1, <1>2, <1>4, <1>5, <1>6, <1>7, <1>8, <1>9, <1>10, RemoteStep

LEMMA WriteStep == ASSUME TreeInv, NEW shape \in Shapes, Write(shape) PROVE TreeInv'
<1> DEFINE r == [id |-> writeIdCounter, path |-> shape.path, at |-> shape.at]
           n == Len(allWrites)
<1>1. /\ writeIdCounter <= MaxWrites /\ writeIdCounter' = writeIdCounter + 1
      /\ lastWriteId' = writeIdCounter /\ allWrites' = Append(allWrites, r)
      /\ visibleWrites' = AddRecord(visibleWrites, r)
      /\ eventCache' = Upon(Node(Area(r), r.id), eventCache)
      /\ serverCache' = serverCache /\ data' = data /\ judged' = judged
      /\ toClient' = toClient /\ others' = others /\ losses' = losses
  BY DEF Write, Area, remote
<1>2. /\ serverCache \in [Root -> Values] /\ eventCache \in [Root -> Values]
      /\ data \in [Root -> Values] /\ judged \in 0 .. MaxWrites /\ judged < writeIdCounter
      /\ writeIdCounter \in 1 .. MaxWrites + 1
      /\ toClient \in Seq(Messages)
      /\ \A i \in DOMAIN toClient : Tells(toClient[i], allWrites)
      /\ allWrites \in Seq(Records) /\ visibleWrites \in Trees
      /\ others \in 0 .. MaxOthers /\ losses \in 0 .. MaxLosses
      /\ \A i \in DOMAIN allWrites : allWrites[i].id \in Ids
  BY TreeFacts
<1>3. r \in Records
  <2>1. /\ shape \in [path : Paths, at : SUBSET Paths]
        /\ writeIdCounter \in 1 .. MaxWrites
    BY <1>1, <1>2, WriteTreeAssumption
  <2>2. [path |-> r.path, at |-> r.at] = shape
    BY <2>1
  <2> QED BY <2>1, <2>2 DEF Records
<1>4. r.id = writeIdCounter
  OBVIOUS
<1> HIDE DEF r
<1>5. /\ n \in Nat /\ DOMAIN allWrites = 1 .. n /\ DOMAIN allWrites' = 1 .. n + 1
      /\ allWrites'[n + 1] = r /\ \A i \in DOMAIN allWrites : allWrites'[i] = allWrites[i]
      /\ allWrites' \in Seq(Records)
  BY <1>1, <1>2, <1>3
<1> HIDE DEF n
<1>6. LayersOK' /\ visibleWrites' \in Trees
  <2>1. DOMAIN Prefix(allWrites', n) = DOMAIN allWrites
        /\ \A i \in DOMAIN allWrites : Prefix(allWrites', n)[i] = allWrites[i]
    BY <1>5 DEF Prefix
  <2>2. LayersOf(visibleWrites, allWrites)
    BY DEF TreeInv, LayersOK
  <2>3. LayersOf(visibleWrites, Prefix(allWrites', n))
    BY <2>1, <2>2 DEF LayersOf, NewestAt
  <2>4. LayersOf(AddRecord(visibleWrites, allWrites'[n + 1]), allWrites')
    BY <1>2, <1>3, <1>5, <2>3, AddRecordLayers
  <2>5. AddRecord(visibleWrites, r) \in Trees
    BY <1>2, <1>3, AddRecordIs
  <2> QED BY <1>1, <1>5, <2>4, <2>5 DEF LayersOK
<1>7. DOMAIN eventCache' = Root /\ eventCache' = [l \in Root |-> eventCache'[l]]
      /\ \A l \in Root : eventCache'[l] = IF l \in Area(r) THEN r.id ELSE eventCache[l]
  <2>1. DOMAIN eventCache = Root
    BY <1>2
  <2> QED BY <1>1, <2>1 DEF Upon, Node
<1>8. ShownOK'
  <2> SUFFICES ASSUME NEW l \in Root
               PROVE  Holds(allWrites', l, eventCache'[l], serverCache'[l])
    BY DEF ShownOK
  <2>1. Holds(allWrites, l, eventCache[l], serverCache[l])
    BY DEF TreeInv, ShownOK
  <2>2. Holds(Append(allWrites, r), l, IF l \in Area(r) THEN r.id ELSE eventCache[l], serverCache[l])
    BY <1>2, <1>3, <2>1, HoldsAppend
  <2> QED BY <1>1, <1>7, <2>2
<1>9. \A i \in DOMAIN allWrites : allWrites[i].id < writeIdCounter
  BY DEF TreeInv, NumbersOK
<1>10. NumbersOK'
  <2>1. \A i, j \in DOMAIN allWrites : i < j => allWrites[i].id < allWrites[j].id
    BY DEF TreeInv, NumbersOK
  <2>2. \A i \in DOMAIN allWrites' : i \in DOMAIN allWrites \/ i = n + 1
    BY <1>5
  <2>3. \A i, j \in DOMAIN allWrites' : i < j => allWrites'[i].id < allWrites'[j].id
    <3> SUFFICES ASSUME NEW i \in DOMAIN allWrites', NEW j \in DOMAIN allWrites', i < j
                 PROVE  allWrites'[i].id < allWrites'[j].id
      OBVIOUS
    <3>1. i \in DOMAIN allWrites
      BY <1>5
    <3>2. CASE j = n + 1
      BY <1>4, <1>5, <1>9, <3>1, <3>2
    <3>3. CASE j \in DOMAIN allWrites
      BY <1>5, <2>1, <3>1, <3>3
    <3> QED BY <2>2, <3>2, <3>3
  <2>4. \A i \in DOMAIN allWrites' : allWrites'[i].id < writeIdCounter'
    <3> SUFFICES ASSUME NEW i \in DOMAIN allWrites' PROVE allWrites'[i].id < writeIdCounter'
      OBVIOUS
    <3>1. CASE i = n + 1
      BY <1>1, <1>2, <1>4, <1>5, <3>1
    <3>2. CASE i \in DOMAIN allWrites
      <4>1. allWrites'[i].id = allWrites[i].id /\ allWrites[i].id < writeIdCounter
            /\ allWrites[i].id \in Int /\ writeIdCounter \in Int
        BY <1>2, <1>5, <1>9, <3>2 DEF Ids
      <4> QED BY <1>1, <4>1
    <3> QED BY <2>2, <3>1, <3>2
  <2>5. judged' < writeIdCounter'
    <3>1. judged \in Int /\ writeIdCounter \in Int
      BY <1>2, WriteTreeAssumption
    <3>2. judged < writeIdCounter /\ judged' = judged /\ writeIdCounter' = writeIdCounter + 1
      BY <1>1, <1>2
    <3> QED BY <3>1, <3>2
  <2> QED BY <2>3, <2>4, <2>5 DEF NumbersOK
<1>11. KindsOK'
  <2>1. \A i \in DOMAIN toClient : Tells(toClient[i], allWrites')
    <3>1. DOMAIN allWrites \subseteq DOMAIN allWrites'
      BY <1>5
    <3> QED BY <1>2, <1>5, <3>1 DEF Tells
  <2> QED BY <1>1, <1>2, <1>5, <1>6, <2>1 DEF KindsOK
<1>12. AnswersOK'
  <2>1. AnswersIn(toClient, allWrites, judged)
    BY DEF TreeInv, AnswersOK
  <2>2. \A i \in DOMAIN toClient : ~ IsAnswer(toClient, i, r)
    <3> SUFFICES ASSUME NEW i \in DOMAIN toClient, IsAnswer(toClient, i, r) PROVE FALSE
      OBVIOUS
    <3>1. PICK j \in DOMAIN allWrites : r = allWrites[j]
      BY <1>2 DEF IsAnswer, Tells
    <3>2. r.id < writeIdCounter /\ writeIdCounter \in Int
      BY <1>2, <1>9, <3>1
    <3> QED BY <1>4, <3>2
  <2>3. ~ r.id <= judged
    BY <1>2, <1>4
  <2>4. \A j \in DOMAIN allWrites' : (j = n + 1 /\ allWrites'[j] = r)
           \/ (j \in DOMAIN allWrites /\ allWrites'[j] = allWrites[j])
    BY <1>5
  <2>5. \A j \in DOMAIN allWrites : j > 1 => j - 1 \in DOMAIN allWrites
    BY <1>5
  <2>6. \A j \in DOMAIN allWrites' :
          allWrites'[j].id <= judged <=> \E i \in DOMAIN toClient : IsAnswer(toClient, i, allWrites'[j])
    BY <2>1, <2>2, <2>3, <2>4 DEF AnswersIn
  <2>7. \A i, k \in DOMAIN toClient : \A j \in DOMAIN allWrites' :
          IsAnswer(toClient, i, allWrites'[j]) /\ IsAnswer(toClient, k, allWrites'[j]) => i = k
    BY <2>1, <2>2, <2>4 DEF AnswersIn
  <2>8. ASSUME NEW i \in DOMAIN toClient, NEW j \in DOMAIN allWrites',
               IsAnswer(toClient, i, allWrites'[j]), j > 1
        PROVE  \E k \in 1 .. i - 1 : IsAnswer(toClient, k, allWrites'[j - 1])
    <3>1. j \in DOMAIN allWrites /\ allWrites'[j] = allWrites[j]
      BY <2>2, <2>4, <2>8
    <3>2. j - 1 \in DOMAIN allWrites /\ allWrites'[j - 1] = allWrites[j - 1]
      BY <1>5, <2>5, <2>8, <3>1
    <3> QED BY <2>1, <2>8, <3>1, <3>2 DEF AnswersIn
  <2>9. AnswersIn(toClient, allWrites', judged)
    BY <2>6, <2>7, <2>8 DEF AnswersIn
  <2> QED BY <1>1, <2>9 DEF AnswersOK
<1>13. DataFirst' /\ DataOK'
  BY <1>1 DEF TreeInv, DataFirst, DataOK
<1>14. WTTypeOK'
  <2>1. lastWriteId' < writeIdCounter' /\ writeIdCounter' \in 1 .. MaxWrites + 1
    <3>1. writeIdCounter \in Int /\ MaxWrites \in Int /\ writeIdCounter >= 1
      BY <1>2, WriteTreeAssumption
    <3>2. writeIdCounter <= MaxWrites /\ writeIdCounter' = writeIdCounter + 1
          /\ lastWriteId' = writeIdCounter
      BY <1>1
    <3> QED BY <3>1, <3>2
  <2> QED BY <1>1, <1>2, <1>7, <1>8, <1>10, <1>11, <2>1, TypeAfter
<1> QED BY <1>6, <1>8, <1>10, <1>11, <1>12, <1>13, <1>14 DEF TreeInv

LEMMA ZonesCover ==
    ASSUME NEW leaves \in SUBSET Root, NEW l \in leaves
    PROVE  \E z \in Touched(leaves) : l \in z
<1>1. PICK c \in Children : l \in c
  BY WriteTreeAssumption
<1> QED BY <1>1 DEF Touched

\* Data applied to the view: what is shown holds again.
LEMMA ApplyHolds ==
    ASSUME NEW w, NEW records, LayersOf(w, records), NEW shape, NEW node,
           ApplyServerOperation(w, shape, node), serverCache \in [Root -> Values],
           DOMAIN node = UNION shape.at, DOMAIN node \subseteq Root,
           \A l \in Root :
             \/ Holds(records, l, eventCache[l], serverCache'[l])
             \/ /\ l \in DOMAIN node
                /\ Covered(records, l) => Holds(records, l, eventCache[l], serverCache'[l])
    PROVE  /\ eventCache' = [l \in Root |-> eventCache'[l]]
           /\ \A l \in Root : Holds(records, l, eventCache'[l], serverCache'[l])
<1> DEFINE zones == IF shape.at = {shape.path} THEN shape.at ELSE Touched(DOMAIN node)
<1>1. /\ serverCache' = Upon(node, serverCache)
      /\ eventCache' = ShownAfter(w, serverCache', zones)
  BY DEF ApplyServerOperation
<1>2. \A l \in DOMAIN node : \E z \in zones : l \in z
  BY ZonesCover
<1>3. DOMAIN serverCache' = Root
  BY <1>1 DEF Upon
<1> HIDE DEF zones
<1>4. ASSUME NEW l \in Root PROVE Holds(records, l, eventCache'[l], serverCache'[l])
  <2> DEFINE cache == serverCache'
  <2>1. \/ Holds(records, l, eventCache[l], cache[l])
        \/ (\E z \in zones : l \in z)
           /\ (Covered(records, l) => Holds(records, l, eventCache[l], cache[l]))
    BY <1>2
  <2>2. DOMAIN cache = Root
    BY <1>3
  <2> HIDE DEF cache
  <2>3. Holds(records, l, ShownAfter(w, cache, zones)[l], cache[l])
    BY <2>1, <2>2, ShownAfterHolds
  <2> QED BY <1>1, <2>3 DEF cache
<1>5. eventCache' = [l \in Root |-> eventCache'[l]]
  BY <1>1 DEF ShownAfter
<1> QED BY <1>4, <1>5

LEMMA ReceiveDataStep == ASSUME TreeInv, ReceiveData PROVE TreeInv'
<1> DEFINE m == Head(toClient)
<1>1. /\ toClient # <<>> /\ m.type = "data" /\ toClient' = Tail(toClient)
      /\ ApplyServerOperation(visibleWrites, m.shape, m.node)
      /\ serverCache' = Upon(m.node, serverCache)
      /\ allWrites' = allWrites /\ visibleWrites' = visibleWrites /\ lastWriteId' = lastWriteId
      /\ writeIdCounter' = writeIdCounter /\ data' = data /\ judged' = judged
      /\ others' = others /\ losses' = losses
  BY DEF ReceiveData, tree, ApplyServerOperation
<1>2. /\ serverCache \in [Root -> Values] /\ eventCache \in [Root -> Values]
      /\ data \in [Root -> Values] /\ judged \in 0 .. MaxWrites /\ judged \in Int
      /\ writeIdCounter \in 1 .. MaxWrites + 1 /\ lastWriteId < writeIdCounter
      /\ toClient \in Seq(Messages)
      /\ \A i \in DOMAIN toClient : Tells(toClient[i], allWrites)
      /\ allWrites \in Seq(Records) /\ visibleWrites \in Trees
      /\ others \in 0 .. MaxOthers /\ losses \in 0 .. MaxLosses
  BY TreeFacts
<1>3. /\ Tail(toClient) \in Seq(Messages) /\ m = toClient[1] /\ 1 \in DOMAIN toClient
      /\ m \in Messages
      /\ \A i \in DOMAIN Tail(toClient) : Tail(toClient)[i] = toClient[i + 1] /\ i + 1 \in DOMAIN toClient
  BY <1>1, <1>2, MessageTail
<1>4. DOMAIN m.node = UNION m.shape.at /\ DOMAIN m.node \subseteq Root
  BY <1>1, <1>2, <1>3 DEF Tells
<1>5. PICK D \in SUBSET Root : m.node \in [D -> Values]
  <2>1. m \in DataMessages
    BY <1>1, <1>3 DEF Messages, Judgements
  <2> QED BY <2>1 DEF DataMessages
<1>6. serverCache' \in [Root -> Values]
  BY <1>1, <1>2, <1>5, UponValues
<1> HIDE DEF m
<1>7. \A l \in Root : serverCache'[l] = IF l \in DOMAIN m.node THEN m.node[l] ELSE serverCache[l]
  <2>1. DOMAIN serverCache = Root
    BY <1>2
  <2> QED BY <1>1, <2>1 DEF Upon
<1>8. LayersOf(visibleWrites, allWrites)
      /\ \A l \in Root : Holds(allWrites, l, eventCache[l], serverCache[l])
  BY DEF TreeInv, LayersOK, ShownOK
<1>9. ASSUME NEW l \in Root
      PROVE  \/ Holds(allWrites, l, eventCache[l], serverCache'[l])
             \/ /\ l \in DOMAIN m.node
                /\ Covered(allWrites, l) => Holds(allWrites, l, eventCache[l], serverCache'[l])
  BY <1>7, <1>8, HoldsOver
<1>10. /\ eventCache' = [l \in Root |-> eventCache'[l]]
       /\ \A l \in Root : Holds(allWrites, l, eventCache'[l], serverCache'[l])
  BY <1>1, <1>2, <1>4, <1>8, <1>9, ApplyHolds
<1>11. LayersOK' /\ ShownOK' /\ NumbersOK'
  BY <1>1, <1>8, <1>10 DEF TreeInv, LayersOK, ShownOK, NumbersOK
<1>12. KindsOK'
  <2>1. \A i \in DOMAIN Tail(toClient) : Tells(Tail(toClient)[i], allWrites)
    BY <1>2, <1>3
  <2> QED BY <1>1, <1>2, <1>3, <2>1 DEF KindsOK
<1>13. AnswersOK'
  <2>1. AnswersIn(toClient, allWrites, judged)
    BY DEF TreeInv, AnswersOK
  <2>2. AnswersIn(Tail(toClient), allWrites, judged)
    BY <1>1, <1>2, <2>1, AnswersTailData DEF m
  <2> QED BY <1>1, <2>2 DEF AnswersOK
<1>14. DataFirst'
  <2>1. DataFirstIn(toClient, serverCache)
    BY DEF TreeInv, DataFirst
  <2>2. \A l \in DOMAIN m.node : serverCache'[l] = m.node[l]
    BY <1>4, <1>7
  <2>3. DataFirstIn(Tail(toClient), serverCache')
    BY <1>1, <1>2, <2>1, <2>2, DataFirstTailData DEF m
  <2> QED BY <1>1, <2>3 DEF DataFirst
<1>15. DataOK'
  <2>1. DataIn(toClient, serverCache, data)
    BY DEF TreeInv, DataOK
  <2>2. \A l \in Root : serverCache'[l] = IF Brings(toClient, 1, l) THEN toClient[1].node[l]
                                          ELSE serverCache[l]
    BY <1>1, <1>3, <1>7 DEF Brings
  <2>3. DataIn(Tail(toClient), serverCache', data)
    BY <1>1, <1>2, <2>1, <2>2, DataTail
  <2> QED BY <1>1, <2>3 DEF DataOK
<1>16. WTTypeOK'
  BY <1>1, <1>2, <1>6, <1>10, <1>11, <1>12, TypeAfter
<1> QED BY <1>11, <1>12, <1>13, <1>14, <1>15, <1>16 DEF TreeInv

(* The answers.  The oldest record leaves; what the layers and the view    *)
(* keep is right for the others.                                           *)

\* Nothing that the others write is at, below or above a path that none of
\* them overlaps and none covers: a merge has no path in between.
LEMMA Untouched ==
    ASSUME ShallowMerges, NEW r \in Records, NEW rest \in Seq(Records),
           ~ Shadowed(r, rest), ~ Overlaps(r, rest),
           NEW i \in DOMAIN rest, NEW q \in rest[i].at
    PROVE  q \cap r.path = {}
<1> DEFINE s == rest[i]
<1>1. s \in Records
  OBVIOUS
<1>2. ~ s.path \subseteq r.path /\ ~ r.path \subseteq q
  BY DEF Overlaps, Shadowed
<1> HIDE DEF s
<1>3. q \in s.at
  BY DEF s
<1>4. /\ s.path \in Paths /\ q \in Paths /\ q \subseteq s.path
      /\ [path |-> s.path, at |-> s.at] \in Shapes /\ r.path \in Paths
  BY <1>1, <1>3, RecordIs
<1>5. ASSUME q \subseteq r.path PROVE FALSE
  <2>1. r.path \subseteq s.path
    <3>1. q # {} /\ (r.path \subseteq s.path \/ s.path \subseteq r.path \/ r.path \cap s.path = {})
      BY <1>4, PathsApart
    <3> QED BY <1>2, <1>4, <1>5, <3>1
  <2>2. CASE s.at = {s.path}
    BY <1>2, <1>3, <1>5, <2>2
  <2>3. CASE s.at # {s.path}
    <3> DEFINE shape == [path |-> s.path, at |-> s.at]
    <3>1. shape \in Shapes /\ shape.path = s.path /\ shape.at = s.at
      BY <1>4
    <3> HIDE DEF shape
    <3>2. r.path \in {q, s.path}
      BY <1>3, <1>4, <1>5, <2>1, <2>3, <3>1 DEF ShallowMerges
    <3> QED BY <1>2, <3>2
  <2> QED BY <2>2, <2>3
<1> QED BY <1>2, <1>4, <1>5, PathsApart

\* A record that another covers leaves the layers as they are.
LEMMA ShadowedLayers ==
    ASSUME NEW s \in Seq(Records), s # <<>>, Shadowed(s[1], Tail(s)),
           NEW w \in Trees, LayersOf(w, s)
    PROVE  /\ LayersOf(w, Tail(s))
           /\ \A l \in Area(s[1]) : Covered(Tail(s), l)
<1> DEFINE t == Tail(s)
           r == s[1]
<1>1. /\ r \in Records /\ 1 \in DOMAIN s
      /\ \A i \in DOMAIN t : i + 1 \in DOMAIN s /\ t[i] = s[i + 1]
      /\ \A i \in DOMAIN s : i # 1 => i - 1 \in DOMAIN t /\ t[i - 1] = s[i]
  OBVIOUS
<1>2. PICK h \in DOMAIN t : \E q \in t[h].at : r.path \subseteq q
  BY DEF Shadowed
<1>3. PICK c \in t[h].at : r.path \subseteq c
  BY <1>2
<1>4. \A l \in Area(r) : Covered(t, l)
  BY <1>1, <1>2, <1>3, RecordIs DEF Area, Covered
<1>5. \A l : \A i \in DOMAIN s : NewestAt(s, l, i) /\ i # 1 =>
        i - 1 \in DOMAIN t /\ NewestAt(t, l, i - 1) /\ s[i] = t[i - 1]
  BY NewestOfRest
<1>6. \A l : Covered(t, l) => ~ NewestAt(s, l, 1)
  BY NewestOfRest
<1> HIDE DEF t, r
<1>7. ASSUME NEW q \in DOMAIN w PROVE \E i \in DOMAIN t : q \in t[i].at
  <2>1. PICK i \in DOMAIN s : q \in s[i].at
    BY DEF LayersOf
  <2>2. CASE i # 1
    BY <1>1, <2>1, <2>2
  <2>3. CASE i = 1
    <3>1. q \in r.at
      BY <2>1, <2>3 DEF r
    <3>2. q \subseteq r.path /\ q \in Paths /\ q # {}
      BY <1>1, <3>1, RecordIs, PathsApart
    <3>3. h + 1 \in DOMAIN s /\ c \in s[h + 1].at
      BY <1>1, <1>2, <1>3
    <3>4. Shadowing(w, c)
      BY <3>3 DEF LayersOf
    <3>5. PICK k \in DOMAIN w : c \subseteq k
      BY <3>4 DEF Shadowing
    <3>6. q = k
      BY <1>3, <3>2, <3>5, TreesIs
    <3>7. q = c
      BY <1>3, <3>2, <3>5, <3>6
    <3> QED BY <1>2, <1>3, <3>7
  <2> QED BY <2>2, <2>3
<1>8. \A i \in DOMAIN t : \A p \in t[i].at : Shadowing(w, p)
  BY <1>1 DEF LayersOf
<1>9. ASSUME NEW q \in DOMAIN w, NEW l \in q
      PROVE  \E i \in DOMAIN t : NewestAt(t, l, i) /\ w[q][l] = t[i].id
  <2>1. PICK i \in DOMAIN s : NewestAt(s, l, i) /\ w[q][l] = s[i].id
    BY DEF LayersOf
  <2>2. i # 1
    <3>1. i = 1 => l \in Area(r)
      BY <2>1 DEF NewestAt, r
    <3> QED BY <1>4, <1>6, <2>1, <3>1
  <2> QED BY <1>5, <2>1, <2>2
<1>10. LayersOf(w, t)
  BY <1>7, <1>8, <1>9 DEF LayersOf
<1> QED BY <1>4, <1>10 DEF t, r

\* A record that touches no other takes its entries along.
LEMMA RemovedLayers ==
    ASSUME ShallowMerges, NEW s \in Seq(Records), s # <<>>, ~ Shadowed(s[1], Tail(s)),
           ~ Overlaps(s[1], Tail(s)), visibleWrites \in Trees, LayersOf(visibleWrites, s)
    PROVE  Removed(s[1]) \in Trees /\ LayersOf(Removed(s[1]), Tail(s))
<1> DEFINE t == Tail(s)
           r == s[1]
           w == visibleWrites
           u == Removed(r)
<1>1. /\ r \in Records /\ t \in Seq(Records) /\ 1 \in DOMAIN s
      /\ \A i \in DOMAIN t : i + 1 \in DOMAIN s /\ t[i] = s[i + 1]
      /\ \A i \in DOMAIN s : i # 1 => i - 1 \in DOMAIN t /\ t[i - 1] = s[i]
  OBVIOUS
<1>2. /\ w = [q \in DOMAIN w |-> w[q]] /\ DOMAIN w \subseteq Paths
      /\ \A q \in DOMAIN w : w[q] \in [q -> Ids]
      /\ \A q, k \in DOMAIN w : q # k => q \cap k = {}
  BY TreesIs
<1>3. /\ u = [q \in DOMAIN u |-> w[q]]
      /\ \A q : q \in DOMAIN u <=> q \in DOMAIN w /\ \A p \in r.at : ~ q \subseteq p
  <2>1. IsFiniteSet(r.at)
    BY <1>1, RecordIs
  <2> HIDE DEF r
  <2> QED BY <1>2, <2>1, RemovedIs
<1>4. \A i \in DOMAIN t : \A q \in t[i].at : q \cap r.path = {} /\ q # {}
  <2> SUFFICES ASSUME NEW i \in DOMAIN t, NEW q \in t[i].at PROVE q \cap r.path = {} /\ q # {}
    OBVIOUS
  <2>1. ~ Shadowed(r, t) /\ ~ Overlaps(r, t)
    OBVIOUS
  <2>2. t[i] \in Records
    BY <1>1
  <2> HIDE DEF t, r
  <2>3. q \cap r.path = {}
    BY <1>1, <2>1, Untouched
  <2>4. q \in Paths
    BY <2>2, RecordIs
  <2> QED BY <2>3, <2>4, PathsApart
<1>5. \A p \in r.at : p \subseteq r.path
  BY <1>1, RecordIs
<1>6. \A l : \A i \in DOMAIN s : NewestAt(s, l, i) /\ i # 1 =>
        i - 1 \in DOMAIN t /\ NewestAt(t, l, i - 1) /\ s[i] = t[i - 1]
  BY NewestOfRest
<1>7. \A l : Covered(t, l) => ~ NewestAt(s, l, 1)
  BY NewestOfRest
<1>8. LayersOf(w, s)
  OBVIOUS
<1> HIDE DEF t, u, w
<1>9. u \in Trees
  <2>1. \A q \in DOMAIN u : q \in DOMAIN w /\ u[q] = w[q]
    BY <1>3
  <2>2. u = [q \in DOMAIN u |-> u[q]]
    BY <1>3
  <2> QED BY <1>2, <2>1, <2>2, TreesIs
<1>10. ASSUME NEW q \in DOMAIN u PROVE \E i \in DOMAIN t : q \in t[i].at
  <2>1. PICK i \in DOMAIN s : q \in s[i].at
    BY <1>3, <1>8 DEF LayersOf
  <2>2. i # 1
    BY <1>3, <2>1 DEF r
  <2> QED BY <1>1, <2>1, <2>2
<1>11. ASSUME NEW i \in DOMAIN t, NEW p \in t[i].at PROVE Shadowing(u, p)
  <2>1. Shadowing(w, p)
    BY <1>1, <1>8 DEF LayersOf
  <2>2. PICK q \in DOMAIN w : p \subseteq q
    BY <2>1 DEF Shadowing
  <2>3. \A k \in r.at : ~ q \subseteq k
    BY <1>4, <1>5, <2>2
  <2> QED BY <1>3, <2>2, <2>3 DEF Shadowing
<1>12. ASSUME NEW q \in DOMAIN u, NEW l \in q
       PROVE  \E i \in DOMAIN t : NewestAt(t, l, i) /\ u[q][l] = t[i].id
  <2>1. q \in DOMAIN w /\ u[q] = w[q]
    BY <1>3
  <2>2. PICK i \in DOMAIN s : NewestAt(s, l, i) /\ w[q][l] = s[i].id
    BY <1>8, <2>1 DEF LayersOf
  <2>3. Covered(t, l)
    BY <1>10 DEF Covered, Area
  <2>4. i # 1
    BY <1>7, <2>2, <2>3
  <2> QED BY <1>6, <2>1, <2>2, <2>4
<1>13. LayersOf(u, t)
  BY <1>10, <1>11, <1>12 DEF LayersOf
<1> QED BY <1>9, <1>13 DEF t, u

\* The layers after an answer, whatever its case.
LEMMA AnsweredLayers ==
    ASSUME ShallowMerges, TreeInv, allWrites # <<>>, NEW ok, Answered(allWrites[1], ok)
    PROVE  /\ visibleWrites' \in Trees /\ LayersOf(visibleWrites', Tail(allWrites))
           /\ allWrites' = Tail(allWrites) /\ writeIdCounter' = writeIdCounter
           /\ lastWriteId' < writeIdCounter'
           /\ \/ /\ UNCHANGED view
                 /\ \A l \in Area(allWrites[1]) : Covered(Tail(allWrites), l)
              \/ IF ok THEN AckUserWrite(visibleWrites', allWrites[1])
                 ELSE RevertUserWrite(visibleWrites', allWrites[1])
<1> DEFINE r == allWrites[1]
           rest == Tail(allWrites)
<1>1. /\ allWrites \in Seq(Records) /\ visibleWrites \in Trees
      /\ lastWriteId < writeIdCounter
      /\ LayersOf(visibleWrites, allWrites)
      /\ \A i \in DOMAIN allWrites : allWrites[i].id < writeIdCounter
  BY TreeFacts DEF TreeInv, NumbersOK, LayersOK
<1>2. rest \in Seq(Records)
  BY <1>1
<1>3. allWrites' = rest /\ writeIdCounter' = writeIdCounter
  BY DEF Answered
<1>4. CASE Shadowed(r, rest)
  <2>1. visibleWrites' = visibleWrites /\ lastWriteId' = lastWriteId /\ UNCHANGED view
    BY <1>4 DEF Answered
  <2>2. LayersOf(visibleWrites, rest) /\ \A l \in Area(r) : Covered(rest, l)
    BY <1>1, <1>4, ShadowedLayers
  <2> QED BY <1>1, <1>3, <2>1, <2>2
<1>5. CASE ~ Shadowed(r, rest)
  <2>1. IF ok THEN AckUserWrite(visibleWrites', r) ELSE RevertUserWrite(visibleWrites', r)
    BY <1>5 DEF Answered
  <2>2. CASE Overlaps(r, rest)
    <3>1. visibleWrites' = Layered(rest) /\ lastWriteId' = Last(rest).id
      BY <1>5, <2>2 DEF Answered
    <3>2. Layered(rest) \in Trees /\ LayersOf(Layered(rest), rest)
      BY <1>2, LayeredIs
    <3>3. rest # <<>>
      BY <2>2 DEF Overlaps
    <3>4. Last(rest).id < writeIdCounter
      <4>1. Last(rest) = allWrites[Len(allWrites)] /\ Len(allWrites) \in DOMAIN allWrites
        BY <1>1, <3>3 DEF Last
      <4> QED BY <1>1, <4>1
    <3> QED BY <1>3, <2>1, <3>1, <3>2, <3>4
  <2>3. CASE ~ Overlaps(r, rest)
    <3>1. visibleWrites' = Removed(r) /\ lastWriteId' = lastWriteId
      BY <1>5, <2>3 DEF Answered
    <3>2. Removed(r) \in Trees /\ LayersOf(Removed(r), rest)
      BY <1>1, <1>5, <2>3, RemovedLayers
    <3> QED BY <1>1, <1>3, <2>1, <3>1, <3>2
  <2> QED BY <2>2, <2>3
<1> QED BY <1>4, <1>5

\* The view after an answer: what the record covered alone is what is below.
LEMMA AnsweredView ==
    ASSUME TreeInv, allWrites # <<>>, NEW w, LayersOf(w, Tail(allWrites)), NEW ok,
           \/ /\ UNCHANGED view
              /\ \A l \in Area(allWrites[1]) : Covered(Tail(allWrites), l)
           \/ IF ok THEN AckUserWrite(w, allWrites[1]) ELSE RevertUserWrite(w, allWrites[1])
    PROVE  /\ serverCache' = serverCache
           /\ eventCache' = [l \in Root |-> eventCache'[l]]
           /\ \A l \in Root : Holds(Tail(allWrites), l, eventCache'[l], serverCache[l])
<1> DEFINE r == allWrites[1]
           rest == Tail(allWrites)
<1>1. /\ serverCache \in [Root -> Values] /\ eventCache \in [Root -> Values]
      /\ allWrites \in Seq(Records) /\ r \in Records
  <2>1. 1 \in DOMAIN allWrites
    BY TreeFacts
  <2> QED BY <2>1, TreeFacts
<1>2. Area(r) \subseteq r.path /\ Area(r) \subseteq Root /\ r.path \subseteq Root
      /\ Area(r) = UNION r.at
  BY <1>1, RecordIs DEF Area
<1>3. \A l \in Root : Covered(rest, l) \/ l \notin Area(r) =>
        Holds(rest, l, eventCache[l], serverCache[l])
  <2>1. \A l \in Root : Holds(allWrites, l, eventCache[l], serverCache[l])
    BY DEF TreeInv, ShownOK
  <2> QED BY <1>1, <2>1, HoldsTail
<1>4. LayersOf(w, rest)
  OBVIOUS
<1> HIDE DEF rest, r
<1>5. ASSUME UNCHANGED view, \A l \in Area(r) : Covered(rest, l)
      PROVE  /\ serverCache' = serverCache
             /\ eventCache' = [l \in Root |-> eventCache'[l]]
             /\ \A l \in Root : Holds(rest, l, eventCache'[l], serverCache[l])
  <2>1. serverCache' = serverCache /\ eventCache' = eventCache
    BY <1>5 DEF view
  <2>2. eventCache = [l \in Root |-> eventCache[l]]
    BY <1>1
  <2> QED BY <1>3, <1>5, <2>1, <2>2
<1>6. Shadowing(w, r.path) => \A l \in Area(r) : Covered(rest, l)
  BY <1>2, <1>4, LayersCover
<1>7. CASE AckUserWrite(w, r)
  <2>1. CASE Shadowing(w, r.path)
    BY <1>5, <1>6, <1>7, <2>1 DEF AckUserWrite, r, rest
  <2>2. CASE ~ Shadowing(w, r.path)
    <3> DEFINE node == GetChild(serverCache, Area(r))
    <3>1. ApplyServerOperation(w, r, node)
      BY <1>2, <1>7, <2>2 DEF AckUserWrite
    <3>2. DOMAIN node = Area(r) /\ \A l \in Area(r) : node[l] = serverCache[l]
      BY DEF GetChild
    <3> HIDE DEF node
    <3>3. serverCache' = serverCache
      <4>1. serverCache' = Upon(node, serverCache) /\ DOMAIN serverCache = Root
            /\ serverCache = [l \in Root |-> serverCache[l]]
        BY <1>1, <3>1 DEF ApplyServerOperation
      <4> QED BY <3>2, <4>1 DEF Upon
    <3>4. ASSUME NEW l \in Root
          PROVE  \/ Holds(rest, l, eventCache[l], serverCache'[l])
                 \/ /\ l \in DOMAIN node
                    /\ Covered(rest, l) => Holds(rest, l, eventCache[l], serverCache'[l])
      BY <1>3, <3>2, <3>3
    <3>5. DOMAIN node = UNION r.at /\ DOMAIN node \subseteq Root
      BY <1>2, <3>2
    <3>6. /\ eventCache' = [l \in Root |-> eventCache'[l]]
          /\ \A l \in Root : Holds(rest, l, eventCache'[l], serverCache'[l])
      BY <1>1, <1>4, <3>1, <3>4, <3>5, ApplyHolds
    <3> QED BY <3>3, <3>6 DEF rest
  <2> QED BY <2>1, <2>2
<1>8. CASE RevertUserWrite(w, r)
  <2>1. CASE Shadowing(w, r.path)
    BY <1>5, <1>6, <1>8, <2>1 DEF RevertUserWrite, view, rest
  <2>2. CASE ~ Shadowing(w, r.path)
    <3> DEFINE zones == IF r.path = Root THEN {Root} ELSE Touched(r.path)
    <3>1. /\ serverCache' = serverCache
          /\ eventCache' = [l \in Root |-> IF l \in UNION zones
                              THEN ApplyTo(w, serverCache)[l] ELSE eventCache[l]]
      BY <1>8, <2>2 DEF RevertUserWrite
    <3>2. \A l \in Area(r) : l \in UNION zones
      BY <1>2, ZonesCover
    <3> HIDE DEF zones
    <3>3. ASSUME NEW l \in Root PROVE Holds(rest, l, eventCache'[l], serverCache[l])
      <4>1. CASE l \in UNION zones
        <5>1. Holds(rest, l, ApplyTo(w, serverCache)[l], serverCache[l])
          BY <1>1, <1>4, ApplyToHolds
        <5> QED BY <3>1, <4>1, <5>1
      <4>2. CASE l \notin UNION zones
        <5>1. l \notin Area(r) /\ eventCache'[l] = eventCache[l]
          BY <3>1, <3>2, <4>2
        <5> QED BY <1>3, <5>1
      <4> QED BY <4>1, <4>2
    <3>4. eventCache' = [l \in Root |-> eventCache'[l]]
      BY <3>1
    <3> QED BY <3>1, <3>3, <3>4 DEF rest
  <2> QED BY <2>1, <2>2
<1> QED BY <1>5, <1>7, <1>8 DEF r, rest

\* The oldest write is the one that is answered.
LEMMA AnsweredFirst ==
    ASSUME TreeInv, ReceiveAnswer
    PROVE  /\ allWrites # <<>> /\ Head(toClient).write = allWrites[1]
           /\ IsAnswer(toClient, 1, allWrites[1])
           /\ Answered(allWrites[1], Head(toClient).ok)
<1>1. /\ toClient # <<>> /\ Head(toClient).type = "answer"
      /\ Answered(Head(toClient).write, Head(toClient).ok)
  BY DEF ReceiveAnswer
<1>2. /\ toClient \in Seq(Messages) /\ allWrites \in Seq(Records) /\ judged \in Int
      /\ \A i \in DOMAIN toClient : Tells(toClient[i], allWrites)
      /\ AnswersIn(toClient, allWrites, judged)
  BY TreeFacts DEF TreeInv, AnswersOK
<1>3. \E j \in DOMAIN allWrites : Head(toClient).write = allWrites[j]
  <2>1. 1 \in DOMAIN toClient /\ toClient[1] = Head(toClient)
    BY <1>1, <1>2, MessageTail
  <2> QED BY <1>1, <1>2, <2>1 DEF Tells
<1>4. allWrites # <<>> /\ Head(toClient).write = Head(allWrites) /\ IsAnswer(toClient, 1, allWrites[1])
  BY <1>1, <1>2, <1>3, AnswersFirst
<1>5. Head(allWrites) = allWrites[1]
  BY <1>2, <1>4
<1> QED BY <1>1, <1>4, <1>5

LEMMA ReceiveAnswerStep == ASSUME ShallowMerges, TreeInv, ReceiveAnswer PROVE TreeInv'
<1> DEFINE m == Head(toClient)
           r == allWrites[1]
           rest == Tail(allWrites)
<1>1. /\ toClient # <<>> /\ m.type = "answer" /\ toClient' = Tail(toClient)
      /\ data' = data /\ judged' = judged /\ others' = others /\ losses' = losses
  BY DEF ReceiveAnswer
<1>2. allWrites # <<>> /\ IsAnswer(toClient, 1, r) /\ Answered(r, m.ok)
  BY AnsweredFirst
<1>3. /\ serverCache \in [Root -> Values]
      /\ data \in [Root -> Values] /\ judged \in 0 .. MaxWrites /\ judged \in Int
      /\ judged < writeIdCounter /\ writeIdCounter \in 1 .. MaxWrites + 1
      /\ toClient \in Seq(Messages)
      /\ \A i \in DOMAIN toClient : Tells(toClient[i], allWrites)
      /\ allWrites \in Seq(Records)
      /\ others \in 0 .. MaxOthers /\ losses \in 0 .. MaxLosses
      /\ AnswersIn(toClient, allWrites, judged) /\ DataFirstIn(toClient, serverCache)
      /\ DataIn(toClient, serverCache, data)
      /\ \A i, j \in DOMAIN allWrites : i < j => allWrites[i].id < allWrites[j].id
      /\ \A i \in DOMAIN allWrites : allWrites[i].id < writeIdCounter
  BY TreeFacts DEF TreeInv, AnswersOK, DataFirst, DataOK, NumbersOK
<1>4. /\ Tail(toClient) \in Seq(Messages) /\ m = toClient[1] /\ 1 \in DOMAIN toClient
      /\ \A i \in DOMAIN Tail(toClient) : Tail(toClient)[i] = toClient[i + 1] /\ i + 1 \in DOMAIN toClient
  BY <1>1, <1>3, MessageTail
<1>5. /\ rest \in Seq(Records)
      /\ \A j \in DOMAIN rest : j \in Int /\ rest[j] = allWrites[j + 1] /\ j + 1 \in DOMAIN allWrites
      /\ \A j \in DOMAIN allWrites : j # 1 => j - 1 \in DOMAIN rest /\ rest[j - 1] = allWrites[j]
  <2> DEFINE n == Len(allWrites)
  <2>1. /\ n \in Nat \ {0} /\ DOMAIN allWrites = 1 .. n /\ rest \in Seq(Records)
        /\ DOMAIN rest = 1 .. n - 1 /\ \A j \in 1 .. n - 1 : rest[j] = allWrites[j + 1]
    BY <1>2, <1>3
  <2> HIDE DEF rest, n
  <2>2. ASSUME NEW j \in DOMAIN allWrites, j # 1
        PROVE  j - 1 \in DOMAIN rest /\ rest[j - 1] = allWrites[j]
    <3>1. j - 1 \in 1 .. n - 1 /\ (j - 1) + 1 = j
      BY <2>1, <2>2
    <3> QED BY <2>1, <3>1
  <2>3. \A j \in DOMAIN rest : j \in Int /\ j + 1 \in DOMAIN allWrites
    BY <2>1
  <2> QED BY <2>1, <2>2, <2>3
<1> HIDE DEF m
<1>6. /\ visibleWrites' \in Trees /\ LayersOf(visibleWrites', rest)
      /\ allWrites' = rest /\ writeIdCounter' = writeIdCounter
      /\ lastWriteId' < writeIdCounter'
      /\ \/ UNCHANGED view /\ \A l \in Area(r) : Covered(rest, l)
         \/ IF m.ok THEN AckUserWrite(visibleWrites', r) ELSE RevertUserWrite(visibleWrites', r)
  BY <1>2, AnsweredLayers
<1>7. /\ serverCache' = serverCache
      /\ eventCache' = [l \in Root |-> eventCache'[l]]
      /\ \A l \in Root : Holds(rest, l, eventCache'[l], serverCache[l])
  <2> DEFINE w == visibleWrites'
  <2>1. /\ LayersOf(w, rest)
        /\ \/ UNCHANGED view /\ \A l \in Area(r) : Covered(rest, l)
           \/ IF m.ok THEN AckUserWrite(w, r) ELSE RevertUserWrite(w, r)
    BY <1>6
  <2> HIDE DEF w
  <2> QED BY <1>2, <2>1, AnsweredView
<1>8. AnswersIn(Tail(toClient), rest, judged)
      /\ \A i \in DOMAIN Tail(toClient) : ~ IsAnswer(Tail(toClient), i, r)
  BY <1>1, <1>2, <1>3, AnswersTailAnswer
<1> HIDE DEF rest, r
<1>9. KindsOK'
  <2>1. ASSUME NEW i \in DOMAIN Tail(toClient) PROVE Tells(Tail(toClient)[i], rest)
    <3> DEFINE h == Tail(toClient)[i]
    <3>1. Tells(h, allWrites)
      BY <1>3, <1>4
    <3>2. h.type = "answer" => h.write # r
      BY <1>8 DEF IsAnswer
    <3> HIDE DEF h
    <3>3. h.type = "answer" => \E j \in DOMAIN rest : h.write = rest[j]
      BY <1>5, <3>1, <3>2 DEF Tells, r
    <3>4. Tells(h, rest)
      BY <3>1, <3>3 DEF Tells
    <3> QED BY <3>4 DEF h
  <2> QED BY <1>1, <1>4, <1>5, <1>6, <2>1 DEF KindsOK
<1>10. NumbersOK'
  <2>1. \A i, j \in DOMAIN rest : i < j => rest[i].id < rest[j].id
    <3> SUFFICES ASSUME NEW i \in DOMAIN rest, NEW j \in DOMAIN rest, i < j
                 PROVE  rest[i].id < rest[j].id
      OBVIOUS
    <3>1. i + 1 \in DOMAIN allWrites /\ j + 1 \in DOMAIN allWrites /\ i + 1 < j + 1
          /\ rest[i] = allWrites[i + 1] /\ rest[j] = allWrites[j + 1]
      BY <1>5
    <3> QED BY <1>3, <3>1
  <2>2. \A i \in DOMAIN rest : rest[i].id < writeIdCounter
    BY <1>3, <1>5
  <2> QED BY <1>1, <1>3, <1>6, <2>1, <2>2 DEF NumbersOK
<1>11. LayersOK' /\ ShownOK'
  BY <1>6, <1>7 DEF LayersOK, ShownOK
<1>12. AnswersOK'
  BY <1>1, <1>6, <1>8 DEF AnswersOK
<1>13. DataFirst'
  <2>1. Head(toClient).type = "answer"
    BY <1>1 DEF m
  <2>2. DataFirstIn(Tail(toClient), serverCache)
    BY <1>1, <1>3, <2>1, DataFirstTailAnswer
  <2> QED BY <1>1, <1>7, <2>2 DEF DataFirst
<1>14. DataOK'
  <2>1. \A l \in Root : serverCache[l] = IF Brings(toClient, 1, l) THEN toClient[1].node[l]
                                         ELSE serverCache[l]
    BY <1>1, <1>4 DEF Brings
  <2>2. DataIn(Tail(toClient), serverCache, data)
    BY <1>1, <1>3, <2>1, DataTail
  <2> QED BY <1>1, <1>7, <2>2 DEF DataOK
<1>15. WTTypeOK'
  BY <1>1, <1>3, <1>6, <1>7, <1>9, <1>10, <1>11, TypeAfter
<1> QED BY <1>9, <1>10, <1>11, <1>12, <1>13, <1>14, <1>15 DEF TreeInv

LEMMA InitTreeInv == WTInit => TreeInv
<1> SUFFICES ASSUME WTInit PROVE TreeInv
  OBVIOUS
<1>1. /\ allWrites = <<>> /\ visibleWrites = <<>> /\ lastWriteId = -1 /\ writeIdCounter = 1
      /\ serverCache = Node(Root, 0) /\ eventCache = Node(Root, 0) /\ data = Node(Root, 0)
      /\ judged = 0 /\ toClient = <<>> /\ others = 0 /\ losses = 0
  BY DEF WTInit
<1>2. Node(Root, 0) \in [Root -> Values] /\ \A l \in Root : Node(Root, 0)[l] = 0
  BY WriteTreeAssumption DEF Node, Values
<1>3. DOMAIN <<>> = {} /\ <<>> \in Trees /\ LayersOf(<<>>, <<>>)
  BY NoLayers
<1>4. KindsOK /\ NumbersOK /\ LayersOK
  BY <1>1, <1>3 DEF KindsOK, NumbersOK, LayersOK
<1>5. ShownOK
  BY <1>1, <1>2, <1>3 DEF ShownOK, Holds, Covered
<1>6. AnswersOK /\ DataFirst /\ DataOK
  BY <1>1, <1>2, <1>3 DEF AnswersOK, AnswersIn, DataFirst, DataFirstIn, DataOK, DataIn
<1>7. WTTypeOK
  BY <1>1, <1>2, <1>3, WriteTreeAssumption DEF WTTypeOK, Values
<1> QED BY <1>4, <1>5, <1>6, <1>7 DEF TreeInv

LEMMA NextTreeInv == ASSUME ShallowMerges PROVE TreeInv /\ [WTNext]_wtVars => TreeInv'
<1> SUFFICES ASSUME TreeInv, [WTNext]_wtVars PROVE TreeInv'
  OBVIOUS
<1>1. CASE UNCHANGED wtVars
  BY <1>1 DEF wtVars, tree, view, remote, TreeInv, WTTypeOK, KindsOK, NumbersOK, LayersOK,
              ShownOK, AnswersOK, DataFirst, DataOK
<1>2. ASSUME NEW shape \in Shapes, Write(shape) PROVE TreeInv'
  BY <1>2, WriteStep
<1>3. ASSUME NEW p \in Paths, OthersWrite(p) PROVE TreeInv'
  BY <1>3, OthersStep
<1> QED BY <1>1, <1>2, <1>3, AppliesStep, RejectsStep, ReplacedStep, ReceiveDataStep,
           ReceiveAnswerStep DEF WTNext

\* The records shown on a node that has all leaves are what the leaves hold.
LEMMA HoldsShown ==
    ASSUME NEW s \in Seq(Records), NEW shown, NEW below, DOMAIN below = Root,
           below = [l \in Root |-> below[l]], shown = [l \in Root |-> shown[l]],
           \A l \in Root : Holds(s, l, shown[l], below[l])
    PROVE  shown = Shown(s, below)
<1>1. Len(s) \in Nat /\ DOMAIN s = 1 .. Len(s) /\ DOMAIN s \in SUBSET Int
  OBVIOUS
<1>2. /\ Shown(s, below) = [l \in Root |-> Shown(s, below)[l]]
      /\ \A l \in Root : Holds(s, l, Shown(s, below)[l], below[l])
  BY <1>1, ShownIs, SMTT(30)
<1> DEFINE x == Shown(s, below)
<1> HIDE DEF x
<1>3. \A l \in Root : shown[l] = x[l]
  BY <1>1, <1>2, HoldsOnce DEF x
<1>4. x = [l \in Root |-> x[l]]
  BY <1>2 DEF x
<1> QED BY <1>3, <1>4 DEF x

\* As long as no merge reaches deeper than the children of its path, the
\* invariant holds: the layers are those of the pending writes, every leaf
\* shows the newest of them that writes it, answers are under way for the
\* writes that were judged, in their order and after their data, and the
\* data of the server is what the client has and what is under way.
THEOREM TreeInvariance == ASSUME ShallowMerges PROVE WTSpec => []TreeInv
<1>1. WTInit => TreeInv
  BY InitTreeInv
<1>2. TreeInv /\ [WTNext]_wtVars => TreeInv'
  BY NextTreeInv
<1> QED BY <1>1, <1>2, PTL DEF WTSpec

\* The view shows the data that it knows with the pending writes on top, in
\* the order in which they were issued.
THEOREM ShownLayered == ASSUME ShallowMerges PROVE WTSpec => []ShownIsLayered
<1>1. TreeInv => ShownIsLayered
  <2> SUFFICES ASSUME TreeInv PROVE ShownIsLayered
    OBVIOUS
  <2>1. /\ allWrites \in Seq(Records) /\ serverCache \in [Root -> Values]
        /\ eventCache \in [Root -> Values] /\ WTTypeOK
        /\ \A l \in Root : Holds(allWrites, l, eventCache[l], serverCache[l])
    BY TreeFacts DEF TreeInv, ShownOK
  <2>2. eventCache = Shown(allWrites, serverCache)
    BY <2>1, HoldsShown
  <2> QED BY <2>1, <2>2 DEF ShownIsLayered
<1> QED BY <1>1, TreeInvariance, PTL

\* A write that succeeds changes nothing on the screen when it is answered.
THEOREM SilentAcks == ASSUME ShallowMerges PROVE WTSpec => AcksAreSilent
<1>1. ASSUME TreeInv, TreeInv', ReceiveAnswer, Head(toClient).ok PROVE eventCache' = eventCache
  <2> DEFINE r == allWrites[1]
             rest == Tail(allWrites)
  <2>1. /\ allWrites # <<>> /\ Head(toClient).write = r /\ Answered(r, Head(toClient).ok)
        /\ toClient # <<>> /\ Head(toClient).type = "answer"
    BY <1>1, AnsweredFirst DEF ReceiveAnswer
  <2>2. /\ allWrites \in Seq(Records) /\ toClient \in Seq(Messages)
        /\ eventCache \in [Root -> Values]
        /\ \A l \in Root : Holds(allWrites, l, eventCache[l], serverCache[l])
        /\ DataFirstIn(toClient, serverCache)
    BY <1>1, TreeFacts DEF TreeInv, ShownOK, DataFirst
  <2>3. allWrites' = rest /\ serverCache' = serverCache
    <3>1. serverCache' = Upon(GetChild(serverCache, UNION r.at), serverCache)
          \/ serverCache' = serverCache
      BY <2>1 DEF Answered, AckUserWrite, RevertUserWrite, ApplyServerOperation, view
    <3>2. serverCache = [l \in DOMAIN serverCache |-> serverCache[l]]
      BY <1>1, TreeFacts
    <3>3. Upon(GetChild(serverCache, UNION r.at), serverCache) = serverCache
      BY <3>2 DEF Upon, GetChild
    <3> QED BY <2>1, <3>1, <3>3 DEF Answered
  <2>4. /\ rest \in Seq(Records) /\ eventCache' \in [Root -> Values]
        /\ \A l \in Root : Holds(rest, l, eventCache'[l], serverCache[l])
    <3>1. /\ {serverCache', eventCache', data'} \subseteq [Root -> Values]
          /\ \A l \in Root : Holds(allWrites', l, eventCache'[l], serverCache'[l])
      BY <1>1 DEF TreeInv, WTTypeOK, ShownOK, Values
    <3>2. rest \in Seq(Records)
      BY <2>1, <2>2
    <3> QED BY <2>3, <3>1, <3>2
  <2>5. \A l \in Area(r) : serverCache[l] = r.id
    <3>1. 1 \in DOMAIN toClient /\ toClient[1] = Head(toClient)
      BY <2>1, <2>2, MessageTail
    <3> QED BY <1>1, <2>1, <2>2, <3>1 DEF DataFirstIn
  <2> HIDE DEF r, rest
  <2>6. ASSUME NEW l \in Root PROVE eventCache'[l] = eventCache[l]
    <3>1. /\ Covered(rest, l) \/ l \notin Area(r) => Holds(rest, l, eventCache[l], serverCache[l])
          /\ ~ Covered(rest, l) /\ l \in Area(r) => eventCache[l] = r.id
      BY <2>1, <2>2, HoldsTail DEF r, rest
    <3>2. CASE Covered(rest, l) \/ l \notin Area(r)
      <4>1. DOMAIN rest \in SUBSET Int
        BY <2>4
      <4> QED BY <2>4, <3>1, <3>2, <4>1, HoldsOnce
    <3>3. CASE ~ Covered(rest, l) /\ l \in Area(r)
      <4>1. Holds(rest, l, eventCache'[l], serverCache[l])
        BY <2>4
      <4>2. \A i \in DOMAIN rest : NewestAt(rest, l, i) => Covered(rest, l)
        BY DEF NewestAt, Covered
      <4>3. eventCache'[l] = serverCache[l]
        BY <3>3, <4>1, <4>2 DEF Holds
      <4> QED BY <2>5, <3>1, <3>3, <4>3
    <3> QED BY <3>2, <3>3
  <2> QED BY <2>2, <2>4, <2>6
<1>2. TreeInv /\ TreeInv' /\ [WTNext]_wtVars =>
        [ReceiveAnswer /\ Head(toClient).ok => UNCHANGED eventCache]_wtVars
  BY <1>1
<1> QED BY <1>2, TreeInvariance, PTL DEF WTSpec, AcksAreSilent

\* What the view shows when nothing is under way to it: the data of the
\* server, with the writes that are still pending on top.
Settled == toClient = <<>> => eventCache = Shown(allWrites, data)

\* So it is, which is what remains of Converges without fairness.
THEOREM ShownWhenSettled == ASSUME ShallowMerges PROVE WTSpec => []Settled
<1>1. TreeInv => Settled
  <2> SUFFICES ASSUME TreeInv, toClient = <<>> PROVE eventCache = Shown(allWrites, data)
    BY DEF Settled
  <2>1. /\ allWrites \in Seq(Records) /\ serverCache \in [Root -> Values]
        /\ eventCache \in [Root -> Values] /\ data \in [Root -> Values]
        /\ \A l \in Root : Holds(allWrites, l, eventCache[l], serverCache[l])
        /\ DataIn(toClient, serverCache, data)
    BY TreeFacts DEF TreeInv, ShownOK, DataOK
  <2>2. \A l \in Root : serverCache[l] = data[l]
    BY <2>1 DEF DataIn
  <2>3. \A l \in Root : Holds(allWrites, l, eventCache[l], data[l])
    BY <2>1, <2>2
  <2> QED BY <2>1, <2>3, HoldsShown
<1> QED BY <1>1, TreeInvariance, PTL
=============================================================================
