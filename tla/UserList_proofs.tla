--------------------------- MODULE UserList_proofs ---------------------------
(***************************************************************************)
(* Proofs about UserList, for any finite set of users and any number of    *)
(* buttons, searches, taps on the map and requests: the inductive          *)
(* invariant and the safety properties that follow from it.                *)
(***************************************************************************)
EXTENDS UserList, FiniteSetTheorems, TLAPS

Blocks == {ComponentsBlock, UsersBlock, FetchedBlock, SearchedBlock}
          \cup {FillBlock(b, row) : b \in Buttons, row \in 1..Cardinality(Users)}
          \cup {MapBlock(list) : list \in Seq(Users)} \cup {MarkerBlock(u) : u \in Users}

Typed == TypeOK /\ result \in Seq(Users) /\ queue \in Seq(Blocks)

NoRepeat(s) == \A i, j \in DOMAIN s : s[i] = s[j] => i = j

\* Who left the group.
Left == snapshot \ inGroup

\* Every user read is in the group or has been answered, and then is listed unless
\* it is the owner; the owner is listed only without a session, which never comes back.
FetchOK ==
    /\ session \in {owner, NoUser}
    /\ phase \in {"none", "sent"} => snapshot = {}
    /\ snapshot \subseteq Recorded
    /\ Left = pictured \cup failed
    /\ NoRepeat(result) /\ ToSet(result) \ {owner} = Left \ {owner}
    /\ owner \in ToSet(result) => session = NoUser

\* The arrays are empty until the fetch is complete; only a search makes them differ.
ListsOK ==
    /\ unsorted = <<>> \/ (inGroup = {} /\ unsorted = result)
    /\ phase = "done" => unsorted = result
    /\ NoRepeat(array) /\ ToSet(array) \subseteq ToSet(unsorted)
    /\ searches = 0 => array = unsorted

\* What a queued block relies on when it runs.
BlockOK(block) ==
    /\ block \in {ComponentsBlock, UsersBlock} => inGroup = {} /\ phase \in {"photos", "left", "done"}
    /\ block[1] = "map" => ToSet(block[2]) \subseteq Left
    /\ block[1] = "marker" => block[2] \in Left
    /\ block[1] = "fill" /\ searches = 0 => block[3] \in DOMAIN array

\* How many map screens the queue will still open.
Waiting(blocks) == Cardinality({i \in DOMAIN blocks : blocks[i][1] = "map"})

QueueOK ==
    /\ \A block \in ToSet(queue) : BlockOK(block)
    /\ Waiting(queue) + maps <= mapTaps

Reloading == FetchedBlock \in ToSet(queue) \/ SearchedBlock \in ToSet(queue)

Refilled(b) == \E row \in 1..Cardinality(Users) : FillBlock(b, row) \in ToSet(queue)

\* A visible cell shows the user at its tag, or is about to be filled.
CellOK(b) == Refilled(b) \/ (tag[b] \in DOMAIN array /\ name[b] = array[tag[b]])

CellsOK ==
    /\ Reloading \/ \A b \in visible : CellOK(b)
    /\ searches = 0 => \A b \in Buttons : tag[b] # 0 => tag[b] \in DOMAIN array

\* Who is asked for was read by the fetch, and is the owner only without a session.
AddsOK ==
    /\ AddedIsSeen /\ NobodyBefriendsSelf
    /\ alert # NoAdd => alert.person \in snapshot /\ (alert.person = owner => session = NoUser)
    /\ \A a \in Adds : add[a].state = "sent" =>
            add[a].person \in snapshot \ {owner} /\ add[a].account = owner

IInv ==
    /\ Typed /\ FetchOK /\ ListsOK /\ QueueOK /\ CellsOK /\ AddsOK
    /\ HudHasOwner /\ CompleteDataSafe

-----------------------------------------------------------------------------
(***************************************************************************)
(* Sequences.                                                              *)
(***************************************************************************)
LEMMA Members == ASSUME NEW S, NEW s \in Seq(S) PROVE ToSet(s) \subseteq S
  BY DEF ToSet

LEMMA MembersHead ==
    ASSUME NEW S, NEW s \in Seq(S), s # <<>>
    PROVE  /\ Head(s) \in S /\ Tail(s) \in Seq(S)
           /\ ToSet(s) = {Head(s)} \cup ToSet(Tail(s))
  <1>1. /\ Head(s) \in S /\ Head(s) = s[1] /\ 1 \in DOMAIN s
        /\ Tail(s) \in Seq(S)
    OBVIOUS
  <1>2. \A i \in DOMAIN Tail(s) : i + 1 \in DOMAIN s /\ Tail(s)[i] = s[i + 1]
    OBVIOUS
  <1>3. \A i \in DOMAIN s : i # 1 => i - 1 \in DOMAIN Tail(s) /\ Tail(s)[i - 1] = s[i]
    OBVIOUS
  <1>4. ToSet(s) \subseteq {Head(s)} \cup ToSet(Tail(s))
    BY <1>1, <1>3 DEF ToSet
  <1>5. ToSet(Tail(s)) \subseteq ToSet(s) /\ Head(s) \in ToSet(s)
    BY <1>1, <1>2 DEF ToSet
  <1> QED BY <1>1, <1>4, <1>5

LEMMA MembersAppend ==
    ASSUME NEW S, NEW s \in Seq(S), NEW x \in S
    PROVE  Append(s, x) \in Seq(S) /\ ToSet(Append(s, x)) = ToSet(s) \cup {x}
  <1>1. /\ Append(s, x) \in Seq(S)
        /\ DOMAIN Append(s, x) = DOMAIN s \cup {Len(s) + 1}
        /\ Append(s, x)[Len(s) + 1] = x
        /\ \A i \in DOMAIN s : Append(s, x)[i] = s[i]
    OBVIOUS
  <1> QED BY <1>1 DEF ToSet

LEMMA MembersConcat ==
    ASSUME NEW S, NEW s \in Seq(S), NEW t \in Seq(S)
    PROVE  s \o t \in Seq(S) /\ ToSet(s \o t) = ToSet(s) \cup ToSet(t)
  <1>1. /\ s \o t \in Seq(S) /\ DOMAIN (s \o t) = 1..(Len(s) + Len(t))
        /\ DOMAIN s = 1..Len(s) /\ DOMAIN t = 1..Len(t)
        /\ Len(s) \in Nat /\ Len(t) \in Nat
    OBVIOUS
  <1>2. \A i \in 1..Len(s) : (s \o t)[i] = s[i]
    OBVIOUS
  <1>3. \A i \in 1..Len(t) : (s \o t)[i + Len(s)] = t[i]
    OBVIOUS
  <1>4. ASSUME NEW i \in DOMAIN (s \o t) PROVE (s \o t)[i] \in ToSet(s) \cup ToSet(t)
    <2>1. CASE i \in 1..Len(s)
      BY <1>1, <1>2, <2>1 DEF ToSet
    <2>2. CASE i \notin 1..Len(s)
      <3>1. PICK j \in 1..Len(t) : i = j + Len(s)
        <4>1. i - Len(s) \in 1..Len(t) /\ i = (i - Len(s)) + Len(s)
          BY <1>1, <2>2
        <4> QED BY <4>1
      <3> QED BY <1>1, <1>3, <3>1 DEF ToSet
    <2> QED BY <2>1, <2>2
  <1>5. ToSet(s) \subseteq ToSet(s \o t)
    BY <1>1, <1>2 DEF ToSet
  <1>6. ASSUME NEW i \in 1..Len(t) PROVE t[i] \in ToSet(s \o t)
    <2>1. i + Len(s) \in DOMAIN (s \o t)
      BY <1>1
    <2> QED BY <1>3, <2>1 DEF ToSet
  <1>7. ToSet(s \o t) \subseteq ToSet(s) \cup ToSet(t)
    BY <1>4 DEF ToSet
  <1>8. ToSet(t) \subseteq ToSet(s \o t)
    BY <1>1, <1>6 DEF ToSet
  <1> QED BY <1>1, <1>5, <1>7, <1>8

\* A sequence that holds nobody twice is as long as the set of those it holds.
LEMMA Counted ==
    ASSUME NEW S, IsFiniteSet(S), NEW s \in Seq(S), NoRepeat(s)
    PROVE  /\ Cardinality(ToSet(s)) = Len(s)
           /\ Len(s) <= Cardinality(S)
  <1> DEFINE n == Len(s)
  <1>1. n \in Nat /\ DOMAIN s = 1..n /\ ToSet(s) \subseteq S
    BY DEF ToSet
  <1>2. IsFiniteSet(1..n) /\ Cardinality(1..n) = n
    <2>1. 1 \in Int /\ n \in Int
      BY <1>1
    <2>2. IsFiniteSet(1..n) /\ Cardinality(1..n) = IF 1 > n THEN 0 ELSE n - 1 + 1
      BY <2>1, FS_Interval
    <2> QED BY <1>1, <2>2
  <1>3. s \in [1..n -> ToSet(s)] /\ IsInjective(s)
    BY <1>1 DEF ToSet, NoRepeat, IsInjective
  <1>4. s \in Bijection(1..n, ToSet(s))
    BY <1>1, <1>3 DEF Bijection, Injection, Surjection, ToSet
  <1>5. Cardinality(ToSet(s)) = n
    BY <1>2, <1>4, FS_Bijection DEF ExistsBijection
  <1>6. Cardinality(ToSet(s)) <= Cardinality(S)
    BY <1>1, FS_Subset
  <1> QED BY <1>5, <1>6

\* The number of smaller members numbers a finite set of numbers without gaps.
LEMMA Ranks ==
    ASSUME NEW P, IsFiniteSet(P), P \subseteq Nat
    PROVE  /\ Cardinality(P) \in Nat
           /\ \A k \in 1..Cardinality(P) :
                \E p \in P : Cardinality({q \in P : q < p}) = k - 1
  <1> DEFINE n == Cardinality(P)
             Below(p) == {q \in P : q < p}
             rank == [p \in P |-> Cardinality(Below(p))]
  <1>1. n \in Nat
    BY FS_CardinalityType
  <1>2. ASSUME NEW p \in P
        PROVE  IsFiniteSet(Below(p)) /\ Cardinality(Below(p)) \in Nat /\ Cardinality(Below(p)) < n
    <2>1. IsFiniteSet(Below(p)) /\ Cardinality(Below(p)) <= n
          /\ (n = Cardinality(Below(p)) => P = Below(p))
      BY FS_Subset
    <2>2. Cardinality(Below(p)) \in Nat
      BY <2>1, FS_CardinalityType
    <2>3. P # Below(p)
      OBVIOUS
    <2> QED BY <1>1, <2>1, <2>2, <2>3
  <1>3. ASSUME NEW p \in P, NEW o \in P, p < o
        PROVE  Cardinality(Below(p)) < Cardinality(Below(o))
    <2>1. Below(p) \subseteq Below(o) /\ p \in Below(o) /\ p \notin Below(p)
      <3>1. p \in Nat /\ o \in Nat /\ p < o /\ ~(p < p)
        BY <1>3
      <3>2. \A q \in P : q < p => q < o
        BY <3>1
      <3> QED BY <3>1, <3>2
    <2>2. Cardinality(Below(p)) <= Cardinality(Below(o))
          /\ (Cardinality(Below(o)) = Cardinality(Below(p)) => Below(o) = Below(p))
      BY <1>2, <2>1, FS_Subset
    <2> HIDE DEF Below
    <2> QED BY <1>2, <2>1, <2>2
  <1> HIDE DEF Below
  <1>4. rank \in Injection(P, 0..(n - 1))
    <2>1. rank \in [P -> 0..(n - 1)]
      BY <1>1, <1>2
    <2>2. ASSUME NEW p \in P, NEW o \in P, rank[p] = rank[o] PROVE p = o
      <3>1. p \in Nat /\ o \in Nat /\ Cardinality(Below(p)) = Cardinality(Below(o))
        BY <2>2
      <3> QED BY <1>2, <1>3, <3>1
    <2> QED BY <2>1, <2>2 DEF Injection, IsInjective
  <1>5. IsFiniteSet(0..(n - 1)) /\ Cardinality(0..(n - 1)) = n
    <2>1. 0 \in Int /\ n - 1 \in Int
      BY <1>1
    <2>2. IsFiniteSet(0..(n - 1))
          /\ Cardinality(0..(n - 1)) = IF 0 > n - 1 THEN 0 ELSE n - 1 - 0 + 1
      BY <2>1, FS_Interval
    <2> QED BY <1>1, <2>2
  <1>6. rank \in Surjection(P, 0..(n - 1))
    BY <1>4, <1>5, FS_Injection
  <1>7. ASSUME NEW k \in 1..n PROVE \E p \in P : Cardinality(Below(p)) = k - 1
    <2>1. k - 1 \in 0..(n - 1)
      BY <1>1
    <2>2. PICK p \in P : rank[p] = k - 1
      BY <1>6, <2>1 DEF Surjection
    <2> QED BY <2>2
  <1> QED BY <1>1, <1>7 DEF Below

\* What a filter leaves: a part of the sequence that repeats nothing new.
LEMMA Filtered ==
    ASSUME NEW S, NEW s \in Seq(S), NoRepeat(s), NEW P \in SUBSET DOMAIN s
    PROVE  /\ At(s, P) \in Seq(S) /\ NoRepeat(At(s, P))
           /\ ToSet(At(s, P)) \subseteq ToSet(s)
  <1> DEFINE n == Cardinality(P)
             Rank(p) == Cardinality({q \in P : q < p})
  <1>1. IsFiniteSet(P) /\ P \subseteq Nat
    <2>1. IsFiniteSet(1..Len(s)) /\ DOMAIN s = 1..Len(s)
      BY FS_Interval
    <2> QED BY <2>1, FS_Subset
  <1>2. n \in Nat /\ \A k \in 1..n : \E p \in P : Rank(p) = k - 1
    BY <1>1, Ranks
  <1> HIDE DEF n, Rank
  <1>3. PICK order : order = Ascending(P)
    OBVIOUS
  <1>4. order = [k \in 1..n |-> CHOOSE p \in P : Rank(p) = k - 1]
    BY <1>3 DEF Ascending, n, Rank
  <1>5. \A k \in 1..n : order[k] \in P /\ Rank(order[k]) = k - 1
    BY <1>2, <1>4
  <1>6. At(s, P) = [k \in 1..n |-> s[order[k]]]
    BY <1>3, <1>4 DEF At
  <1>7. \A k \in 1..n : order[k] \in DOMAIN s
    BY <1>5
  <1>8. At(s, P) \in Seq(S)
    BY <1>2, <1>6, <1>7
  <1>9. NoRepeat(At(s, P))
    BY <1>2, <1>5, <1>6, <1>7 DEF NoRepeat
  <1>10. ToSet(At(s, P)) \subseteq ToSet(s)
    BY <1>6, <1>7 DEF ToSet
  <1> QED BY <1>8, <1>9, <1>10


-----------------------------------------------------------------------------
(***************************************************************************)
(* The blocks of the queue.                                                *)
(***************************************************************************)
LEMMA Kinds ==
    /\ ComponentsBlock[1] = "components" /\ UsersBlock[1] = "users"
    /\ FetchedBlock[1] = "fetched" /\ SearchedBlock[1] = "searched"
    /\ \A b, row : /\ FillBlock(b, row)[1] = "fill"
                   /\ FillBlock(b, row)[2] = b /\ FillBlock(b, row)[3] = row
    /\ \A list : MapBlock(list)[1] = "map" /\ MapBlock(list)[2] = list
    /\ \A u : MarkerBlock(u)[1] = "marker" /\ MarkerBlock(u)[2] = u
  BY DEF ComponentsBlock, UsersBlock, FetchedBlock, SearchedBlock, FillBlock, MapBlock,
         MarkerBlock

LEMMA AreBlocks ==
    /\ ComponentsBlock \in Blocks /\ UsersBlock \in Blocks
    /\ FetchedBlock \in Blocks /\ SearchedBlock \in Blocks
    /\ \A b \in Buttons, row \in 1..Cardinality(Users) : FillBlock(b, row) \in Blocks
    /\ \A list \in Seq(Users) : MapBlock(list) \in Blocks
    /\ \A u \in Users : MarkerBlock(u) \in Blocks
  BY DEF Blocks

\* The positions of the map blocks are finitely many.
LEMMA WaitingIsNat ==
    ASSUME NEW S, NEW q \in Seq(S)
    PROVE  /\ IsFiniteSet({i \in DOMAIN q : q[i][1] = "map"}) /\ Waiting(q) \in Nat
  <1>1. IsFiniteSet(1..Len(q)) /\ DOMAIN q = 1..Len(q)
    <2>1. 1 \in Int /\ Len(q) \in Int
      OBVIOUS
    <2> QED BY <2>1, FS_Interval
  <1>2. IsFiniteSet({i \in DOMAIN q : q[i][1] = "map"})
    BY <1>1, FS_Subset
  <1> QED BY <1>2, FS_CardinalityType DEF Waiting

LEMMA WaitingAppend ==
    ASSUME NEW S, NEW q \in Seq(S), NEW x \in S
    PROVE  Waiting(Append(q, x)) = IF x[1] = "map" THEN Waiting(q) + 1 ELSE Waiting(q)
  <1> DEFINE n == Len(q) + 1
             old == {i \in DOMAIN q : q[i][1] = "map"}
             new == {i \in DOMAIN Append(q, x) : Append(q, x)[i][1] = "map"}
  <1>1. /\ DOMAIN Append(q, x) = DOMAIN q \cup {n} /\ n \notin DOMAIN q
        /\ Append(q, x)[n] = x /\ \A i \in DOMAIN q : Append(q, x)[i] = q[i]
    OBVIOUS
  <1>2. new = IF x[1] = "map" THEN old \cup {n} ELSE old
    BY <1>1
  <1>3. IsFiniteSet(old) /\ n \notin old
    BY <1>1, WaitingIsNat
  <1> HIDE DEF old, new, n
  <1>4. Cardinality(old \cup {n}) = Cardinality(old) + 1
    BY <1>3, FS_AddElement
  <1> QED BY <1>2, <1>4 DEF Waiting, old, new

LEMMA WaitingConcat ==
    ASSUME NEW S, NEW q \in Seq(S), NEW t \in Seq(S), \A block \in ToSet(t) : block[1] # "map"
    PROVE  Waiting(q \o t) = Waiting(q)
  <1>1. /\ DOMAIN (q \o t) = 1..(Len(q) + Len(t)) /\ DOMAIN q = 1..Len(q)
        /\ Len(q) \in Nat /\ Len(t) \in Nat
        /\ \A i \in DOMAIN q : (q \o t)[i] = q[i]
    OBVIOUS
  <1>2. ASSUME NEW i \in DOMAIN (q \o t), i \notin DOMAIN q PROVE (q \o t)[i][1] # "map"
    <2>1. i - Len(q) \in 1..Len(t)
      BY <1>1, <1>2
    <2>2. (q \o t)[i] = t[i - Len(q)]
      BY <1>1, <1>2, <2>1
    <2>3. t[i - Len(q)] \in ToSet(t)
      BY <2>1 DEF ToSet
    <2> QED BY <2>2, <2>3
  <1>3. DOMAIN q \subseteq DOMAIN (q \o t)
    BY <1>1
  <1>4. {i \in DOMAIN (q \o t) : (q \o t)[i][1] = "map"} = {i \in DOMAIN q : q[i][1] = "map"}
    BY <1>1, <1>2, <1>3
  <1> QED BY <1>4 DEF Waiting

LEMMA WaitingTail ==
    ASSUME NEW S, NEW q \in Seq(S), q # <<>>
    PROVE  Waiting(q) = IF Head(q)[1] = "map" THEN Waiting(Tail(q)) + 1 ELSE Waiting(Tail(q))
  <1> DEFINE all  == {i \in DOMAIN q : q[i][1] = "map"}
             rest == {i \in DOMAIN Tail(q) : Tail(q)[i][1] = "map"}
             later == all \ {1}
             next == [i \in rest |-> i + 1]
  <1>1. Tail(q) \in Seq(S) /\ Head(q) = q[1] /\ 1 \in DOMAIN q
        /\ DOMAIN q = 1..Len(q) /\ DOMAIN Tail(q) = 1..(Len(q) - 1) /\ Len(q) \in Nat
    OBVIOUS
  <1>2. \A i \in DOMAIN Tail(q) : Tail(q)[i] = q[i + 1]
    OBVIOUS
  <1>3. IsFiniteSet(all) /\ IsFiniteSet(rest)
    BY <1>1, WaitingIsNat
  <1>4. \A i \in rest : i \in Nat /\ i + 1 \in later
    BY <1>1, <1>2
  <1>5. ASSUME NEW j \in later PROVE \E i \in rest : j = i + 1
    <2>1. j \in 1..Len(q) /\ j # 1 /\ q[j][1] = "map"
      BY <1>1
    <2>2. j - 1 \in DOMAIN Tail(q) /\ (j - 1) + 1 = j
      BY <1>1, <2>1
    <2>3. j - 1 \in rest
      BY <1>2, <2>1, <2>2
    <2> QED BY <2>2, <2>3
  <1>6. (1 \in all) <=> (Head(q)[1] = "map")
    BY <1>1
  <1> HIDE DEF all, rest, later
  <1>7. next \in Bijection(rest, later)
    <2>1. next \in Injection(rest, later)
      BY <1>4 DEF Injection, IsInjective
    <2>2. next \in Surjection(rest, later)
      BY <1>4, <1>5 DEF Surjection
    <2> QED BY <2>1, <2>2 DEF Bijection
  <1>8. Cardinality(later) = Cardinality(rest)
    BY <1>3, <1>7, FS_Bijection DEF ExistsBijection
  <1>9. Cardinality(all) = IF 1 \in all THEN Cardinality(later) + 1 ELSE Cardinality(later)
    <2>1. Cardinality(later) = IF 1 \in all THEN Cardinality(all) - 1 ELSE Cardinality(all)
      BY <1>3, FS_RemoveElement DEF later
    <2>2. Cardinality(all) \in Nat
      BY <1>3, FS_CardinalityType
    <2> QED BY <2>1, <2>2
  <1> QED BY <1>6, <1>8, <1>9 DEF Waiting, all, rest

\* What joins the queue and opens no map.
LEMMA QueueAppended ==
    ASSUME NEW before \in Seq(Blocks), NEW block \in Blocks, block[1] # "map",
           queue' = Append(before, block)
    PROVE  /\ queue' \in Seq(Blocks) /\ ToSet(queue') = ToSet(before) \cup {block}
           /\ Waiting(queue') = Waiting(before)
  BY MembersAppend, WaitingAppend

LEMMA QueueJoined ==
    ASSUME NEW before \in Seq(Blocks), NEW blocks \in Seq(Blocks),
           \A block \in ToSet(blocks) : block[1] # "map",
           queue' = before \o blocks
    PROVE  /\ queue' \in Seq(Blocks) /\ ToSet(queue') = ToSet(before) \cup ToSet(blocks)
           /\ Waiting(queue') = Waiting(before)
  BY MembersConcat, WaitingConcat

\* What running the first block leaves.
LEMMA Taken ==
    ASSUME Typed, NEW block, First(block)
    PROVE  /\ running /\ queue # <<>> /\ Head(queue) = block /\ block \in ToSet(queue)
           /\ block \in Blocks
           /\ Tail(queue) \in Seq(Blocks) /\ ToSet(Tail(queue)) \subseteq ToSet(queue)
           /\ \A other \in ToSet(queue) : other = block \/ other \in ToSet(Tail(queue))
           /\ Waiting(queue) = IF block[1] = "map" THEN Waiting(Tail(queue)) + 1
                                                    ELSE Waiting(Tail(queue))
           /\ Waiting(Tail(queue)) \in Nat
  <1>1. queue \in Seq(Blocks) /\ queue # <<>> /\ Head(queue) = block /\ running
    BY DEF First, Typed
  <1>2. /\ Head(queue) \in Blocks /\ Tail(queue) \in Seq(Blocks)
        /\ ToSet(queue) = {Head(queue)} \cup ToSet(Tail(queue))
    BY <1>1, MembersHead
  <1>3. Waiting(queue) = IF block[1] = "map" THEN Waiting(Tail(queue)) + 1
                                             ELSE Waiting(Tail(queue))
    BY <1>1, WaitingTail
  <1>4. Waiting(Tail(queue)) \in Nat
    BY <1>2, WaitingIsNat
  <1> QED BY <1>1, <1>2, <1>3, <1>4

-----------------------------------------------------------------------------
(***************************************************************************)
(* What keeps the parts of the invariant.                                  *)
(***************************************************************************)
\* With all of this the screen must not raise.
Complete ==
    /\ Recorded # {} /\ \A u \in snapshot : record[u] = "full"
    /\ failed = {} /\ session # NoUser /\ searches = 0

LEMMA SafeIs == CompleteDataSafe <=> (Complete => running)
  BY DEF CompleteDataSafe, Complete

LEMMA FetchStays ==
    ASSUME FetchOK, UNCHANGED <<fetch, failed, owner>>, session' \in {session, NoUser},
           Recorded \subseteq Recorded'
    PROVE  FetchOK'
  BY DEF FetchOK, fetch, Left, NoRepeat

LEMMA ListsStay ==
    ASSUME ListsOK, UNCHANGED <<phase, inGroup, result, lists, searches>> PROVE ListsOK'
  BY DEF ListsOK, lists, NoRepeat

LEMMA BlocksStay ==
    ASSUME UNCHANGED <<phase, snapshot, inGroup, array, searches>>, NEW block, BlockOK(block)
    PROVE  BlockOK(block)'
  BY DEF BlockOK, Left

LEMMA QueueStays ==
    ASSUME QueueOK, UNCHANGED <<phase, snapshot, inGroup, array, searches, queue, maps, mapTaps>>
    PROVE  QueueOK'
  <1>1. \A block \in ToSet(queue) : BlockOK(block)'
    BY BlocksStay DEF QueueOK
  <1>2. Waiting(queue)' = Waiting(queue)
    BY DEF Waiting
  <1> QED BY <1>1, <1>2 DEF QueueOK

LEMMA CellsStay ==
    ASSUME CellsOK, UNCHANGED <<array, searches, table, queue>> PROVE CellsOK'
  BY DEF CellsOK, Reloading, CellOK, Refilled, table

LEMMA AddsStay ==
    ASSUME AddsOK, UNCHANGED <<alert, add, friends, owner, snapshot>>,
           session' \in {session, NoUser}
    PROVE  AddsOK'
  BY DEF AddsOK, AddedIsSeen, NobodyBefriendsSelf

LEMMA HudStays ==
    ASSUME HudHasOwner, UNCHANGED <<running, hud, phase, queue>> PROVE HudHasOwner'
  BY DEF HudHasOwner, MapLists

LEMMA UsersCount == Cardinality(Users) \in Nat
  BY UserListAssumption, FS_CardinalityType

\* The array never has more rows than there are users.
LEMMA RowsCount ==
    ASSUME Typed, ListsOK
    PROVE  Len(array) \in Nat /\ DOMAIN array \subseteq 1..Cardinality(Users)
  <1>1. array \in Seq(Users) /\ NoRepeat(array)
    BY DEF Typed, TypeOK, ListsOK
  <1>2. Len(array) <= Cardinality(Users)
    BY <1>1, Counted, UserListAssumption
  <1> QED BY <1>1, <1>2, UsersCount

\* Who is in an array was read and has left the group.
LEMMA ListedAreLeft ==
    ASSUME Typed, FetchOK, ListsOK
    PROVE  ToSet(array) \subseteq Left /\ ToSet(unsorted) \subseteq Left
  <1>1. ToSet(<<>>) = {}
    BY DEF ToSet
  <1>2. ToSet(result) \subseteq Left
    BY DEF Typed, TypeOK, Left
  <1> QED BY <1>1, <1>2 DEF ListsOK

-----------------------------------------------------------------------------
LEMMA InitIInv == Init => IInv
  <1> SUFFICES ASSUME Init PROVE IInv
    OBVIOUS
  <1> USE DEF Init
  <1>1. ToSet(<<>>) = {} /\ NoRepeat(<<>>) /\ DOMAIN <<>> = {}
    BY DEF ToSet, NoRepeat
  <1>2. NoAdd \in AddRecords /\ NoAdd.state = "none" /\ NoAdd.person = NoAdd.seen
    BY DEF NoAdd, AddRecords
  <1>3. Typed
    <2>1. /\ session \in Users \cup {NoUser} /\ owner \in Users
          /\ friends \in [Users -> SUBSET Users]
          /\ array \in Seq(Users) /\ unsorted \in Seq(Users) /\ result \in Seq(Users)
          /\ queue \in Seq(Blocks)
      OBVIOUS
    <2>2. /\ tag \in [Buttons -> 0..Cardinality(Users)]
          /\ name \in [Buttons -> Users \cup {NoUser}]
      BY UsersCount
    <2>3. alert \in AddRecords /\ add \in [Adds -> AddRecords]
      BY <1>2
    <2>4. maps \in 0..MaxMaps /\ searches \in 0..MaxSearches /\ mapTaps \in 0..MaxMaps
      BY UserListAssumption
    <2>5. ToSet(result) \cup pictured \cup failed \subseteq snapshot \ inGroup
      BY <1>1
    <2> QED BY <2>1, <2>2, <2>3, <2>4, <2>5 DEF Typed, TypeOK
  <1>4. FetchOK
    BY <1>1 DEF FetchOK, Left
  <1>5. ListsOK
    BY <1>1 DEF ListsOK
  <1>6. QueueOK
    <2>1. Waiting(<<>>) = 0
      BY <1>1, FS_EmptySet DEF Waiting
    <2> QED BY <1>1, <2>1 DEF QueueOK
  <1>7. CellsOK
    BY DEF CellsOK
  <1>8. AddsOK
    BY <1>2 DEF AddsOK, AddedIsSeen, NobodyBefriendsSelf
  <1>9. HudHasOwner /\ CompleteDataSafe
    BY DEF HudHasOwner, CompleteDataSafe
  <1> QED BY <1>3, <1>4, <1>5, <1>6, <1>7, <1>8, <1>9 DEF IInv

\* An exception leaves the screen as it is; with complete data there must be none.
LEMMA RaiseStep == ASSUME IInv, Raise, ~Complete PROVE IInv'
  <1> USE DEF IInv
  <1>1. /\ running' = FALSE
        /\ UNCHANGED <<session, hud, servers, fetch, lists, queue, table, alert, add, maps,
                       counts, history>>
    BY DEF Raise
  <1>2. UNCHANGED <<record, friends, phase, snapshot, inGroup, result, pictured, array, unsorted,
                    visible, tag, name, searches, mapTaps, owner, failed>>
    BY <1>1 DEF servers, fetch, lists, table, counts, history
  <1>3. Typed'
    BY <1>1, <1>2 DEF Typed, TypeOK
  <1>4. FetchOK' /\ ListsOK'
    BY <1>1, <1>2, FetchStays, ListsStay DEF Recorded
  <1>5. QueueOK' /\ CellsOK' /\ AddsOK'
    BY <1>1, <1>2, QueueStays, CellsStay, AddsStay
  <1>6. HudHasOwner'
    BY <1>1 DEF HudHasOwner
  <1>7. CompleteDataSafe'
    BY <1>1, <1>2 DEF CompleteDataSafe, Complete, Recorded
  <1> QED BY <1>3, <1>4, <1>5, <1>6, <1>7

-----------------------------------------------------------------------------
(***************************************************************************)
(* The steps of the fetch.                                                 *)
(***************************************************************************)
LEMMA LoadStep == ASSUME IInv, ViewDidLoad PROVE IInv'
  <1> USE DEF IInv
  <1>1. /\ running /\ phase = "none" /\ phase' = "sent" /\ hud' = TRUE
        /\ UNCHANGED <<running, session, servers, snapshot, inGroup, result, pictured, lists,
                       queue, table, alert, add, maps, counts, history>>
    BY DEF ViewDidLoad
  <1>2. UNCHANGED <<record, friends, array, unsorted, visible, tag, name, searches, mapTaps,
                    owner, failed>>
    BY <1>1 DEF servers, lists, table, counts, history
  <1>3. Typed'
    BY <1>1, <1>2 DEF Typed, TypeOK
  <1>4. FetchOK'
    BY <1>1, <1>2 DEF FetchOK, Left, NoRepeat, Recorded
  <1>5. ListsOK'
    BY <1>1, <1>2 DEF ListsOK, NoRepeat
  <1>6. QueueOK'
    <2>1. \A block \in ToSet(queue) : BlockOK(block)'
      BY <1>1, <1>2 DEF QueueOK, BlockOK, Left
    <2>2. Waiting(queue)' = Waiting(queue)
      BY <1>1 DEF Waiting
    <2> QED BY <1>1, <1>2, <2>1, <2>2 DEF QueueOK
  <1>7. CellsOK' /\ AddsOK'
    BY <1>1, <1>2, CellsStay, AddsStay
  <1>8. HudHasOwner' /\ CompleteDataSafe'
    BY <1>1 DEF HudHasOwner, CompleteDataSafe
  <1> QED BY <1>3, <1>4, <1>5, <1>6, <1>7, <1>8

LEMMA SnapshotStep == ASSUME IInv, SnapshotUsers PROVE IInv'
  <1> USE DEF IInv
  <1>1. /\ running /\ phase = "sent" /\ phase' = "photos"
        /\ snapshot' = Recorded /\ inGroup' = Recorded
        /\ UNCHANGED <<running, session, hud, servers, result, pictured, lists, queue, table,
                       alert, add, maps, counts, history>>
    BY DEF SnapshotUsers
  <1>2. UNCHANGED <<record, friends, array, unsorted, visible, tag, name, searches, mapTaps,
                    owner, failed>>
    BY <1>1 DEF servers, lists, table, counts, history
  <1>3. /\ snapshot = {} /\ inGroup = {} /\ ToSet(result) = {} /\ pictured = {} /\ failed = {}
        /\ Recorded \in SUBSET Users
    BY <1>1 DEF FetchOK, Typed, TypeOK, Recorded
  <1>4. result = <<>>
    <2>1. DOMAIN result = {} /\ result \in Seq(Users)
      BY <1>3 DEF ToSet, Typed
    <2>2. Len(result) \in Nat /\ DOMAIN result = 1..Len(result)
      BY <2>1
    <2> QED BY <2>1, <2>2
  <1>5. Typed'
    BY <1>1, <1>2, <1>3 DEF Typed, TypeOK
  <1>6. FetchOK'
    BY <1>1, <1>2, <1>3 DEF FetchOK, Left, NoRepeat, Recorded
  <1>7. ListsOK'
    BY <1>1, <1>2, <1>4 DEF ListsOK, NoRepeat
  <1>8. QueueOK'
    <2>1. ASSUME NEW block \in ToSet(queue) PROVE BlockOK(block)'
      <3>1. BlockOK(block)
        BY DEF QueueOK
      <3> QED BY <1>1, <1>2, <1>3, <3>1 DEF BlockOK, Left
    <2>2. Waiting(queue)' = Waiting(queue)
      BY <1>1 DEF Waiting
    <2> QED BY <1>1, <1>2, <2>1, <2>2 DEF QueueOK
  <1>9. CellsOK'
    BY <1>1, <1>2, CellsStay
  <1>10. AddsOK'
    BY <1>1, <1>2, <1>3 DEF AddsOK, AddedIsSeen, NobodyBefriendsSelf
  <1>11. HudHasOwner' /\ CompleteDataSafe'
    BY <1>1 DEF HudHasOwner, CompleteDataSafe
  <1> QED BY <1>5, <1>6, <1>7, <1>8, <1>9, <1>10, <1>11

\* A user is answered, with a photo or without, leaves the group and is listed.
LEMMA AnswerStep ==
    ASSUME IInv, NEW u \in Users, Photo(u) \/ PhotoFailed(u)
    PROVE  IInv'
  <1> USE DEF IInv
  <1>1. /\ running /\ u \in inGroup /\ List(u) /\ Leave(u)
        /\ \/ pictured' = pictured \cup {u} /\ failed' = failed
           \/ pictured' = pictured /\ failed' = failed \cup {u}
        /\ UNCHANGED <<running, session, hud, servers, phase, snapshot, lists, table, alert, add,
                       maps, counts, owner>>
    BY DEF Photo, PhotoFailed, Unanswered, history
  <1>2. UNCHANGED <<record, friends, array, unsorted, visible, tag, name, searches, mapTaps>>
    BY <1>1 DEF servers, lists, table, counts
  <1>3. /\ inGroup' = inGroup \ {u}
        /\ queue' = IF inGroup = {u} THEN Append(queue, ComponentsBlock) ELSE queue
        /\ result' = IF u # session THEN Append(result, u) ELSE result
    BY <1>1 DEF Leave, List
  <1>4. /\ u \in snapshot /\ u \notin Left /\ phase = "photos" /\ unsorted = <<>>
        /\ Left' = Left \cup {u} /\ u \notin ToSet(result)
    <2>1. inGroup \in SUBSET snapshot /\ phase \notin {"none", "sent", "left", "done"}
      BY <1>1 DEF Typed, TypeOK, FetchOK
    <2> QED BY <1>1, <1>3, <2>1 DEF Typed, TypeOK, Left, ListsOK
  <1>5. /\ Append(result, u) \in Seq(Users) /\ ToSet(Append(result, u)) = ToSet(result) \cup {u}
    BY MembersAppend DEF Typed
  <1>6. NoRepeat(Append(result, u))
    <2>1. \A i \in DOMAIN result : result[i] # u
      BY <1>4 DEF ToSet
    <2>2. /\ DOMAIN Append(result, u) = DOMAIN result \cup {Len(result) + 1}
          /\ \A i \in DOMAIN result : Append(result, u)[i] = result[i]
          /\ Append(result, u)[Len(result) + 1] = u
      BY DEF Typed
    <2> QED BY <2>1, <2>2 DEF FetchOK, NoRepeat
  <1>7. /\ result' \in Seq(Users) /\ NoRepeat(result)'
        /\ ToSet(result') = IF u # session THEN ToSet(result) \cup {u} ELSE ToSet(result)
    <2>1. CASE u # session
      BY <1>3, <1>5, <1>6, <2>1 DEF NoRepeat
    <2>2. CASE u = session
      BY <1>3, <2>2 DEF Typed, FetchOK, NoRepeat
    <2> QED BY <2>1, <2>2
  <1>8. queue' \in Seq(Blocks) /\ ToSet(queue) \subseteq ToSet(queue')
        /\ ToSet(queue') \subseteq ToSet(queue) \cup {ComponentsBlock}
        /\ (inGroup # {u} => queue' = queue)
        /\ Waiting(queue') = Waiting(queue)
    <2>1. queue \in Seq(Blocks) /\ ComponentsBlock \in Blocks /\ ComponentsBlock[1] # "map"
      BY AreBlocks, Kinds DEF Typed
    <2>2. /\ Append(queue, ComponentsBlock) \in Seq(Blocks)
          /\ ToSet(Append(queue, ComponentsBlock)) = ToSet(queue) \cup {ComponentsBlock}
          /\ Waiting(Append(queue, ComponentsBlock)) = Waiting(queue)
      BY <2>1, MembersAppend, WaitingAppend
    <2> QED BY <1>3, <2>1, <2>2
  <1>9. Typed'
    <2>1. inGroup' \in SUBSET snapshot'
      BY <1>1, <1>3 DEF Typed, TypeOK
    <2>2. ToSet(result') \cup pictured' \cup failed' \subseteq snapshot' \ inGroup'
      BY <1>1, <1>3, <1>4, <1>7 DEF Typed, TypeOK, Left
    <2> QED BY <1>1, <1>2, <1>4, <1>7, <1>8, <2>1, <2>2 DEF Typed, TypeOK
  <1>10. FetchOK'
    <2>1. Left' = (pictured \cup failed)'
      BY <1>1, <1>4 DEF FetchOK
    <2>2. ToSet(result') \ {owner} = Left' \ {owner}
      BY <1>4, <1>7, UserListAssumption DEF FetchOK, Typed, TypeOK
    <2>3. owner \in ToSet(result') => session = NoUser
      BY <1>7 DEF FetchOK, Typed, TypeOK
    <2> QED BY <1>1, <1>2, <1>4, <1>7, <2>1, <2>2, <2>3 DEF FetchOK, Recorded
  <1>11. ListsOK'
    BY <1>1, <1>2, <1>4 DEF ListsOK, NoRepeat
  <1>12. QueueOK'
    <2>1. ASSUME NEW block \in ToSet(queue) PROVE BlockOK(block)'
      <3>1. BlockOK(block) /\ inGroup # {}
        BY <1>1 DEF QueueOK
      <3> QED BY <1>1, <1>2, <1>4, <3>1 DEF BlockOK
    <2>2. ASSUME inGroup = {u} PROVE BlockOK(ComponentsBlock)'
      BY <1>1, <1>3, <1>4, <2>2, Kinds DEF BlockOK
    <2>3. \A block \in ToSet(queue') : BlockOK(block)'
      BY <1>8, <2>1, <2>2
    <2> QED BY <1>1, <1>2, <1>8, <2>3 DEF QueueOK, Waiting
  <1>13. CellsOK'
    BY <1>2, <1>8, Kinds DEF CellsOK, Reloading, CellOK, Refilled
  <1>14. AddsOK'
    BY <1>1, <1>2, AddsStay
  <1>15. HudHasOwner' /\ CompleteDataSafe'
    BY <1>1, <1>4 DEF HudHasOwner, CompleteDataSafe
  <1> QED BY <1>9, <1>10, <1>11, <1>12, <1>13, <1>14, <1>15

LEMMA LeaveStep == ASSUME IInv, LeaveUsers PROVE IInv'
  <1> USE DEF IInv
  <1>1. /\ First(ComponentsBlock)
        /\ phase' = "left" /\ queue' = Append(Tail(queue), UsersBlock)
        /\ UNCHANGED <<running, session, hud, servers, snapshot, inGroup, result, pictured,
                       lists, table, alert, add, maps, counts, history>>
    BY DEF LeaveUsers
  <1>2. UNCHANGED <<record, friends, array, unsorted, visible, tag, name, searches, mapTaps,
                    owner, failed>>
    BY <1>1 DEF servers, lists, table, counts, history
  <1>3. /\ running /\ ComponentsBlock \in ToSet(queue)
        /\ Tail(queue) \in Seq(Blocks) /\ ToSet(Tail(queue)) \subseteq ToSet(queue)
        /\ \A other \in ToSet(queue) : other = ComponentsBlock \/ other \in ToSet(Tail(queue))
        /\ Waiting(queue) = Waiting(Tail(queue))
    BY <1>1, Taken, Kinds
  <1>4. inGroup = {} /\ phase \in {"photos", "left", "done"}
    BY <1>3 DEF QueueOK, BlockOK
  <1>5. /\ queue' \in Seq(Blocks) /\ ToSet(queue') = ToSet(Tail(queue)) \cup {UsersBlock}
        /\ Waiting(queue') = Waiting(Tail(queue))
    <2>1. UsersBlock \in Blocks /\ UsersBlock[1] # "map"
      BY AreBlocks, Kinds
    <2> QED BY <1>1, <1>3, <2>1, QueueAppended
  <1>6. Typed'
    BY <1>1, <1>2, <1>4, <1>5 DEF Typed, TypeOK
  <1>7. FetchOK'
    BY <1>1, <1>2, <1>4 DEF FetchOK, Left, NoRepeat, Recorded
  <1>8. ListsOK'
    BY <1>1, <1>2 DEF ListsOK, NoRepeat
  <1>9. QueueOK'
    <2>1. ASSUME NEW block \in ToSet(queue) PROVE BlockOK(block)'
      <3>1. BlockOK(block)
        BY DEF QueueOK
      <3> QED BY <1>1, <1>2, <1>4, <3>1 DEF BlockOK, Left
    <2>2. BlockOK(UsersBlock)'
      BY <1>1, <1>4, Kinds DEF BlockOK
    <2>3. \A block \in ToSet(queue') : BlockOK(block)'
      BY <1>3, <1>5, <2>1, <2>2
    <2> QED BY <1>1, <1>2, <1>3, <1>5, <2>3 DEF QueueOK, Waiting
  <1>10. CellsOK'
    <2>1. \A other \in ToSet(queue) : other[1] # "components" => other \in ToSet(queue')
      BY <1>3, <1>5, Kinds
    <2> QED BY <1>2, <2>1, Kinds DEF CellsOK, Reloading, CellOK, Refilled
  <1>11. AddsOK'
    BY <1>1, <1>2, AddsStay
  <1>12. HudHasOwner' /\ CompleteDataSafe'
    BY <1>1, <1>3 DEF HudHasOwner, CompleteDataSafe
  <1> QED BY <1>6, <1>7, <1>8, <1>9, <1>10, <1>11, <1>12

LEMMA CompletionStep == ASSUME IInv, Completion PROVE IInv'
  <1> USE DEF IInv
  <1>1. /\ First(UsersBlock)
        /\ phase' = "done"
        /\ array' = result /\ unsorted' = result
        /\ queue' = Append(Tail(queue), FetchedBlock)
        /\ UNCHANGED <<running, session, hud, servers, snapshot, inGroup, result, pictured,
                       table, alert, add, maps, counts, history>>
    BY DEF Completion
  <1>2. UNCHANGED <<record, friends, visible, tag, name, searches, mapTaps, owner, failed>>
    BY <1>1 DEF servers, table, counts, history
  <1>3. /\ running /\ UsersBlock \in ToSet(queue)
        /\ Tail(queue) \in Seq(Blocks) /\ ToSet(Tail(queue)) \subseteq ToSet(queue)
        /\ Waiting(queue) = Waiting(Tail(queue))
    BY <1>1, Taken, Kinds
  <1>4. inGroup = {} /\ phase \in {"photos", "left", "done"}
    BY <1>3 DEF QueueOK, BlockOK
  <1>5. /\ queue' \in Seq(Blocks) /\ ToSet(queue') = ToSet(Tail(queue)) \cup {FetchedBlock}
        /\ Waiting(queue') = Waiting(Tail(queue))
    <2>1. FetchedBlock \in Blocks /\ FetchedBlock[1] # "map"
      BY AreBlocks, Kinds
    <2> QED BY <1>1, <1>3, <2>1, QueueAppended
  <1>6. Typed'
    BY <1>1, <1>2, <1>4, <1>5 DEF Typed, TypeOK
  <1>7. FetchOK'
    BY <1>1, <1>2, <1>4 DEF FetchOK, Left, NoRepeat, Recorded
  <1>8. ListsOK'
    BY <1>1, <1>2, <1>4 DEF ListsOK, FetchOK, NoRepeat
  <1>9. searches = 0 => \A i \in DOMAIN array : i \in DOMAIN array'
    <2>1. DOMAIN <<>> = {}
      OBVIOUS
    <2> QED BY <1>1, <2>1 DEF ListsOK
  <1>10. QueueOK'
    <2>1. ASSUME NEW block \in ToSet(queue) PROVE BlockOK(block)'
      <3>1. BlockOK(block)
        BY DEF QueueOK
      <3> QED BY <1>1, <1>2, <1>4, <1>9, <3>1 DEF BlockOK, Left
    <2>2. BlockOK(FetchedBlock)'
      BY Kinds DEF BlockOK
    <2>3. \A block \in ToSet(queue') : BlockOK(block)'
      BY <1>3, <1>5, <2>1, <2>2
    <2> QED BY <1>1, <1>2, <1>3, <1>5, <2>3 DEF QueueOK, Waiting
  <1>11. CellsOK'
    BY <1>2, <1>5, <1>9 DEF CellsOK, Reloading
  <1>12. AddsOK'
    BY <1>1, <1>2, AddsStay
  <1>13. HudHasOwner' /\ CompleteDataSafe'
    BY <1>1, <1>3, <1>5 DEF HudHasOwner, CompleteDataSafe
  <1> QED BY <1>6, <1>7, <1>8, <1>10, <1>11, <1>12, <1>13

-----------------------------------------------------------------------------
(***************************************************************************)
(* The steps of the table and the search bar.                              *)
(***************************************************************************)
LEMMA ShowStep == ASSUME IInv, ShowFetched \/ ShowSearched PROVE IInv'
  <1> USE DEF IInv
  <1>1. /\ \/ First(FetchedBlock) /\ hud' = FALSE
           \/ First(SearchedBlock) /\ hud' = hud
        /\ Reload
        /\ UNCHANGED <<running, session, servers, fetch, lists, tag, name, alert, add, maps,
                       counts, history>>
    BY DEF ShowFetched, ShowSearched
  <1>2. UNCHANGED <<record, friends, phase, snapshot, inGroup, result, pictured, array, unsorted,
                    searches, mapTaps, owner, failed>>
    BY <1>1 DEF servers, fetch, lists, counts, history
  <1> PICK block \in {FetchedBlock, SearchedBlock} :
            First(block) /\ (hud' = FALSE \/ (hud' = hud /\ block = SearchedBlock))
    BY <1>1
  <1>3. /\ running /\ Tail(queue) \in Seq(Blocks) /\ ToSet(Tail(queue)) \subseteq ToSet(queue)
        /\ \A other \in ToSet(queue) : other = block \/ other \in ToSet(Tail(queue))
        /\ Waiting(queue) = Waiting(Tail(queue))
    BY Taken, Kinds
  <1>4. PICK cell \in [DOMAIN array -> Buttons] :
            /\ visible' = {cell[i] : i \in DOMAIN array}
            /\ queue' = Tail(queue) \o [i \in DOMAIN array |-> FillBlock(cell[i], i)]
    BY <1>1 DEF Reload
  <1> PICK fills : fills = [i \in DOMAIN array |-> FillBlock(cell[i], i)]
    OBVIOUS
  <1>5. fills \in Seq(Blocks) /\ ToSet(fills) = {FillBlock(cell[i], i) : i \in DOMAIN array}
    <2>1. DOMAIN array = 1..Len(array) /\ Len(array) \in Nat
          /\ DOMAIN array \subseteq 1..Cardinality(Users)
      BY RowsCount DEF Typed, TypeOK
    <2>2. \A i \in DOMAIN array : FillBlock(cell[i], i) \in Blocks
      BY <2>1, AreBlocks
    <2>3. fills \in Seq(Blocks)
      BY <2>1, <2>2
    <2> QED BY <2>3 DEF ToSet
  <1>6. /\ queue' \in Seq(Blocks) /\ ToSet(queue') = ToSet(Tail(queue)) \cup ToSet(fills)
        /\ Waiting(queue') = Waiting(Tail(queue))
    <2>1. \A other \in ToSet(fills) : other[1] # "map"
      BY <1>5, Kinds
    <2>2. queue' = Tail(queue) \o fills
      BY <1>4
    <2> QED BY <1>3, <1>5, <2>1, <2>2, QueueJoined
  <1>7. Typed'
    <2>1. visible' \in SUBSET Buttons
      BY <1>4
    <2> QED BY <1>1, <1>2, <1>6, <2>1 DEF Typed, TypeOK
  <1>8. FetchOK' /\ ListsOK' /\ AddsOK'
    BY <1>1, <1>2, FetchStays, ListsStay, AddsStay DEF Recorded
  <1>9. QueueOK'
    <2>1. ASSUME NEW other \in ToSet(queue) PROVE BlockOK(other)'
      BY <1>2, BlocksStay DEF QueueOK
    <2>2. ASSUME NEW i \in DOMAIN array PROVE BlockOK(FillBlock(cell[i], i))'
      BY <1>2, Kinds DEF BlockOK
    <2>3. \A other \in ToSet(queue') : BlockOK(other)'
      BY <1>3, <1>5, <1>6, <2>1, <2>2
    <2> QED BY <1>1, <1>2, <1>3, <1>6, <2>3 DEF QueueOK, Waiting
  <1>10. CellsOK'
    <2>1. ASSUME NEW b \in visible' PROVE Refilled(b)'
      <3>1. PICK i \in DOMAIN array : b = cell[i]
        BY <1>4
      <3>2. i \in 1..Cardinality(Users)
        BY RowsCount
      <3>3. FillBlock(b, i) \in ToSet(queue')
        BY <1>5, <1>6, <3>1
      <3> QED BY <3>2, <3>3 DEF Refilled
    <2> QED BY <1>1, <1>2, <2>1 DEF CellsOK, CellOK
  <1>11. HudHasOwner'
    <2>1. CASE hud' = FALSE
      BY <2>1 DEF HudHasOwner
    <2>2. CASE hud' = hud /\ block = SearchedBlock
      <3>1. FetchedBlock \in ToSet(queue) => FetchedBlock \in ToSet(queue')
        BY <1>3, <1>6, <2>2, Kinds
      <3>2. MapLists \subseteq MapLists'
        BY <1>3, <1>6, <2>2, Kinds DEF MapLists
      <3> QED BY <1>1, <1>2, <2>2, <3>1, <3>2 DEF HudHasOwner
    <2> QED BY <2>1, <2>2
  <1>12. CompleteDataSafe'
    BY <1>1, <1>3 DEF CompleteDataSafe
  <1> QED BY <1>7, <1>8, <1>9, <1>10, <1>11, <1>12

LEMMA FillStep ==
    ASSUME IInv, NEW b \in Buttons, NEW row \in 1..Cardinality(Users), FillCell(b, row)
    PROVE  IInv'
  <1> USE DEF IInv
  <1>1. /\ First(FillBlock(b, row)) /\ row \in DOMAIN array
        /\ queue' = Tail(queue)
        /\ tag' = [tag EXCEPT ![b] = row] /\ name' = [name EXCEPT ![b] = array[row]]
        /\ UNCHANGED <<running, session, hud, servers, fetch, lists, visible, alert, add, maps,
                       counts, history>>
    BY DEF FillCell
  <1>2. UNCHANGED <<record, friends, phase, snapshot, inGroup, result, pictured, array, unsorted,
                    searches, mapTaps, owner, failed>>
    BY <1>1 DEF servers, fetch, lists, counts, history
  <1>3. /\ running /\ queue' \in Seq(Blocks) /\ ToSet(queue') \subseteq ToSet(queue)
        /\ \A other \in ToSet(queue) : other = FillBlock(b, row) \/ other \in ToSet(queue')
        /\ Waiting(queue) = Waiting(queue')
    BY <1>1, Taken, Kinds
  <1>4. Typed'
    <2>1. row \in 0..Cardinality(Users) /\ array[row] \in Users
      BY <1>1, UsersCount DEF Typed, TypeOK
    <2>2. /\ tag' \in [Buttons -> 0..Cardinality(Users)]
          /\ name' \in [Buttons -> Users \cup {NoUser}]
      BY <1>1, <2>1 DEF Typed, TypeOK
    <2> QED BY <1>1, <1>2, <1>3, <2>2 DEF Typed, TypeOK
  <1>5. FetchOK' /\ ListsOK' /\ AddsOK'
    BY <1>1, <1>2, FetchStays, ListsStay, AddsStay DEF Recorded
  <1>6. QueueOK'
    <2>1. ASSUME NEW other \in ToSet(queue) PROVE BlockOK(other)'
      BY <1>2, BlocksStay DEF QueueOK
    <2> QED BY <1>1, <1>2, <1>3, <2>1 DEF QueueOK, Waiting
  <1>7. FetchedBlock # FillBlock(b, row) /\ SearchedBlock # FillBlock(b, row)
    BY Kinds
  <1>8. CellsOK'
    <2>1. Reloading <=> Reloading'
      BY <1>3, <1>7 DEF Reloading
    <2>2. ASSUME ~Reloading, NEW c \in visible PROVE CellOK(c)'
      <3>1. CASE c = b
        BY <1>1, <1>2, <3>1 DEF Typed, TypeOK, CellOK
      <3>2. CASE c # b
        <4>1. CellOK(c)
          BY <2>2 DEF CellsOK
        <4>2. \A other : FillBlock(c, other) # FillBlock(b, row)
          BY <3>2, Kinds
        <4>3. Refilled(c) => Refilled(c)'
          BY <1>3, <4>2 DEF Refilled
        <4>4. tag'[c] = tag[c] /\ name'[c] = name[c]
          BY <1>1, <3>2 DEF Typed, TypeOK
        <4> QED BY <1>2, <4>1, <4>3, <4>4 DEF CellOK
      <3> QED BY <3>1, <3>2
    <2>3. ASSUME searches = 0, NEW c \in Buttons, tag'[c] # 0 PROVE tag'[c] \in DOMAIN array
      <3>1. CASE c = b
        BY <1>1, <3>1 DEF Typed, TypeOK
      <3>2. CASE c # b
        BY <1>1, <2>3, <3>2 DEF Typed, TypeOK, CellsOK
      <3> QED BY <3>1, <3>2
    <2> QED BY <1>1, <1>2, <2>1, <2>2, <2>3 DEF CellsOK
  <1>9. HudHasOwner'
    <2>1. MapLists \subseteq MapLists'
      BY <1>3, Kinds DEF MapLists
    <2> QED BY <1>1, <1>2, <1>3, <1>7, <2>1 DEF HudHasOwner
  <1>10. CompleteDataSafe'
    BY <1>1, <1>3 DEF CompleteDataSafe
  <1> QED BY <1>4, <1>5, <1>6, <1>8, <1>9, <1>10

LEMMA SearchStep ==
    ASSUME IInv, NEW shown \in Seq(Users), NoRepeat(shown),
           ToSet(shown) \subseteq ToSet(unsorted), Filter(shown)
    PROVE  IInv'
  <1> USE DEF IInv
  <1>1. /\ running /\ searches < MaxSearches /\ searches' = searches + 1
        /\ array' = shown
        /\ queue' = Append(queue, SearchedBlock)
        /\ UNCHANGED <<running, session, hud, servers, fetch, unsorted, table, alert, add, maps,
                       mapTaps, history>>
    BY DEF Filter, InFront
  <1>2. UNCHANGED <<record, friends, phase, snapshot, inGroup, result, pictured, visible, tag,
                    name, owner, failed>>
    BY <1>1 DEF servers, fetch, table, history
  <1>3. searches' \in 0..MaxSearches /\ searches' # 0
    BY <1>1, UserListAssumption DEF Typed, TypeOK
  <1>4. /\ queue' \in Seq(Blocks) /\ ToSet(queue') = ToSet(queue) \cup {SearchedBlock}
        /\ Waiting(queue') = Waiting(queue)
    BY <1>1, AreBlocks, Kinds, MembersAppend, WaitingAppend DEF Typed
  <1>5. Typed'
    BY <1>1, <1>2, <1>3, <1>4 DEF Typed, TypeOK
  <1>6. FetchOK' /\ AddsOK'
    BY <1>1, <1>2, FetchStays, AddsStay DEF Recorded
  <1>7. ListsOK'
    BY <1>1, <1>2, <1>3 DEF ListsOK, NoRepeat
  <1>8. QueueOK'
    <2>1. ASSUME NEW block \in ToSet(queue) PROVE BlockOK(block)'
      <3>1. BlockOK(block)
        BY DEF QueueOK
      <3> QED BY <1>2, <1>3, <3>1 DEF BlockOK, Left
    <2>2. BlockOK(SearchedBlock)'
      BY Kinds DEF BlockOK
    <2> QED BY <1>1, <1>4, <2>1, <2>2 DEF QueueOK, Waiting
  <1>9. CellsOK'
    BY <1>3, <1>4 DEF CellsOK, Reloading
  <1>10. HudHasOwner' /\ CompleteDataSafe'
    BY <1>1, <1>2, <1>4 DEF HudHasOwner, CompleteDataSafe, MapLists
  <1> QED BY <1>5, <1>6, <1>7, <1>8, <1>9, <1>10

-----------------------------------------------------------------------------
(***************************************************************************)
(* The steps of a request.                                                 *)
(***************************************************************************)
\* The fetch, the lists, the queue and the cells stay, and the screen runs on.
LEMMA ScreenStays ==
    ASSUME IInv, running, UNCHANGED <<running, hud, fetch, lists, queue, table, maps, counts,
                                      record, owner, failed>>,
           session' \in {session, NoUser}
    PROVE  FetchOK' /\ ListsOK' /\ QueueOK' /\ CellsOK' /\ HudHasOwner' /\ CompleteDataSafe'
  <1> USE DEF IInv
  <1>1. UNCHANGED <<phase, snapshot, inGroup, result, pictured, array, unsorted, searches, mapTaps>>
    BY DEF fetch, lists, counts
  <1>2. FetchOK' /\ ListsOK'
    BY <1>1, FetchStays, ListsStay DEF Recorded
  <1>3. QueueOK' /\ CellsOK'
    BY <1>1, QueueStays, CellsStay
  <1>4. HudHasOwner' /\ CompleteDataSafe'
    BY <1>1, HudStays DEF CompleteDataSafe
  <1> QED BY <1>2, <1>3, <1>4

LEMMA NoAddIs ==
    /\ NoAdd \in AddRecords /\ NoAdd.state = "none" /\ NoAdd.person = NoAdd.seen
    /\ NoAdd.person = NoUser
  BY DEF NoAdd, AddRecords

LEMMA AddFriendStep == ASSUME IInv, NEW b \in Buttons, AddFriend(b) PROVE IInv'
  <1> USE DEF IInv
  <1> PICK calm \in BOOLEAN : calm <=> queue = <<>>
    OBVIOUS
  <1> PICK asked : asked = [NoAdd EXCEPT !.state = "asked", !.person = array[tag[b]],
                                         !.seen = name[b], !.settled = calm]
    OBVIOUS
  <1>1. /\ running /\ b \in visible /\ tag[b] \in DOMAIN array
        /\ UNCHANGED <<running, session, hud, servers, fetch, lists, queue, table, add, maps,
                       counts, history>>
    BY DEF AddFriend, InFront
  <1>2. alert' = asked
    <2>1. calm = (queue = <<>>)
      OBVIOUS
    <2> QED BY <2>1 DEF AddFriend
  <1>3. UNCHANGED <<record, friends, phase, snapshot, inGroup, result, pictured, array, unsorted,
                    visible, tag, name, searches, mapTaps, owner, failed>>
    BY <1>1 DEF servers, fetch, lists, table, counts, history
  <1>4. array[tag[b]] \in Users /\ name[b] \in Users \cup {NoUser} /\ array[tag[b]] \in ToSet(array)
    BY <1>1 DEF Typed, TypeOK, ToSet
  <1>5. /\ asked \in AddRecords /\ asked.person = array[tag[b]] /\ asked.seen = name[b]
        /\ asked.settled = calm
    BY <1>4 DEF NoAdd, AddRecords
  <1>6. Typed'
    BY <1>1, <1>2, <1>3, <1>5 DEF Typed, TypeOK
  <1>7. asked.settled => asked.person = asked.seen
    <2>1. ASSUME queue = <<>> PROVE name[b] = array[tag[b]]
      <3>1. DOMAIN <<>> = {}
        OBVIOUS
      <3>2. ToSet(queue) = {}
        BY <2>1, <3>1 DEF ToSet
      <3> QED BY <1>1, <3>2 DEF CellsOK, Reloading, CellOK, Refilled
    <2> QED BY <1>5, <2>1
  <1>8. asked.person \in snapshot /\ (asked.person = owner => session = NoUser)
    <2>1. ToSet(array) \subseteq Left
      BY ListedAreLeft
    <2>2. owner \in ToSet(array) => session = NoUser
      <3>1. ToSet(<<>>) = {}
        BY DEF ToSet
      <3> QED BY <3>1 DEF ListsOK, FetchOK
    <2> QED BY <1>4, <1>5, <2>1, <2>2 DEF Left
  <1>9. AddsOK'
    <2>1. AddedIsSeen'
      <3>1. \A c \in Adds : add[c].settled => add[c].person = add[c].seen
        BY DEF AddsOK, AddedIsSeen
      <3>2. add' = add
        BY <1>1
      <3> QED BY <1>2, <1>7, <3>1, <3>2 DEF AddedIsSeen
    <2> QED BY <1>1, <1>2, <1>3, <1>8, <2>1 DEF AddsOK, NobodyBefriendsSelf
  <1> QED BY <1>1, <1>3, <1>6, <1>9, ScreenStays

LEMMA CancelStep == ASSUME IInv, CancelAlert PROVE IInv'
  <1> USE DEF IInv
  <1>1. /\ running /\ alert' = NoAdd
        /\ UNCHANGED <<running, session, hud, servers, fetch, lists, queue, table, add, maps,
                       counts, history>>
    BY DEF CancelAlert
  <1>2. UNCHANGED <<record, friends, phase, snapshot, inGroup, result, pictured, array, unsorted,
                    visible, tag, name, searches, mapTaps, owner, failed>>
    BY <1>1 DEF servers, fetch, lists, table, counts, history
  <1>3. Typed'
    BY <1>1, <1>2, NoAddIs DEF Typed, TypeOK
  <1>4. AddsOK'
    BY <1>1, <1>2, NoAddIs DEF AddsOK, AddedIsSeen, NobodyBefriendsSelf
  <1> QED BY <1>1, <1>2, <1>3, <1>4, ScreenStays

LEMMA ConfirmStep == ASSUME IInv, NEW a \in Adds, ConfirmAlert(a) PROVE IInv'
  <1> USE DEF IInv
  <1> PICK sent : sent = [alert EXCEPT !.state = "sent", !.account = session]
    OBVIOUS
  <1>1. /\ running /\ alert # NoAdd /\ session # NoUser
        /\ add' = [add EXCEPT ![a] = sent] /\ alert' = NoAdd
        /\ UNCHANGED <<running, session, hud, servers, fetch, lists, queue, table, maps, counts,
                       history>>
    BY DEF ConfirmAlert
  <1>2. UNCHANGED <<record, friends, phase, snapshot, inGroup, result, pictured, array, unsorted,
                    visible, tag, name, searches, mapTaps, owner, failed>>
    BY <1>1 DEF servers, fetch, lists, table, counts, history
  <1>3. /\ sent \in AddRecords /\ sent.account = session /\ sent.person = alert.person
        /\ sent.seen = alert.seen /\ sent.settled = alert.settled
    BY DEF Typed, TypeOK, AddRecords
  <1>4. \A c \in Adds : add'[c] = IF c = a THEN sent ELSE add[c]
    BY <1>1 DEF Typed, TypeOK
  <1>5. Typed'
    <2>1. add' \in [Adds -> AddRecords]
      BY <1>1, <1>3 DEF Typed, TypeOK
    <2> QED BY <1>1, <1>2, <2>1, NoAddIs DEF Typed, TypeOK
  <1>6. AddsOK'
    <2>1. session = owner /\ sent.person \in snapshot \ {owner} /\ sent.account = owner
      BY <1>1, <1>3 DEF FetchOK, AddsOK
    <2>2. AddedIsSeen'
      <3>1. alert.settled => alert.person = alert.seen
        BY DEF AddsOK, AddedIsSeen
      <3>2. ASSUME NEW c \in Adds PROVE add'[c].settled => add'[c].person = add'[c].seen
        <4>1. CASE c = a
          BY <1>3, <1>4, <3>1, <4>1
        <4>2. CASE c # a
          BY <1>4, <4>2 DEF AddsOK, AddedIsSeen
        <4> QED BY <4>1, <4>2
      <3> QED BY <1>1, <3>2, NoAddIs DEF AddedIsSeen
    <2>3. ASSUME NEW c \in Adds, add'[c].state = "sent"
          PROVE  add'[c].person \in snapshot \ {owner} /\ add'[c].account = owner
      <3>1. CASE c = a
        BY <1>4, <2>1, <3>1
      <3>2. CASE c # a
        BY <1>4, <2>3, <3>2 DEF AddsOK
      <3> QED BY <3>1, <3>2
    <2> QED BY <1>1, <1>2, <2>2, <2>3 DEF AddsOK, NobodyBefriendsSelf
  <1> QED BY <1>1, <1>2, <1>5, <1>6, ScreenStays

\* The server answers: a request keeps who is asked for, and only the owner's friends
\* and a record that is missing change.
LEMMA ServerStep == ASSUME IInv, NEW a \in Adds, ServerAdds(a) \/ ServerRefuses(a) PROVE IInv'
  <1> USE DEF IInv
  <1>1. add[a].state = "sent"
    BY DEF ServerAdds, ServerRefuses
  <1>2. PICK state \in {"stored", "refused"} : add' = [add EXCEPT ![a].state = state]
    BY DEF ServerAdds, ServerRefuses
  <1>3. UNCHANGED <<running, session, hud, fetch, lists, queue, table, alert, maps, counts, history>>
    BY DEF ServerAdds, ServerRefuses
  <1>4. UNCHANGED <<phase, snapshot, inGroup, result, pictured, array, unsorted,
                    visible, tag, name, searches, mapTaps, owner, failed>>
    BY <1>3 DEF fetch, lists, table, counts, history
  <1>5. add[a].account = owner /\ add[a].person \in snapshot \ {owner}
        /\ owner \in Users /\ snapshot \in SUBSET Users /\ add \in [Adds -> AddRecords]
    BY <1>1 DEF AddsOK, Typed, TypeOK
  <1>6. \/ record' = record /\ friends' = friends
        \/ /\ friends' = [friends EXCEPT ![owner] = @ \cup {add[a].person}]
           /\ record' = [record EXCEPT ![owner] = IF @ = "none" THEN "friends" ELSE @]
    BY <1>5 DEF ServerAdds, ServerRefuses, servers
  <1>7. /\ record' \in [Users -> Records] /\ friends' \in [Users -> SUBSET Users]
        /\ \A u \in Users : record[u] # "none" => record'[u] = record[u]
        /\ \A u \in Users : u \notin friends[u] => u \notin friends'[u]
    <2>1. record \in [Users -> Records] /\ friends \in [Users -> SUBSET Users]
      BY DEF Typed, TypeOK
    <2>2. CASE record' = record /\ friends' = friends
      BY <2>1, <2>2
    <2>3. CASE /\ friends' = [friends EXCEPT ![owner] = @ \cup {add[a].person}]
               /\ record' = [record EXCEPT ![owner] = IF @ = "none" THEN "friends" ELSE @]
      <3>1. record' \in [Users -> Records]
            /\ \A u \in Users : record[u] # "none" => record'[u] = record[u]
        BY <1>5, <2>1, <2>3 DEF Records
      <3>2. friends' \in [Users -> SUBSET Users]
        BY <1>5, <2>1, <2>3
      <3>3. ASSUME NEW u \in Users, u \notin friends[u] PROVE u \notin friends'[u]
        BY <1>5, <2>1, <2>3, <3>3
      <3> QED BY <3>1, <3>2, <3>3
    <2> QED BY <1>6, <2>2, <2>3
  <1> PICK moved : moved = [add[a] EXCEPT !.state = state]
    OBVIOUS
  <1>8. /\ moved \in AddRecords /\ moved.person = add[a].person /\ moved.seen = add[a].seen
        /\ moved.settled = add[a].settled /\ moved.state = state
    BY <1>5 DEF AddRecords
  <1>9. \A c \in Adds : add'[c] = IF c = a THEN moved ELSE add[c]
    BY <1>2, <1>5
  <1>10. add' \in [Adds -> AddRecords]
    <2>1. add' = [add EXCEPT ![a] = moved]
      BY <1>2, <1>5
    <2> QED BY <1>5, <1>8, <2>1
  <1>11. Typed'
    BY <1>3, <1>4, <1>7, <1>10 DEF Typed, TypeOK
  <1>12. Recorded \subseteq Recorded'
    BY <1>7 DEF Recorded
  <1>13. FetchOK' /\ ListsOK' /\ QueueOK' /\ CellsOK' /\ HudHasOwner'
    BY <1>3, <1>4, <1>12, FetchStays, ListsStay, QueueStays, CellsStay, HudStays
  <1>14. AddsOK'
    <2>1. NobodyBefriendsSelf'
      BY <1>7 DEF AddsOK, NobodyBefriendsSelf
    <2>2. AddedIsSeen'
      <3>1. ASSUME NEW c \in Adds PROVE add'[c].settled => add'[c].person = add'[c].seen
        <4>1. add[c].settled => add[c].person = add[c].seen
          BY DEF AddsOK, AddedIsSeen
        <4> QED BY <1>8, <1>9, <4>1
      <3>2. alert.settled => alert.person = alert.seen
        BY DEF AddsOK, AddedIsSeen
      <3> QED BY <1>3, <3>1, <3>2 DEF AddedIsSeen
    <2>3. ASSUME NEW c \in Adds, add'[c].state = "sent"
          PROVE  add'[c].person \in snapshot \ {owner} /\ add'[c].account = owner
      <3>1. c # a
        BY <1>8, <1>9, <2>3
      <3> QED BY <1>9, <2>3, <3>1 DEF AddsOK
    <2> QED BY <1>3, <1>4, <2>1, <2>2, <2>3 DEF AddsOK
  <1>15. CompleteDataSafe'
    <2>1. SUFFICES ASSUME Complete', ~running PROVE FALSE
      BY <1>3 DEF CompleteDataSafe, Complete, Recorded
    <2>2. snapshot \subseteq Recorded /\ snapshot # {}
      BY <1>5 DEF FetchOK
    <2>3. \A u \in snapshot : record[u] = "full"
      BY <1>4, <1>5, <1>7, <2>1, <2>2 DEF Complete, Recorded
    <2>4. Complete
      BY <1>3, <1>4, <2>1, <2>2, <2>3 DEF Complete
    <2> QED BY <2>1, <2>4, SafeIs
  <1> QED BY <1>11, <1>13, <1>14, <1>15

-----------------------------------------------------------------------------
(***************************************************************************)
(* The steps of the map and the session.                                   *)
(***************************************************************************)
\* The fetch, the lists, the cells and the requests stay; the cells need the blocks of
\* the table only.
LEMMA TableStays ==
    ASSUME IInv,
           UNCHANGED <<session, servers, fetch, lists, table, alert, add, searches, owner, failed>>,
           \A block \in ToSet(queue) :
                block[1] \in {"fetched", "searched", "fill"} => block \in ToSet(queue'),
           \A block \in ToSet(queue') :
                block \in ToSet(queue) \/ block[1] \in {"map", "marker"}
    PROVE  FetchOK' /\ ListsOK' /\ CellsOK' /\ AddsOK'
  <1> USE DEF IInv
  <1>1. UNCHANGED <<record, friends, phase, snapshot, inGroup, result, pictured, array, unsorted,
                    visible, tag, name>>
    BY DEF servers, fetch, lists, table
  <1>2. FetchOK' /\ ListsOK' /\ AddsOK'
    BY <1>1, FetchStays, ListsStay, AddsStay DEF Recorded
  <1>3. Reloading <=> Reloading'
    BY Kinds DEF Reloading
  <1>4. \A b : Refilled(b) => Refilled(b)'
    BY Kinds DEF Refilled
  <1>5. CellsOK'
    BY <1>1, <1>3, <1>4 DEF CellsOK, CellOK
  <1> QED BY <1>2, <1>5

LEMMA MapTapStep == ASSUME IInv, MapBarButton PROVE IInv'
  <1> USE DEF IInv
  <1>1. /\ running /\ mapTaps < MaxMaps
        /\ mapTaps' = mapTaps + 1
        /\ hud' = TRUE
        /\ queue' = Append(queue, MapBlock(array))
        /\ UNCHANGED <<running, session, servers, fetch, lists, table, alert, add, maps,
                       searches, history>>
    BY DEF MapBarButton, InFront
  <1>2. UNCHANGED <<record, friends, phase, snapshot, inGroup, result, pictured, array, unsorted,
                    visible, tag, name, owner, failed>>
    BY <1>1 DEF servers, fetch, lists, table, history
  <1>3. queue \in Seq(Blocks) /\ MapBlock(array) \in Blocks /\ MapBlock(array)[1] = "map"
    BY AreBlocks, Kinds DEF Typed, TypeOK
  <1>4. /\ queue' \in Seq(Blocks) /\ ToSet(queue') = ToSet(queue) \cup {MapBlock(array)}
        /\ Waiting(queue') = Waiting(queue) + 1 /\ Waiting(queue) \in Nat
    <2> PICK block : block = MapBlock(array)
      OBVIOUS
    <2>1. /\ Append(queue, block) \in Seq(Blocks)
          /\ ToSet(Append(queue, block)) = ToSet(queue) \cup {block}
      BY <1>3, MembersAppend
    <2>2. Waiting(Append(queue, block)) = Waiting(queue) + 1
      BY <1>3, WaitingAppend
    <2>3. Waiting(queue) \in Nat
      BY <1>3, WaitingIsNat
    <2> QED BY <1>1, <2>1, <2>2, <2>3
  <1>5. mapTaps' \in 0..MaxMaps
    BY <1>1, UserListAssumption DEF Typed, TypeOK
  <1>6. Typed'
    BY <1>1, <1>2, <1>4, <1>5 DEF Typed, TypeOK
  <1>7. FetchOK' /\ ListsOK' /\ CellsOK' /\ AddsOK'
    BY <1>1, <1>2, <1>3, <1>4, TableStays
  <1>8. QueueOK'
    <2>1. ASSUME NEW block \in ToSet(queue) PROVE BlockOK(block)'
      BY <1>1, <1>2, BlocksStay DEF QueueOK
    <2>2. BlockOK(MapBlock(array))'
      BY <1>2, Kinds, ListedAreLeft DEF BlockOK, Left
    <2>3. Waiting(queue') + maps <= mapTaps'
      BY <1>1, <1>4 DEF QueueOK, Typed, TypeOK
    <2>4. \A block \in ToSet(queue') : BlockOK(block)'
      BY <1>2, <1>4, <2>1, <2>2
    <2> QED BY <1>1, <2>3, <2>4 DEF QueueOK, Waiting
  <1>9. HudHasOwner'
    <2>1. array \in MapLists'
      BY <1>4, Kinds DEF MapLists
    <2> QED BY <2>1 DEF HudHasOwner
  <1>10. CompleteDataSafe'
    BY <1>1 DEF CompleteDataSafe
  <1> QED BY <1>6, <1>7, <1>8, <1>9, <1>10

LEMMA ShowMapStep == ASSUME IInv, NEW list \in MapLists, ShowMap(list) PROVE IInv'
  <1> USE DEF IInv
  <1>1. /\ First(MapBlock(list))
        /\ hud' = FALSE /\ maps' = maps + 1
        /\ queue' = Tail(queue) \o [i \in DOMAIN list |-> MarkerBlock(list[i])]
        /\ UNCHANGED <<running, session, servers, fetch, lists, table, alert, add, counts, history>>
    BY DEF ShowMap
  <1>2. UNCHANGED <<record, friends, phase, snapshot, inGroup, result, pictured, array, unsorted,
                    visible, tag, name, searches, mapTaps, owner, failed>>
    BY <1>1 DEF servers, fetch, lists, table, counts, history
  <1>3. /\ running /\ MapBlock(list) \in ToSet(queue)
        /\ Tail(queue) \in Seq(Blocks) /\ ToSet(Tail(queue)) \subseteq ToSet(queue)
        /\ \A other \in ToSet(queue) : other = MapBlock(list) \/ other \in ToSet(Tail(queue))
        /\ Waiting(queue) = Waiting(Tail(queue)) + 1 /\ Waiting(Tail(queue)) \in Nat
    BY <1>1, Taken, Kinds
  <1>4. list \in Seq(Users) /\ ToSet(list) \subseteq Left
    <2>1. MapBlock(list) \in Blocks
      BY <1>1, Taken
    <2>2. PICK other \in Seq(Users) : MapBlock(list) = MapBlock(other)
      <3>1. \A b, row : MapBlock(list) # FillBlock(b, row)
        BY Kinds
      <3>2. \A u : MapBlock(list) # MarkerBlock(u)
        BY Kinds
      <3>3. MapBlock(list) \notin {ComponentsBlock, UsersBlock, FetchedBlock, SearchedBlock}
        BY Kinds
      <3> QED BY <2>1, <3>1, <3>2, <3>3 DEF Blocks
    <2>3. list = other
      BY <2>2, Kinds
    <2>4. ToSet(list) \subseteq Left
      BY <1>3, Kinds DEF QueueOK, BlockOK
    <2> QED BY <2>3, <2>4
  <1> PICK markers : markers = [i \in DOMAIN list |-> MarkerBlock(list[i])]
    OBVIOUS
  <1>5. /\ markers \in Seq(Blocks)
        /\ \A block \in ToSet(markers) : block[1] = "marker" /\ block[2] \in Left
    <2>1. \A i \in DOMAIN list : list[i] \in Users /\ MarkerBlock(list[i]) \in Blocks
      BY <1>4, AreBlocks
    <2>2. Len(list) \in Nat /\ DOMAIN list = 1..Len(list)
      BY <1>4
    <2>3. markers \in Seq(Blocks)
      BY <2>1, <2>2
    <2>4. \A i \in DOMAIN list : list[i] \in Left
      BY <1>4 DEF ToSet
    <2>5. ToSet(markers) = {MarkerBlock(list[i]) : i \in DOMAIN list}
      BY DEF ToSet
    <2> QED BY <2>3, <2>4, <2>5, Kinds
  <1>6. /\ queue' \in Seq(Blocks) /\ ToSet(queue') = ToSet(Tail(queue)) \cup ToSet(markers)
        /\ Waiting(queue') = Waiting(Tail(queue))
    <2>1. \A block \in ToSet(markers) : block[1] # "map"
      BY <1>5
    <2>2. queue' = Tail(queue) \o markers
      BY <1>1
    <2> QED BY <1>3, <1>5, <2>1, <2>2, QueueJoined
  <1>7. Waiting(queue') + maps' <= mapTaps' /\ maps' \in 0..MaxMaps
    <2>1. Waiting(queue) + maps <= mapTaps /\ maps \in Nat /\ mapTaps \in 0..MaxMaps
          /\ MaxMaps \in Nat
      BY UserListAssumption DEF QueueOK, Typed, TypeOK
    <2> QED BY <1>1, <1>2, <1>3, <1>6, <2>1
  <1>8. Typed'
    BY <1>1, <1>2, <1>6, <1>7 DEF Typed, TypeOK
  <1>9. FetchOK' /\ ListsOK' /\ CellsOK' /\ AddsOK'
    <2>1. \A block \in ToSet(queue) : block[1] \in {"fetched", "searched", "fill"} =>
                                        block \in ToSet(queue')
      BY <1>3, <1>6, Kinds
    <2>2. \A block \in ToSet(queue') : block \in ToSet(queue) \/ block[1] \in {"map", "marker"}
      BY <1>3, <1>5, <1>6
    <2> QED BY <1>1, <1>2, <2>1, <2>2, TableStays
  <1>10. QueueOK'
    <2>1. ASSUME NEW block \in ToSet(queue) PROVE BlockOK(block)'
      BY <1>1, <1>2, BlocksStay DEF QueueOK
    <2>2. ASSUME NEW block \in ToSet(markers) PROVE BlockOK(block)'
      BY <1>2, <1>5, Kinds DEF BlockOK, Left
    <2>3. \A block \in ToSet(queue') : BlockOK(block)'
      BY <1>3, <1>6, <2>1, <2>2
    <2> QED BY <1>7, <2>3 DEF QueueOK, Waiting
  <1>11. HudHasOwner' /\ CompleteDataSafe'
    BY <1>1, <1>3 DEF HudHasOwner, CompleteDataSafe
  <1> QED BY <1>8, <1>9, <1>10, <1>11

LEMMA MarkerStep == ASSUME IInv, NEW u \in Users, AddMarker(u) PROVE IInv'
  <1> USE DEF IInv
  <1>1. /\ First(MarkerBlock(u)) /\ queue' = Tail(queue)
        /\ UNCHANGED <<running, session, hud, servers, fetch, lists, table, alert, add, maps,
                       counts, history>>
    BY DEF AddMarker
  <1>2. UNCHANGED <<record, friends, phase, snapshot, inGroup, result, pictured, array, unsorted,
                    visible, tag, name, searches, mapTaps, owner, failed>>
    BY <1>1 DEF servers, fetch, lists, table, counts, history
  <1>3. /\ running /\ queue' \in Seq(Blocks) /\ ToSet(queue') \subseteq ToSet(queue)
        /\ \A other \in ToSet(queue) : other = MarkerBlock(u) \/ other \in ToSet(queue')
        /\ Waiting(queue) = Waiting(queue')
    BY <1>1, Taken, Kinds
  <1>4. Typed'
    BY <1>1, <1>2, <1>3 DEF Typed, TypeOK
  <1>5. FetchOK' /\ ListsOK' /\ CellsOK' /\ AddsOK'
    BY <1>1, <1>2, <1>3, Kinds, TableStays
  <1>6. QueueOK'
    <2>1. ASSUME NEW block \in ToSet(queue) PROVE BlockOK(block)'
      BY <1>1, <1>2, BlocksStay DEF QueueOK
    <2> QED BY <1>1, <1>2, <1>3, <2>1 DEF QueueOK, Waiting
  <1>7. HudHasOwner'
    <2>1. MapLists \subseteq MapLists'
      BY <1>3, Kinds DEF MapLists
    <2>2. FetchedBlock \in ToSet(queue) => FetchedBlock \in ToSet(queue')
      BY <1>3, Kinds
    <2> QED BY <1>1, <1>2, <2>1, <2>2 DEF HudHasOwner
  <1>8. CompleteDataSafe'
    BY <1>1, <1>3 DEF CompleteDataSafe
  <1> QED BY <1>4, <1>5, <1>6, <1>7, <1>8

LEMMA BackStep == ASSUME IInv, Back PROVE IInv'
  <1> USE DEF IInv
  <1>1. /\ running /\ maps > 0 /\ maps' = maps - 1
        /\ UNCHANGED <<running, session, hud, servers, fetch, lists, queue, table, alert, add,
                       counts, history>>
    BY DEF Back
  <1>2. UNCHANGED <<record, friends, phase, snapshot, inGroup, result, pictured, array, unsorted,
                    visible, tag, name, searches, mapTaps, owner, failed>>
    BY <1>1 DEF servers, fetch, lists, table, counts, history
  <1>3. /\ maps' \in 0..MaxMaps /\ Waiting(queue) + maps' <= mapTaps /\ Waiting(queue) \in Nat
    <2>1. /\ Waiting(queue) + maps <= mapTaps /\ maps \in 0..MaxMaps /\ MaxMaps \in Nat
          /\ mapTaps \in Nat
      BY UserListAssumption DEF QueueOK, Typed, TypeOK
    <2>2. Waiting(queue) \in Nat
      BY WaitingIsNat DEF Typed
    <2> QED BY <1>1, <2>1, <2>2
  <1>4. Typed'
    BY <1>1, <1>2, <1>3 DEF Typed, TypeOK
  <1>5. FetchOK' /\ ListsOK' /\ CellsOK' /\ AddsOK' /\ HudHasOwner'
    BY <1>1, <1>2, FetchStays, ListsStay, CellsStay, AddsStay, HudStays DEF Recorded
  <1>6. QueueOK'
    <2>1. ASSUME NEW block \in ToSet(queue) PROVE BlockOK(block)'
      BY <1>1, <1>2, BlocksStay DEF QueueOK
    <2> QED BY <1>1, <1>2, <1>3, <2>1 DEF QueueOK, Waiting
  <1>7. CompleteDataSafe'
    BY <1>1 DEF CompleteDataSafe
  <1> QED BY <1>4, <1>5, <1>6, <1>7

LEMMA SessionStep == ASSUME IInv, SessionInvalidated PROVE IInv'
  <1> USE DEF IInv
  <1>1. /\ running /\ session' = NoUser
        /\ UNCHANGED <<running, hud, servers, fetch, lists, queue, table, alert, add, maps,
                       counts, history>>
    BY DEF SessionInvalidated
  <1>2. UNCHANGED <<record, friends, phase, snapshot, inGroup, result, pictured, array, unsorted,
                    visible, tag, name, searches, mapTaps, owner, failed>>
    BY <1>1 DEF servers, fetch, lists, table, counts, history
  <1>3. Typed'
    BY <1>1, <1>2 DEF Typed, TypeOK
  <1>4. FetchOK'
    BY <1>1, <1>2 DEF FetchOK, Left, NoRepeat, Recorded
  <1>5. ListsOK' /\ QueueOK' /\ CellsOK' /\ HudHasOwner'
    BY <1>1, <1>2, ListsStay, QueueStays, CellsStay, HudStays
  <1>6. AddsOK'
    BY <1>1, <1>2 DEF AddsOK, AddedIsSeen, NobodyBefriendsSelf
  <1>7. CompleteDataSafe'
    BY <1>1 DEF CompleteDataSafe
  <1> QED BY <1>3, <1>4, <1>5, <1>6, <1>7

-----------------------------------------------------------------------------
\* With complete data no index, cast or unwrapping fails.
LEMMA CompleteRuns ==
    ASSUME IInv, Complete
    PROVE  /\ ~SnapshotRaises /\ ~SearchRaises /\ ~ConfirmRaises
           /\ \A b, row : ~FillCellRaises(b, row)
           /\ \A b \in Buttons : ~AddFriendRaises(b)
           /\ \A list \in MapLists : ~ShowMapRaises(list)
           /\ \A u \in Users : ~AddMarkerRaises(u)
  <1> USE DEF IInv
  <1>1. /\ Recorded # {} /\ \A u \in snapshot : record[u] = "full"
        /\ failed = {} /\ session # NoUser /\ searches = 0
    BY DEF Complete
  <1>2. Left \subseteq snapshot
    BY DEF Left
  <1>3. ~SnapshotRaises /\ ~ConfirmRaises
    BY <1>1 DEF SnapshotRaises, ConfirmRaises
  <1>4. ~SearchRaises
    <2>1. \A u \in ToSet(unsorted) : record[u] = "full"
      BY <1>1, <1>2, ListedAreLeft
    <2> QED BY <2>1 DEF SearchRaises, Nameless
  <1>5. ASSUME NEW b, NEW row, FillCellRaises(b, row) PROVE FALSE
    <2>1. First(FillBlock(b, row)) /\ row \notin DOMAIN array
      BY <1>5 DEF FillCellRaises
    <2>2. FillBlock(b, row) \in ToSet(queue)
      BY <2>1, Taken
    <2> QED BY <1>1, <2>1, <2>2, Kinds DEF QueueOK, BlockOK
  <1>6. \A b \in Buttons : ~AddFriendRaises(b)
    BY <1>1 DEF AddFriendRaises, CellsOK
  <1>7. ASSUME NEW list \in MapLists, ShowMapRaises(list) PROVE FALSE
    <2>1. First(MapBlock(list)) /\ ~Placed(list)
      BY <1>7 DEF ShowMapRaises
    <2>2. MapBlock(list) \in ToSet(queue)
      BY <2>1, Taken
    <2>3. ToSet(list) \subseteq Left
      BY <2>2, Kinds DEF QueueOK, BlockOK
    <2> QED BY <1>1, <1>2, <2>1, <2>3 DEF Placed
  <1>8. ASSUME NEW u \in Users, AddMarkerRaises(u) PROVE FALSE
    <2>1. First(MarkerBlock(u)) /\ u \notin pictured
      BY <1>8 DEF AddMarkerRaises
    <2>2. MarkerBlock(u) \in ToSet(queue)
      BY <2>1, Taken
    <2>3. u \in Left
      BY <2>2, Kinds DEF QueueOK, BlockOK
    <2> QED BY <1>1, <2>1, <2>3 DEF FetchOK
  <1> QED BY <1>3, <1>4, <1>5, <1>6, <1>7, <1>8

LEMMA RaisesStep ==
    ASSUME IInv, \/ SnapshotRaises \/ SearchRaises \/ ConfirmRaises
                 \/ \E b, row : FillCellRaises(b, row)
                 \/ \E b \in Buttons : AddFriendRaises(b)
                 \/ \E list \in MapLists : ShowMapRaises(list)
                 \/ \E u \in Users : AddMarkerRaises(u)
    PROVE  IInv'
  <1>1. Raise
    BY DEF SnapshotRaises, SearchRaises, ConfirmRaises, FillCellRaises, AddFriendRaises,
           ShowMapRaises, AddMarkerRaises
  <1>2. ~Complete
    BY CompleteRuns
  <1> QED BY <1>1, <1>2, RaiseStep

\* Every step keeps the inductive invariant.
LEMMA NextIInv == IInv /\ [Next]_vars => IInv'
  <1> SUFFICES ASSUME IInv, [Next]_vars PROVE IInv'
    OBVIOUS
  <1>1. CASE Fetch
    BY <1>1, SnapshotStep, AnswerStep, RaisesStep DEF Fetch
  <1>2. CASE Queue
    <2>1. CASE LeaveUsers \/ Completion \/ ShowFetched \/ ShowSearched
      BY <2>1, LeaveStep, CompletionStep, ShowStep
    <2>2. ASSUME NEW b \in Buttons, NEW row \in 1..Cardinality(Users),
                 FillCell(b, row) \/ FillCellRaises(b, row)
          PROVE  IInv'
      BY <2>2, FillStep, RaisesStep
    <2>3. ASSUME NEW list \in MapLists, ShowMap(list) \/ ShowMapRaises(list) PROVE IInv'
      BY <2>3, ShowMapStep, RaisesStep
    <2>4. ASSUME NEW u \in Users, AddMarker(u) \/ AddMarkerRaises(u) PROVE IInv'
      BY <2>4, MarkerStep, RaisesStep
    <2> QED BY <1>2, <2>1, <2>2, <2>3, <2>4 DEF Queue
  <1>3. CASE User
    <2>1. CASE ViewDidLoad \/ CancelAlert \/ MapBarButton \/ Back
      BY <2>1, LoadStep, CancelStep, MapTapStep, BackStep
    <2>2. CASE SearchRaises \/ ConfirmRaises
      BY <2>2, RaisesStep
    <2>3. unsorted \in Seq(Users) /\ NoRepeat(unsorted)
      <3>1. NoRepeat(<<>>)
        BY DEF NoRepeat
      <3> QED BY <3>1 DEF IInv, Typed, TypeOK, ListsOK, FetchOK
    <2>4. CASE SearchCancelled
      BY <2>3, <2>4, SearchStep DEF SearchCancelled
    <2>5. ASSUME NEW matches \in SUBSET Users, SearchTextDidChange(matches) PROVE IInv'
      <3> PICK positions : positions = {i \in DOMAIN unsorted : unsorted[i] \in matches}
        OBVIOUS
      <3>1. Filter(At(unsorted, positions))
        BY <2>5 DEF SearchTextDidChange
      <3>2. positions \in SUBSET DOMAIN unsorted
        OBVIOUS
      <3>3. /\ At(unsorted, positions) \in Seq(Users) /\ NoRepeat(At(unsorted, positions))
            /\ ToSet(At(unsorted, positions)) \subseteq ToSet(unsorted)
        BY <2>3, <3>2, Filtered
      <3> QED BY <3>1, <3>3, SearchStep
    <2>6. ASSUME NEW b \in Buttons, AddFriend(b) \/ AddFriendRaises(b) PROVE IInv'
      BY <2>6, AddFriendStep, RaisesStep
    <2>7. ASSUME NEW a \in Adds, ConfirmAlert(a) PROVE IInv'
      BY <2>7, ConfirmStep
    <2> QED BY <1>3, <2>1, <2>2, <2>4, <2>5, <2>6, <2>7 DEF User
  <1>4. CASE SessionInvalidated
    BY <1>4, SessionStep
  <1>5. ASSUME NEW a \in Adds, ServerAdds(a) \/ ServerRefuses(a) PROVE IInv'
    BY <1>5, ServerStep
  <1>6. CASE UNCHANGED vars
    <2>1. UNCHANGED <<running, session, hud, servers, fetch, lists, queue, table, alert, add, maps,
                      counts, history>>
      BY <1>6 DEF vars
    <2>2. UNCHANGED <<record, friends, phase, snapshot, inGroup, result, pictured, array, unsorted,
                      visible, tag, name, searches, mapTaps, owner, failed>>
      BY <2>1 DEF servers, fetch, lists, table, counts, history
    <2>3. Typed'
      BY <2>1, <2>2 DEF IInv, Typed, TypeOK
    <2>4. FetchOK' /\ ListsOK' /\ QueueOK' /\ CellsOK' /\ AddsOK' /\ HudHasOwner'
      BY <2>1, <2>2, FetchStays, ListsStay, QueueStays, CellsStay, AddsStay, HudStays
         DEF IInv, Recorded
    <2>5. CompleteDataSafe'
      BY <2>1, <2>2 DEF IInv, CompleteDataSafe, Recorded
    <2> QED BY <2>3, <2>4, <2>5 DEF IInv
  <1> QED BY <1>1, <1>2, <1>3, <1>4, <1>5, <1>6 DEF Next

\* The inductive invariant holds of every reachable state.
THEOREM Invariance == Spec => []IInv
  BY InitIInv, NextIInv, PTL DEF Spec

\* The state is well typed and the HUD, which the fetch and the map share
\* (UserViewController.swift:38-48 and :53-62), is up only while one of them will hide it.
THEOREM HudOwned == Spec => []ScreenInv
  <1>1. IInv => ScreenInv
    BY DEF IInv, Typed, ScreenInv
  <1> QED BY <1>1, Invariance, PTL

\* Everybody read is listed once, the owner only without a session, and so nobody is
\* made a friend of himself (FirebaseAPIHandler.swift:242-258, UserViewController.swift:113-121).
THEOREM ListIsSafe == Spec => []ListSafe
  <1>1. IInv => ListSafe
    <2> SUFFICES ASSUME IInv PROVE ListSafe
      OBVIOUS
    <2>1. ASSUME phase = "done"
          PROVE  /\ ToSet(unsorted) \ {owner} = snapshot \ {owner}
                 /\ Len(unsorted) = Cardinality(ToSet(unsorted))
                 /\ owner \in ToSet(unsorted) => session = NoUser
                 /\ ToSet(array) \subseteq ToSet(unsorted)
      <3>1. unsorted = result /\ result \in Seq(Users) /\ NoRepeat(result) /\ inGroup = {}
        BY <2>1 DEF IInv, Typed, TypeOK, ListsOK, FetchOK
      <3>2. Len(unsorted) = Cardinality(ToSet(unsorted))
        BY <3>1, Counted, UserListAssumption
      <3> QED BY <3>1, <3>2 DEF IInv, FetchOK, ListsOK, Left
    <2> QED BY <2>1 DEF IInv, AddsOK, ListSafe, OthersListed
  <1> QED BY <1>1, Invariance, PTL

\* Who is asked to be added is who the tapped row showed, if no block was waiting at the
\* tap (UserViewController.swift:113-117).
THEOREM RightUserAdded == Spec => []AddedIsSeen
  <1>1. IInv => AddedIsSeen
    BY DEF IInv, AddsOK
  <1> QED BY <1>1, Invariance, PTL

\* With complete records, all photos, a session and no search no index, cast or
\* unwrapping of the screen and its map fails.
THEOREM CompleteDataRuns == Spec => []CompleteDataSafe
  <1>1. IInv => CompleteDataSafe
    BY DEF IInv
  <1> QED BY <1>1, Invariance, PTL
=============================================================================
