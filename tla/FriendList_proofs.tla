-------------------------- MODULE FriendList_proofs --------------------------
(***************************************************************************)
(* Proofs about FriendList, for any finite set of people, any friends      *)
(* without profile or photo, any buttons and any number of fetches,        *)
(* removals and searches: the inductive invariant and the safety           *)
(* properties that follow from it.                                         *)
(***************************************************************************)
EXTENDS FriendList, FiniteSetTheorems, SequenceTheorems, TLAPS

NoRepeat(s) == \A i, j \in DOMAIN s : s[i] = s[j] => i = j

\* A fetch has read nothing before its answer; from then on a friend is in the group
\* or in the result, and one that lacks profile or photo never leaves the group.
\* Blocks of its completion are queued only once the group is empty.
FetchOK(f) ==
    /\ NoRepeat(friendArray[f])
    /\ snapshot[f] \cap (NoProfile \cup NoPhoto[f]) \subseteq inGroup[f]
    /\ profiled[f] \cap NoProfile = {}
    /\ phase[f] \in {"none", "sent"} => snapshot[f] = {}
    /\ phase[f] = "done" => inGroup[f] = {}
    /\ NotifyBlock(f) \in ToSet(queue) => phase[f] \in {"friends", "done"} /\ inGroup[f] = {}

FetchesOK ==
    /\ inGroup \in [Fetches -> SUBSET People] /\ profiled \in [Fetches -> SUBSET People]
    /\ friendArray \in [Fetches -> Seq(People)]
    /\ \A f \in Fetches : FetchOK(f)

ListsOK ==
    /\ NoRepeat(array) /\ NoRepeat(unfiltered)
    /\ ToSet(array) \subseteq ToSet(unfiltered)

Reloading == FetchedBlock \in ToSet(queue) \/ SearchedBlock \in ToSet(queue)

Refilled(b) == \E row \in 1..Cardinality(People) : FillBlock(b, row) \in ToSet(queue)

\* A visible cell shows the friend at its tag, or is about to be filled.
CellOK(b) == Refilled(b) \/ (tag[b] \in DOMAIN array /\ name[b] = array[tag[b]])

CellsOK == Reloading \/ \A b \in visible : CellOK(b)

\* The friend of a request is the one its cell showed and the one at its tag.
Hit(x) ==
    /\ x.button \in Buttons /\ x.person = x.seen
    /\ tag[x.button] \in DOMAIN array /\ array[tag[x.button]] = x.person

RowsOK ==
    calm => /\ alert # NoRemoval => Hit(alert)
            /\ \A r \in Removals : Open(r) => Hit(removal[r])

IInv == TypeOK /\ TotalCountsRows /\ FetchesOK /\ ListsOK /\ CellsOK /\ RowsOK

-----------------------------------------------------------------------------
(***************************************************************************)
(* Sequences.                                                              *)
(***************************************************************************)
LEMMA Members == ASSUME NEW S, NEW s \in Seq(S) PROVE ToSet(s) \subseteq S
  BY DEF ToSet

LEMMA MembersHead ==
    ASSUME NEW S, NEW s \in Seq(S), s # <<>>
    PROVE  /\ Head(s) \in S /\ Tail(s) \in Seq(S)
           /\ ToSet(s) = {Head(s)} \cup ToSet(Tail(s))
  <1>1. /\ Head(s) \in S /\ Head(s) = s[1] /\ 1 \in DOMAIN s
        /\ Tail(s) \in Seq(S)
    OBVIOUS
  <1>2. \A i \in DOMAIN Tail(s) : i + 1 \in DOMAIN s /\ Tail(s)[i] = s[i + 1]
    OBVIOUS
  <1>3. \A i \in DOMAIN s : i # 1 => i - 1 \in DOMAIN Tail(s) /\ Tail(s)[i - 1] = s[i]
    OBVIOUS
  <1>4. ToSet(s) \subseteq {Head(s)} \cup ToSet(Tail(s))
    BY <1>1, <1>3 DEF ToSet
  <1>5. ToSet(Tail(s)) \subseteq ToSet(s) /\ Head(s) \in ToSet(s)
    BY <1>1, <1>2 DEF ToSet
  <1> QED BY <1>1, <1>4, <1>5

LEMMA MembersAppend ==
    ASSUME NEW S, NEW s \in Seq(S), NEW x \in S
    PROVE  Append(s, x) \in Seq(S) /\ ToSet(Append(s, x)) = ToSet(s) \cup {x}
  <1>1. /\ Append(s, x) \in Seq(S)
        /\ DOMAIN Append(s, x) = DOMAIN s \cup {Len(s) + 1}
        /\ Append(s, x)[Len(s) + 1] = x
        /\ \A i \in DOMAIN s : Append(s, x)[i] = s[i]
    OBVIOUS
  <1> QED BY <1>1 DEF ToSet

LEMMA MembersConcat ==
    ASSUME NEW S, NEW s \in Seq(S), NEW t \in Seq(S)
    PROVE  s \o t \in Seq(S) /\ ToSet(s \o t) = ToSet(s) \cup ToSet(t)
  <1>1. /\ s \o t \in Seq(S) /\ DOMAIN (s \o t) = 1..(Len(s) + Len(t))
        /\ DOMAIN s = 1..Len(s) /\ DOMAIN t = 1..Len(t)
        /\ Len(s) \in Nat /\ Len(t) \in Nat
    OBVIOUS
  <1>2. \A i \in 1..Len(s) : (s \o t)[i] = s[i]
    OBVIOUS
  <1>3. \A i \in 1..Len(t) : (s \o t)[i + Len(s)] = t[i]
    OBVIOUS
  <1>4. ASSUME NEW i \in DOMAIN (s \o t) PROVE (s \o t)[i] \in ToSet(s) \cup ToSet(t)
    <2>1. CASE i \in 1..Len(s)
      BY <1>1, <1>2, <2>1 DEF ToSet
    <2>2. CASE i \notin 1..Len(s)
      <3>1. PICK j \in 1..Len(t) : i = j + Len(s)
        <4>1. i - Len(s) \in 1..Len(t) /\ i = (i - Len(s)) + Len(s)
          BY <1>1, <2>2
        <4> QED BY <4>1
      <3> QED BY <1>1, <1>3, <3>1 DEF ToSet
    <2> QED BY <2>1, <2>2
  <1>5. ToSet(s) \subseteq ToSet(s \o t)
    BY <1>1, <1>2 DEF ToSet
  <1>6. ASSUME NEW i \in 1..Len(t) PROVE t[i] \in ToSet(s \o t)
    <2>1. i + Len(s) \in DOMAIN (s \o t)
      BY <1>1
    <2> QED BY <1>3, <2>1 DEF ToSet
  <1>7. ToSet(s \o t) \subseteq ToSet(s) \cup ToSet(t)
    BY <1>4 DEF ToSet
  <1>8. ToSet(t) \subseteq ToSet(s \o t)
    BY <1>1, <1>6 DEF ToSet
  <1> QED BY <1>1, <1>5, <1>7, <1>8

\* A sequence that holds nobody twice is as long as the set of those it holds.
LEMMA Counted ==
    ASSUME NEW S, IsFiniteSet(S), NEW s \in Seq(S), NoRepeat(s)
    PROVE  /\ Cardinality(ToSet(s)) = Len(s)
           /\ Len(s) <= Cardinality(S)
  <1> DEFINE n == Len(s)
  <1>1. n \in Nat /\ DOMAIN s = 1..n /\ ToSet(s) \subseteq S
    BY DEF ToSet
  <1>2. IsFiniteSet(1..n) /\ Cardinality(1..n) = n
    <2>1. 1 \in Int /\ n \in Int
      BY <1>1
    <2>2. IsFiniteSet(1..n) /\ Cardinality(1..n) = IF 1 > n THEN 0 ELSE n - 1 + 1
      BY <2>1, FS_Interval
    <2> QED BY <1>1, <2>2
  <1>3. s \in [1..n -> ToSet(s)] /\ IsInjective(s)
    BY <1>1 DEF ToSet, NoRepeat, IsInjective
  <1>4. s \in Bijection(1..n, ToSet(s))
    BY <1>1, <1>3 DEF Bijection, Injection, Surjection, ToSet
  <1>5. Cardinality(ToSet(s)) = n
    BY <1>2, <1>4, FS_Bijection DEF ExistsBijection
  <1>6. Cardinality(ToSet(s)) <= Cardinality(S)
    BY <1>1, FS_Subset
  <1> QED BY <1>5, <1>6

\* The number of smaller members numbers a finite set of numbers without gaps.
LEMMA Ranks ==
    ASSUME NEW P, IsFiniteSet(P), P \subseteq Nat
    PROVE  /\ Cardinality(P) \in Nat
           /\ \A k \in 1..Cardinality(P) :
                \E p \in P : Cardinality({q \in P : q < p}) = k - 1
  <1> DEFINE n == Cardinality(P)
             Below(p) == {q \in P : q < p}
             rank == [p \in P |-> Cardinality(Below(p))]
  <1>1. n \in Nat
    BY FS_CardinalityType
  <1>2. ASSUME NEW p \in P
        PROVE  IsFiniteSet(Below(p)) /\ Cardinality(Below(p)) \in Nat /\ Cardinality(Below(p)) < n
    <2>1. IsFiniteSet(Below(p)) /\ Cardinality(Below(p)) <= n
          /\ (n = Cardinality(Below(p)) => P = Below(p))
      BY FS_Subset
    <2>2. Cardinality(Below(p)) \in Nat
      BY <2>1, FS_CardinalityType
    <2>3. P # Below(p)
      OBVIOUS
    <2> QED BY <1>1, <2>1, <2>2, <2>3
  <1>3. ASSUME NEW p \in P, NEW o \in P, p < o
        PROVE  Cardinality(Below(p)) < Cardinality(Below(o))
    <2>1. Below(p) \subseteq Below(o) /\ p \in Below(o) /\ p \notin Below(p)
      <3>1. p \in Nat /\ o \in Nat /\ p < o /\ ~(p < p)
        BY <1>3
      <3>2. \A q \in P : q < p => q < o
        BY <3>1
      <3> QED BY <3>1, <3>2
    <2>2. Cardinality(Below(p)) <= Cardinality(Below(o))
          /\ (Cardinality(Below(o)) = Cardinality(Below(p)) => Below(o) = Below(p))
      BY <1>2, <2>1, FS_Subset
    <2> HIDE DEF Below
    <2> QED BY <1>2, <2>1, <2>2
  <1> HIDE DEF Below
  <1>4. rank \in Injection(P, 0..(n - 1))
    <2>1. rank \in [P -> 0..(n - 1)]
      BY <1>1, <1>2
    <2>2. ASSUME NEW p \in P, NEW o \in P, rank[p] = rank[o] PROVE p = o
      <3>1. p \in Nat /\ o \in Nat /\ Cardinality(Below(p)) = Cardinality(Below(o))
        BY <2>2
      <3> QED BY <1>2, <1>3, <3>1
    <2> QED BY <2>1, <2>2 DEF Injection, IsInjective
  <1>5. IsFiniteSet(0..(n - 1)) /\ Cardinality(0..(n - 1)) = n
    <2>1. 0 \in Int /\ n - 1 \in Int
      BY <1>1
    <2>2. IsFiniteSet(0..(n - 1))
          /\ Cardinality(0..(n - 1)) = IF 0 > n - 1 THEN 0 ELSE n - 1 - 0 + 1
      BY <2>1, FS_Interval
    <2> QED BY <1>1, <2>2
  <1>6. rank \in Surjection(P, 0..(n - 1))
    BY <1>4, <1>5, FS_Injection
  <1>7. ASSUME NEW k \in 1..n PROVE \E p \in P : Cardinality(Below(p)) = k - 1
    <2>1. k - 1 \in 0..(n - 1)
      BY <1>1
    <2>2. PICK p \in P : rank[p] = k - 1
      BY <1>6, <2>1 DEF Surjection
    <2> QED BY <2>2
  <1> QED BY <1>1, <1>7 DEF Below

\* What a filter leaves: a part of the sequence that repeats nothing new.
LEMMA Filtered ==
    ASSUME NEW S, NEW s \in Seq(S), NoRepeat(s), NEW P \in SUBSET DOMAIN s
    PROVE  /\ At(s, P) \in Seq(S) /\ NoRepeat(At(s, P))
           /\ ToSet(At(s, P)) \subseteq ToSet(s)
  <1> DEFINE n == Cardinality(P)
             Rank(p) == Cardinality({q \in P : q < p})
  <1>1. IsFiniteSet(P) /\ P \subseteq Nat
    <2>1. IsFiniteSet(1..Len(s)) /\ DOMAIN s = 1..Len(s)
      BY FS_Interval
    <2> QED BY <2>1, FS_Subset
  <1>2. n \in Nat /\ \A k \in 1..n : \E p \in P : Rank(p) = k - 1
    BY <1>1, Ranks
  <1> HIDE DEF n, Rank
  <1>3. PICK order : order = Ascending(P)
    OBVIOUS
  <1>4. order = [k \in 1..n |-> CHOOSE p \in P : Rank(p) = k - 1]
    BY <1>3 DEF Ascending, n, Rank
  <1>5. \A k \in 1..n : order[k] \in P /\ Rank(order[k]) = k - 1
    BY <1>2, <1>4
  <1>6. At(s, P) = [k \in 1..n |-> s[order[k]]]
    BY <1>3, <1>4 DEF At
  <1>7. \A k \in 1..n : order[k] \in DOMAIN s
    BY <1>5
  <1>8. At(s, P) \in Seq(S)
    BY <1>2, <1>6, <1>7
  <1>9. NoRepeat(At(s, P))
    BY <1>2, <1>5, <1>6, <1>7 DEF NoRepeat
  <1>10. ToSet(At(s, P)) \subseteq ToSet(s)
    BY <1>6, <1>7 DEF ToSet
  <1> QED BY <1>8, <1>9, <1>10

\* What is left when a row is removed.
LEMMA Removed ==
    ASSUME NEW S, NEW s \in Seq(S), NoRepeat(s), NEW k \in DOMAIN s
    PROVE  /\ RemoveAt(s, k) \in Seq(S) /\ NoRepeat(RemoveAt(s, k))
           /\ ToSet(RemoveAt(s, k)) \subseteq ToSet(s)
  <1> DEFINE n == Len(s)
             old(i) == IF i < k THEN i ELSE i + 1
             left == RemoveAt(s, k)
             lower == SubSeq(s, 1, k - 1)
             upper == SubSeq(s, k + 1, n)
  <1>1. n \in Nat /\ k \in 1..n /\ DOMAIN s = 1..n
    OBVIOUS
  <1>2. /\ lower \in Seq(S) /\ Len(lower) = k - 1
        /\ \A i \in 1..(k - 1) : lower[i] = s[i]
    <2>1. 1 \in Int /\ k - 1 \in Int /\ \A i \in 1..(k - 1) : s[i] \in S
      BY <1>1
    <2>2. /\ lower \in Seq(S) /\ Len(lower) = IF 1 <= k - 1 THEN (k - 1) - 1 + 1 ELSE 0
          /\ \A i \in 1..((k - 1) - 1 + 1) : lower[i] = s[1 + i - 1]
      BY <2>1, SubSeqProperties
    <2> HIDE DEF lower
    <2> QED BY <1>1, <2>2
  <1>3. /\ upper \in Seq(S) /\ Len(upper) = n - k
        /\ \A i \in 1..(n - k) : upper[i] = s[k + i]
    <2>1. k + 1 \in Int /\ n \in Int /\ \A i \in (k + 1)..n : s[i] \in S
      BY <1>1
    <2>2. /\ upper \in Seq(S) /\ Len(upper) = IF k + 1 <= n THEN n - (k + 1) + 1 ELSE 0
          /\ \A i \in 1..(n - (k + 1) + 1) : upper[i] = s[(k + 1) + i - 1]
      BY <2>1, SubSeqProperties
    <2>3. n - (k + 1) + 1 = n - k /\ \A i \in 1..(n - k) : (k + 1) + i - 1 = k + i
      BY <1>1
    <2> HIDE DEF upper
    <2>4. Len(upper) = n - k
      BY <1>1, <2>2
    <2> QED BY <2>2, <2>3, <2>4
  <1> HIDE DEF lower, upper
  <1>4. left = lower \o upper
    BY DEF RemoveAt, lower, upper
  <1>5. /\ left \in Seq(S) /\ Len(left) = n - 1
        /\ \A i \in 1..(n - 1) : left[i] = s[old(i)]
    <2>1. /\ left \in Seq(S) /\ Len(left) = Len(lower) + Len(upper)
          /\ \A i \in 1..(Len(lower) + Len(upper)) :
                left[i] = IF i <= Len(lower) THEN lower[i] ELSE upper[i - Len(lower)]
      BY <1>2, <1>3, <1>4, ConcatProperties
    <2>2. Len(lower) + Len(upper) = n - 1
      BY <1>1, <1>2, <1>3
    <2> HIDE DEF left
    <2>3. ASSUME NEW i \in 1..(n - 1) PROVE left[i] = s[old(i)]
      <3>1. CASE i < k
        BY <1>1, <1>2, <2>1, <2>2, <3>1
      <3>2. CASE ~(i < k)
        <4>1. i - (k - 1) \in 1..(n - k) /\ k + (i - (k - 1)) = i + 1 /\ ~(i <= k - 1)
          BY <1>1, <3>2
        <4>2. left[i] = upper[i - (k - 1)]
          BY <1>2, <2>1, <2>2, <4>1
        <4> QED BY <1>3, <3>2, <4>1, <4>2
      <3> QED BY <3>1, <3>2
    <2> QED BY <2>1, <2>2, <2>3
  <1>6. \A i \in 1..(n - 1) : old(i) \in DOMAIN s
    BY <1>1
  <1>7. \A i, j \in 1..(n - 1) : old(i) = old(j) => i = j
    BY <1>1
  <1>8. DOMAIN left = 1..(n - 1)
    BY <1>1, <1>5
  <1> HIDE DEF old, left
  <1>9. NoRepeat(left)
    BY <1>5, <1>6, <1>7, <1>8 DEF NoRepeat
  <1>10. ToSet(left) \subseteq ToSet(s)
    BY <1>5, <1>6, <1>8 DEF ToSet
  <1> QED BY <1>5, <1>9, <1>10 DEF left

-----------------------------------------------------------------------------
(***************************************************************************)
(* The blocks and what the steps share.                                    *)
(***************************************************************************)
\* Blocks of different kinds differ.
LEMMA Kinds ==
    /\ \A f : NotifyBlock(f)[1] = "notify" /\ NotifyBlock(f)[2] = f
    /\ FetchedBlock[1] = "fetched" /\ SearchedBlock[1] = "searched"
    /\ \A b, row : /\ FillBlock(b, row)[1] = "fill"
                   /\ FillBlock(b, row)[2] = b /\ FillBlock(b, row)[3] = row
    /\ \A r : DropBlock(r)[1] = "drop"
  BY DEF NotifyBlock, FetchedBlock, SearchedBlock, FillBlock, DropBlock

LEMMA InitIInv == Init => IInv
  <1> SUFFICES ASSUME Init PROVE IInv
    OBVIOUS
  <1> USE DEF Init
  <1>1. ToSet(<<>>) = {} /\ NoRepeat(<<>>)
    BY DEF ToSet, NoRepeat
  <1>2. NoRemoval \in RemovalRecords
    BY DEF NoRemoval, RemovalRecords
  <1>3. TypeOK
    <2>1. searches \in 0..MaxSearches /\ array \in Seq(People) /\ unfiltered \in Seq(People)
          /\ label \in Nat /\ queue \in Seq(Blocks)
      BY FriendAssumption
    <2>2. /\ phase \in [Fetches -> {"none", "sent", "friends", "done"}]
          /\ snapshot \in [Fetches -> SUBSET People]
      OBVIOUS
    <2>3. /\ DOMAIN inGroup = Fetches /\ DOMAIN profiled = Fetches
          /\ \A f \in Fetches : /\ profiled[f] \subseteq snapshot[f]
                                /\ inGroup[f] \subseteq snapshot[f]
                                /\ ToSet(friendArray[f]) = snapshot[f] \ inGroup[f]
      BY <1>1
    <2>4. visible \in SUBSET Buttons
          /\ tag \in [Buttons -> Nat] /\ name \in [Buttons -> People \cup {NoOne}]
      OBVIOUS
    <2>5. alert \in RemovalRecords /\ removal \in [Removals -> RemovalRecords]
      BY <1>2
    <2> QED BY <2>1, <2>2, <2>3, <2>4, <2>5 DEF TypeOK
  <1>4. TotalCountsRows
    BY DEF TotalCountsRows
  <1>5. FetchesOK
    <2>1. \A f \in Fetches : FetchOK(f)
      BY <1>1 DEF FetchOK
    <2> QED BY <2>1 DEF FetchesOK
  <1>6. ListsOK /\ CellsOK
    BY <1>1 DEF ListsOK, CellsOK
  <1>7. RowsOK
    BY DEF RowsOK, Open, NoRemoval
  <1> QED BY <1>3, <1>4, <1>5, <1>6, <1>7 DEF IInv

\* The fetches keep their part of the invariant when no block of a completion is queued.
LEMMA FetchesStay ==
    ASSUME FetchesOK, UNCHANGED fetch,
           \A f \in Fetches : NotifyBlock(f) \in ToSet(queue') => NotifyBlock(f) \in ToSet(queue)
    PROVE  FetchesOK'
  <1>1. UNCHANGED <<phase, snapshot, profiled, inGroup, friendArray>>
    BY DEF fetch
  <1>2. ASSUME NEW f \in Fetches PROVE FetchOK(f)'
    <2>1. FetchOK(f)
      BY DEF FetchesOK
    <2> QED BY <1>1, <2>1 DEF FetchOK, NoRepeat
  <1> QED BY <1>1, <1>2 DEF FetchesOK

\* The part of the types that is about the fetches, and the rest.
LEMMA TypesStay ==
    ASSUME TypeOK, UNCHANGED <<fetch>>,
           running' \in BOOLEAN, hud' \in BOOLEAN, filtered' \in BOOLEAN, calm' \in BOOLEAN,
           friends' \in SUBSET People,
           array' \in Seq(People), unfiltered' \in Seq(People),
           label' \in Nat, queue' \in Seq(Blocks), searches' \in 0..MaxSearches,
           visible' \in SUBSET Buttons, tag' \in [Buttons -> Nat],
           name' \in [Buttons -> People \cup {NoOne}],
           alert' \in RemovalRecords, removal' \in [Removals -> RemovalRecords]
    PROVE  TypeOK'
  BY DEF TypeOK, fetch

\* The rows and cells keep their part when the lists, the cells and the requests stay
\* and no block of theirs runs.
LEMMA ScreenStays ==
    ASSUME TotalCountsRows, ListsOK, CellsOK, RowsOK,
           UNCHANGED <<lists, label, table, alert, removal, history>>,
           \/ queue' = queue
           \/ \E t : t \in Seq(Blocks) /\ queue \in Seq(Blocks) /\ queue' = queue \o t
    PROVE  TotalCountsRows' /\ ListsOK' /\ CellsOK' /\ RowsOK'
  <1>1. ToSet(queue) \subseteq ToSet(queue')
    <2>1. CASE queue' = queue
      BY <2>1
    <2>2. CASE \E t : t \in Seq(Blocks) /\ queue \in Seq(Blocks) /\ queue' = queue \o t
      <3>1. PICK t : t \in Seq(Blocks) /\ queue \in Seq(Blocks) /\ queue' = queue \o t
        BY <2>2
      <3>2. ToSet(queue \o t) = ToSet(queue) \cup ToSet(t)
        BY <3>1, MembersConcat
      <3> QED BY <3>1, <3>2
    <2> QED BY <2>1, <2>2
  <1>2. UNCHANGED <<array, unfiltered, label, visible, tag, name, alert, removal, filtered, calm>>
    BY DEF lists, table, history
  <1>3. TotalCountsRows' /\ ListsOK'
    BY <1>1, <1>2 DEF TotalCountsRows, ListsOK, NoRepeat
  <1>4. CellsOK'
    BY <1>1, <1>2 DEF CellsOK, Reloading, CellOK, Refilled
  <1>5. RowsOK'
    BY <1>2 DEF RowsOK, Open, Hit
  <1> QED BY <1>3, <1>4, <1>5

LEMMA PeopleCount == Cardinality(People) \in Nat
  BY FriendAssumption, FS_CardinalityType

\* The array never has more rows than there are people.
LEMMA RowsCount ==
    ASSUME TypeOK, ListsOK
    PROVE  Len(array) \in Nat /\ Len(array) <= Cardinality(People)
           /\ DOMAIN array \subseteq 1..Cardinality(People)
  <1>1. array \in Seq(People) /\ NoRepeat(array)
    BY DEF TypeOK, ListsOK
  <1>2. Len(array) <= Cardinality(People)
    BY <1>1, Counted, FriendAssumption
  <1> QED BY <1>1, <1>2, PeopleCount

\* reloadData queues the blocks that fill the cells it shows, and no others.
LEMMA Reloaded ==
    ASSUME NEW rows \in Nat, rows <= Cardinality(People), NEW before \in Seq(Blocks),
           Reload(rows, before)
    PROVE  /\ visible' \in SUBSET Buttons /\ queue' \in Seq(Blocks)
           /\ ToSet(before) \subseteq ToSet(queue')
           /\ \A block \in ToSet(queue') : block \in ToSet(before) \/ block[1] = "fill"
           /\ \A b \in visible' : Refilled(b)'
  <1>1. PICK cell \in [1..rows -> Buttons] :
            /\ visible' = {cell[i] : i \in 1..rows}
            /\ queue' = before \o [i \in 1..rows |-> FillBlock(cell[i], i)]
    BY DEF Reload
  <1> DEFINE fills == [i \in 1..rows |-> FillBlock(cell[i], i)]
  <1>2. \A i \in 1..rows : i \in 1..Cardinality(People)
    BY PeopleCount
  <1>3. \A i \in 1..rows : FillBlock(cell[i], i) \in Blocks
    BY <1>2 DEF Blocks
  <1>4. fills \in Seq(Blocks)
    BY <1>3
  <1>5. ToSet(fills) = {FillBlock(cell[i], i) : i \in 1..rows}
    BY DEF ToSet
  <1>6. queue' \in Seq(Blocks) /\ ToSet(queue') = ToSet(before) \cup ToSet(fills)
    BY <1>1, <1>4, MembersConcat
  <1> HIDE DEF fills
  <1>7. \A block \in ToSet(fills) : block[1] = "fill"
    BY <1>5, Kinds
  <1>8. ASSUME NEW b \in visible' PROVE Refilled(b)'
    <2>1. PICK i \in 1..rows : b = cell[i]
      BY <1>1
    <2>2. FillBlock(b, i) \in ToSet(queue')
      BY <1>5, <1>6, <2>1
    <2> QED BY <1>2, <2>2 DEF Refilled
  <1> QED BY <1>1, <1>6, <1>7, <1>8

-----------------------------------------------------------------------------
(***************************************************************************)
(* The steps of a fetch.                                                   *)
(***************************************************************************)
LEMMA FetchFriendsStep == ASSUME IInv, NEW f \in Fetches, FetchFriends(f) PROVE IInv'
  <1> USE DEF IInv
  <1>1. /\ phase' = [phase EXCEPT ![f] = "sent"] /\ phase[f] = "none"
        /\ hud' = TRUE
        /\ UNCHANGED <<running, friends, snapshot, profiled, inGroup, friendArray, lists, label,
                       queue, searches, table, alert, removal, history>>
    BY DEF FetchFriends
  <1>2. TypeOK'
    BY <1>1 DEF TypeOK, lists, table, history
  <1>3. ASSUME NEW g \in Fetches PROVE FetchOK(g)'
    <2>1. FetchOK(g) /\ FetchOK(f)
      BY DEF FetchesOK
    <2> QED BY <1>1, <2>1 DEF TypeOK, FetchOK, NoRepeat
  <1>4. FetchesOK'
    BY <1>1, <1>3 DEF FetchesOK
  <1> QED BY <1>1, <1>2, <1>4, ScreenStays

LEMMA SnapshotStep == ASSUME IInv, NEW f \in Fetches, SnapshotFriends(f) PROVE IInv'
  <1> USE DEF IInv
  <1>1. /\ phase' = [phase EXCEPT ![f] = "friends"] /\ phase[f] = "sent"
        /\ snapshot' = [snapshot EXCEPT ![f] = friends]
        /\ inGroup' = [inGroup EXCEPT ![f] = friends]
        /\ UNCHANGED <<running, friends, profiled, friendArray, lists, label, queue, searches,
                       table, alert, removal, hud, history>>
    BY DEF SnapshotFriends
  <1>2. FetchOK(f) /\ friends \in SUBSET People
    BY DEF FetchesOK, TypeOK
  <1>3. snapshot[f] = {} /\ profiled[f] = {} /\ ToSet(friendArray[f]) = {}
    BY <1>1, <1>2 DEF FetchOK, TypeOK
  <1>4. TypeOK'
    <2>1. /\ phase' \in [Fetches -> {"none", "sent", "friends", "done"}]
          /\ snapshot' \in [Fetches -> SUBSET People]
          /\ inGroup' \in [Fetches -> SUBSET People]
      BY <1>1, <1>2 DEF TypeOK, FetchesOK
    <2>2. ASSUME NEW g \in Fetches
          PROVE  /\ profiled'[g] \subseteq snapshot'[g]
                 /\ inGroup'[g] \subseteq snapshot'[g]
                 /\ ToSet(friendArray'[g]) = snapshot'[g] \ inGroup'[g]
      <3>1. CASE g = f
        BY <1>1, <1>2, <1>3, <3>1 DEF TypeOK, FetchesOK
      <3>2. CASE g # f
        BY <1>1, <3>2 DEF TypeOK, FetchesOK
      <3> QED BY <3>1, <3>2
    <2> QED BY <1>1, <2>1, <2>2 DEF TypeOK, lists, table, history
  <1>5. ASSUME NEW g \in Fetches PROVE FetchOK(g)'
    <2>1. FetchOK(g) /\ FetchOK(f)
      BY DEF FetchesOK
    <2>2. CASE g = f
      BY <1>1, <1>3, <2>1, <2>2 DEF TypeOK, FetchesOK, FetchOK, NoRepeat
    <2>3. CASE g # f
      BY <1>1, <2>1, <2>3 DEF TypeOK, FetchesOK, FetchOK, NoRepeat
    <2> QED BY <2>2, <2>3
  <1>6. FetchesOK'
    BY <1>1, <1>2, <1>5 DEF FetchesOK
  <1> QED BY <1>1, <1>4, <1>6, ScreenStays

LEMMA ProfileStep ==
    ASSUME IInv, NEW f \in Fetches, NEW p \in People, Profile(f, p) PROVE IInv'
  <1> USE DEF IInv
  <1>1. /\ profiled' = [profiled EXCEPT ![f] = @ \cup {p}]
        /\ p \in inGroup[f] /\ p \notin NoProfile
        /\ UNCHANGED <<running, friends, phase, snapshot, inGroup, friendArray, lists, label,
                       queue, searches, table, alert, removal, hud, history>>
    BY DEF Profile
  <1>2. TypeOK'
    BY <1>1 DEF TypeOK, FetchesOK, lists, table, history
  <1>3. ASSUME NEW g \in Fetches PROVE FetchOK(g)'
    <2>1. FetchOK(g)
      BY DEF FetchesOK
    <2> QED BY <1>1, <2>1 DEF TypeOK, FetchesOK, FetchOK, NoRepeat
  <1>4. FetchesOK'
    BY <1>1, <1>3 DEF FetchesOK
  <1> QED BY <1>1, <1>2, <1>4, ScreenStays

LEMMA PhotoStep == ASSUME IInv, NEW f \in Fetches, NEW p \in People, Photo(f, p) PROVE IInv'
  <1> USE DEF IInv
  <1> DEFINE blocks == [i \in 1..Cardinality(snapshot[f]) |-> NotifyBlock(f)]
  <1>1. /\ phase[f] = "friends"
        /\ p \in inGroup[f] /\ p \in profiled[f] /\ p \notin NoPhoto[f]
        /\ inGroup' = [inGroup EXCEPT ![f] = @ \ {p}]
        /\ friendArray' = [friendArray EXCEPT ![f] = Append(@, p)]
        /\ queue' = IF inGroup[f] = {p} THEN queue \o blocks ELSE queue
        /\ UNCHANGED <<running, friends, phase, snapshot, profiled, lists, label, searches,
                       table, alert, removal, hud, history>>
    BY DEF Photo
  <1>2. /\ queue \in Seq(Blocks) /\ snapshot[f] \in SUBSET People
        /\ friendArray[f] \in Seq(People) /\ inGroup \in [Fetches -> SUBSET People]
        /\ friendArray \in [Fetches -> Seq(People)]
        /\ inGroup[f] \subseteq snapshot[f]
        /\ ToSet(friendArray[f]) = snapshot[f] \ inGroup[f]
    BY DEF TypeOK, FetchesOK
  <1>3. blocks \in Seq(Blocks) /\ ToSet(blocks) \subseteq {NotifyBlock(f)}
    <2>1. Cardinality(snapshot[f]) \in Nat
      BY <1>2, FriendAssumption, FS_Subset, FS_CardinalityType
    <2>2. NotifyBlock(f) \in Blocks
      BY DEF Blocks
    <2>3. blocks \in Seq(Blocks)
      BY <2>1, <2>2
    <2> QED BY <2>3 DEF ToSet
  <1>4. queue' \in Seq(Blocks) /\ ToSet(queue') \subseteq ToSet(queue) \cup {NotifyBlock(f)}
        /\ (inGroup[f] # {p} => queue' = queue)
    <2>1. queue \o blocks \in Seq(Blocks) /\ ToSet(queue \o blocks) = ToSet(queue) \cup ToSet(blocks)
      <3> HIDE DEF blocks
      <3> QED BY <1>2, <1>3, MembersConcat
    <2> HIDE DEF blocks
    <2> QED BY <1>1, <1>2, <1>3, <2>1
  <1>5. /\ Append(friendArray[f], p) \in Seq(People)
        /\ ToSet(Append(friendArray[f], p)) = (snapshot[f] \ inGroup[f]) \cup {p}
    BY <1>2, MembersAppend
  <1>6. NoRepeat(Append(friendArray[f], p))
    <2>1. NoRepeat(friendArray[f])
      BY DEF FetchesOK, FetchOK
    <2>2. p \notin ToSet(friendArray[f])
      BY <1>1, <1>2
    <2>3. \A i \in DOMAIN friendArray[f] : friendArray[f][i] # p
      BY <2>2 DEF ToSet
    <2>4. /\ DOMAIN Append(friendArray[f], p) = DOMAIN friendArray[f] \cup {Len(friendArray[f]) + 1}
          /\ \A i \in DOMAIN friendArray[f] : Append(friendArray[f], p)[i] = friendArray[f][i]
          /\ Append(friendArray[f], p)[Len(friendArray[f]) + 1] = p
      BY <1>2
    <2> QED BY <2>1, <2>3, <2>4 DEF NoRepeat
  <1>7. TypeOK'
    <2>1. ASSUME NEW g \in Fetches
          PROVE  /\ inGroup'[g] \subseteq snapshot'[g]
                 /\ ToSet(friendArray'[g]) = snapshot'[g] \ inGroup'[g]
      <3>1. CASE g = f
        BY <1>1, <1>2, <1>5, <3>1
      <3>2. CASE g # f
        BY <1>1, <3>2 DEF TypeOK, FetchesOK
      <3> QED BY <3>1, <3>2
    <2>2. DOMAIN inGroup' = Fetches
      BY <1>1, <1>2
    <2> QED BY <1>1, <1>4, <2>1, <2>2 DEF TypeOK, lists, table, history
  <1>8. ASSUME NEW g \in Fetches PROVE FetchOK(g)'
    <2>1. FetchOK(g) /\ FetchOK(f)
      BY DEF FetchesOK
    <2>2. CASE g = f
      <3>1. /\ friendArray'[f] = Append(friendArray[f], p) /\ inGroup'[f] = inGroup[f] \ {p}
            /\ phase'[f] = "friends" /\ snapshot'[f] = snapshot[f] /\ profiled'[f] = profiled[f]
        BY <1>1, <1>2
      <3>2. p \notin NoProfile
        BY <1>1, <2>1 DEF FetchOK
      <3>3. NotifyBlock(f) \in ToSet(queue') => inGroup'[f] = {}
        BY <1>1, <1>4, <2>1, <3>1 DEF FetchOK
      <3> QED BY <1>1, <1>6, <2>1, <2>2, <3>1, <3>2, <3>3 DEF FetchOK
    <2>3. CASE g # f
      <3>1. NotifyBlock(g) # NotifyBlock(f)
        BY <2>3, Kinds
      <3>2. /\ friendArray'[g] = friendArray[g] /\ inGroup'[g] = inGroup[g]
            /\ phase' = phase /\ snapshot' = snapshot /\ profiled' = profiled
        BY <1>1, <1>2, <2>3
      <3> QED BY <1>4, <2>1, <3>1, <3>2 DEF FetchOK
    <2> QED BY <2>2, <2>3
  <1>9. FetchesOK'
    <2>1. /\ inGroup' \in [Fetches -> SUBSET People] /\ friendArray' \in [Fetches -> Seq(People)]
          /\ profiled' = profiled
      BY <1>1, <1>2, <1>5
    <2> QED BY <1>8, <2>1 DEF FetchesOK
  <1>10. queue' = queue \/ \E t : t \in Seq(Blocks) /\ queue \in Seq(Blocks) /\ queue' = queue \o t
    <2> HIDE DEF blocks
    <2> QED BY <1>1, <1>2, <1>3
  <1> QED BY <1>1, <1>7, <1>9, <1>10, ScreenStays

\* The completion of a fetch gives both arrays a list without repetitions.
LEMMA Completed ==
    ASSUME IInv, NEW result \in Seq(People), NoRepeat(result),
           NEW before \in Seq(Blocks), Completion(result, before),
           UNCHANGED <<label, table, alert, removal, filtered>>
    PROVE  /\ TotalCountsRows' /\ ListsOK' /\ CellsOK' /\ RowsOK'
           /\ array' \in Seq(People) /\ unfiltered' \in Seq(People)
           /\ queue' \in Seq(Blocks) /\ calm' \in BOOLEAN
           /\ ToSet(queue') = ToSet(before) \cup {FetchedBlock}
  <1> USE DEF IInv
  <1>1. /\ array' = result /\ unfiltered' = result
        /\ queue' = Append(before, FetchedBlock)
        /\ calm' = (calm /\ NoneOpen)
    BY DEF Completion
  <1>2. queue' \in Seq(Blocks) /\ ToSet(queue') = ToSet(before) \cup {FetchedBlock}
    <2>1. FetchedBlock \in Blocks
      BY DEF Blocks
    <2> QED BY <1>1, <2>1, MembersAppend
  <1>3. TotalCountsRows' /\ CellsOK'
    BY <1>2 DEF TotalCountsRows, CellsOK, Reloading
  <1>4. ListsOK'
    BY <1>1 DEF ListsOK, NoRepeat
  <1>5. RowsOK'
    BY <1>1 DEF RowsOK, NoneOpen, Open
  <1>6. calm' \in BOOLEAN
    BY <1>1 DEF TypeOK
  <1> QED BY <1>1, <1>2, <1>3, <1>4, <1>5, <1>6

LEMMA EmptyStep == ASSUME IInv, NEW f \in Fetches, SnapshotEmpty(f) PROVE IInv'
  <1> USE DEF IInv
  <1>1. /\ phase' = [phase EXCEPT ![f] = "done"] /\ phase[f] = "sent"
        /\ Completion(<<>>, queue)
        /\ UNCHANGED <<running, friends, snapshot, profiled, inGroup, friendArray, label,
                       searches, table, alert, removal, hud, filtered>>
    BY DEF SnapshotEmpty
  <1>2. <<>> \in Seq(People) /\ NoRepeat(<<>>) /\ queue \in Seq(Blocks)
    BY DEF NoRepeat, TypeOK
  <1>3. /\ TotalCountsRows' /\ ListsOK' /\ CellsOK' /\ RowsOK'
        /\ array' \in Seq(People) /\ unfiltered' \in Seq(People)
        /\ queue' \in Seq(Blocks) /\ calm' \in BOOLEAN
        /\ ToSet(queue') = ToSet(queue) \cup {FetchedBlock}
    BY <1>1, <1>2, Completed
  <1>4. TypeOK'
    BY <1>1, <1>3 DEF TypeOK, table
  <1>5. ASSUME NEW g \in Fetches PROVE FetchOK(g)'
    <2>1. FetchOK(g) /\ FetchOK(f)
      BY DEF FetchesOK
    <2>2. NotifyBlock(g) # FetchedBlock
      BY Kinds
    <2> QED BY <1>1, <1>3, <2>1, <2>2 DEF TypeOK, FetchOK, NoRepeat
  <1>6. FetchesOK'
    BY <1>1, <1>5 DEF FetchesOK
  <1> QED BY <1>3, <1>4, <1>6

LEMMA NotifyStep == ASSUME IInv, NEW f \in Fetches, RunNotify(f) PROVE IInv'
  <1> USE DEF IInv
  <1>1. /\ queue # <<>> /\ Head(queue) = NotifyBlock(f)
        /\ phase' = [phase EXCEPT ![f] = "done"]
        /\ Completion(friendArray[f], Tail(queue))
        /\ UNCHANGED <<running, friends, snapshot, profiled, inGroup, friendArray, label,
                       searches, table, alert, removal, hud, filtered>>
    BY DEF RunNotify
  <1>2. /\ Tail(queue) \in Seq(Blocks) /\ ToSet(Tail(queue)) \subseteq ToSet(queue)
        /\ NotifyBlock(f) \in ToSet(queue)
    BY <1>1, MembersHead DEF TypeOK
  <1>3. FetchOK(f) /\ friendArray[f] \in Seq(People) /\ NoRepeat(friendArray[f])
    BY DEF FetchesOK, FetchOK
  <1>4. /\ TotalCountsRows' /\ ListsOK' /\ CellsOK' /\ RowsOK'
        /\ array' \in Seq(People) /\ unfiltered' \in Seq(People)
        /\ queue' \in Seq(Blocks) /\ calm' \in BOOLEAN
        /\ ToSet(queue') = ToSet(Tail(queue)) \cup {FetchedBlock}
    BY <1>1, <1>2, <1>3, Completed
  <1>5. TypeOK'
    BY <1>1, <1>4 DEF TypeOK, table
  <1>6. ASSUME NEW g \in Fetches PROVE FetchOK(g)'
    <2>1. FetchOK(g)
      BY DEF FetchesOK
    <2>2. NotifyBlock(g) # FetchedBlock
      BY Kinds
    <2>3. NotifyBlock(g) \in ToSet(queue') => NotifyBlock(g) \in ToSet(queue)
      BY <1>2, <1>4, <2>2
    <2>4. /\ snapshot' = snapshot /\ profiled' = profiled /\ inGroup' = inGroup
          /\ friendArray' = friendArray
          /\ phase'[g] = IF g = f THEN "done" ELSE phase[g]
      BY <1>1 DEF TypeOK
    <2>5. inGroup[f] = {}
      BY <1>2, <1>3 DEF FetchOK
    <2>6. phase[f] \notin {"none", "sent"}
      BY <1>2, <1>3 DEF FetchOK
    <2> QED BY <2>1, <2>3, <2>4, <2>5, <2>6 DEF FetchOK
  <1>7. FetchesOK'
    BY <1>1, <1>6 DEF FetchesOK
  <1> QED BY <1>4, <1>5, <1>7

-----------------------------------------------------------------------------
(***************************************************************************)
(* The steps of the table.                                                 *)
(***************************************************************************)
\* What a block leaves in the queue it was taken from.
LEMMA Taken ==
    ASSUME TypeOK, queue # <<>>, NEW block, Head(queue) = block
    PROVE  /\ Tail(queue) \in Seq(Blocks) /\ block \in ToSet(queue)
           /\ ToSet(Tail(queue)) \subseteq ToSet(queue)
           /\ \A other \in ToSet(queue) : other = block \/ other \in ToSet(Tail(queue))
  BY MembersHead DEF TypeOK

\* No block of a completion is among the blocks that fill cells.
LEMMA NoNewNotify ==
    ASSUME TypeOK, queue # <<>>,
           \A block \in ToSet(queue') : block \in ToSet(Tail(queue)) \/ block[1] = "fill"
    PROVE  /\ \A f \in Fetches : NotifyBlock(f) \in ToSet(queue') => NotifyBlock(f) \in ToSet(queue)
           /\ FetchedBlock \in ToSet(queue') => FetchedBlock \in ToSet(Tail(queue))
  <1>1. ToSet(Tail(queue)) \subseteq ToSet(queue)
    BY MembersHead DEF TypeOK
  <1> QED BY <1>1, Kinds

LEMMA ShowStep == ASSUME IInv, ShowFetched \/ ShowSearched PROVE IInv'
  <1> USE DEF IInv
  <1>1. /\ queue # <<>> /\ Reload(Len(array), Tail(queue))
        /\ UNCHANGED <<running, friends, fetch, lists, searches, tag, name, alert, removal, calm>>
        /\ \/ hud' = FALSE /\ label' = Len(array) /\ filtered' = FALSE
           \/ Head(queue) = SearchedBlock /\ UNCHANGED <<hud, label, filtered>>
    BY DEF ShowFetched, ShowSearched, history
  <1>2. Tail(queue) \in Seq(Blocks)
    BY <1>1, Taken
  <1>3. /\ visible' \in SUBSET Buttons /\ queue' \in Seq(Blocks)
        /\ ToSet(Tail(queue)) \subseteq ToSet(queue')
        /\ \A block \in ToSet(queue') : block \in ToSet(Tail(queue)) \/ block[1] = "fill"
        /\ \A b \in visible' : Refilled(b)'
    BY <1>1, <1>2, RowsCount, Reloaded
  <1>4. UNCHANGED <<array, unfiltered>>
    BY <1>1 DEF lists
  <1>5. TypeOK'
    <2>1. label' \in Nat /\ hud' \in BOOLEAN /\ filtered' \in BOOLEAN
      BY <1>1, RowsCount DEF TypeOK
    <2> QED BY <1>1, <1>3, <1>4, <2>1, TypesStay DEF TypeOK
  <1>6. FetchesOK'
    BY <1>1, <1>3, NoNewNotify, FetchesStay
  <1>7. ListsOK'
    BY <1>4 DEF ListsOK, NoRepeat
  <1>8. CellsOK'
    BY <1>3 DEF CellsOK, CellOK
  <1>9. RowsOK'
    BY <1>1, <1>4 DEF RowsOK, Open, Hit
  <1>10. TotalCountsRows'
    <2>1. FetchedBlock \in ToSet(queue) \/ ~(FetchedBlock \in ToSet(queue'))
      BY <1>1, <1>3, Taken, NoNewNotify
    <2>2. CASE hud' = FALSE /\ label' = Len(array) /\ filtered' = FALSE
      BY <1>4, <2>2 DEF TotalCountsRows
    <2>3. CASE Head(queue) = SearchedBlock /\ UNCHANGED <<hud, label, filtered>>
      <3>1. FetchedBlock # SearchedBlock
        BY Kinds
      <3>2. FetchedBlock \in ToSet(queue) => FetchedBlock \in ToSet(queue')
        BY <1>1, <1>3, <2>3, <3>1, Taken
      <3> QED BY <1>4, <2>3, <3>2 DEF TotalCountsRows
    <2> QED BY <1>1, <2>2, <2>3
  <1> QED BY <1>5, <1>6, <1>7, <1>8, <1>9, <1>10

LEMMA FillStep ==
    ASSUME IInv, NEW b \in Buttons, NEW row \in 1..Cardinality(People), FillCell(b, row)
    PROVE  IInv'
  <1> USE DEF IInv
  <1>1. /\ queue # <<>> /\ Head(queue) = FillBlock(b, row)
        /\ row \in DOMAIN array
        /\ queue' = Tail(queue)
        /\ tag' = [tag EXCEPT ![b] = row]
        /\ name' = [name EXCEPT ![b] = array[row]]
        /\ calm' = (calm /\ (InUse(b) => tag[b] = row))
        /\ UNCHANGED <<running, friends, fetch, lists, label, searches, visible, alert, removal,
                       hud, filtered>>
    BY DEF FillCell
  <1>2. /\ Tail(queue) \in Seq(Blocks) /\ ToSet(Tail(queue)) \subseteq ToSet(queue)
        /\ \A other \in ToSet(queue) : other = FillBlock(b, row) \/ other \in ToSet(queue')
    BY <1>1, Taken
  <1>3. UNCHANGED <<array, unfiltered>>
    BY <1>1 DEF lists
  <1>4. TypeOK'
    <2>1. row \in Nat /\ array[row] \in People
      BY <1>1 DEF TypeOK
    <2>2. tag' \in [Buttons -> Nat] /\ name' \in [Buttons -> People \cup {NoOne}]
      BY <1>1, <2>1 DEF TypeOK
    <2>3. calm' \in BOOLEAN
      BY <1>1 DEF TypeOK
    <2> QED BY <1>1, <1>2, <1>3, <2>2, <2>3, TypesStay DEF TypeOK
  <1>5. FetchesOK'
    BY <1>1, <1>2, FetchesStay
  <1>6. FetchedBlock # FillBlock(b, row) /\ SearchedBlock # FillBlock(b, row)
    BY Kinds
  <1>7. ListsOK' /\ TotalCountsRows'
    BY <1>1, <1>2, <1>3, <1>6 DEF ListsOK, NoRepeat, TotalCountsRows
  <1>8. CellsOK'
    <2>1. Reloading <=> Reloading'
      BY <1>1, <1>2, <1>6 DEF Reloading
    <2>2. ASSUME ~Reloading, NEW c \in visible PROVE CellOK(c)'
      <3>1. CASE c = b
        BY <1>1, <1>3, <3>1 DEF TypeOK, CellOK
      <3>2. CASE c # b
        <4>1. CellOK(c)
          BY <2>2 DEF CellsOK
        <4>2. \A other : FillBlock(c, other) # FillBlock(b, row)
          BY <3>2, Kinds
        <4>3. Refilled(c) => Refilled(c)'
          BY <1>2, <4>2 DEF Refilled
        <4>4. tag'[c] = tag[c] /\ name'[c] = name[c]
          BY <1>1, <3>2 DEF TypeOK
        <4> QED BY <1>3, <4>1, <4>3, <4>4 DEF CellOK
      <3> QED BY <3>1, <3>2
    <2> QED BY <1>1, <2>1, <2>2 DEF CellsOK
  <1>9. RowsOK'
    <2>1. SUFFICES ASSUME calm'
                   PROVE  /\ alert # NoRemoval => Hit(alert)'
                          /\ \A r \in Removals : Open(r) => Hit(removal[r])'
      BY <1>1 DEF RowsOK, Open
    <2>2. calm /\ (InUse(b) => tag[b] = row)
      BY <1>1, <2>1
    <2>3. \A c \in Buttons : c # b \/ InUse(b) => tag'[c] = tag[c]
      BY <1>1, <2>2 DEF TypeOK
    <2>4. ASSUME alert # NoRemoval PROVE Hit(alert)'
      <3>1. Hit(alert)
        BY <2>2, <2>4 DEF RowsOK
      <3>2. alert.button = b => InUse(b)
        BY DEF InUse
      <3>3. tag'[alert.button] = tag[alert.button]
        BY <2>3, <3>1, <3>2 DEF Hit
      <3> QED BY <1>1, <1>3, <3>1, <3>3 DEF Hit
    <2>5. ASSUME NEW r \in Removals, Open(r) PROVE Hit(removal[r])'
      <3>1. Hit(removal[r])
        BY <2>2, <2>5 DEF RowsOK
      <3>2. removal[r].button = b => InUse(b)
        BY <2>5 DEF InUse
      <3>3. tag'[removal[r].button] = tag[removal[r].button]
        BY <2>3, <3>1, <3>2 DEF Hit
      <3> QED BY <1>1, <1>3, <3>1, <3>3 DEF Hit
    <2> QED BY <2>4, <2>5
  <1> QED BY <1>4, <1>5, <1>7, <1>8, <1>9

LEMMA RaiseStep == ASSUME IInv, Raise PROVE IInv'
  <1> USE DEF IInv
  <1>1. /\ running' = FALSE
        /\ UNCHANGED <<friends, fetch, lists, label, queue, searches, table, alert, removal,
                       hud, history>>
    BY DEF Raise
  <1>2. TypeOK'
    BY <1>1, TypesStay DEF TypeOK, lists, table, history
  <1>3. FetchesOK'
    BY <1>1, FetchesStay
  <1> QED BY <1>1, <1>2, <1>3, ScreenStays

-----------------------------------------------------------------------------
(***************************************************************************)
(* The steps of a removal.                                                 *)
(***************************************************************************)
\* The queue, the lists and the cells stay: their part of the invariant does.
LEMMA ListsStay ==
    ASSUME IInv, UNCHANGED <<fetch, lists, label, queue, table, filtered>>
    PROVE  TotalCountsRows' /\ FetchesOK' /\ ListsOK' /\ CellsOK'
  <1> USE DEF IInv
  <1>1. UNCHANGED <<array, unfiltered, visible, tag, name>>
    BY DEF lists, table
  <1>2. FetchesOK'
    BY FetchesStay
  <1>3. ListsOK' /\ TotalCountsRows'
    BY <1>1 DEF ListsOK, NoRepeat, TotalCountsRows
  <1>4. CellsOK'
    BY <1>1 DEF CellsOK, Reloading, CellOK, Refilled
  <1> QED BY <1>2, <1>3, <1>4

LEMMA NoRemovalIs == NoRemoval \in RemovalRecords /\ NoRemoval.state = "none"
  BY DEF NoRemoval, RemovalRecords

LEMMA UnFriendStep == ASSUME IInv, NEW b \in Buttons, UnFriend(b) PROVE IInv'
  <1> USE DEF IInv
  <1> PICK asked : asked = [state |-> "asked", person |-> array[tag[b]], button |-> b,
                            seen |-> name[b]]
    OBVIOUS
  <1>1. /\ b \in visible /\ tag[b] \in DOMAIN array
        /\ alert' = asked /\ calm' = (calm /\ queue = <<>>)
        /\ UNCHANGED <<running, friends, fetch, lists, label, queue, searches, table, removal,
                       hud, filtered>>
    BY DEF UnFriend
  <1>2. array[tag[b]] \in People /\ name[b] \in People \cup {NoOne}
    BY <1>1 DEF TypeOK
  <1>3. asked \in RemovalRecords
    BY <1>2 DEF RemovalRecords
  <1>4. asked.button = b /\ asked.person = array[tag[b]] /\ asked.seen = name[b]
    OBVIOUS
  <1>5. TypeOK'
    <2>1. calm' \in BOOLEAN
      BY <1>1 DEF TypeOK
    <2> QED BY <1>1, <1>3, <2>1, TypesStay DEF TypeOK, lists, table
  <1>6. RowsOK'
    <2>1. UNCHANGED <<array, tag>>
      BY <1>1 DEF lists, table
    <2>2. ASSUME calm' PROVE name[b] = array[tag[b]]
      <3>1. ToSet(queue) = {}
        <4>1. queue = <<>>
          BY <1>1, <2>2
        <4>2. DOMAIN <<>> = {}
          OBVIOUS
        <4> QED BY <4>1, <4>2 DEF ToSet
      <3> QED BY <1>1, <3>1 DEF CellsOK, Reloading, CellOK, Refilled
    <2> QED BY <1>1, <1>4, <2>1, <2>2 DEF RowsOK, Open, Hit
  <1> QED BY <1>1, <1>5, <1>6, ListsStay

LEMMA CancelStep == ASSUME IInv, CancelAlert PROVE IInv'
  <1> USE DEF IInv
  <1>1. /\ alert' = NoRemoval
        /\ UNCHANGED <<running, friends, fetch, lists, label, queue, searches, table, removal,
                       hud, history>>
    BY DEF CancelAlert
  <1>2. UNCHANGED <<array, unfiltered, visible, tag, name, filtered, calm>>
    BY <1>1 DEF lists, table, history
  <1>3. TypeOK'
    BY <1>1, <1>2, NoRemovalIs, TypesStay DEF TypeOK
  <1>4. RowsOK'
    BY <1>1, <1>2 DEF RowsOK, Open, Hit
  <1> QED BY <1>1, <1>2, <1>3, <1>4, ListsStay

LEMMA ConfirmStep == ASSUME IInv, NEW r \in Removals, ConfirmAlert(r) PROVE IInv'
  <1> USE DEF IInv
  <1> PICK sent : sent = [alert EXCEPT !.state = "sent"]
    OBVIOUS
  <1>1. /\ alert # NoRemoval /\ alert' = NoRemoval
        /\ removal' = [removal EXCEPT ![r] = sent]
        /\ UNCHANGED <<running, friends, fetch, lists, label, queue, searches, table, hud, history>>
    BY DEF ConfirmAlert
  <1>2. UNCHANGED <<array, unfiltered, visible, tag, name, filtered, calm>>
    BY <1>1 DEF lists, table, history
  <1>3. /\ sent \in RemovalRecords /\ sent.button = alert.button
        /\ sent.person = alert.person /\ sent.seen = alert.seen
    BY DEF TypeOK, RemovalRecords
  <1>4. TypeOK'
    <2>1. removal' \in [Removals -> RemovalRecords]
      BY <1>1, <1>3 DEF TypeOK
    <2> QED BY <1>1, <1>2, <2>1, NoRemovalIs, TypesStay DEF TypeOK
  <1>5. RowsOK'
    <2>1. SUFFICES ASSUME calm', NEW q \in Removals, Open(q)' PROVE Hit(removal[q])'
      BY <1>1 DEF RowsOK
    <2>2. CASE q = r
      <3>1. removal'[q] = sent
        BY <1>1, <2>2 DEF TypeOK
      <3> QED BY <1>1, <1>2, <1>3, <2>1, <3>1 DEF RowsOK, Hit
    <2>3. CASE q # r
      <3>1. removal'[q] = removal[q]
        BY <1>1, <2>3 DEF TypeOK
      <3> QED BY <1>2, <2>1, <3>1 DEF RowsOK, Open, Hit
    <2> QED BY <2>2, <2>3
  <1> QED BY <1>1, <1>2, <1>4, <1>5, ListsStay

\* A removal that goes on keeps its friend and its button.
LEMMA RemovalMoves ==
    ASSUME IInv, NEW r \in Removals, Open(r),
           NEW state \in {"sent", "removed", "refused", "answered", "done"},
           removal' = [removal EXCEPT ![r].state = state],
           UNCHANGED <<array, tag, alert, calm>>
    PROVE  RowsOK' /\ removal' \in [Removals -> RemovalRecords]
  <1> USE DEF IInv
  <1>1. removal \in [Removals -> RemovalRecords]
    BY DEF TypeOK
  <1> PICK moved : moved = [removal[r] EXCEPT !.state = state]
    OBVIOUS
  <1>2. /\ moved \in RemovalRecords /\ moved.button = removal[r].button
        /\ moved.person = removal[r].person /\ moved.seen = removal[r].seen
    BY <1>1 DEF RemovalRecords
  <1>3. removal' = [removal EXCEPT ![r] = moved]
    BY <1>1
  <1>4. removal' \in [Removals -> RemovalRecords]
    BY <1>1, <1>2, <1>3
  <1>5. RowsOK'
    <2>1. SUFFICES ASSUME calm PROVE /\ alert # NoRemoval => Hit(alert)'
                                     /\ \A q \in Removals : Open(q)' => Hit(removal[q])'
      BY DEF RowsOK
    <2>2. alert # NoRemoval => Hit(alert)'
      BY <2>1 DEF RowsOK, Hit
    <2>3. ASSUME NEW q \in Removals, Open(q)' PROVE Hit(removal[q])'
      <3>1. CASE q = r
        <4>1. removal'[q] = moved /\ Hit(removal[r])
          BY <1>1, <1>3, <2>1, <3>1 DEF RowsOK
        <4> QED BY <1>2, <4>1 DEF Hit
      <3>2. CASE q # r
        <4>1. removal'[q] = removal[q]
          BY <1>1, <1>3, <3>2
        <4> QED BY <2>1, <2>3, <4>1 DEF RowsOK, Open, Hit
      <3> QED BY <3>1, <3>2
    <2> QED BY <2>2, <2>3
  <1> QED BY <1>4, <1>5

LEMMA ServerStep ==
    ASSUME IInv, NEW r \in Removals, ServerRemoves(r) \/ ServerRefuses(r) PROVE IInv'
  <1> USE DEF IInv
  <1>1. PICK state \in {"removed", "refused"} : removal' = [removal EXCEPT ![r].state = state]
    BY DEF ServerRemoves, ServerRefuses
  <1>2. /\ Open(r) /\ friends' \in SUBSET People
        /\ UNCHANGED <<running, fetch, lists, label, queue, searches, table, alert, hud, history>>
    BY DEF ServerRemoves, ServerRefuses, Open, TypeOK
  <1>3. UNCHANGED <<array, unfiltered, visible, tag, name, filtered, calm>>
    BY <1>2 DEF lists, table, history
  <1>4. RowsOK' /\ removal' \in [Removals -> RemovalRecords]
    BY <1>1, <1>2, <1>3, RemovalMoves
  <1>5. TypeOK'
    BY <1>2, <1>3, <1>4, TypesStay DEF TypeOK
  <1> QED BY <1>2, <1>3, <1>4, <1>5, ListsStay

LEMMA AnsweredStep == ASSUME IInv, NEW r \in Removals, Answered(r) PROVE IInv'
  <1> USE DEF IInv
  <1>1. /\ Open(r)
        /\ removal' = [removal EXCEPT ![r].state = "answered"]
        /\ queue' = Append(queue, DropBlock(r))
        /\ UNCHANGED <<running, friends, fetch, lists, label, searches, table, alert, hud, history>>
    BY DEF Answered, Open
  <1>2. UNCHANGED <<array, unfiltered, visible, tag, name, filtered, calm>>
    BY <1>1 DEF lists, table, history
  <1>3. RowsOK' /\ removal' \in [Removals -> RemovalRecords]
    BY <1>1, <1>2, RemovalMoves
  <1>4. queue' \in Seq(Blocks) /\ ToSet(queue') = ToSet(queue) \cup {DropBlock(r)}
    <2>1. DropBlock(r) \in Blocks
      BY DEF Blocks
    <2> QED BY <1>1, <2>1, MembersAppend DEF TypeOK
  <1>5. TypeOK'
    BY <1>1, <1>2, <1>3, <1>4, TypesStay DEF TypeOK
  <1>6. /\ FetchedBlock # DropBlock(r) /\ SearchedBlock # DropBlock(r)
        /\ \A f : NotifyBlock(f) # DropBlock(r)
    BY Kinds
  <1>7. FetchesOK'
    BY <1>1, <1>4, <1>6, FetchesStay
  <1>8. ListsOK' /\ TotalCountsRows'
    BY <1>1, <1>2, <1>4, <1>6 DEF ListsOK, NoRepeat, TotalCountsRows
  <1>9. CellsOK'
    BY <1>2, <1>4, <1>6 DEF CellsOK, Reloading, CellOK, Refilled
  <1> QED BY <1>3, <1>5, <1>7, <1>8, <1>9

LEMMA DropStep == ASSUME IInv, NEW r \in Removals, DropRow(r) PROVE IInv'
  <1> USE DEF IInv
  <1>1. /\ queue # <<>> /\ Head(queue) = DropBlock(r)
        /\ RowOf(r) \in DOMAIN array
        /\ array' = RemoveAt(array, RowOf(r))
        /\ removal' = [removal EXCEPT ![r].state = "done"]
        /\ label' = Len(array')
        /\ Reload(Len(array'), Tail(queue))
        /\ calm' = (calm /\ alert = NoRemoval /\ \A q \in Removals \ {r} : ~Open(q))
        /\ UNCHANGED <<running, friends, fetch, unfiltered, searches, tag, name, alert, hud,
                       filtered>>
    BY DEF DropRow
  <1>2. array \in Seq(People) /\ NoRepeat(array) /\ ToSet(array) \subseteq ToSet(unfiltered)
    BY DEF TypeOK, ListsOK
  <1>3. /\ array' \in Seq(People) /\ NoRepeat(array)'
        /\ ToSet(array') \subseteq ToSet(array)
    BY <1>1, <1>2, Removed DEF NoRepeat
  <1>4. ListsOK'
    BY <1>1, <1>2, <1>3 DEF ListsOK, NoRepeat
  <1>5. Len(array') \in Nat /\ Len(array') <= Cardinality(People)
    BY <1>3, Counted, FriendAssumption DEF NoRepeat
  <1>6. Tail(queue) \in Seq(Blocks)
    BY <1>1, Taken
  <1>7. /\ visible' \in SUBSET Buttons /\ queue' \in Seq(Blocks)
        /\ ToSet(Tail(queue)) \subseteq ToSet(queue')
        /\ \A block \in ToSet(queue') : block \in ToSet(Tail(queue)) \/ block[1] = "fill"
        /\ \A b \in visible' : Refilled(b)'
    BY <1>1, <1>5, <1>6, Reloaded
  <1>8. removal \in [Removals -> RemovalRecords]
    BY DEF TypeOK
  <1> PICK dropped : dropped = [removal[r] EXCEPT !.state = "done"]
    OBVIOUS
  <1>9. dropped \in RemovalRecords /\ dropped.state = "done"
    BY <1>8 DEF RemovalRecords
  <1>10. removal' = [removal EXCEPT ![r] = dropped]
    BY <1>1, <1>8
  <1>11. TypeOK'
    <2>1. removal' \in [Removals -> RemovalRecords] /\ calm' \in BOOLEAN /\ label' \in Nat
      BY <1>1, <1>5, <1>8, <1>9, <1>10
    <2>2. unfiltered' \in Seq(People)
      BY <1>1 DEF TypeOK
    <2> QED BY <1>1, <1>3, <1>7, <2>1, <2>2, TypesStay DEF TypeOK
  <1>12. FetchesOK'
    BY <1>1, <1>7, NoNewNotify, FetchesStay
  <1>13. TotalCountsRows'
    BY <1>1 DEF TotalCountsRows
  <1>14. CellsOK'
    BY <1>7 DEF CellsOK, CellOK
  <1>15. RowsOK'
    <2>1. ASSUME calm', NEW q \in Removals PROVE ~Open(q)'
      <3>1. CASE q = r
        BY <1>8, <1>9, <1>10, <3>1 DEF Open
      <3>2. CASE q # r
        BY <1>1, <1>8, <1>10, <2>1, <3>2 DEF Open
      <3> QED BY <3>1, <3>2
    <2> QED BY <1>1, <2>1 DEF RowsOK
  <1> QED BY <1>4, <1>11, <1>12, <1>13, <1>14, <1>15

-----------------------------------------------------------------------------
(***************************************************************************)
(* The search bar.                                                         *)
(***************************************************************************)
LEMMA SearchStep ==
    ASSUME IInv, NEW shown \in Seq(People), NoRepeat(shown),
           ToSet(shown) \subseteq ToSet(unfiltered), Filter(shown)
    PROVE  IInv'
  <1> USE DEF IInv
  <1>1. /\ searches < MaxSearches /\ searches' = searches + 1
        /\ array' = shown
        /\ queue' = Append(queue, SearchedBlock)
        /\ filtered' = TRUE
        /\ calm' = (calm /\ NoneOpen)
        /\ UNCHANGED <<running, friends, fetch, unfiltered, label, table, alert, removal, hud>>
    BY DEF Filter
  <1>2. queue' \in Seq(Blocks) /\ ToSet(queue') = ToSet(queue) \cup {SearchedBlock}
    <2>1. SearchedBlock \in Blocks
      BY DEF Blocks
    <2> QED BY <1>1, <2>1, MembersAppend DEF TypeOK
  <1>3. TypeOK'
    <2>1. searches' \in 0..MaxSearches
      BY <1>1, FriendAssumption DEF TypeOK
    <2>2. calm' \in BOOLEAN /\ unfiltered' \in Seq(People)
      BY <1>1 DEF TypeOK
    <2> QED BY <1>1, <1>2, <2>1, <2>2, TypesStay DEF TypeOK, table
  <1>4. FetchesOK'
    <2>1. \A f : NotifyBlock(f) # SearchedBlock
      BY Kinds
    <2> QED BY <1>1, <1>2, <2>1, FetchesStay
  <1>5. ListsOK' /\ TotalCountsRows' /\ CellsOK'
    BY <1>1, <1>2 DEF ListsOK, NoRepeat, TotalCountsRows, CellsOK, Reloading
  <1>6. RowsOK'
    BY <1>1 DEF RowsOK, NoneOpen, Open
  <1> QED BY <1>3, <1>4, <1>5, <1>6

\* Every step keeps the inductive invariant.
LEMMA NextIInv == IInv /\ [Next]_vars => IInv'
  <1> SUFFICES ASSUME IInv, [Next]_vars PROVE IInv'
    OBVIOUS
  <1>1. ASSUME NEW f \in Fetches, FetchFriends(f) \/ Fetch(f) PROVE IInv'
    BY <1>1, FetchFriendsStep, SnapshotStep, EmptyStep, NotifyStep, ProfileStep, PhotoStep
       DEF Fetch
  <1>2. CASE Table
    BY <1>2, ShowStep, FillStep, RaiseStep DEF Table, FillCellRaises
  <1>3. ASSUME NEW r \in Removals, ConfirmAlert(r) \/ Removing(r) PROVE IInv'
    BY <1>3, ConfirmStep, ServerStep, AnsweredStep, DropStep, RaiseStep
       DEF Removing, DropRowRaises
  <1>4. ASSUME NEW b \in Buttons, UnFriend(b) \/ UnFriendRaises(b) PROVE IInv'
    BY <1>4, UnFriendStep, RaiseStep DEF UnFriendRaises
  <1>5. CASE CancelAlert
    BY <1>5, CancelStep
  <1>6. unfiltered \in Seq(People) /\ NoRepeat(unfiltered)
    BY DEF IInv, TypeOK, ListsOK
  <1>7. ASSUME NEW matches \in SUBSET People, SearchTextDidChange(matches) PROVE IInv'
    <2> PICK positions : positions = {i \in DOMAIN unfiltered : unfiltered[i] \in matches}
      OBVIOUS
    <2>1. Filter(At(unfiltered, positions))
      BY <1>7 DEF SearchTextDidChange
    <2>2. positions \in SUBSET DOMAIN unfiltered
      OBVIOUS
    <2>3. /\ At(unfiltered, positions) \in Seq(People) /\ NoRepeat(At(unfiltered, positions))
          /\ ToSet(At(unfiltered, positions)) \subseteq ToSet(unfiltered)
      BY <1>6, <2>2, Filtered
    <2> QED BY <2>1, <2>3, SearchStep
  <1>8. CASE SearchCancelled
    BY <1>6, <1>8, SearchStep DEF SearchCancelled
  <1>9. CASE UNCHANGED vars
    <2>1. UNCHANGED <<running, friends, fetch, lists, label, queue, searches, table, alert,
                      removal, hud, history>>
      BY <1>9 DEF vars
    <2>2. TypeOK'
      BY <2>1, TypesStay DEF IInv, TypeOK, lists, table, history
    <2>3. FetchesOK'
      BY <2>1, FetchesStay DEF IInv
    <2> QED BY <2>1, <2>2, <2>3, ScreenStays DEF IInv
  <1> QED BY <1>1, <1>2, <1>3, <1>4, <1>5, <1>7, <1>8, <1>9 DEF Next, User

\* The inductive invariant holds of every reachable state.
THEOREM Invariance == Spec => []IInv
  BY InitIInv, NextIInv, PTL DEF Spec

\* What the fetches, the searches and the removals leave of the two arrays and the
\* total (FriendViewController.swift:43-48, :89-93 and :132-149): the shown array is a
\* part of the other, nobody is shown twice, and the total counts the rows.
THEOREM ListsConsistent == Spec => []ListsInv
  <1>1. IInv => ListsInv
    <2> SUFFICES ASSUME IInv PROVE ListsInv
      OBVIOUS
    <2>1. /\ array \in Seq(People) /\ unfiltered \in Seq(People)
          /\ NoRepeat(array) /\ NoRepeat(unfiltered)
      BY DEF IInv, TypeOK, ListsOK
    <2>2. Cardinality(ToSet(array)) = Len(array) /\ Cardinality(ToSet(unfiltered)) = Len(unfiltered)
      BY <2>1, Counted, FriendAssumption
    <2> QED BY <2>2 DEF IInv, ListsOK, ListsInv, ShownIsPart
  <1> QED BY <1>1, Invariance, PTL

\* fetchFriendList answers with every friend it read, each once and with profile and
\* photo, or not at all (FirebaseAPIHandler.swift:284-322).
THEOREM FetchedWhole == Spec => []AllFriendsOrNone
  <1>1. IInv => AllFriendsOrNone
    <2> SUFFICES ASSUME IInv, NEW f \in Fetches, phase[f] = "done"
                 PROVE  /\ ToSet(friendArray[f]) = snapshot[f]
                        /\ Len(friendArray[f]) = Cardinality(snapshot[f])
                        /\ snapshot[f] \cap (NoProfile \cup NoPhoto[f]) = {}
      BY DEF AllFriendsOrNone
    <2>1. FetchOK(f) /\ friendArray[f] \in Seq(People)
      BY DEF IInv, FetchesOK
    <2>2. ToSet(friendArray[f]) = snapshot[f] /\ inGroup[f] = {}
      BY <2>1 DEF IInv, TypeOK, FetchOK
    <2>3. Cardinality(ToSet(friendArray[f])) = Len(friendArray[f])
      BY <2>1, Counted, FriendAssumption DEF FetchOK
    <2> QED BY <2>1, <2>2, <2>3 DEF FetchOK
  <1> QED BY <1>1, Invariance, PTL

\* The friend removed is the one the tapped row showed, and the row dropped is that
\* friend's, if nothing touched list or cells meanwhile (FriendViewController.swift:82-93).
THEOREM RightRowRemoved == Spec => []RemovalHitsRow
  <1>1. IInv => RemovalHitsRow
    BY DEF IInv, RowsOK, Hit, RemovalHitsRow, RowOf
  <1> QED BY <1>1, Invariance, PTL
=============================================================================
