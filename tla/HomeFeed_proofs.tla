--------------------------- MODULE HomeFeed_proofs ---------------------------
(***************************************************************************)
(* Proofs about HomeFeed, for any finite set of posts, any time stamps and *)
(* any number of fetches: the inductive invariant and the safety           *)
(* properties that follow from it.                                         *)
(***************************************************************************)
EXTENDS HomeFeed, FiniteSetTheorems, TLAPS

\* A fetch that has its records holds each of them once: in postGroup until the
\* block of the post runs, in the result from then on.
FetchOK(f) ==
    /\ f > fetches <=> phase[f] = "none"
    /\ snapshot[f] \subseteq stored
    /\ phase[f] \in {"details", "done"} => result[f] \cup postGroup[f] = snapshot[f]
    /\ phase[f] = "done" => postGroup[f] = {}

\* Answers come in the order of the reads and no post is removed, so a later fetch
\* reads at least the posts an earlier one read.
Ordered(f, g) ==
    f < g /\ phase[g] \in {"details", "done"} =>
        /\ phase[f] \notin {"none", "sent"}
        /\ phase[f] \in {"details", "done"} => snapshot[f] \subseteq snapshot[g]

\* The array is empty or comes from a fetch that is done.
ScreenOK ==
    /\ source = 0 => array = <<>>
    /\ source # 0 => phase[source] = "done"

IInv ==
    /\ FetchInv /\ FeedIsSortedSnapshot /\ ScreenOK
    /\ \A f \in Fetches : FetchOK(f)
    /\ \A f, g \in Fetches : Ordered(f, g)

-----------------------------------------------------------------------------
\* What SetToSeqs returns: the sequences that hold each element of a finite set once.
LEMMA Enumerations ==
    ASSUME NEW S, IsFiniteSet(S), NEW seq \in SetToSeqs(S)
    PROVE  /\ seq \in Seq(S)
           /\ Len(seq) = Cardinality(S)
           /\ ToSet(seq) = S
  <1> DEFINE n == Cardinality(S)
  <1>1. n \in Nat
    BY FS_CardinalityType
  <1>2. /\ seq \in [1..n -> S]
        /\ \A i, j \in 1..n : i # j => seq[i] # seq[j]
    BY DEF SetToSeqs
  <1>3. seq \in Injection(1..n, S)
    BY <1>2 DEF Injection, IsInjective
  <1>4. IsFiniteSet(1..n) /\ Cardinality(1..n) = n
    BY <1>1, FS_Interval
  <1>5. seq \in Surjection(1..n, S)
    BY <1>3, <1>4, FS_Injection
  <1>6. seq \in Seq(S) /\ Len(seq) = n
    BY <1>1, <1>2
  <1>7. ToSet(seq) = S
    BY <1>2, <1>5 DEF ToSet, Surjection
  <1> QED BY <1>6, <1>7

\* Every set of posts is finite, and a set that grows gets no smaller.
LEMMA PostsFinite ==
    ASSUME NEW S \in SUBSET Posts, NEW T \in SUBSET S
    PROVE  /\ IsFiniteSet(S)
           /\ Cardinality(S) \in Nat /\ Cardinality(T) \in Nat
           /\ Cardinality(T) <= Cardinality(S)
  <1>1. IsFiniteSet(S)
    BY FS_Subset, FeedAssumption
  <1>2. IsFiniteSet(T) /\ Cardinality(T) <= Cardinality(S)
    BY <1>1, FS_Subset
  <1> QED BY <1>1, <1>2, FS_CardinalityType

\* The initial states satisfy the inductive invariant.
LEMMA InitIInv == Init => IInv
  <1> SUFFICES ASSUME Init PROVE IInv
    OBVIOUS
  <1>1. TypeOK
    <2>1. /\ fetches \in 0..MaxFetches /\ source \in 0..MaxFetches
          /\ array \in Seq(Posts) /\ stored \in SUBSET Posts
      BY FeedAssumption DEF Init
    <2>2. /\ phase \in [Fetches -> Phases] /\ snapshot \in [Fetches -> SUBSET Posts]
          /\ delivered \in [Fetches -> Nat]
      BY DEF Init, Phases
    <2>3. ASSUME NEW f \in Fetches
          PROVE  dispatchGroup[f] = {} /\ postGroup[f] = {} /\ result[f] = {}
      BY DEF Init
    <2> QED BY <2>1, <2>2, <2>3 DEF Init, TypeOK
  <1>2. DeliveredOnceComplete /\ RowsInRange /\ FeedIsSortedSnapshot /\ ScreenOK
    BY DEF Init, DeliveredOnceComplete, RowsInRange, FeedIsSortedSnapshot, ScreenOK
  <1>3. ASSUME NEW f \in Fetches PROVE FetchOK(f)
    BY <1>1 DEF Init, FetchOK, TypeOK
  <1>4. ASSUME NEW f \in Fetches, NEW g \in Fetches PROVE Ordered(f, g)
    BY DEF Init, Ordered
  <1> QED BY <1>1, <1>2, <1>3, <1>4 DEF IInv, FetchInv

\* Starting a fetch takes a number no fetch has used.
LEMMA StartStep == IInv /\ (Launch \/ HandleRefresh) => IInv'
  <1> SUFFICES ASSUME IInv, Launch \/ HandleRefresh PROVE IInv'
    OBVIOUS
  <1> USE DEF IInv, FetchInv
  <1>1. /\ FetchPost
        /\ running' \in BOOLEAN
        /\ UNCHANGED <<stored, snapshot, dispatchGroup, postGroup, result, delivered,
                       array, source, reload, rows, cells, outdated>>
    BY DEF Launch, HandleRefresh, TypeOK
  <1>2. /\ fetches + 1 \in Fetches /\ fetches' = fetches + 1 /\ hud' = TRUE
        /\ phase' = [phase EXCEPT ![fetches + 1] = "sent"]
        /\ phase[fetches + 1] = "none"
    BY <1>1, FeedAssumption DEF FetchPost, TypeOK, Fetches, FetchOK
  <1>3. TypeOK'
    <2>1. fetches' \in 0..MaxFetches /\ phase' \in [Fetches -> Phases]
      BY <1>2 DEF TypeOK, Phases, Fetches
    <2> QED BY <1>1, <1>2, <2>1 DEF TypeOK
  <1>4. DeliveredOnceComplete'
    BY <1>1, <1>2 DEF TypeOK, DeliveredOnceComplete
  <1>5. RowsInRange' /\ FeedIsSortedSnapshot' /\ ScreenOK'
    BY <1>1, <1>2 DEF TypeOK, RowsInRange, FeedIsSortedSnapshot, ScreenOK, Sorted
  <1>6. ASSUME NEW f \in Fetches PROVE FetchOK(f)'
    BY <1>1, <1>2 DEF TypeOK, FetchOK, Fetches
  <1>7. ASSUME NEW f \in Fetches, NEW g \in Fetches PROVE Ordered(f, g)'
    <2>1. g > fetches => phase[g] = "none"
      BY DEF FetchOK
    <2> QED BY <1>1, <1>2, <2>1 DEF TypeOK, Ordered, Fetches
  <1> QED BY <1>3, <1>4, <1>5, <1>6, <1>7

\* An exception leaves what is stored and delivered, and an empty screen.
LEMMA EndStep ==
    ASSUME IInv, ProcessEnds,
           UNCHANGED <<stored, fetches, snapshot, dispatchGroup, postGroup, result, delivered>>
    PROVE  IInv'
  <1> USE DEF IInv, FetchInv
  <1>1. /\ phase' \in [Fetches -> Phases]
        /\ \A f \in Fetches : \/ phase'[f] = phase[f]
                              \/ phase'[f] = "dead" /\ phase[f] \notin {"none", "done"}
    BY DEF ProcessEnds, TypeOK, Phases
  <1>2. TypeOK'
    <2>1. array' \in Seq(Posts) /\ source' \in 0..MaxFetches
      BY FeedAssumption DEF ProcessEnds
    <2>2. /\ running' = FALSE /\ hud' = FALSE /\ outdated' = FALSE
          /\ reload' = 0 /\ rows' = 0 /\ cells' = {}
      BY DEF ProcessEnds
    <2> QED BY <1>1, <2>1, <2>2 DEF TypeOK
  <1>3. DeliveredOnceComplete'
    BY <1>1 DEF TypeOK, DeliveredOnceComplete
  <1>4. RowsInRange' /\ FeedIsSortedSnapshot' /\ ScreenOK'
    BY DEF ProcessEnds, RowsInRange, FeedIsSortedSnapshot, ScreenOK
  <1>5. ASSUME NEW f \in Fetches PROVE FetchOK(f)'
    BY <1>1 DEF FetchOK
  <1>6. ASSUME NEW f \in Fetches, NEW g \in Fetches PROVE Ordered(f, g)'
    BY <1>1 DEF Ordered
  <1> QED BY <1>2, <1>3, <1>4, <1>5, <1>6

\* A fetch reads what is stored after every earlier fetch and before every later one.
LEMMA SnapshotStep ==
    ASSUME IInv, NEW f \in Fetches, Snapshot(f) \/ SnapshotEmpty(f)
    PROVE  IInv'
  <1> USE DEF IInv, FetchInv, fetch, screen
  <1>1. /\ phase[f] = "sent" /\ \A g \in 1..(f - 1) : phase[g] # "sent"
        /\ UNCHANGED <<running, stored, fetches, result, delivered, screen>>
        /\ \/ /\ phase' = [phase EXCEPT ![f] = "silent"]
              /\ UNCHANGED <<snapshot, dispatchGroup, postGroup>>
           \/ /\ phase' = [phase EXCEPT ![f] = "details"]
              /\ snapshot' = [snapshot EXCEPT ![f] = stored]
              /\ dispatchGroup' = [dispatchGroup EXCEPT ![f] = stored \X Details]
              /\ postGroup' = [postGroup EXCEPT ![f] = stored]
    BY DEF Snapshot, SnapshotEmpty, Answerable
  <1>2. result[f] \subseteq stored
    BY DEF TypeOK, FetchOK
  <1>3. TypeOK'
    <2>1. phase' \in [Fetches -> Phases] /\ snapshot' \in [Fetches -> SUBSET Posts]
      BY <1>1 DEF TypeOK, Phases
    <2>2. /\ DOMAIN dispatchGroup' = Fetches /\ DOMAIN postGroup' = Fetches
          /\ DOMAIN result' = Fetches
      BY <1>1 DEF TypeOK
    <2>3. ASSUME NEW g \in Fetches
          PROVE  /\ dispatchGroup'[g] \subseteq snapshot'[g] \X Details
                 /\ postGroup'[g] \subseteq snapshot'[g]
                 /\ result'[g] \subseteq snapshot'[g]
      BY <1>1, <1>2 DEF TypeOK
    <2> QED BY <1>1, <2>1, <2>2, <2>3 DEF TypeOK
  <1>4. DeliveredOnceComplete'
    BY <1>1 DEF TypeOK, DeliveredOnceComplete
  <1>5. RowsInRange' /\ FeedIsSortedSnapshot' /\ ScreenOK'
    <2>1. ASSUME source # 0
          PROVE  /\ source \in Fetches /\ source # f
                 /\ phase'[source] = "done" /\ snapshot'[source] = snapshot[source]
      <3>1. source \in Fetches /\ phase[source] = "done"
        BY <2>1, FeedAssumption DEF TypeOK, ScreenOK, Fetches
      <3>2. source # f
        BY <1>1, <3>1
      <3>3. phase'[source] = phase[source] /\ snapshot'[source] = snapshot[source]
        BY <1>1, <3>1, <3>2 DEF TypeOK
      <3> QED BY <3>1, <3>2, <3>3
    <2>2. RowsInRange'
      BY <1>1 DEF RowsInRange
    <2> QED BY <1>1, <2>1, <2>2 DEF FeedIsSortedSnapshot, ScreenOK, Sorted
  <1>6. ASSUME NEW g \in Fetches PROVE FetchOK(g)'
    BY <1>1, <1>2 DEF TypeOK, FetchOK
  <1>7. ASSUME NEW g \in Fetches, NEW h \in Fetches PROVE Ordered(g, h)'
    <2>1. CASE h = f
      <3>1. g < f => g \in 1..(f - 1) /\ phase[g] # "none"
        BY <1>1 DEF FetchOK, TypeOK, Fetches
      <3> QED BY <1>1, <2>1, <3>1 DEF TypeOK, Ordered, FetchOK
    <2>2. CASE h # f
      BY <1>1, <2>2 DEF TypeOK, Ordered
    <2> QED BY <2>1, <2>2
  <1> QED BY <1>3, <1>4, <1>5, <1>6, <1>7

\* The requests of a fetch and the blocks of its posts change neither the records it
\* read nor the screen.
LEMMA DetailStep ==
    ASSUME IInv, NEW f \in Fetches, NEW p \in Posts,
           AppendPost(f, p) \/ \E d \in Details : DetailAnswered(f, p, d)
    PROVE  IInv'
  <1> USE DEF IInv, FetchInv, fetch, screen
  <1>1. /\ phase[f] = "details"
        /\ UNCHANGED <<running, stored, fetches, phase, snapshot, delivered, screen>>
        /\ \/ /\ \E d \in Details :
                    dispatchGroup' = [dispatchGroup EXCEPT ![f] = @ \ {<<p, d>>}]
              /\ UNCHANGED <<postGroup, result>>
           \/ /\ p \in postGroup[f]
              /\ result' = [result EXCEPT ![f] = @ \cup {p}]
              /\ postGroup' = [postGroup EXCEPT ![f] = @ \ {p}]
              /\ UNCHANGED dispatchGroup
    BY DEF AppendPost, DetailAnswered
  <1>2. ASSUME NEW g \in Fetches
        PROVE  /\ postGroup'[g] \subseteq postGroup[g]
               /\ result'[g] \cup postGroup'[g] = result[g] \cup postGroup[g]
    <2>1. CASE UNCHANGED <<postGroup, result>>
      BY <2>1
    <2>2. CASE /\ p \in postGroup[f]
               /\ result' = [result EXCEPT ![f] = @ \cup {p}]
               /\ postGroup' = [postGroup EXCEPT ![f] = @ \ {p}]
      <3>1. CASE g = f
        <4>1. result'[g] = result[g] \cup {p} /\ postGroup'[g] = postGroup[g] \ {p}
          BY <2>2, <3>1 DEF TypeOK
        <4> QED BY <2>2, <3>1, <4>1
      <3>2. CASE g # f
        BY <2>2, <3>2 DEF TypeOK
      <3> QED BY <3>1, <3>2
    <2> QED BY <1>1, <2>1, <2>2
  <1>3. TypeOK'
    <2>1. /\ DOMAIN dispatchGroup' = Fetches /\ DOMAIN postGroup' = Fetches
          /\ DOMAIN result' = Fetches
      BY <1>1 DEF TypeOK
    <2>2. ASSUME NEW g \in Fetches
          PROVE  /\ dispatchGroup'[g] \subseteq snapshot'[g] \X Details
                 /\ postGroup'[g] \subseteq snapshot'[g]
                 /\ result'[g] \subseteq snapshot'[g]
      <3>1. dispatchGroup'[g] \subseteq dispatchGroup[g] /\ snapshot'[g] = snapshot[g]
        BY <1>1 DEF TypeOK
      <3>2. postGroup'[g] \subseteq postGroup[g] /\ result'[g] \subseteq result[g] \cup postGroup[g]
        BY <1>2
      <3> QED BY <3>1, <3>2 DEF TypeOK
    <2> QED BY <1>1, <2>1, <2>2 DEF TypeOK
  <1>4. DeliveredOnceComplete'
    BY <1>1 DEF TypeOK, DeliveredOnceComplete
  <1>5. RowsInRange' /\ FeedIsSortedSnapshot' /\ ScreenOK'
    BY <1>1 DEF RowsInRange, FeedIsSortedSnapshot, ScreenOK, Sorted
  <1>6. ASSUME NEW g \in Fetches PROVE FetchOK(g)'
    BY <1>1, <1>2 DEF TypeOK, FetchOK
  <1>7. ASSUME NEW g \in Fetches, NEW h \in Fetches PROVE Ordered(g, h)'
    BY <1>1 DEF Ordered
  <1> QED BY <1>3, <1>4, <1>5, <1>6, <1>7

\* A fetch replaces the array by all it read. Rows of an older array stay in range,
\* since the older fetch read no more posts.
LEMMA DeliverStep ==
    ASSUME IInv, NEW f \in Fetches, Deliver(f)
    PROVE  IInv'
  <1> USE DEF IInv, FetchInv
  <1>1. PICK seq \in SetToSeqs(result[f]) : Sorted(seq) /\ array' = seq
    BY DEF Deliver
  <1>2. /\ phase[f] = "details" /\ dispatchGroup[f] = {} /\ postGroup[f] = {}
        /\ phase' = [phase EXCEPT ![f] = "done"]
        /\ delivered' = [delivered EXCEPT ![f] = @ + 1]
        /\ source' = f /\ outdated' = (outdated \/ f < source) /\ reload' = reload + 1
        /\ UNCHANGED <<running, stored, fetches, snapshot, dispatchGroup, postGroup, result,
                       rows, cells, hud>>
    BY DEF Deliver
  <1>3. result[f] = snapshot[f] /\ snapshot[f] \in SUBSET Posts
    BY <1>2 DEF FetchOK, TypeOK
  <1>4. /\ array' \in Seq(snapshot[f])
        /\ Len(array') = Cardinality(snapshot[f])
        /\ ToSet(array') = snapshot[f]
    BY <1>1, <1>3, PostsFinite, Enumerations
  <1>5. TypeOK'
    <2>1. array' \in Seq(Posts)
      BY <1>3, <1>4
    <2>2. phase' \in [Fetches -> Phases] /\ delivered' \in [Fetches -> Nat]
      BY <1>2 DEF TypeOK, Phases
    <2>3. source' \in 0..MaxFetches /\ outdated' \in BOOLEAN /\ reload' \in Nat
      BY <1>2, FeedAssumption DEF TypeOK, Fetches
    <2> QED BY <1>2, <2>1, <2>2, <2>3 DEF TypeOK
  <1>6. DeliveredOnceComplete'
    BY <1>2, <1>3 DEF TypeOK, DeliveredOnceComplete
  <1>7. FeedIsSortedSnapshot' /\ ScreenOK'
    BY <1>1, <1>2, <1>4, FeedAssumption
    DEF TypeOK, FeedIsSortedSnapshot, ScreenOK, Sorted, Fetches
  <1>8. RowsInRange'
    <2> SUFFICES ASSUME ~outdated, ~(f < source)
                 PROVE  rows <= Len(array') /\ \A row \in cells : row \in DOMAIN array'
      BY <1>2 DEF RowsInRange
    <2>1. Len(array) <= Len(array')
      <3>1. Len(array') \in Nat
        BY <1>4
      <3>2. CASE source = 0
        BY <3>1, <3>2 DEF ScreenOK
      <3>3. CASE source # 0
        <4>1. source \in Fetches /\ phase[source] = "done" /\ source < f
          BY <1>2, <3>3, FeedAssumption DEF TypeOK, Fetches, ScreenOK
        <4>2. snapshot[source] \in SUBSET snapshot[f]
          BY <1>2, <4>1 DEF Ordered
        <4> QED BY <1>3, <1>4, <3>3, <4>2, PostsFinite DEF FeedIsSortedSnapshot
      <3> QED BY <3>2, <3>3
    <2>2. array \in Seq(Posts) /\ array' \in Seq(Posts) /\ rows \in Nat
      BY <1>3, <1>4 DEF TypeOK
    <2>3. rows <= Len(array) /\ \A row \in cells : row \in 1..Len(array)
      BY <2>2 DEF RowsInRange
    <2> QED BY <2>1, <2>2, <2>3
  <1>9. ASSUME NEW g \in Fetches PROVE FetchOK(g)'
    BY <1>2 DEF TypeOK, FetchOK
  <1>10. ASSUME NEW g \in Fetches, NEW h \in Fetches PROVE Ordered(g, h)'
    BY <1>2 DEF TypeOK, Ordered
  <1> QED BY <1>5, <1>6, <1>7, <1>8, <1>9, <1>10

\* The table asks only for rows of the array it was loaded from.
LEMMA TableStep ==
    ASSUME IInv,
           ReloadData \/ \E row \in 1..Cardinality(Posts) : WillDisplay(row) \/ FillCell(row)
    PROVE  IInv'
  <1> USE DEF IInv, FetchInv, fetch
  <1>1. CASE ReloadData
    <2>1. TypeOK'
      <3>1. reload' \in Nat /\ rows' \in Nat /\ hud' = FALSE
        BY <1>1 DEF ReloadData, TypeOK
      <3> QED BY <1>1, <3>1 DEF ReloadData, TypeOK
    <2>2. RowsInRange'
      BY <1>1 DEF ReloadData, RowsInRange, TypeOK
    <2> QED BY <1>1, <2>1, <2>2 DEF ReloadData, DeliveredOnceComplete, FeedIsSortedSnapshot,
                                    Sorted, ScreenOK, FetchOK, Ordered
  <1>2. ASSUME NEW row \in 1..Cardinality(Posts), WillDisplay(row) PROVE IInv'
    <2>1. TypeOK'
      BY <1>2 DEF WillDisplay, TypeOK
    <2>2. RowsInRange'
      BY <1>2 DEF WillDisplay, RowsInRange, TypeOK
    <2> QED BY <1>2, <2>1, <2>2 DEF WillDisplay, DeliveredOnceComplete, FeedIsSortedSnapshot,
                                    Sorted, ScreenOK, FetchOK, Ordered
  <1>3. ASSUME NEW row \in 1..Cardinality(Posts), FillCell(row) PROVE IInv'
    <2>1. CASE row \in DOMAIN array
      <3>1. TypeOK'
        BY <1>3, <2>1 DEF FillCell, TypeOK
      <3>2. RowsInRange'
        BY <1>3, <2>1 DEF FillCell, RowsInRange
      <3> QED BY <1>3, <2>1, <3>1, <3>2
              DEF FillCell, DeliveredOnceComplete, FeedIsSortedSnapshot, Sorted, ScreenOK,
                  FetchOK, Ordered
    <2>2. CASE row \notin DOMAIN array
      BY <1>3, <2>2, EndStep DEF FillCell
    <2> QED BY <2>1, <2>2
  <1> QED BY <1>1, <1>2, <1>3

\* A new post is in no snapshot yet.
LEMMA PostStep ==
    ASSUME IInv, NEW p \in Posts, SomeonePosts(p)
    PROVE  IInv'
  <1> USE DEF IInv, FetchInv, fetch, screen, SomeonePosts
  <1>1. TypeOK'
    BY DEF TypeOK
  <1>2. DeliveredOnceComplete' /\ RowsInRange' /\ FeedIsSortedSnapshot' /\ ScreenOK'
    BY DEF DeliveredOnceComplete, RowsInRange, FeedIsSortedSnapshot, Sorted, ScreenOK
  <1>3. ASSUME NEW f \in Fetches PROVE FetchOK(f)'
    BY DEF FetchOK
  <1>4. ASSUME NEW f \in Fetches, NEW g \in Fetches PROVE Ordered(f, g)'
    BY DEF Ordered
  <1> QED BY <1>1, <1>2, <1>3, <1>4

-----------------------------------------------------------------------------
\* Every step keeps the inductive invariant.
LEMMA NextIInv == IInv /\ [Next]_vars => IInv'
  <1> SUFFICES ASSUME IInv, [Next]_vars PROVE IInv'
    OBVIOUS
  <1>1. ASSUME NEW f \in Fetches, Callback(f) PROVE IInv'
    <2>1. CASE SnapshotRaises(f)
      BY <2>1, EndStep DEF SnapshotRaises
    <2> QED BY <1>1, <2>1, SnapshotStep, DetailStep, DeliverStep DEF Callback
  <1>2. CASE UNCHANGED vars
    BY <1>2 DEF vars, fetch, screen, IInv, FetchInv, TypeOK, DeliveredOnceComplete, RowsInRange,
                FeedIsSortedSnapshot, Sorted, ScreenOK, FetchOK, Ordered
  <1> QED BY <1>1, <1>2, StartStep, TableStep, PostStep DEF Next

\* The inductive invariant holds throughout.
THEOREM Invariance == Spec => []IInv
  BY InitIInv, NextIInv, PTL DEF Spec

\* Every variable keeps its type, a fetch delivers once and all it read, and a row block
\* finds its post unless an older fetch replaced the array (HomeViewController.swift:71).
THEOREM FetchCorrect == Spec => []FetchInv
  <1>1. IInv => FetchInv
    BY DEF IInv
  <1> QED BY <1>1, Invariance, PTL

\* The array on the screen is the snapshot of one fetch, newest post first.
THEOREM FeedCorrect == Spec => []FeedIsSortedSnapshot
  <1>1. IInv => FeedIsSortedSnapshot
    BY DEF IInv
  <1> QED BY <1>1, Invariance, PTL
=============================================================================
