----------------------------- MODULE WriteTree -----------------------------
(***************************************************************************)
(* What the screens see of the database while writes are on their way: the *)
(* pending writes of the client (FWriteTree.m, FCompoundWrite.m) and a     *)
(* view that listens to the root (FSyncTree.m, FViewProcessor.m).  A write *)
(* is shown at once; the view keeps the data of the server and, apart from *)
(* it, what it shows, and brings the second up to date piecewise with      *)
(* every write, every change of the server's data and every answer.        *)
(*                                                                         *)
(* A path of the database is the set of the leaves below it, so that one   *)
(* path contains another when it is a superset.  A value is the id of the  *)
(* write it comes from, 0 at first, and negative for a write of somebody   *)
(* else.  Left out: deleted data, priorities, queries that filter, writes  *)
(* of transactions (the app has none), and the time before the first data. *)
(* The server is the environment: it judges the writes in the order in     *)
(* which they were issued and sends the data of a write before its answer. *)
(* Writes are answered in that order too (Connection.tla), so the answer   *)
(* is about the oldest pending write, and the scan of FWriteTree.m:136 for *)
(* one that is not is left out.  The exception is the write that           *)
(* Connection shows stranded in putsToAck: it is never answered and the    *)
(* later ones are; it is not among the behaviours of this module.  What    *)
(* both modules have is named with WT here.                                *)
(***************************************************************************)
EXTENDS Integers, Sequences, FiniteSets, FiniteSetsExt, SequencesExt

CONSTANTS
    Paths,              \* sets of leaves; of two, one contains the other or
                        \* they have no leaf in common
    Shapes,             \* the writes the app issues: where, and what of it
    MaxWrites,          \* bound: writes issued
    MaxOthers,          \* bound: writes of somebody else
    MaxLosses           \* bound: connections lost

Root     == UNION Paths
Children == {p \in Paths \ {Root} : \A q \in Paths \ {Root} : p \subseteq q => p = q}

\* An overwrite replaces all of its path, a merge the paths "at" below it.
ASSUME WriteTreeAssumption ==
    /\ Root \in Paths /\ UNION Children = Root /\ {} \notin Paths
    /\ \A p, q \in Paths : p \subseteq q \/ q \subseteq p \/ p \cap q = {}
    /\ Shapes \subseteq [path : Paths, at : SUBSET Paths]
    /\ \A s \in Shapes : s.at = {s.path} \/ \A p \in s.at : p \subseteq s.path /\ p # s.path
    /\ \A s \in Shapes : \A p, q \in s.at : p # q => p \cap q = {}
    /\ \A s \in Shapes : IsFiniteSet(s.at)
    /\ MaxWrites \in Nat /\ MaxOthers \in Nat /\ MaxLosses \in Nat

VARIABLES
    allWrites,          \* the pending writes, oldest first
    visibleWrites,      \* the same layered: values of paths, none in another
    lastWriteId,
    writeIdCounter,     \* the id of the next write
    serverCache,        \* the data of the server, as far as the view knows
    eventCache,         \* what the view shows
    data,               \* the data of the server
    judged,             \* the last write this connection's server judged
    toClient,           \* from the server, not yet received
    others, losses      \* what the bounds bound

tree   == <<allWrites, visibleWrites, lastWriteId, writeIdCounter>>
view   == <<serverCache, eventCache>>
remote == <<data, judged, toClient>>
wtVars == <<tree, view, remote, others, losses>>

Node(p, value)    == [l \in p |-> value]
GetChild(node, p) == [l \in p |-> node[l]]

\* A node on top of one that has all of its leaves.
Upon(node, below) ==
    [l \in DOMAIN below |-> IF l \in DOMAIN node THEN node[l] ELSE below[l]]

WTInit ==
    /\ allWrites = <<>> /\ visibleWrites = <<>>
    /\ lastWriteId = -1 /\ writeIdCounter = 1
    /\ serverCache = Node(Root, 0) /\ eventCache = Node(Root, 0)
    /\ data = Node(Root, 0) /\ judged = 0 /\ toClient = <<>>
    /\ others = 0 /\ losses = 0
-----------------------------------------------------------------------------
(* Compound writes: functions from paths to nodes.                         *)

Without(writes, paths) == [q \in DOMAIN writes \ paths |-> writes[q]]

\* A write below another one changes its node, else it takes the place of
\* those below it.
AddWrite(writes, p, node) ==
    LET rootMost == {q \in DOMAIN writes : p \subseteq q}
    IN  IF rootMost # {}
          THEN [q \in DOMAIN writes |->
                  IF q \in rootMost THEN Upon(node, writes[q]) ELSE writes[q]]
          ELSE [q \in {p} \cup (DOMAIN writes \ SUBSET p) |->
                  IF q = p THEN node ELSE writes[q]]

AddRecord(writes, r) ==
    FoldSet(LAMBDA p, acc : AddWrite(acc, p, Node(p, r.id)), writes, r.at)

\* Writes above the path stay as they are.
RemoveWriteAtPath(writes, p) == Without(writes, SUBSET p)

\* The write a path is in, if there is one.
Shadowing(writes, p) == \E q \in DOMAIN writes : p \subseteq q

\* The node with the writes on top.
ApplyTo(writes, node) ==
    [l \in DOMAIN node |->
        IF Shadowing(writes, {l})
          THEN writes[CHOOSE q \in DOMAIN writes : l \in q][l] ELSE node[l]]

\* layerTreeFromWrites
Layered(records) == FoldLeft(AddRecord, <<>>, records)
-----------------------------------------------------------------------------
(* The view: how what it shows follows from the data and the writes.       *)

\* Mutant: the data of the server is shown without the writes on top.
ShownAfter_DataOnly(writes, cache, zones) ==
    [l \in Root |-> IF \E z \in zones : l \in z /\ ~Shadowing(writes, z)
                      THEN cache[l] ELSE eventCache[l]]

\* What is shown once the "zones" are brought up to date.  A zone that is
\* shadowed by one write is left alone.
ShownAfter(writes, cache, zones) ==
    [l \in Root |-> IF \E z \in zones : l \in z /\ ~Shadowing(writes, z)
                      THEN ApplyTo(writes, cache)[l] ELSE eventCache[l]]

\* The children of the root that a merge touches.
Touched(leaves) == {c \in Children : c \cap leaves # {}}

\* applyServerOverwriteTo and applyServerMergeTo
ApplyServerOperation(writes, shape, node) ==
    LET zones == IF shape.at = {shape.path} THEN shape.at ELSE Touched(DOMAIN node)
    IN  /\ serverCache' = Upon(node, serverCache)
        /\ eventCache' = ShownAfter(writes, serverCache', zones)

\* ackUserWriteOn: the data the view has is applied again.
AckUserWrite(writes, r) ==
    IF Shadowing(writes, r.path)
      THEN UNCHANGED view
      ELSE ApplyServerOperation(writes, r, GetChild(serverCache, UNION r.at))

\* Mutant: what was refused stays on the screen.
RevertUserWrite_Keeps(writes, r) == UNCHANGED view

\* revertUserWriteOn: the child that holds the write is computed anew.
RevertUserWrite(writes, r) ==
    LET zones == IF r.path = Root THEN {Root} ELSE Touched(r.path)
    IN  /\ eventCache' = IF Shadowing(writes, r.path) THEN eventCache
                         ELSE [l \in Root |-> IF l \in UNION zones
                                 THEN ApplyTo(writes, serverCache)[l] ELSE eventCache[l]]
        /\ UNCHANGED serverCache
-----------------------------------------------------------------------------
\* FRepo set and update: the write is pending, and shown at once.
Write(shape) ==
    /\ writeIdCounter <= MaxWrites
    /\ writeIdCounter' = writeIdCounter + 1
    /\ lastWriteId' = writeIdCounter
    /\ LET r == [id |-> writeIdCounter, path |-> shape.path, at |-> shape.at]
       IN  /\ allWrites' = Append(allWrites, r)
           /\ visibleWrites' = AddRecord(visibleWrites, r)
           /\ eventCache' = Upon(Node(UNION r.at, r.id), eventCache)
    /\ UNCHANGED <<serverCache, remote, others, losses>>

\* A later write covers all of the path.
Shadowed(r, rest) == \E i \in DOMAIN rest : \E q \in rest[i].at : r.path \subseteq q

\* Mutant: a write to the very same path is not taken for an overlap.
Overlaps_Below(r, rest) ==
    \E i \in DOMAIN rest : rest[i].path \subseteq r.path /\ rest[i].path # r.path

\* Another write is at the path or below it.
Overlaps(r, rest) == \E i \in DOMAIN rest : rest[i].path \subseteq r.path

\* The entries of a record are taken away, whatever else went into them.
Removed(r) == FoldSet(LAMBDA p, acc : RemoveWriteAtPath(acc, p), visibleWrites, r.at)

\* removeWriteId and ackUserWriteWithWriteId: the oldest write is answered.
\* A write under a later one leaves without a trace, one that overlaps with
\* others has the rest layered anew, and any other takes its entries along.
Answered(r, ok) ==
    LET rest == Tail(allWrites)
    IN  /\ allWrites' = rest
        /\ IF Shadowed(r, rest)
             THEN UNCHANGED <<visibleWrites, lastWriteId, view>>
             ELSE /\ IF Overlaps(r, rest)
                       THEN /\ visibleWrites' = Layered(rest)
                            /\ lastWriteId' = Last(rest).id
                       ELSE visibleWrites' = Removed(r) /\ UNCHANGED lastWriteId
                  /\ IF ok THEN AckUserWrite(visibleWrites', r)
                           ELSE RevertUserWrite(visibleWrites', r)
        /\ UNCHANGED writeIdCounter
-----------------------------------------------------------------------------
(* The server, and what comes from it.                                     *)

\* The data of a write, or of the listen that starts with a connection.
Data(shape, node) == [type |-> "data", shape |-> [path |-> shape.path, at |-> shape.at],
                      node |-> node]
Judgement(r, ok) == [type |-> "answer", write |-> r, ok |-> ok]
Overwrite(p) == [path |-> p, at |-> {p}]

\* The oldest write that the connection has not brought to judgement.
NextWrite == SelectInSeq(allWrites, LAMBDA r : r.id > judged)

ServerApplies ==
    /\ NextWrite # 0
    /\ LET r == allWrites[NextWrite]
           node == Node(UNION r.at, r.id)
       IN  /\ data' = Upon(node, data)
           /\ judged' = r.id
           /\ toClient' = toClient \o <<Data(r, node), Judgement(r, TRUE)>>
    /\ UNCHANGED <<tree, view, others, losses>>

ServerRejects ==
    /\ NextWrite # 0
    /\ judged' = allWrites[NextWrite].id
    /\ toClient' = Append(toClient, Judgement(allWrites[NextWrite], FALSE))
    /\ UNCHANGED <<tree, view, data, others, losses>>

OthersWrite(p) ==
    /\ others < MaxOthers /\ others' = others + 1
    /\ data' = Upon(Node(p, -others'), data)
    /\ toClient' = Append(toClient, Data(Overwrite(p), Node(p, -others')))
    /\ UNCHANGED <<tree, view, judged, losses>>

\* The next connection listens first, and then sends what has no answer.
ConnectionReplaced ==
    /\ losses < MaxLosses /\ losses' = losses + 1
    /\ toClient' = <<Data(Overwrite(Root), data)>>
    /\ judged' = 0
    /\ UNCHANGED <<tree, view, data, others>>

ReceiveData ==
    /\ toClient # <<>> /\ Head(toClient).type = "data"
    /\ toClient' = Tail(toClient)
    /\ ApplyServerOperation(visibleWrites, Head(toClient).shape, Head(toClient).node)
    /\ UNCHANGED <<tree, data, judged, others, losses>>

ReceiveAnswer ==
    /\ toClient # <<>> /\ Head(toClient).type = "answer"
    /\ toClient' = Tail(toClient)
    /\ Answered(Head(toClient).write, Head(toClient).ok)
    /\ UNCHANGED <<data, judged, others, losses>>

WTNext ==
    \/ \E shape \in Shapes : Write(shape)
    \/ ServerApplies \/ ServerRejects \/ ConnectionReplaced
    \/ \E p \in Paths : OthersWrite(p)
    \/ ReceiveData \/ ReceiveAnswer

\* The server judges what it gets and the client receives what comes.
WTFairness == WF_wtVars(ServerApplies \/ ServerRejects) /\ WF_wtVars(ReceiveData \/ ReceiveAnswer)

WTSpec == WTInit /\ [][WTNext]_wtVars /\ WTFairness
-----------------------------------------------------------------------------
WTTypeOK ==
    /\ allWrites \in Seq([id : 1 .. MaxWrites, path : Paths, at : SUBSET Paths])
    /\ DOMAIN visibleWrites \subseteq Paths
    /\ \A p \in DOMAIN visibleWrites : visibleWrites[p] \in [p -> 1 .. MaxWrites]
    /\ \A p, q \in DOMAIN visibleWrites : p # q => p \cap q = {}
    /\ lastWriteId < writeIdCounter /\ writeIdCounter \in 1 .. MaxWrites + 1
    /\ {serverCache, eventCache, data} \subseteq [Root -> -MaxOthers .. MaxWrites]
    /\ judged \in 0 .. MaxWrites /\ others \in 0 .. MaxOthers /\ losses \in 0 .. MaxLosses
    /\ \A i \in DOMAIN toClient : toClient[i].type \in {"data", "answer"}

\* The records on top of a node, one after the other.
Shown(records, node) ==
    FoldLeft(LAMBDA acc, r : Upon(Node(UNION r.at, r.id), acc), node, records)

(* The view shows the data of the server, as far as it is known, with the  *)
(* pending writes on top in the order in which they were issued: what      *)
(* removeWriteId takes out of visibleWrites and what ackUserWriteOn and    *)
(* revertUserWriteOn bring up to date is neither too little nor too much.  *)
ShownIsLayered ==
    /\ WTTypeOK
    /\ eventCache = Shown(allWrites, serverCache)

(* A write that succeeds changes nothing on the screen when it is answered *)
(* (ackUserWriteOn): its data is there before the answer, and what was     *)
(* written over it since stays.                                            *)
AcksAreSilent ==
    [][ReceiveAnswer /\ Head(toClient).ok => UNCHANGED eventCache]_wtVars

(* In the end the view shows the data of the server, whatever was refused, *)
(* lost, sent again or written by others meanwhile.                        *)
Converges == <>[](eventCache = data)
=============================================================================
