------------------------------- MODULE Writes -------------------------------
(***************************************************************************)
(* What the database client promises about writes, whatever connections,   *)
(* tokens and retransmissions do: writes come before the server for the    *)
(* first time in the order in which they were issued (some may never), a   *)
(* write is reported at most once, and a write reported as stored is       *)
(* stored.  Nothing is promised about a write reported as failed: one      *)
(* whose answer was lost is sent, and judged, again.                       *)
(***************************************************************************)
EXTENDS Naturals

CONSTANTS
    MaxPuts,            \* bound on the writes issued
    NoStatus,           \* the status of a write that was not reported
    Statuses            \* what a write may be reported as; "ok" is a success

VARIABLES
    issued,             \* number of writes issued; they are 0 .. issued - 1
    taken,              \* writes the server has judged
    stored,             \* writes that took effect
    status              \* what was reported of each write

writesVars == <<issued, taken, stored, status>>

Puts == 0 .. MaxPuts - 1

WritesInit ==
    /\ issued = 0
    /\ taken = {} /\ stored = {}
    /\ status = [p \in Puts |-> NoStatus]

IssueWrite ==
    /\ issued < MaxPuts
    /\ issued' = issued + 1
    /\ UNCHANGED <<taken, stored, status>>

\* The server judges a write, for the first time only after the earlier
\* ones it ever judges.
TakeWrite ==
    /\ \E p \in 0 .. issued - 1 :
          /\ p \in taken \/ \A q \in taken : q < p
          /\ taken' = taken \cup {p}
          /\ stored' \in {stored, stored \cup {p}}
    /\ UNCHANGED <<issued, status>>

\* Some writes are reported; reports are final, and a success is true.
ReportWrites ==
    /\ \E S \in SUBSET {p \in 0 .. issued - 1 : status[p] = NoStatus} :
         \E r \in [S -> Statuses] :
            /\ \A p \in S : r[p] = "ok" => p \in stored
            /\ status' = [p \in Puts |-> IF p \in S THEN r[p] ELSE status[p]]
    /\ UNCHANGED <<issued, taken, stored>>

WritesNext == IssueWrite \/ TakeWrite \/ ReportWrites

WritesSpec == WritesInit /\ [][WritesNext]_writesVars
=============================================================================
