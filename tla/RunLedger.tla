------------------------------ MODULE RunLedger ------------------------------
(***************************************************************************)
(* What the saved analyses promise to whoever resumes or shows one, as the *)
(* comment at analysis_service.cpp:1655 takes it for granted: a row that   *)
(* was saved stays as long as its run does, a run begins without rows, and *)
(* it only counts as complete while it has them all.  Who writes, in what  *)
(* order, and why a run is removed, is left open.                          *)
(***************************************************************************)
CONSTANTS
    Runs,           \* the runs there can be
    Whole           \* Whole[r]: the rows of run r once it is complete

VARIABLES
    saved,          \* the runs that are saved
    rows,           \* rows[r]: the rows of run r
    complete        \* the runs that count as complete

vars == <<saved, rows, complete>>

Init ==
    /\ saved = {}
    /\ rows = [r \in Runs |-> {}]
    /\ complete = {}

Insert(r) ==
    /\ r \notin saved
    /\ saved' = saved \cup {r}
    /\ UNCHANGED <<rows, complete>>

\* A row that is written, perhaps once more, opens the run again.
Record(r) ==
    /\ r \in saved
    /\ \E row \in Whole[r] : rows' = [rows EXCEPT ![r] = @ \cup {row}]
    /\ complete' = complete \ {r}
    /\ UNCHANGED saved

Complete(r) ==
    /\ r \in saved
    /\ rows[r] = Whole[r]
    /\ complete' = complete \cup {r}
    /\ UNCHANGED <<saved, rows>>

\* A start, a cancel or an error.
Open(r) ==
    /\ r \in complete
    /\ complete' = complete \ {r}
    /\ UNCHANGED <<saved, rows>>

\* A run goes with all its rows.
Remove(gone) ==
    /\ saved' = saved \ gone
    /\ rows' = [r \in Runs |-> IF r \in gone THEN {} ELSE rows[r]]
    /\ complete' = complete \ gone

Next ==
    \/ \E gone \in SUBSET Runs : Remove(gone)
    \/ \E r \in Runs : Insert(r) \/ Record(r) \/ Complete(r) \/ Open(r)

Spec == Init /\ [][Next]_vars
==============================================================================
