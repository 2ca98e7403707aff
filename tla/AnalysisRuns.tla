---------------------------- MODULE AnalysisRuns ----------------------------
(***************************************************************************)
(* The tables analysis_runs and move_analysis as the analysis service uses *)
(* them (native/src/persistence/database.cpp).  A run is keyed by its game *)
(* and its engine configuration; everything else a row holds (scores, PVs, *)
(* timestamps) is left out, because no decision of the service reads it.   *)
(*                                                                         *)
(* Each operator is one database call and yields the table after it.  The  *)
(* calls that name a missing run differ: persist_engine_result and         *)
(* persist_classifications throw, set_analysis_status changes nothing.     *)
(***************************************************************************)
EXTENDS Integers, FiniteSets

CONSTANTS Games,       \* ids of the games that can be analysed
          LastSlot,    \* LastSlot[g]: index of the last position of game g
          Configs      \* engine configurations a run can be made with

ASSUME GamesAssumption == Games # {}
ASSUME LastSlotAssumption == LastSlot \in [Games -> Nat]

\* A configuration carries what goes into config_hash: the columns that
\* compatible_analysis compares, and the resources (threads and hash size),
\* which it ignores.
ASSUME ConfigAssumption ==
    Configs \subseteq [depth : Nat, multiPv : Nat, time : Nat, adaptive : BOOLEAN,
                       resources : Nat]

Slots(g) == 0 .. LastSlot[g]
RunIds == Games \X Configs

Statuses == {"none", "running", "cancelled", "error", "complete"}

\* rows    position slots with a move_analysis row
\* plies   the completed_plies column
\* final   classifier_version and accuracy_algorithm_version are current
Run == [status : Statuses, rows : SUBSET Nat, plies : Nat, final : BOOLEAN]
NoRun == [status |-> "none", rows |-> {}, plies |-> 0, final |-> FALSE]
NewRun == [NoRun EXCEPT !.status = "running"]

Present(runs, id) == runs[id].status # "none"

-----------------------------------------------------------------------------
(* Writes. *)

SetStatus(runs, id, status) ==
    IF Present(runs, id) THEN [runs EXCEPT ![id].status = status] ELSE runs

Prepare_StartsOver(runs, id, found) ==
    IF found = "complete" THEN runs ELSE [runs EXCEPT ![id] = NewRun]

\* prepare_analysis inserts a run or puts an unfinished one back to running;
\* found is the status its SELECT saw.
Prepare(runs, id, found) ==
    CASE found = "none" -> [runs EXCEPT ![id] = NewRun]
      [] found = "complete" -> runs
      [] OTHER -> SetStatus(runs, id, "running")

PersistRow(runs, id, slot, plies) ==
    [runs EXCEPT ![id].rows = @ \cup {slot},
                 ![id].plies = plies,
                 ![id].status = "running"]

PersistClassifications(runs, id, finalize) ==
    [runs EXCEPT ![id].final = finalize]

DropGames(runs, gone) ==
    [id \in RunIds |-> IF id[1] \in gone THEN NoRun ELSE runs[id]]

PruneExcept(runs, g, keep) ==
    [id \in RunIds |-> IF id[1] = g /\ id[2] # keep THEN NoRun ELSE runs[id]]

-----------------------------------------------------------------------------
(* Which saved run serves a request, and which one is best. *)

\* The WHERE clause of compatible_analysis; time 0 means no limit.
Satisfies(saved, request) ==
    /\ saved.depth >= request.depth
    /\ saved.multiPv >= request.multiPv
    /\ saved.time = 0 \/ (request.time > 0 /\ saved.time >= request.time)
    /\ saved.adaptive => request.adaptive

LongerTime(a, b) == b # 0 /\ (a = 0 \/ a > b)

\* The ORDER BY of compatible_analysis and of the collapse at startup, up to
\* the columns that make up a configuration.
Outranks(a, b) ==
    \/ a.depth > b.depth
    \/ /\ a.depth = b.depth
       /\ \/ a.multiPv > b.multiPv
          \/ /\ a.multiPv = b.multiPv
             /\ \/ LongerTime(a.time, b.time)
                \/ a.time = b.time /\ ~a.adaptive /\ b.adaptive

Best(configs) == {c \in configs : \A d \in configs : ~Outranks(d, c)}

CompatibleConfigs(runs, g, request) ==
    {c \in Configs : runs[<<g, c>>].status = "complete" /\ Satisfies(c, request)}

\* open_and_migrate keeps one run per game: a complete one first, then the
\* best configuration.  run_maintenance then drops failed and cancelled runs
\* that are old enough; which ones are, is the environment's choice.
KeptAtStartup(runs, g) ==
    LET present == {c \in Configs : Present(runs, <<g, c>>)}
        complete == {c \in present : runs[<<g, c>>].status = "complete"}
    IN  IF complete # {} THEN Best(complete) ELSE Best(present)

Expirable(runs) == {id \in RunIds : runs[id].status \in {"cancelled", "error"}}

Reopened(runs, expired) ==
    [id \in RunIds |->
        IF id[2] \in KeptAtStartup(runs, id[1]) /\ id \notin expired
        THEN runs[id] ELSE NoRun]

-----------------------------------------------------------------------------
(* Progress. *)

\* contiguous_completed_moves: a FEN game counts its only slot; a PGN move m
\* counts once the slots before and after it, and all earlier ones, are there.
IsFen(g) == LastSlot[g] = 0

CompletedMoves_SlotsLessOne(g, done) ==
    Cardinality({s \in Slots(g) : 0 .. s \subseteq done}) - 1

CompletedMoves(g, done) ==
    IF IsFen(g)
    THEN IF 0 \in done THEN 1 ELSE 0
    ELSE Cardinality({m \in 1 .. LastSlot[g] : 0 .. m \subseteq done})
=============================================================================
