--------------------------- MODULE MCAnalysisJobs ---------------------------
(***************************************************************************)
(* Instances of AnalysisJobs for TLC: a PGN and a FEN game, and settings   *)
(* that differ in depth only.  The number of calls the user makes is       *)
(* bounded, except under MCInUseSpec; what the workers do is not.          *)
(***************************************************************************)
EXTENDS AnalysisJobs

CONSTANTS pgn, fen,   \* the two kinds of game
          PgnMoves,   \* moves of pgn
          Book,       \* indices of the moves of pgn the book knows
          MaxCalls    \* calls the user makes

VARIABLE calls

MCLastSlot == [g \in Games |-> IF g = pgn THEN PgnMoves ELSE 0]
MCTheory == [g \in Games |-> IF g = pgn THEN Book ELSE {}]

Depth(d) == [depth |-> d, multiPv |-> 1, time |-> 0, adaptive |-> FALSE, resources |-> 1]
DepthRange(lo, hi) ==
    [minDepth |-> lo, depth |-> hi, multiPv |-> 1, time |-> 0, adaptive |-> FALSE,
     resources |-> 1]

MCConfigs == {Depth(1), Depth(2)}

\* Preparation to depth 1 and refinement to depth 2.
Refining == {DepthRange(1, 2)}
\* Preparation alone, to one depth or the other.
PreparingOnly == {DepthRange(1, 1), DepthRange(2, 2)}

MCInit == Init /\ calls = 0

MCNext ==
    \/ CallStep /\ UNCHANGED calls
    \/ (\E j \in JobIds : WorkerStep(j)) /\ UNCHANGED calls
    \/ calls < MaxCalls /\ NewCall /\ calls' = calls + 1

MCSpec == MCInit /\ [][MCNext]_<<vars, calls>>

\* Any number of calls, but no run deleted under a worker that goes on with it.
MCInUseSpec == MCInit /\ [][Next /\ KeepsRunsInUse /\ UNCHANGED calls]_<<vars, calls>>

MCFairSpec == MCSpec /\ Fairness
=============================================================================
