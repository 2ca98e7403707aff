---------------------------- MODULE StockfishEngine ----------------------------
(***************************************************************************)
(* The Stockfish adapter (native/src/engine/stockfish_engine.cpp): an      *)
(* instance that is started and stopped, a search that runs on threads of  *)
(* its own, and analyze() and cancel(), which meet on two flags and on the *)
(* search itself.                                                          *)
(*                                                                         *)
(* analyze() holds operation_mutex from its first to its last step and is  *)
(* the only one to start a search; cancel() needs engine_pointer_mutex     *)
(* alone and may come between any two steps.  A stop given before go() is  *)
(* lost: go() clears it.                                                   *)
(*                                                                         *)
(* A search has a depth and, where the settings say so, a time.  The       *)
(* adapter does not set limits.startTime, which Stockfish measures the     *)
(* time from and does not initialise: the limit may strike at any moment   *)
(* after depth 1, or never.                                                *)
(***************************************************************************)
EXTENDS Integers

CONSTANTS
    Positions,    \* canonical_position_cache_fen: without the move number
    LegalMoves,   \* LegalMoves[p]: number of legal moves in p
    MaxDepth,
    MaxMultiPv,
    MaxTime,      \* of a time limit; 0 is no limit
    None

(* How a search ended: at its depth (or with nothing to search), by its     *)
(* time limit, or because it was told to stop.  Of the saved results of the *)
(* main line some are of searches that converged, or were cut.              *)
Ends == {"depth", "time", "stopped", "converged", "cut"}

(* A result: the position its lines are of, the depth and time it was asked *)
(* for, and how it ended.                                                   *)
Result == [pos : Positions, depth : 1..MaxDepth, time : 0..MaxTime,
           lines : 1..MaxMultiPv, end : Ends]

ASSUME EngineAssumption ==
    /\ None \notin Positions /\ None \notin Result
    /\ LegalMoves \in [Positions -> Nat]
    /\ MaxDepth \in Nat \ {0} /\ MaxMultiPv \in Nat \ {0} /\ MaxTime \in Nat

Request == [pos : Positions, depth : 1..MaxDepth, time : 0..MaxTime, multiPv : 1..MaxMultiPv]

Smallest(a, b) == IF a < b THEN a ELSE b

(* A position without legal moves has one line, with no moves on it.        *)
LinesOf_Empty(r) == Smallest(r.multiPv, LegalMoves[r.pos])
LinesOf(r) == IF LegalMoves[r.pos] = 0 THEN 1 ELSE Smallest(r.multiPv, LegalMoves[r.pos])

ResultOf(r, end) ==
    [pos |-> r.pos, depth |-> r.depth, time |-> r.time, lines |-> LinesOf(r), end |-> end]

(* ready      there is an instance                                          *)
(* cancelled  Impl::cancelled                                               *)
(* search     none, running, stopping (told to stop), or how it ended       *)
(* live       the position live_lines are of                                *)
Engine ==
    [ready : BOOLEAN, cancelled : BOOLEAN,
     search : {"none", "running", "stopping", "depth", "time", "stopped"},
     live : Positions \cup {None}]

NoEngine == [ready |-> FALSE, cancelled |-> FALSE, search |-> "none", live |-> None]

Terminal(p) == LegalMoves[p] = 0
Ended(e) == e.search \in Ends

(* start(): a fresh instance; the live lines and the flag are the adapter's.*)
Started(e) == IF e.ready THEN e ELSE [e EXCEPT !.ready = TRUE]

(* analyze() forgets an earlier cancel().                                   *)
Entered_KeepsFlag(e) == e
Entered(e) == [e EXCEPT !.cancelled = FALSE]

(* What it throws on finding the job cancelled.                             *)
Refused(e) == [e EXCEPT !.cancelled = TRUE]

Cleared(e) == [e EXCEPT !.live = None]

(* go() starts the search and clears the stop of an earlier one.            *)
Going(e) == [e EXCEPT !.search = "running"]

Halted(e) == [e EXCEPT !.search = IF @ = "running" THEN "stopping" ELSE @]

(* The check after go().                                                    *)
Rechecked_Not(e, cancelRequested) == e
Rechecked(e, cancelRequested) ==
    IF cancelRequested THEN [Halted(e) EXCEPT !.cancelled = TRUE] ELSE e

(* The search threads: a principal variation, and the three ends.           *)
Emitted(e, p) == [e EXCEPT !.live = p]
Stopped(e) == [e EXCEPT !.search = "stopped"]
TimedOut(e) == [e EXCEPT !.search = "time"]
Completed(e, p) == [e EXCEPT !.search = "depth", !.live = p]

(* analyze() returns what it has of an interrupted search, and throws when  *)
(* that is nothing.                                                         *)
Returned(e) == [e EXCEPT !.search = "none"]

(* stop(): cancel(), then the instance goes.                                *)
Shut(e) == [e EXCEPT !.ready = FALSE, !.cancelled = TRUE, !.search = "none"]
================================================================================
