----------------------------- MODULE VariationJobs -----------------------------
(***************************************************************************)
(* The sideline ("variation") jobs of AnalysisService                      *)
(* (native/src/services/analysis_service.cpp): a worker that searches the  *)
(* position after a move the user tries and then, when nothing remembers   *)
(* it, the one before, to classify the move; the one Stockfish adapter all *)
(* sidelines share; the results they remember; and the calls that start,   *)
(* poll and cancel them or leave them for the main line.                   *)
(*                                                                         *)
(* One thread makes the calls.  Every start clears variation_jobs_, so     *)
(* that the map holds one job at most.  What starting does to the jobs of  *)
(* the main line is in AnalysisJobs; here they are running or not.         *)
(***************************************************************************)
EXTENDS StockfishEngine

CONSTANTS
    Moves,      \* Moves[p]: the positions legal moves of p lead to
    Settings,   \* [depth, multiPv, time, adaptive]
    MaxCalls    \* bound: calls of the user

ASSUME VariationAssumption ==
    /\ DOMAIN Moves = Positions
    /\ \A p \in Positions : Moves[p] \subseteq Positions /\ (Moves[p] # {} => ~Terminal(p))
    /\ Settings # {}
    /\ Settings \subseteq [depth : 1..MaxDepth, multiPv : 1..MaxMultiPv,
                           time : 0..MaxTime, adaptive : BOOLEAN]
    /\ MaxCalls \in Nat

VARIABLES
    job,       \* the job of variation_jobs_, or the last one that was in it
    mapped,    \* whether it still is in it
    engine,    \* the shared adapter
    held,      \* variation_engine_ is not null
    cache,     \* variation_position_results_: the result of each key
    mainLine,  \* a main-line job runs
    call,      \* the call under way
    calls      \* number of calls so far

vars == <<job, mapped, engine, held, cache, mainLine, call, calls>>

(* variation_position_cache_key, of a request or of a result: the number of *)
(* lines is not in it.                                                      *)
Keys == Positions \X (1..MaxDepth) \X (0..MaxTime)
KeyOf_NoTime(r) == <<r.pos, r.depth, 0>>
KeyOf(r) == <<r.pos, r.depth, r.time>>

WorkerPoints == {"begin", "enter", "check", "position", "go", "recheck", "wait",
                 "took", "keepAfter", "lookup", "saved", "hide", "keepBefore",
                 "classify", "throw", "finish"}

(* phase   which of the two searches it is at                               *)
(* before  the result of the position before the move, the worker's own     *)
(* fields  result, status, finished, expose, cancel: as in VariationJob     *)
Job == [pc : WorkerPoints \cup {"ended"}, from : Positions, fen : Positions,
        settings : Settings, phase : {"after", "before"},
        result : Result \cup {None}, before : Result \cup {None},
        status : {"running", "paused", "complete", "error"},
        interrupted : BOOLEAN, cancel : BOOLEAN, finished : BOOLEAN, expose : BOOLEAN]

NewJob(from, fen, settings) ==
    [pc |-> "begin", from |-> from, fen |-> fen, settings |-> settings,
     phase |-> "after", result |-> None, before |-> None, status |-> "running",
     interrupted |-> FALSE, cancel |-> FALSE, finished |-> FALSE, expose |-> TRUE]

NoJob == [pc |-> "none"]
Working == job # NoJob /\ job.pc # "ended"

(* op    start, poll, cancel, main (starting a main-line job) or close      *)
(* seen  what the poll is going to show                                     *)
CallPoints == {"reap", "flag", "cancel", "halt", "join", "create", "drop", "poll",
               "expose", "live", "return"}
NoCall == [op |-> "none"]
Calls == [op : {"start", "poll", "cancel", "main", "close"}, pc : CallPoints,
          from : Positions \cup {None}, fen : Positions \cup {None},
          settings : Settings, seen : Positions \cup {None}]

TypeOK ==
    /\ job = NoJob \/ job \in Job
    /\ mapped \in BOOLEAN /\ (mapped => job # NoJob)
    /\ engine \in Engine
    /\ held \in BOOLEAN
    /\ cache \in [Keys -> Result \cup {None}]
    /\ mainLine \in BOOLEAN
    /\ call = NoCall \/ call \in Calls \/ call = [op |-> "closed"]
    /\ calls \in 0..MaxCalls

NoResults == [k \in Keys |-> None]

Init ==
    /\ job = NoJob
    /\ mapped = FALSE
    /\ engine = NoEngine
    /\ held = FALSE
    /\ cache = NoResults
    /\ mainLine = FALSE
    /\ call = NoCall
    /\ calls = 0

------------------------------------------------------------------------------
(* The worker.                                                              *)

At(pc) == job # NoJob /\ job.pc = pc
Do(fields) == job' = fields
Goto(pc) == job' = [job EXCEPT !.pc = pc]
Quiet == UNCHANGED <<mapped, held, mainLine, call, calls>>

(* Two alternatives are compared, if there are and may be two.              *)
BeforeMultiPv(j) ==
    LET wanted == Smallest(j.settings.multiPv, Smallest(LegalMoves[j.from], 2))
    IN  IF wanted < 1 THEN 1 ELSE wanted

Asking(pos, settings, multiPv) ==
    [pos |-> pos, depth |-> settings.depth, time |-> settings.time, multiPv |-> multiPv]
AfterRequest(j) == Asking(j.fen, j.settings, j.settings.multiPv)
BeforeRequest(j) == Asking(j.from, j.settings, BeforeMultiPv(j))
RequestOf(j) == IF j.phase = "after" THEN AfterRequest(j) ELSE BeforeRequest(j)

(* engine->start(), which may fail.                                         *)
Begin ==
    /\ At("begin")
    /\ \/ /\ ~job.cancel
          /\ engine' = Started(engine)
          /\ Goto("enter")
       \/ Goto("throw") /\ UNCHANGED engine
    /\ UNCHANGED cache /\ Quiet

Enter ==
    /\ At("enter")
    /\ engine' = Entered(engine)
    /\ Goto("check")
    /\ UNCHANGED cache /\ Quiet

(* A finished analyze(): its result goes to the job, or to the worker only. *)
Taken(r, interrupted) ==
    IF job.phase = "after"
    THEN [job EXCEPT !.pc = "took", !.result = r, !.interrupted = interrupted]
    ELSE [job EXCEPT !.pc = "took", !.before = r, !.interrupted = interrupted]

(* A position without legal moves is not searched.                          *)
Check ==
    /\ At("check")
    /\ IF job.cancel THEN engine' = Refused(engine) /\ Goto("throw")
       ELSE /\ engine' = Cleared(engine)
            /\ IF Terminal(RequestOf(job).pos)
               THEN Do(Taken(ResultOf(RequestOf(job), "depth"), FALSE))
               ELSE Goto("position")
    /\ UNCHANGED cache /\ Quiet

SetPosition ==
    /\ At("position")
    /\ IF job.cancel THEN engine' = Refused(engine) /\ Goto("throw")
       ELSE Goto("go") /\ UNCHANGED engine
    /\ UNCHANGED cache /\ Quiet

Go ==
    /\ At("go")
    /\ engine' = Going(engine)
    /\ Goto("recheck")
    /\ UNCHANGED cache /\ Quiet

Recheck ==
    /\ At("recheck")
    /\ engine' = Rechecked(engine, job.cancel)
    /\ Goto("wait")
    /\ UNCHANGED cache /\ Quiet

(* wait_for_search_finished and what analyze() makes of the live lines: only*)
(* the adapter's flag tells a search that was stopped from any other.       *)
Wait ==
    /\ At("wait")
    /\ Ended(engine)
    /\ engine' = Returned(engine)
    /\ IF engine.live = None THEN Goto("throw")
       ELSE Do(Taken([ResultOf(RequestOf(job), engine.search)
                        EXCEPT !.pos = engine.live], engine.cancelled))
    /\ UNCHANGED cache /\ Quiet

(* The worker gives up when its job was cancelled or the search was.        *)
Took ==
    /\ At("took")
    /\ IF job.cancel \/ job.interrupted
       THEN Do([job EXCEPT !.status = "paused", !.finished = TRUE, !.before = None,
                           !.pc = "ended"])
       ELSE Goto(IF job.phase = "after" THEN "keepAfter" ELSE "keepBefore")
    /\ UNCHANGED <<engine, cache>> /\ Quiet

KeepAfter ==
    /\ At("keepAfter")
    /\ cache' = [cache EXCEPT ![KeyOf(AfterRequest(job))] = job.result]
    /\ Goto("lookup")
    /\ UNCHANGED engine /\ Quiet

WideEnough(r, j) == r # None /\ (Terminal(j.from) \/ r.lines >= BeforeMultiPv(j))

Lookup ==
    /\ At("lookup")
    /\ LET found == cache[KeyOf(BeforeRequest(job))] IN
       IF WideEnough(found, job)
       THEN Do([job EXCEPT !.before = found, !.pc = "classify"])
       ELSE Goto("saved")
    /\ UNCHANGED <<engine, cache>> /\ Quiet

(* compatible_position_analysis: what the main line may have saved that     *)
(* answers the request, read up to as many lines as it is for.  The policy  *)
(* of early stops is part of the identity.  A refinement saves a stopped    *)
(* search under the depth it reached; and one whose stop came after         *)
(* analyze() had cleared the flag under the depth it was asked for.         *)
Answers(r, j) ==
    /\ r.pos = j.from
    /\ r.depth >= j.settings.depth
    /\ r.time = 0 \/ (j.settings.time > 0 /\ r.time >= j.settings.time)
    /\ r.end = "time" => r.time > 0
    /\ r.end = "converged" => j.settings.adaptive
    /\ r.end # "stopped"
    /\ r.lines <= BeforeMultiPv(j) /\ (r.end # "cut" => r.lines = BeforeMultiPv(j))

(* Nothing is found, or not looked for (use_global_analysis_cache).         *)
LookupSaved ==
    /\ At("saved")
    /\ \/ Goto("hide")
       \/ \E r \in Result :
            Answers(r, job) /\ Do([job EXCEPT !.before = r, !.pc = "classify"])
    /\ UNCHANGED <<engine, cache>> /\ Quiet

Hide ==
    /\ At("hide")
    /\ Do([job EXCEPT !.expose = FALSE, !.phase = "before", !.pc = "enter"])
    /\ UNCHANGED <<engine, cache>> /\ Quiet

KeepBefore ==
    /\ At("keepBefore")
    /\ cache' = [cache EXCEPT ![KeyOf(BeforeRequest(job))] = job.before]
    /\ Goto("classify")
    /\ UNCHANGED engine /\ Quiet

Classify ==
    /\ At("classify")
    /\ Do([job EXCEPT !.status = "complete", !.pc = "finish"])
    /\ UNCHANGED <<engine, cache>> /\ Quiet

Throw ==
    /\ At("throw")
    /\ Do([job EXCEPT !.status = IF job.cancel THEN "paused" ELSE "error", !.pc = "finish"])
    /\ UNCHANGED <<engine, cache>> /\ Quiet

Finish ==
    /\ At("finish")
    /\ Do([job EXCEPT !.finished = TRUE, !.before = None, !.pc = "ended"])
    /\ UNCHANGED <<engine, cache>> /\ Quiet

Worker ==
    \/ Begin \/ Enter \/ Check \/ SetPosition \/ Go \/ Recheck \/ Wait \/ Took
    \/ KeepAfter \/ Lookup \/ LookupSaved \/ Hide \/ KeepBefore \/ Classify
    \/ Throw \/ Finish

------------------------------------------------------------------------------
(* The search threads.                                                      *)

Thinking == engine.search \in {"running", "stopping"}
OnlyEngine == UNCHANGED <<job, cache>> /\ Quiet

Emit == Thinking /\ engine' = Emitted(engine, RequestOf(job).pos) /\ OnlyEngine
Complete == Thinking /\ engine' = Completed(engine, RequestOf(job).pos) /\ OnlyEngine
Halt == engine.search = "stopping" /\ engine' = Stopped(engine) /\ OnlyEngine

(* check_time: not before depth 1 is searched, and its lines sent.          *)
TimeOut ==
    /\ Thinking
    /\ RequestOf(job).time > 0 /\ engine.live # None
    /\ engine' = TimedOut(engine)
    /\ OnlyEngine

------------------------------------------------------------------------------
(* The calls.                                                               *)

Free == call = NoCall /\ calls < MaxCalls
Note(c) == call' = c /\ calls' = calls + 1
In(pc) == call # NoCall /\ call # [op |-> "closed"] /\ call.pc = pc
Move(pc) == call' = [call EXCEPT !.pc = pc] /\ UNCHANGED calls
Plain(op, pc) == [op |-> op, pc |-> pc, from |-> None, fen |-> None,
                  settings |-> CHOOSE s \in Settings : TRUE, seen |-> None]

(* start_variation_analysis[_with_settings]_json.                           *)
Start(from, fen, settings) ==
    /\ Free
    /\ Note([op |-> "start", pc |-> "reap", from |-> from, fen |-> fen,
             settings |-> settings, seen |-> None])
    /\ UNCHANGED <<job, mapped, engine, held, cache, mainLine>>

(* The same with a move that is not legal, which Reap refuses.  (Settings   *)
(* out of range are refused before anything is done.)                       *)
StartRefused ==
    /\ Free
    /\ Note(Plain("start", "reap"))
    /\ UNCHANGED <<job, mapped, engine, held, cache, mainLine>>

Poll ==
    /\ Free /\ mapped
    /\ Note(Plain("poll", "poll"))
    /\ UNCHANGED <<job, mapped, engine, held, cache, mainLine>>

Cancel ==
    /\ Free /\ mapped
    /\ Note(Plain("cancel", "flag"))
    /\ UNCHANGED <<job, mapped, engine, held, cache, mainLine>>

(* start_analysis_json and the refinement call: stop_all_variation_jobs     *)
(* with stop_engine; the destructor too.                                    *)
StartMainLine ==
    /\ Free
    /\ Note(Plain("main", "flag"))
    /\ UNCHANGED <<job, mapped, engine, held, cache, mainLine>>

Close ==
    /\ Free
    /\ Note(Plain("close", "flag"))
    /\ UNCHANGED <<job, mapped, engine, held, cache, mainLine>>

(* A finished job leaves the map; an illegal move is refused after that.    *)
Reap ==
    /\ In("reap")
    /\ mapped' = (mapped /\ ~job.finished)
    /\ IF call.fen = None
       THEN call' = NoCall /\ UNCHANGED <<calls, mainLine>>
       ELSE Move("flag") /\ mainLine' = FALSE
    /\ UNCHANGED <<job, engine, held, cache>>

Leaving == call.op \in {"main", "close"}

(* Only the adapter is told.                                                *)
Flag_EngineOnly ==
    /\ In("flag")
    /\ Move(IF mapped /\ (call.op = "cancel" \/ ~job.finished) THEN "cancel" ELSE "join")
    /\ IF Leaving THEN cache' = NoResults /\ held' = FALSE ELSE UNCHANGED <<cache, held>>
    /\ mapped' = (mapped /\ call.op = "cancel")
    /\ UNCHANGED <<job, engine, mainLine>>

(* The cancel call raises the flag of a finished job as well.               *)
(* stop_all_variation_jobs takes the engine away and forgets the results    *)
(* here, before it waits for the worker.                                    *)
Flag ==
    /\ In("flag")
    /\ IF mapped /\ (call.op = "cancel" \/ ~job.finished)
       THEN job' = [job EXCEPT !.cancel = TRUE] /\ Move("cancel")
       ELSE UNCHANGED job /\ Move("join")
    /\ IF Leaving THEN cache' = NoResults /\ held' = FALSE ELSE UNCHANGED <<cache, held>>
    /\ mapped' = (mapped /\ call.op = "cancel")
    /\ UNCHANGED <<engine, mainLine>>

(* StockfishEngine::cancel: the flag, then the search.                      *)
RaiseCancelled ==
    /\ In("cancel")
    /\ engine' = Refused(engine)
    /\ Move("halt")
    /\ UNCHANGED <<job, mapped, held, cache, mainLine>>

StopSearch ==
    /\ In("halt")
    /\ engine' = Halted(engine)
    /\ Move("join")
    /\ UNCHANGED <<job, mapped, held, cache, mainLine>>

Join_DoesNotWait ==
    /\ In("join")
    /\ Move(IF call.op = "start" THEN "create" ELSE "drop")
    /\ UNCHANGED <<job, mapped, engine, held, cache, mainLine>>

Join ==
    /\ In("join")
    /\ ~Working
    /\ Move(IF call.op = "start" THEN "create" ELSE "drop")
    /\ UNCHANGED <<job, mapped, engine, held, cache, mainLine>>

(* The adapter's files may be missing; it is held nevertheless, and a later *)
(* start does not look again.                                               *)
CreateJob ==
    /\ In("create")
    /\ held' = TRUE
    /\ \/ /\ job' = NewJob(call.from, call.fen, call.settings)
          /\ mapped' = TRUE
          /\ Move("poll")
          /\ engine' = IF held THEN engine ELSE NoEngine
       \/ /\ ~held
          /\ call' = NoCall
          /\ engine' = NoEngine
          /\ UNCHANGED <<job, mapped, calls>>
    /\ UNCHANGED <<cache, mainLine>>

(* The end of a cancel call, and of stop_all_variation_jobs: the adapter    *)
(* stops.                                                                   *)
Drop ==
    /\ In("drop")
    /\ mapped' = FALSE
    /\ held' = FALSE
    /\ engine' = Shut(engine)
    /\ cache' = IF call.op = "cancel" THEN NoResults ELSE cache
    /\ mainLine' = (call.op = "main" \/ (mainLine /\ call.op # "close"))
    /\ call' = IF call.op = "close" THEN [op |-> "closed"] ELSE NoCall
    /\ UNCHANGED <<job, calls>>

(* variation_analysis_status_json: the job's fields under their mutex, then *)
(* the flag, then the adapter's live lines.                                 *)
PosOf(r) == IF r = None THEN None ELSE r.pos

PollJob ==
    /\ In("poll")
    /\ call' = [call EXCEPT !.seen = PosOf(job.result),
                            !.pc = IF job.status = "running" THEN "expose" ELSE "return"]
    /\ UNCHANGED <<job, mapped, engine, held, cache, mainLine, calls>>

PollExpose ==
    /\ In("expose")
    /\ Move(IF job.expose THEN "live" ELSE "return")
    /\ UNCHANGED <<job, mapped, engine, held, cache, mainLine>>

PollLive ==
    /\ In("live")
    /\ call' = [call EXCEPT !.pc = "return",
                            !.seen = IF engine.live = None THEN @ ELSE engine.live]
    /\ UNCHANGED <<job, mapped, engine, held, cache, mainLine, calls>>

Return ==
    /\ In("return")
    /\ call' = NoCall
    /\ UNCHANGED <<job, mapped, engine, held, cache, mainLine, calls>>

Advance ==
    \/ Reap \/ Flag \/ RaiseCancelled \/ StopSearch \/ Join \/ CreateJob \/ Drop
    \/ PollJob \/ PollExpose \/ PollLive \/ Return

MainLineEnds ==
    /\ mainLine
    /\ mainLine' = FALSE
    /\ UNCHANGED <<job, mapped, engine, held, cache, call, calls>>

Next ==
    \/ Worker \/ Emit \/ Complete \/ TimeOut \/ Halt \/ Advance \/ MainLineEnds
    \/ \E from \in Positions, s \in Settings :
        \E fen \in Moves[from] : Start(from, fen, s)
    \/ StartRefused \/ Poll \/ Cancel \/ StartMainLine \/ Close

Spec == Init /\ [][Next]_vars

(* The threads run, and a search that is told to stop does; one that is not *)
(* need never end.                                                          *)
FairSpec == Spec /\ WF_vars(Worker) /\ WF_vars(Halt) /\ WF_vars(Advance)

------------------------------------------------------------------------------
(* Properties.                                                              *)

(* A search that ended by itself: at its depth, or by a time limit it had.  *)
Finished(r) == r.end = "depth" \/ (r.end = "time" /\ r.time > 0)

(* What a sideline remembers of a position came of a search of that very    *)
(* position, with that depth and time limit, that nobody stopped, however a *)
(* cancellation meets the steps of analyze() on the shared adapter.         *)
RememberedIsFinished ==
    \A k \in Keys : cache[k] # None => Finished(cache[k]) /\ KeyOf(cache[k]) = k

(* As much work as the settings ask for: the depth is reached, unless by    *)
(* the settings' own leave a time at least as long ran out first, or the    *)
(* search converged.                                                        *)
DeepEnough(r, settings) ==
    /\ r.depth >= settings.depth
    /\ \/ r.end = "depth"
       \/ r.end = "time" /\ settings.time > 0 /\ r.time >= settings.time
       \/ r.end = "converged" /\ settings.adaptive

(* A classified sideline compared results of its own two positions, both    *)
(* deep enough for its settings, the one before with as many alternatives   *)
(* as the settings and the position allow: although the remembered results  *)
(* are found without regard to the number of lines, and by sidelines with   *)
(* other settings.  The exception is a search of the main line that was     *)
(* stopped and saved as a checkpoint (1514): its rows look like any other.  *)
ClassifiedFromOwnResults ==
    Working /\ job.status = "complete" =>
        /\ job.result.pos = job.fen /\ DeepEnough(job.result, job.settings)
        /\ job.before.pos = job.from
        /\ \/ job.before.end = "cut"
           \/ /\ DeepEnough(job.before, job.settings)
              /\ job.before.lines >= BeforeMultiPv(job)

(* A sideline pauses only because its own job was cancelled: the flag that  *)
(* stopped the previous one stays in the shared adapter and does not stop   *)
(* this one.                                                                *)
PausedOnlyIfCancelled ==
    job # NoJob /\ job.status = "paused" => job.cancel

(* While a main-line job runs no sideline searches, and none has an         *)
(* instance of Stockfish with its hash table.                               *)
MainLineAlone == mainLine => ~Working /\ ~engine.ready

(* The lines that are shown for a sideline are of the sideline's position,  *)
(* never of the one before it, which the same adapter searches next, and    *)
(* never of an earlier sideline.                                            *)
ShownIsOwn == In("return") /\ call.seen # None => call.seen = job.fen

(* A cancelled sideline ends, even when its search would not: whenever the  *)
(* cancellation comes, the search is stopped or not begun.                  *)
CancelledEnds == job # NoJob /\ job.cancel ~> ~Working

(* Every call returns.                                                      *)
CallsReturn == call # NoCall ~> call = NoCall \/ call = [op |-> "closed"]
================================================================================
