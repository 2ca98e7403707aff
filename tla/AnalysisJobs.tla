---------------------------- MODULE AnalysisJobs ----------------------------
(***************************************************************************)
(* The main-line analysis jobs of AnalysisService                          *)
(* (native/src/services/analysis_service.cpp): the preparation pass of     *)
(* jobs_ and the live refinement of refinement_jobs_, each a thread with a *)
(* Stockfish adapter of its own, the runs they persist, and the calls of   *)
(* the one thread that drives the C API.                                   *)
(*                                                                         *)
(* A worker step is the code between two points where another thread can   *)
(* be seen: a database call, the engine's cancelled flag, an atomic of the *)
(* job.  A call of the API is a sequence of such steps too; it blocks only *)
(* in Join.  Crash and clean shutdown keep the database and nothing else.  *)
(*                                                                         *)
(* A definition with a suffix, such as Cancel_EngineOnly, is a wrong       *)
(* variant of the one that follows it: the behaviour never uses it, and a  *)
(* property that holds with the right one fails with it.                   *)
(***************************************************************************)
EXTENDS AnalysisRuns

CONSTANTS Theory,         \* Theory[g]: indices of the moves the book knows
          SettingsSpace,  \* the engine settings the user may choose
          Faults          \* whether engine and database calls may throw

MinConfig(s) == [depth |-> s.minDepth, multiPv |-> s.multiPv,
                 time |-> s.time, adaptive |-> s.adaptive,
                 resources |-> s.resources]
MaxConfig(s) == [depth |-> s.depth, multiPv |-> s.multiPv,
                 time |-> s.time, adaptive |-> s.adaptive,
                 resources |-> s.resources]

\* set_analysis_depth_range and settings() keep minDepth <= depth.
ASSUME SettingsAssumption ==
    /\ SettingsSpace # {}
    /\ \A s \in SettingsSpace : /\ s.minDepth <= s.depth
                                /\ {MinConfig(s), MaxConfig(s)} \subseteq Configs
ASSUME TheoryAssumption == Theory \in [Games -> SUBSET Nat]
ASSUME FaultsAssumption == Faults \in BOOLEAN

VARIABLES games,     \* the games that exist
          settings,  \* the persisted engine settings
          runs,      \* the saved runs
          job,       \* job[<<kind, g>>]: the job of game g in that kind's map
          call       \* the API call in progress

vars == <<games, settings, runs, job, call>>

-----------------------------------------------------------------------------
(* Jobs.  jobs_ holds at most one "minimum" job per game, refinement_jobs_  *)
(* at most one "refine" job.  A job leaves its slot when it was erased from *)
(* the map and joined; an erased job that still runs is in call.join.       *)

Kinds == {"minimum", "refine"}
JobIds == Kinds \X Games

WorkerPoints == {"begin", "theory", "pick", "aim", "enter", "search",
                 "persist", "rebuild", "publish", "complete", "prune",
                 "reportCancelled", "reportFailed", "stop"}
Stages == {"scout", "targeted", "full"}
JobStates == {"queued", "running", "cancelling", "cancelled", "completed", "failed"}

\* slot       current_position_slot
\* target     requested_position_slot (refine)
\* retargeted target_generation moved since the worker last read it
\* stopped    the adapter's cancelled flag
\* engine     the adapter holds a live Stockfish instance
Job == [pc : WorkerPoints \cup {"none", "finished"}, state : JobStates,
        config : Configs, done : SUBSET Nat, slot : Nat \cup {-1}, stage : Stages,
        target : Nat, retargeted : BOOLEAN, cancel : BOOLEAN,
        stopped : BOOLEAN, engine : BOOLEAN]

NewJob(config, done, target) ==
    [pc |-> "begin", state |-> "queued", config |-> config, done |-> done,
     slot |-> -1, stage |-> "scout", target |-> target, retargeted |-> FALSE,
     cancel |-> FALSE, stopped |-> FALSE, engine |-> FALSE]
NoJob == [NewJob(MinConfig(CHOOSE s \in SettingsSpace : TRUE), {}, 0)
              EXCEPT !.pc = "none"]

Live(j) == job[j].pc \in WorkerPoints
RunOf(j) == <<j[2], job[j].config>>
HasRun_Unchecked(j) == TRUE
HasRun(j) == Present(runs, RunOf(j))

\* A slot needs no engine when neither move next to it does.
TheorySkipped(g) ==
    IF IsFen(g) THEN {}
    ELSE {s \in Slots(g) : /\ s = 0 \/ s - 1 \in Theory[g]
                           /\ s = LastSlot[g] \/ s \in Theory[g]}

Missing(j) == Slots(j[2]) \ job[j].done
Least(S) == {s \in S : \A t \in S : s <= t}
Greatest(S) == {s \in S : \A t \in S : s >= t}

RemainingInOrder_StopsEarly(j) == {s \in Missing(j) : s > job[j].slot /\ s < LastSlot[j[2]]}
\* The preparation pass visits the slots once, in order.
RemainingInOrder(j) == {s \in Missing(j) : s > job[j].slot}

\* next_slot of the refinement queue: the selected slot, then the following
\* ones, then backwards.
NextFocused(j) ==
    LET last == LastSlot[j[2]]
        focus == IF job[j].target > last THEN last ELSE job[j].target
        ahead == {s \in Missing(j) : s >= focus}
    IN  IF ahead # {} THEN Least(ahead) ELSE Greatest(Missing(j))

-----------------------------------------------------------------------------
(* Worker steps (run_analysis, run_refinement_queue, StockfishEngine).      *)

Worker(j, fields) == job' = [job EXCEPT ![j] = fields]
Unreported == UNCHANGED <<games, settings, call>>

\* The catch clause reads cancel_requested once.
Caught(j) ==
    IF job[j].cancel
    THEN [job[j] EXCEPT !.state = "cancelled", !.pc = "reportCancelled"]
    ELSE [job[j] EXCEPT !.state = "failed", !.pc = "reportFailed"]
Throw(j) == Worker(j, Caught(j)) /\ UNCHANGED runs

Fault(j) == /\ Faults
            /\ job[j].pc \in {"theory", "persist", "rebuild", "publish", "complete",
                              "prune", IF j[1] = "minimum" THEN "pick" ELSE "aim"}
            /\ Throw(j)
            /\ Unreported

Begin(j) ==
    /\ job[j].pc = "begin"
    /\ IF j[1] = "minimum" /\ job[j].cancel
       THEN Throw(j)
       ELSE /\ Worker(j, [job[j] EXCEPT !.state = "running", !.pc = "theory",
                                        !.engine = (j[1] = "refine")])
            /\ UNCHANGED runs
    /\ Unreported

\* One empty row per skipped slot, so that persist_classifications finds it.
SkipTheorySlot(j) ==
    /\ job[j].pc = "theory"
    /\ \E slot \in Least(TheorySkipped(j[2]) \ job[j].done) :
           LET done == job[j].done \cup {slot}
           IN  IF HasRun(j)
               THEN /\ Worker(j, [job[j] EXCEPT !.done = done])
                    /\ runs' = PersistRow(runs, RunOf(j), slot, CompletedMoves(j[2], done))
               ELSE Throw(j)
    /\ Unreported

\* rebuild_classification(.., completed_moves - 1): with no completed move the
\* argument is -1, which means the whole game.
EndTheory(j) ==
    /\ job[j].pc = "theory"
    /\ TheorySkipped(j[2]) \subseteq job[j].done
    /\ IF j[1] = "refine" \/ TheorySkipped(j[2]) = {}
       THEN Worker(j, [job[j] EXCEPT !.pc = "pick"]) /\ UNCHANGED runs
       ELSE IF HasRun(j)
       THEN /\ Worker(j, [job[j] EXCEPT !.pc = "pick"])
            /\ runs' = PersistClassifications(
                   runs, RunOf(j), CompletedMoves(j[2], job[j].done) = 0)
       ELSE Throw(j)
    /\ Unreported

\* A position cache hit or a terminal position needs no search.
Visit(j, fields) == \E pc \in {"enter", "persist"} : Worker(j, [fields EXCEPT !.pc = pc])

PickInOrder(j) ==
    /\ j[1] = "minimum"
    /\ job[j].pc = "pick"
    /\ \/ /\ RemainingInOrder(j) = {}
          /\ Worker(j, [job[j] EXCEPT !.pc = "publish"])
       \/ \E slot \in Least(RemainingInOrder(j)) :
              IF job[j].cancel
              THEN Worker(j, [Caught(j) EXCEPT !.slot = slot])
              ELSE Visit(j, [job[j] EXCEPT !.slot = slot])
    /\ UNCHANGED runs
    /\ Unreported

PickFocused(j) ==
    /\ j[1] = "refine"
    /\ job[j].pc = "pick"
    /\ IF job[j].cancel THEN Worker(j, Caught(j))
       ELSE \/ /\ Missing(j) = {}
               /\ Worker(j, [job[j] EXCEPT !.pc = "publish"])
            \/ \E slot \in NextFocused(j) :
                   Worker(j, [job[j] EXCEPT !.slot = slot, !.pc = "aim"])
    /\ UNCHANGED runs
    /\ Unreported

\* target_generation is read after the slot was chosen and published.
Aim(j) ==
    /\ job[j].pc = "aim"
    /\ Visit(j, [job[j] EXCEPT !.retargeted = FALSE])
    /\ UNCHANGED runs
    /\ Unreported

\* analyze() clears the cancelled flag when it starts.
EnterSearch(j) ==
    /\ job[j].pc = "enter"
    /\ Worker(j, [job[j] EXCEPT !.engine = TRUE, !.stopped = FALSE, !.pc = "search"])
    /\ UNCHANGED runs
    /\ Unreported

\* A refinement searches a position once.  The preparation pass may follow its
\* two-line scout by a search of the played move, and either by a full search;
\* cancel_requested is not looked at in between.
NextStages(j) ==
    IF j[1] = "refine" \/ job[j].stage = "full" THEN {}
    ELSE {"full"} \cup (IF job[j].stage = "scout" /\ job[j].slot < LastSlot[j[2]]
                        THEN {"targeted"} ELSE {})

Searched(j, fields) ==
    \/ Worker(j, [fields EXCEPT !.pc = "persist", !.stage = "scout"])
    \/ \E next \in NextStages(j) : Worker(j, [fields EXCEPT !.stage = next, !.pc = "enter"])

SearchDone(j) ==
    /\ job[j].pc = "search"
    /\ ~job[j].stopped
    /\ Searched(j, job[j])
    /\ UNCHANGED runs
    /\ Unreported

\* The scout of a preparation pass is in the position cache: the engine was
\* started, but does not search.
ScoutCached(j) ==
    /\ j[1] = "minimum"
    /\ job[j].pc = "enter"
    /\ job[j].stage = "scout"
    /\ Searched(j, [job[j] EXCEPT !.engine = TRUE])
    /\ UNCHANGED runs
    /\ Unreported

\* The loop goes on without the slot.
Dropped(j) == [job[j] EXCEPT !.stage = "scout", !.pc = "pick"]

\* Interrupted with a principal variation: the position goes to the position
\* cache at most, and the worker looks at cancel_requested.
SearchInterrupted(j) ==
    /\ job[j].pc = "search"
    /\ job[j].stopped
    /\ Worker(j, IF job[j].cancel THEN Caught(j) ELSE Dropped(j))
    /\ UNCHANGED runs
    /\ Unreported

\* analyze() throws: interrupted before the first principal variation, or the
\* engine failed.
SearchAborted(j) ==
    /\ job[j].pc = "search"
    /\ job[j].stopped \/ Faults
    /\ Worker(j, IF j[1] = "refine" /\ ~job[j].cancel /\ job[j].retargeted
                 THEN Dropped(j) ELSE Caught(j))
    /\ UNCHANGED runs
    /\ Unreported

PersistSlot_CountsSlots(j) ==
    /\ job[j].pc = "persist"
    /\ HasRun(j)
    /\ Worker(j, [job[j] EXCEPT !.done = @ \cup {job[j].slot}, !.pc = "pick"])
    /\ runs' = PersistRow(runs, RunOf(j), job[j].slot, job[j].slot + 1)
    /\ Unreported

PersistSlot_ForgetsSlot(j) ==
    /\ job[j].pc = "persist"
    /\ HasRun(j)
    /\ Worker(j, [job[j] EXCEPT !.pc = "pick"])
    /\ runs' = PersistRow(runs, RunOf(j), job[j].slot, CompletedMoves(j[2], job[j].done))
    /\ Unreported

PersistSlot(j) ==
    LET done == job[j].done \cup {job[j].slot}
        plies == CompletedMoves(j[2], done)
        rebuild == j[1] = "minimum" /\ ~IsFen(j[2]) /\ plies > 0
    IN  /\ job[j].pc = "persist"
        /\ IF HasRun(j)
           THEN /\ Worker(j, [job[j] EXCEPT !.done = done,
                                            !.pc = IF rebuild THEN "rebuild" ELSE "pick"])
                /\ runs' = PersistRow(runs, RunOf(j), job[j].slot, plies)
           ELSE Throw(j)
        /\ Unreported

RebuildPrefix(j) ==
    /\ job[j].pc = "rebuild"
    /\ IF HasRun(j)
       THEN /\ Worker(j, [job[j] EXCEPT !.pc = "pick"])
            /\ runs' = PersistClassifications(runs, RunOf(j), FALSE)
       ELSE Throw(j)
    /\ Unreported

\* The end of a pass: classify the whole game, mark the run complete, drop the
\* game's other runs.  cancel_requested is not read again.
Publish(j) ==
    /\ job[j].pc = "publish"
    /\ IF HasRun(j)
       THEN /\ Worker(j, [job[j] EXCEPT !.pc = "complete"])
            /\ runs' = PersistClassifications(runs, RunOf(j), TRUE)
       ELSE Throw(j)
    /\ Unreported

Complete(j) ==
    /\ job[j].pc = "complete"
    /\ Worker(j, [job[j] EXCEPT !.pc = "prune"])
    /\ runs' = SetStatus(runs, RunOf(j), "complete")
    /\ Unreported

Prune(j) ==
    /\ job[j].pc = "prune"
    /\ Worker(j, [job[j] EXCEPT !.state = "completed", !.pc = "stop"])
    /\ runs' = PruneExcept(runs, j[2], job[j].config)
    /\ Unreported

Report_SkipsCancelled(j, pc, status) ==
    /\ job[j].pc = pc
    /\ pc = "reportFailed"
    /\ Worker(j, [job[j] EXCEPT !.pc = "stop"])
    /\ runs' = SetStatus(runs, RunOf(j), status)
    /\ Unreported

\* set_analysis_status on the way out; an exception from it is swallowed.
Report(j, pc, status) ==
    /\ job[j].pc = pc
    /\ Worker(j, [job[j] EXCEPT !.pc = "stop"])
    /\ \/ runs' = SetStatus(runs, RunOf(j), status)
       \/ Faults /\ UNCHANGED runs
    /\ Unreported

Finish_OnlyCompleted(j) ==
    /\ job[j].pc = "stop"
    /\ job[j].state = "completed"
    /\ Worker(j, [NewJob(job[j].config, {}, 0) EXCEPT
                      !.pc = "finished", !.state = job[j].state])
    /\ UNCHANGED runs
    /\ Unreported

\* engine->stop(), finished = true, and the thread returns.
Finish(j) ==
    /\ job[j].pc = "stop"
    /\ Worker(j, [NewJob(job[j].config, {}, 0) EXCEPT
                      !.pc = "finished", !.state = job[j].state,
                      !.cancel = job[j].cancel])
    /\ UNCHANGED runs
    /\ Unreported

WorkerStep(j) ==
    \/ Begin(j) \/ SkipTheorySlot(j) \/ EndTheory(j)
    \/ PickInOrder(j) \/ PickFocused(j) \/ Aim(j)
    \/ EnterSearch(j) \/ ScoutCached(j) \/ SearchDone(j) \/ SearchInterrupted(j) \/ SearchAborted(j)
    \/ PersistSlot(j) \/ RebuildPrefix(j)
    \/ Publish(j) \/ Complete(j) \/ Prune(j)
    \/ Report(j, "reportCancelled", "cancelled") \/ Report(j, "reportFailed", "error")
    \/ Finish(j) \/ Fault(j)

-----------------------------------------------------------------------------
(* API calls.  One thread makes them: the Flutter isolate.                   *)
(*                                                                           *)
(* Every call that stops jobs does it the same way: for each job in turn     *)
(* cancel_requested (Cancel), then the engine's cancel (StopEngine), then    *)
(* join (Join), and goes on at call.then.                                    *)

CallPoints == {"idle", "cancel", "stopEngine", "join", "reuse", "supersede",
               "prepare", "claim", "resume", "yield", "takeOver", "retarget", "compare", "preempt",
               "spawn", "deleteRows", "closeProfile", "closeAll", "removeGames",
               "reopen"}
Continuations == {"idle", "takeOver", "retarget", "spawn", "deleteRows", "closeProfile",
                  "closeAll", "removeGames", "reopen"}

\* kind, game  the job slot the call works for; ply its requested slot
\* config      the run the call prepares or reuses
\* found       the status prepare_analysis read
\* todo, join  jobs still to cancel; jobs erased from the map, to be joined
\* victim      the job whose engine is cancelled next
\* mark        which jobs' state becomes cancelling: "never", those not
\*             finished ("live"), or all ("always")
\* affected    the games of a profile that is being removed
Call == [pc : CallPoints, then : Continuations, kind : Kinds, game : Games, ply : Nat,
         config : Configs, found : Statuses, todo : SUBSET JobIds,
         join : SUBSET JobIds, victim : JobIds, mark : {"never", "live", "always"},
         affected : SUBSET Games]

Idle == LET g == CHOOSE g \in Games : TRUE
        IN  [pc |-> "idle", then |-> "idle", kind |-> "minimum", game |-> g, ply |-> 0,
             config |-> NoJob.config, found |-> "none", todo |-> {}, join |-> {},
             victim |-> <<"minimum", g>>, mark |-> "never", affected |-> {}]

Slot == <<call.kind, call.game>>
Target == <<call.game, call.config>>
Held == {j \in JobIds : job[j].pc # "none"}

\* The call c goes on by stopping todo, joining join, and then continuing.
Stopping(c, todo, join, mark, then) ==
    [c EXCEPT !.pc = "cancel", !.todo = todo, !.join = join, !.mark = mark, !.then = then]

Quiet == UNCHANGED <<games, settings, runs, job>>

Cancel_EngineOnly ==
    /\ call.pc = "cancel"
    /\ IF call.todo = {}
       THEN call' = [call EXCEPT !.pc = "join"]
       ELSE \E j \in call.todo :
                call' = [call EXCEPT !.pc = "stopEngine", !.victim = j, !.todo = @ \ {j}]
    /\ Quiet

Cancel ==
    /\ call.pc = "cancel"
    /\ IF call.todo = {}
       THEN call' = [call EXCEPT !.pc = "join"] /\ UNCHANGED job
       ELSE \E j \in call.todo :
                LET marked == call.mark = "always" \/ (call.mark = "live" /\ Live(j))
                IN  /\ job' = [job EXCEPT ![j].cancel = TRUE,
                                          ![j].state = IF marked THEN "cancelling" ELSE @]
                    /\ call' = [call EXCEPT !.pc = "stopEngine", !.victim = j,
                                            !.todo = @ \ {j}]
    /\ UNCHANGED <<games, settings, runs>>

StopEngine ==
    /\ call.pc = "stopEngine"
    /\ job' = [job EXCEPT ![call.victim].stopped = Live(call.victim)]
    /\ call' = [call EXCEPT !.pc = "cancel"]
    /\ UNCHANGED <<games, settings, runs>>

Join ==
    /\ call.pc = "join"
    /\ \A j \in call.join : job[j].pc \in {"none", "finished"}
    /\ job' = [j \in JobIds |-> IF j \in call.join THEN NoJob ELSE job[j]]
    /\ call' = IF call.then = "idle" THEN Idle
               ELSE [call EXCEPT !.pc = call.then, !.join = {}]
    /\ UNCHANGED <<games, settings, runs>>

-----------------------------------------------------------------------------
(* start_analysis_json and start_move_refinement_json.                      *)

Request(kind) == IF kind = "minimum" THEN MinConfig(settings) ELSE MaxConfig(settings)

\* Game lookup, then compatible_analysis for the requested configuration.
Start(kind, g, ply) ==
    LET reusable == CompatibleConfigs(runs, g, Request(kind))
        c == [Idle EXCEPT !.kind = kind, !.game = g, !.ply = ply]
    IN  /\ call.pc = "idle"
        /\ g \in games
        /\ \/ \E best \in Best(reusable) :
                  call' = [c EXCEPT !.pc = "reuse", !.config = best]
           \/ /\ reusable = {}
              /\ call' = [c EXCEPT !.pc = "prepare", !.config = Request(kind)]
        /\ Quiet

StartAnalysis(g) == Start("minimum", g, 0)

StartRefinement(g, ply) ==
    /\ settings.depth > settings.minDepth
    /\ ply \in Slots(g)
    /\ Start("refine", g, ply)

\* rebuild_classification unless it is current; a run that went away meanwhile
\* makes it throw.
Reuse ==
    /\ call.pc = "reuse"
    /\ IF Present(runs, Target)
       THEN /\ runs' = PersistClassifications(runs, Target, TRUE)
            /\ call' = [call EXCEPT !.pc = "supersede"]
       ELSE UNCHANGED runs /\ call' = Idle
    /\ UNCHANGED <<games, settings, job>>

Supersede ==
    /\ call.pc = "supersede"
    /\ runs' = PruneExcept(runs, call.game, call.config)
    /\ call' = Idle
    /\ UNCHANGED <<games, settings, job>>

\* prepare_analysis: the SELECT here, the INSERT or UPDATE in Claim.
PrepareRead ==
    /\ call.pc = "prepare"
    /\ call' = [call EXCEPT !.pc = "claim", !.found = runs[Target].status]
    /\ Quiet

\* A run found complete is only classified anew by start_analysis_json; a
\* refinement still takes the engine over.
Claim ==
    /\ call.pc = "claim"
    /\ IF call.found = "complete" /\ call.kind = "minimum"
       THEN /\ runs' = IF Present(runs, Target)
                       THEN PersistClassifications(runs, Target, TRUE) ELSE runs
            /\ call' = Idle
       ELSE /\ runs' = Prepare(runs, Target, call.found)
            /\ call' = [call EXCEPT !.pc = IF call.kind = "minimum" THEN "resume"
                                           ELSE "yield"]
    /\ UNCHANGED <<games, settings, job>>

\* start_analysis_json keeps an unfinished job of the same configuration.
Resume ==
    LET replaced == job[Slot].pc = "finished" \/ job[Slot].config # call.config
    IN  /\ call.pc = "resume"
        /\ call' = IF job[Slot].pc = "none" THEN [call EXCEPT !.pc = "spawn"]
                   ELSE IF replaced
                   THEN Stopping(call, {Slot} \cap {j \in JobIds : Live(j)}, {Slot},
                                 "never", "spawn")
                   ELSE Idle
        /\ Quiet

Yield_DoesNotWait ==
    LET minimum == {<<"minimum", call.game>>} \cap Held
    IN  /\ call.pc = "yield"
        /\ call' = Stopping(call, {j \in minimum : Live(j)}, {}, "never", "takeOver")
        /\ Quiet

\* A refinement stops the game's preparation pass ...
Yield ==
    LET minimum == {<<"minimum", call.game>>} \cap Held
    IN  /\ call.pc = "yield"
        /\ call' = Stopping(call, {j \in minimum : Live(j)}, minimum, "never", "takeOver")
        /\ Quiet

TakeOver_OwnGameOnly ==
    LET same == Live(Slot) /\ job[Slot].config = call.config
        stale == IF same THEN {} ELSE {Slot} \cap Held
    IN  /\ call.pc = "takeOver"
        /\ call' = Stopping(call, {j \in stale : Live(j)}, stale, "never",
                             IF same THEN "retarget" ELSE "spawn")
        /\ Quiet

\* ... and every refinement worker but an unfinished one of the same run.
TakeOver ==
    LET same == Live(Slot) /\ job[Slot].config = call.config
        stale == {j \in Held : j[1] = "refine"} \ (IF same THEN {Slot} ELSE {})
    IN  /\ call.pc = "takeOver"
        /\ call' = Stopping(call, {j \in stale : Live(j)}, stale, "never",
                             IF same THEN "retarget" ELSE "spawn")
        /\ Quiet

\* Retarget the kept worker: the new slot and generation, ...
Retarget ==
    /\ call.pc = "retarget"
    /\ job' = [job EXCEPT ![Slot].target = call.ply, ![Slot].retargeted = TRUE]
    /\ call' = [call EXCEPT !.pc = "compare"]
    /\ UNCHANGED <<games, settings, runs>>

\* ... the slot it works on, and a cancel of its search if that is another.
Compare ==
    /\ call.pc = "compare"
    /\ call' = IF job[Slot].slot >= 0 /\ job[Slot].slot # call.ply
               THEN [call EXCEPT !.pc = "preempt"] ELSE Idle
    /\ Quiet

Preempt ==
    /\ call.pc = "preempt"
    /\ job' = [job EXCEPT ![Slot].stopped = Live(Slot)]
    /\ call' = Idle
    /\ UNCHANGED <<games, settings, runs>>

Spawn_ReadsEveryRun ==
    LET rows == UNION {runs[<<call.game, c>>].rows : c \in Configs}
    IN  /\ call.pc = "spawn"
        /\ job' = [job EXCEPT ![Slot] = NewJob(call.config, rows, call.ply)]
        /\ call' = Idle
        /\ UNCHANGED <<games, settings, runs>>

\* The new worker resumes from the rows its run already has.
Spawn ==
    /\ call.pc = "spawn"
    /\ job' = IF call.found = "complete" THEN job
              ELSE [job EXCEPT ![Slot] = NewJob(call.config, runs[Target].rows, call.ply)]
    /\ call' = Idle
    /\ UNCHANGED <<games, settings, runs>>

-----------------------------------------------------------------------------
(* The other calls.                                                         *)

\* cancel_analysis: no join, and no look at finished.
CancelAnalysis(g) ==
    LET jobs == {<<k, g>> : k \in Kinds} \cap Held
    IN  /\ call.pc = "idle"
        /\ jobs # {}
        /\ call' = Stopping(Idle, jobs, {}, "always", "idle")
        /\ Quiet

DeleteAnalysis_CancelsPreparationOnly(g) ==
    LET jobs == {<<k, g>> : k \in Kinds} \cap Held
    IN  /\ call.pc = "idle"
        /\ g \in games
        /\ call' = Stopping([Idle EXCEPT !.game = g],
                            {j \in jobs : j[1] = "minimum" /\ Live(j)}, jobs,
                            "live", "deleteRows")
        /\ Quiet

DeleteAnalysis(g) ==
    LET jobs == {<<k, g>> : k \in Kinds} \cap Held
    IN  /\ call.pc = "idle"
        /\ g \in games
        /\ call' = Stopping([Idle EXCEPT !.game = g], {j \in jobs : Live(j)}, jobs,
                            "live", "deleteRows")
        /\ Quiet

DeleteRows ==
    /\ call.pc = "deleteRows"
    /\ runs' = DropGames(runs, {call.game})
    /\ call' = Idle
    /\ UNCHANGED <<games, settings, job>>

\* A sideline starts: stop_all_mainline_analysis_jobs.
StartVariation ==
    /\ call.pc = "idle"
    /\ Held # {}
    /\ call' = Stopping(Idle, {j \in Held : Live(j)}, Held, "live", "idle")
    /\ Quiet

\* cancel_jobs_for_games for a profile that is deleted, and the destructor for
\* all games: first jobs_, then refinement_jobs_.
StopGames(gs, then) ==
    LET minimum == {j \in Held : j[1] = "minimum" /\ j[2] \in gs}
    IN  /\ call.pc = "idle"
        /\ call' = [Stopping(Idle, minimum, minimum, "never", then) EXCEPT !.affected = gs]
        /\ Quiet

DeleteProfile(gs) == gs # {} /\ gs \subseteq games /\ StopGames(gs, "closeProfile")
Shutdown == StopGames(Games, "closeAll")

CloseRefinements_DoesNotWait ==
    LET refine == {j \in Held : j[1] = "refine" /\ j[2] \in call.affected}
    IN  /\ call.pc \in {"closeProfile", "closeAll"}
        /\ call' = Stopping(call, refine, {}, "never",
                            IF call.pc = "closeAll" THEN "reopen" ELSE "removeGames")
        /\ Quiet

CloseRefinements ==
    LET refine == {j \in Held : j[1] = "refine" /\ j[2] \in call.affected}
    IN  /\ call.pc \in {"closeProfile", "closeAll"}
        /\ call' = Stopping(call, refine, refine, "never",
                            IF call.pc = "closeAll" THEN "reopen" ELSE "removeGames")
        /\ Quiet

\* ON DELETE CASCADE takes the runs of a removed game along.
RemoveGames ==
    /\ call.pc = "removeGames"
    /\ games' = games \ call.affected
    /\ runs' = DropGames(runs, call.affected)
    /\ call' = Idle
    /\ UNCHANGED <<settings, job>>

\* delete_local_game stops no job.
DeleteLocalGame(g) ==
    /\ call.pc = "idle"
    /\ g \in games
    /\ games' = games \ {g}
    /\ runs' = DropGames(runs, {g})
    /\ UNCHANGED <<settings, job, call>>

\* A database call throws, and the exception leaves the handler.
CallFault ==
    /\ Faults
    /\ call.pc \in {"reuse", "supersede", "prepare", "claim", "spawn", "deleteRows",
                    "removeGames"}
    /\ call' = Idle
    /\ Quiet

ChangeSettings(s) ==
    /\ call.pc = "idle"
    /\ settings' = s
    /\ UNCHANGED <<games, runs, job, call>>

\* A new process opens the database: no job survives.
Reopen ==
    /\ \E expired \in SUBSET Expirable(runs) : runs' = Reopened(runs, expired)
    /\ job' = [j \in JobIds |-> NoJob]
    /\ call' = Idle
    /\ UNCHANGED <<games, settings>>
Restart == call.pc = "reopen" /\ Reopen
Crash == Reopen

-----------------------------------------------------------------------------
Init ==
    /\ games = Games
    /\ settings \in SettingsSpace
    /\ runs = [id \in RunIds |-> NoRun]
    /\ job = [j \in JobIds |-> NoJob]
    /\ call = Idle

\* The steps of a call that has begun.
CallStep ==
    \/ Cancel \/ StopEngine \/ Join
    \/ Reuse \/ Supersede \/ PrepareRead \/ Claim \/ Resume \/ Yield \/ TakeOver
    \/ Retarget \/ Compare \/ Preempt \/ Spawn
    \/ DeleteRows \/ CloseRefinements \/ RemoveGames \/ Restart
    \/ CallFault

\* What the user, or the operating system, does next.
NewCall ==
    \/ \E g \in Games : \/ StartAnalysis(g)
                        \/ \E ply \in Slots(g) : StartRefinement(g, ply)
                        \/ CancelAnalysis(g)
                        \/ DeleteAnalysis(g)
                        \/ DeleteLocalGame(g)
    \/ StartVariation
    \/ \E gs \in SUBSET Games : DeleteProfile(gs)
    \/ Shutdown
    \/ \E s \in SettingsSpace : ChangeSettings(s)
    \/ Crash

Next == CallStep \/ NewCall \/ \E j \in JobIds : WorkerStep(j)

Spec == Init /\ [][Next]_vars

\* The operating system schedules every thread, and a search ends by itself at
\* its depth limit: every worker keeps stepping, and so does the calling thread
\* inside a call.  Nothing makes the user call again.
Fairness == WF_vars(CallStep) /\ \A j \in JobIds : WF_vars(WorkerStep(j))
FairSpec == Spec /\ Fairness

-----------------------------------------------------------------------------
(* Properties. *)

\* Every variable keeps its type.
TypeOK ==
    /\ games \subseteq Games
    /\ settings \in SettingsSpace
    /\ runs \in [RunIds -> Run]
    /\ job \in [JobIds -> Job]
    /\ call \in Call

\* However calls and workers interleave, at most one live refinement runs in
\* the whole process: start_move_refinement_json erases and joins the others,
\* of every game, before it starts one.
OneLiveRefinement ==
    \A j, k \in JobIds :
        j[1] = "refine" /\ k[1] = "refine" /\ Live(j) /\ Live(k) => j = k

\* When a start call reaches the point where it creates a thread, the worker it
\* replaces has ended, and a refinement has taken the engine over: no other
\* refinement runs, and no preparation pass of the same game.
SpawnIsExclusive ==
    call.pc = "spawn" =>
        /\ ~Live(Slot)
        /\ call.kind = "refine" =>
               \A j \in JobIds : Live(j) => j[1] = "minimum" /\ j[2] # call.game

\* A call only waits for threads it has told to stop; otherwise the UI thread
\* would hang for a whole analysis.
JoinsOnlyCancelled ==
    call.pc = "join" => \A j \in call.join : Live(j) => job[j].cancel

\* When delete_analysis, delete_profile or the destructor goes on to remove
\* what a worker writes to, no worker of those games is left.
NoWriterAtRemoval ==
    /\ call.pc = "deleteRows" => \A k \in Kinds : ~Live(<<k, call.game>>)
    /\ call.pc = "removeGames" =>
           \A j \in JobIds : j[2] \in call.affected => ~Live(j)
    /\ call.pc = "reopen" => \A j \in JobIds : ~Live(j)

\* A removed game has no saved run, even though delete_local_game leaves its
\* workers running: nothing a late worker writes brings a run back.
NoOrphanRun ==
    \A id \in RunIds : Present(runs, id) => id[1] \in games

\* The engine of a preparation pass is stopped only together with its
\* cancel_requested.  The slot loop rests on this: after an interrupted search
\* that was not cancelled it would leave the slot out and go on.
PreparationNeverSkips ==
    \A j \in JobIds :
        j[1] = "minimum" /\ job[j].pc = "search" /\ job[j].stopped => job[j].cancel

\* A step deletes no saved run under a worker that goes on with it, unless the
\* game goes too.  The code does not ensure this: a pass that completes (Prune)
\* and a start that reuses a run (Supersede) delete the game's other runs,
\* whoever works on them.  The next three properties rest on it.
KeepsRunsInUse ==
    \A j \in JobIds :
        Live(j) /\ HasRun(j) /\ Live(j)' /\ j[2] \in games' => Present(runs', RunOf(j))

\* A run marked complete has a row for every position of its game, as long as
\* KeepsRunsInUse: a worker that outlives its run marks the run that a later
\* start puts in its place complete with rows missing.
CompleteRunIsWhole ==
    \A id \in RunIds : runs[id].status = "complete" => runs[id].rows = Slots(id[1])

\* completed_plies never promises more moves than the saved rows cover; this
\* too needs KeepsRunsInUse.
ProgressIsBacked ==
    \A id \in RunIds : runs[id].plies <= CompletedMoves(id[1], runs[id].rows)

\* What a worker remembers as done is saved in its run, if the run still is;
\* this too needs KeepsRunsInUse.
WorkerTrustsRows ==
    \A j \in JobIds : Live(j) /\ HasRun(j) => job[j].done \subseteq runs[RunOf(j)].rows

\* The saved runs are the ledger that a resumed pass takes them for: no write
\* loses a row but with its run, an insert meets no run that is there, and
\* nothing is marked complete that is not.  The last needs KeepsRunsInUse.
Ledger == INSTANCE RunLedger WITH
    Runs <- RunIds,
    Whole <- [id \in RunIds |-> Slots(id[1])],
    saved <- {id \in RunIds : Present(runs, id)},
    rows <- [id \in RunIds |-> runs[id].rows],
    complete <- {id \in RunIds : runs[id].status = "complete"}
KeepsLedger == Ledger!Spec

\* Every call of the C API returns.
CallsReturn == call.pc # "idle" ~> call.pc = "idle"

\* A worker that was cancelled ends, also when the engine loses the cancel
\* because analyze() clears its flag afterwards.
CancelledJobsEnd == \A j \in JobIds : job[j].cancel /\ Live(j) ~> ~Live(j)

\* Once the user stops calling, every worker comes to an end.
WorkersEnd == <>[](call.pc = "idle") => <>[](\A j \in JobIds : ~Live(j))

\* "There is exactly one live Stockfish instance."
OneEngine ==
    \A j, k \in JobIds : job[j].engine /\ job[k].engine => j = k

\* "A retarget can arrive before Stockfish emitted its first PV.  That is a
\* normal preemption, not a failed analysis job."  Without faults, a refinement
\* whose run is still there does not fail.
RetargetIsNoFailure ==
    ~Faults => \A j \in JobIds : job[j].pc = "reportFailed" => ~HasRun(j)

\* "This completed run supersedes every older/lower saved run for the game."
\* A pass that completes takes no finished row of a better run away.
SupersedesOnlyLower ==
    [][\A j \in JobIds :
         job[j].pc = "prune" /\ job'[j].pc = "stop" =>
             \A c \in Configs :
                 Outranks(c, job[j].config) =>
                     runs[<<j[2], c>>].rows \subseteq runs'[<<j[2], c>>].rows]_vars
=============================================================================
