------------------------- MODULE AnalysisJobs_proofs -------------------------
(***************************************************************************)
(* Theorems about AnalysisJobs, for any games, configurations, settings    *)
(* and books, with and without faults.                                     *)
(***************************************************************************)
EXTENDS AnalysisJobs, AnalysisRuns_proofs

-----------------------------------------------------------------------------
(* Types. *)

\* From the choice of a position to its row, the worker has one.
SlotPoints == {"aim", "enter", "search", "persist"}
SlotChosen == \A j \in JobIds : job[j].pc \in SlotPoints => job[j].slot \in Nat

TypeInv == TypeOK /\ SlotChosen

\* Values the initial state and the handlers are built from.
LEMMA SettingsTypes ==
    ASSUME NEW s \in SettingsSpace
    PROVE  MinConfig(s) \in Configs /\ MaxConfig(s) \in Configs
BY SettingsAssumption

\* A job that a start call creates has the type of a job.
LEMMA NewJobType ==
    ASSUME NEW config \in Configs, NEW done \in SUBSET Nat, NEW target \in Nat
    PROVE  NewJob(config, done, target) \in Job
BY DEF NewJob, Job, WorkerPoints, JobStates, Stages

\* An empty slot of jobs_ or refinement_jobs_ has the type of a job, at rest.
LEMMA NoJobType == NoJob \in Job /\ NoJob.pc = "none" /\ ~NoJob.stopped /\ ~NoJob.cancel
<1> DEFINE first == CHOOSE s \in SettingsSpace : TRUE
<1>1. first \in SettingsSpace
  BY SettingsAssumption
<1>2. MinConfig(first) \in Configs
  BY <1>1, SettingsTypes
<1> HIDE DEF first
<1>3. NewJob(MinConfig(first), {}, 0) \in Job
  BY <1>2, NewJobType
<1>4. [NewJob(MinConfig(first), {}, 0) EXCEPT !.pc = "none"] \in Job
  BY <1>3 DEF Job
<1> USE DEF first
<1> QED
  BY <1>4 DEF NoJob, NewJob

\* A kind of job and a game name a slot.
LEMMA JobIdTypes ==
    ASSUME NEW k \in Kinds, NEW g \in Games
    PROVE  <<k, g>> \in JobIds
BY DEF JobIds

\* No call in progress has the type of a call.
LEMMA IdleType == Idle \in Call /\ Idle.pc = "idle"
<1> DEFINE g == CHOOSE g \in Games : TRUE
<1>1. g \in Games
  BY GamesAssumption
<1>2. NoJob.config \in Configs
  BY NoJobType DEF Job
<1>3. <<"minimum", g>> \in JobIds
  BY <1>1 DEF JobIds, Kinds
<1> HIDE DEF g
<1>4. [pc |-> "idle", then |-> "idle", kind |-> "minimum", game |-> g, ply |-> 0,
       config |-> NoJob.config, found |-> "none", todo |-> {}, join |-> {},
       victim |-> <<"minimum", g>>, mark |-> "never", affected |-> {}] \in Call
  BY <1>1, <1>2, <1>3 DEF Call, CallPoints, Continuations, Kinds, Statuses
<1> USE DEF g
<1> QED
  BY <1>4 DEF Idle

\* A call that begins to stop jobs keeps its type.
LEMMA StoppingType ==
    ASSUME NEW c \in Call, NEW todo \in SUBSET JobIds, NEW join \in SUBSET JobIds,
           NEW mark \in {"never", "live", "always"}, NEW then \in Continuations
    PROVE  Stopping(c, todo, join, mark, then) \in Call
BY DEF Stopping, Call, CallPoints

\* Position slots are natural numbers.
LEMMA SlotsType ==
    ASSUME NEW g \in Games
    PROVE  Slots(g) \subseteq Nat
BY LastSlotAssumption DEF Slots

\* The run a job writes to is in the table.
LEMMA RunOfType ==
    ASSUME TypeOK, NEW j \in JobIds
    PROVE  RunOf(j) \in RunIds /\ job[j] \in Job /\ j[2] \in Games
BY DEF TypeOK, JobIds, RunOf, RunIds, Job

\* The catch clause leaves a job, at one of the two reports, flags untouched.
LEMMA CaughtType ==
    ASSUME TypeOK, NEW j \in JobIds
    PROVE  /\ Caught(j) \in Job
           /\ Caught(j).pc \in {"reportCancelled", "reportFailed"}
           /\ Caught(j).cancel = job[j].cancel
           /\ Caught(j).stopped = job[j].stopped
BY RunOfType DEF Caught, Job, WorkerPoints, JobStates

-----------------------------------------------------------------------------
(* What a worker step can do, whichever it is. *)

\* The worker goes on as f: it is not revived, a cancel is not taken back, and
\* it never sets its own engine's cancelled flag.
Advances(j, f) ==
    /\ f \in Job
    /\ f.pc \in SlotPoints => f.slot \in Nat
    /\ f.pc \in WorkerPoints => Live(j)
    /\ f.cancel = job[j].cancel
    /\ f.stopped => job[j].stopped

\* The table stays a table and gains no run.
NoNewRun ==
    /\ runs' \in Tables
    /\ \A i \in RunIds : Present(runs', i) => Present(runs, i)

WorkerEffect(j) ==
    /\ \E f \in Job : Advances(j, f) /\ Worker(j, f)
    /\ NoNewRun
    /\ Unreported

\* A step that leaves the tables alone adds no run.
LEMMA RunsUnchanged ==
    ASSUME TypeOK, UNCHANGED runs
    PROVE  NoNewRun
BY DEF TypeOK, NoNewRun, Tables

\* The catch clause does not revive a worker or take a cancel back.
LEMMA CaughtAdvances ==
    ASSUME TypeInv, NEW j \in JobIds, Live(j)
    PROVE  Advances(j, Caught(j))
BY CaughtType DEF TypeInv, Advances, SlotPoints

\* An exception moves the worker to its catch clause and nothing else.
LEMMA ThrowEffect ==
    ASSUME TypeInv, NEW j \in JobIds, Live(j), Throw(j), Unreported
    PROVE  WorkerEffect(j)
<1>1. Caught(j) \in Job /\ Advances(j, Caught(j)) /\ Worker(j, Caught(j))
  BY CaughtType, CaughtAdvances DEF TypeInv, Throw
<1>2. NoNewRun
  BY RunsUnchanged DEF TypeInv, Throw
<1> QED
  BY <1>1, <1>2 DEF WorkerEffect

\* Most steps move the worker on and leave the table alone.
LEMMA MoveEffect ==
    ASSUME TypeInv, NEW j \in JobIds, NEW f \in Job, Advances(j, f), Worker(j, f),
           UNCHANGED runs, Unreported
    PROVE  WorkerEffect(j)
BY RunsUnchanged DEF TypeInv, WorkerEffect

\* Entering run_analysis or run_refinement_queue.
LEMMA BeginEffect ==
    ASSUME TypeInv, NEW j \in JobIds, Begin(j)
    PROVE  WorkerEffect(j)
<1>1. Live(j) /\ Unreported
  BY DEF Begin, Live, WorkerPoints
<1>2. CASE j[1] = "minimum" /\ job[j].cancel
  BY <1>1, <1>2, ThrowEffect DEF Begin
<1>3. CASE ~(j[1] = "minimum" /\ job[j].cancel)
  <2> DEFINE f == [job[j] EXCEPT !.state = "running", !.pc = "theory",
                                 !.engine = (j[1] = "refine")]
  <2>1. job[j] \in Job
    BY RunOfType DEF TypeInv
  <2>2. f \in Job
    BY <2>1 DEF Job, JobStates, WorkerPoints
  <2>3. Advances(j, f)
    BY <1>1, <2>1, <2>2 DEF Advances, SlotPoints, Job
  <2>4. Worker(j, f) /\ UNCHANGED runs
    BY <1>3 DEF Begin
  <2> QED
    BY <1>1, <2>2, <2>3, <2>4, MoveEffect
<1> QED
  BY <1>2, <1>3

\* A placeholder row for a book slot goes to a run that is there.
LEMMA SkipTheorySlotEffect ==
    ASSUME TypeInv, NEW j \in JobIds, SkipTheorySlot(j)
    PROVE  WorkerEffect(j)
<1>1. Live(j) /\ Unreported
  BY DEF SkipTheorySlot, Live, WorkerPoints
<1>2. job[j] \in Job /\ RunOf(j) \in RunIds /\ j[2] \in Games
  BY RunOfType DEF TypeInv
<1>3. PICK slot \in Least(TheorySkipped(j[2]) \ job[j].done) :
        LET done == job[j].done \cup {slot}
        IN  IF HasRun(j)
            THEN /\ Worker(j, [job[j] EXCEPT !.done = done])
                 /\ runs' = PersistRow(runs, RunOf(j), slot, CompletedMoves(j[2], done))
            ELSE Throw(j)
  BY DEF SkipTheorySlot
<1>4. slot \in Nat
  BY <1>2, <1>3, SlotsType DEF Least, TheorySkipped
<1>5. CASE ~HasRun(j)
  BY <1>1, <1>3, <1>5, ThrowEffect
<1>6. CASE HasRun(j)
  <2> DEFINE done == job[j].done \cup {slot}
             f == [job[j] EXCEPT !.done = done]
  <2>1. f \in Job
    BY <1>2, <1>4 DEF Job
  <2>2. Advances(j, f)
    BY <1>1, <1>2, <2>1 DEF Advances, TypeInv, SlotChosen, Job
  <2>3. Worker(j, f) /\ runs' = PersistRow(runs, RunOf(j), slot, CompletedMoves(j[2], done))
    BY <1>3, <1>6
  <2>4. CompletedMoves(j[2], done) \in Nat
    BY <1>2, CompletedMovesType
  <2>5. runs \in Tables
    BY DEF TypeInv, TypeOK, Tables
  <2>6. NoNewRun
    BY <1>2, <1>4, <1>6, <2>3, <2>4, <2>5, PersistRowType, PersistRowAddsNoRun
       DEF NoNewRun, HasRun
  <2> QED
    BY <1>1, <2>1, <2>2, <2>3, <2>6 DEF WorkerEffect
<1> QED
  BY <1>5, <1>6

\* Classifying after the book slots goes to a run that is there.
LEMMA EndTheoryEffect ==
    ASSUME TypeInv, NEW j \in JobIds, EndTheory(j)
    PROVE  WorkerEffect(j)
<1> DEFINE f == [job[j] EXCEPT !.pc = "pick"]
<1>1. Live(j) /\ Unreported
  BY DEF EndTheory, Live, WorkerPoints
<1>2. job[j] \in Job /\ RunOf(j) \in RunIds
  BY RunOfType DEF TypeInv
<1>3. f \in Job /\ Advances(j, f)
  BY <1>1, <1>2 DEF Job, Advances, WorkerPoints, SlotPoints
<1>4. CASE Worker(j, f) /\ UNCHANGED runs
  BY <1>1, <1>3, <1>4, MoveEffect
<1>5. CASE /\ Worker(j, f)
           /\ runs' = PersistClassifications(
                  runs, RunOf(j), CompletedMoves(j[2], job[j].done) = 0)
  <2>1. runs \in Tables
    BY DEF TypeInv, TypeOK, Tables
  <2>2. NoNewRun
    BY <1>2, <1>5, <2>1, PersistClassificationsType, PersistClassificationsAddsNoRun
       DEF NoNewRun
  <2> QED
    BY <1>1, <1>3, <1>5, <2>2 DEF WorkerEffect
<1>6. CASE Throw(j)
  BY <1>1, <1>6, ThrowEffect
<1> QED
  BY <1>4, <1>5, <1>6 DEF EndTheory

\* Visit sends the worker to a search or, without one, to the write.
LEMMA VisitEffect ==
    ASSUME TypeInv, NEW j \in JobIds, NEW f \in Job, Live(j),
           f.slot \in Nat, f.cancel = job[j].cancel, f.stopped => job[j].stopped,
           Visit(j, f), UNCHANGED runs, Unreported
    PROVE  WorkerEffect(j)
<1>1. PICK pc \in {"enter", "persist"} : Worker(j, [f EXCEPT !.pc = pc])
  BY DEF Visit
<1>2. [f EXCEPT !.pc = pc] \in Job
  BY DEF Job, WorkerPoints
<1>3. Advances(j, [f EXCEPT !.pc = pc])
  BY <1>2 DEF Advances, Job
<1> QED
  BY <1>1, <1>2, <1>3, MoveEffect

\* The preparation pass chooses a slot of its game, or ends.
LEMMA PickInOrderEffect ==
    ASSUME TypeInv, NEW j \in JobIds, PickInOrder(j)
    PROVE  WorkerEffect(j)
<1>1. Live(j) /\ Unreported /\ UNCHANGED runs
  BY DEF PickInOrder, Live, WorkerPoints
<1>2. job[j] \in Job /\ j[2] \in Games
  BY RunOfType DEF TypeInv
<1>3. CASE Worker(j, [job[j] EXCEPT !.pc = "publish"])
  <2> DEFINE f == [job[j] EXCEPT !.pc = "publish"]
  <2>1. f \in Job /\ Advances(j, f)
    BY <1>1, <1>2 DEF Job, Advances, WorkerPoints, SlotPoints
  <2> QED
    BY <1>1, <1>3, <2>1, MoveEffect
<1>4. CASE \E slot \in Least(RemainingInOrder(j)) :
               IF job[j].cancel
               THEN Worker(j, [Caught(j) EXCEPT !.slot = slot])
               ELSE Visit(j, [job[j] EXCEPT !.slot = slot])
  <2>1. PICK slot \in Least(RemainingInOrder(j)) :
               IF job[j].cancel
               THEN Worker(j, [Caught(j) EXCEPT !.slot = slot])
               ELSE Visit(j, [job[j] EXCEPT !.slot = slot])
    BY <1>4
  <2>2. slot \in Nat
    BY <1>2, SlotsType DEF Least, RemainingInOrder, Missing
  <2>3. CASE job[j].cancel
    <3> DEFINE f == [Caught(j) EXCEPT !.slot = slot]
    <3>1. Caught(j) \in Job /\ Advances(j, Caught(j))
      BY <1>1, CaughtAdvances, CaughtType DEF TypeInv
    <3>2. f \in Job
      BY <2>2, <3>1 DEF Job
    <3>3. Advances(j, f)
      BY <2>2, <3>1, <3>2 DEF Advances, Job
    <3> QED
      BY <1>1, <2>1, <2>3, <3>2, <3>3, MoveEffect
  <2>4. CASE ~job[j].cancel
    <3> DEFINE f == [job[j] EXCEPT !.slot = slot]
    <3>1. /\ f \in Job /\ f.slot \in Nat
          /\ f.cancel = job[j].cancel /\ f.stopped = job[j].stopped
      BY <1>2, <2>2 DEF Job
    <3>2. Visit(j, f)
      BY <2>1, <2>4
    <3> HIDE DEF f
    <3> QED
      BY <1>1, <3>1, <3>2, VisitEffect
  <2> QED
    BY <2>3, <2>4
<1> QED
  BY <1>3, <1>4 DEF PickInOrder

\* next_slot yields a position of the game.
LEMMA NextFocusedType ==
    ASSUME TypeOK, NEW j \in JobIds
    PROVE  NextFocused(j) \subseteq Nat
<1>1. Missing(j) \subseteq Nat
  BY RunOfType, SlotsType DEF Missing
<1> QED
  BY <1>1 DEF NextFocused, Least, Greatest

\* The refinement chooses a slot of its game, or ends.
LEMMA PickFocusedEffect ==
    ASSUME TypeInv, NEW j \in JobIds, PickFocused(j)
    PROVE  WorkerEffect(j)
<1>1. Live(j) /\ Unreported /\ UNCHANGED runs
  BY DEF PickFocused, Live, WorkerPoints
<1>2. job[j] \in Job /\ j[2] \in Games
  BY RunOfType DEF TypeInv
<1>3. CASE Worker(j, Caught(j))
  BY <1>1, <1>3, CaughtAdvances, CaughtType, MoveEffect DEF TypeInv
<1>4. CASE Worker(j, [job[j] EXCEPT !.pc = "publish"])
  <2> DEFINE f == [job[j] EXCEPT !.pc = "publish"]
  <2>1. f \in Job /\ Advances(j, f)
    BY <1>1, <1>2 DEF Job, Advances, WorkerPoints, SlotPoints
  <2> QED
    BY <1>1, <1>4, <2>1, MoveEffect
<1>5. CASE \E slot \in NextFocused(j) :
               Worker(j, [job[j] EXCEPT !.slot = slot, !.pc = "aim"])
  <2>1. PICK slot \in NextFocused(j) :
            Worker(j, [job[j] EXCEPT !.slot = slot, !.pc = "aim"])
    BY <1>5
  <2> DEFINE f == [job[j] EXCEPT !.slot = slot, !.pc = "aim"]
  <2>2. slot \in Nat
    BY NextFocusedType DEF TypeInv
  <2>3. f \in Job
    BY <1>2, <2>2 DEF Job, WorkerPoints
  <2>4. Advances(j, f)
    BY <1>1, <1>2, <2>2, <2>3 DEF Job, Advances
  <2> QED
    BY <1>1, <2>1, <2>3, <2>4, MoveEffect
<1> QED
  BY <1>3, <1>4, <1>5 DEF PickFocused

\* Reading target_generation changes the worker alone.
LEMMA AimEffect ==
    ASSUME TypeInv, NEW j \in JobIds, Aim(j)
    PROVE  WorkerEffect(j)
<1> DEFINE f == [job[j] EXCEPT !.retargeted = FALSE]
<1>1. Live(j) /\ Unreported /\ UNCHANGED runs /\ job[j].slot \in Nat
  BY DEF Aim, Live, WorkerPoints, TypeInv, SlotChosen, SlotPoints
<1>2. job[j] \in Job
  BY RunOfType DEF TypeInv
<1>3. /\ f \in Job /\ f.slot \in Nat
      /\ f.cancel = job[j].cancel /\ f.stopped = job[j].stopped
  BY <1>1, <1>2 DEF Job
<1>4. Visit(j, f)
  BY DEF Aim
<1> HIDE DEF f
<1> QED
  BY <1>1, <1>3, <1>4, VisitEffect

\* analyze() clears the cancelled flag, never sets it.
LEMMA EnterSearchEffect ==
    ASSUME TypeInv, NEW j \in JobIds, EnterSearch(j)
    PROVE  WorkerEffect(j)
<1> DEFINE f == [job[j] EXCEPT !.engine = TRUE, !.stopped = FALSE, !.pc = "search"]
<1>1. Live(j) /\ Unreported /\ UNCHANGED runs /\ job[j].slot \in Nat
  BY DEF EnterSearch, Live, WorkerPoints, TypeInv, SlotChosen, SlotPoints
<1>2. job[j] \in Job
  BY RunOfType DEF TypeInv
<1>3. f \in Job /\ Advances(j, f)
  BY <1>1, <1>2 DEF Job, Advances, WorkerPoints
<1>4. Worker(j, f)
  BY DEF EnterSearch
<1> QED
  BY <1>1, <1>3, <1>4, MoveEffect

\* After a search comes the write or the next stage.
LEMMA SearchedEffect ==
    ASSUME TypeInv, NEW j \in JobIds, NEW f \in Job, Live(j),
           f.slot \in Nat, f.cancel = job[j].cancel, f.stopped => job[j].stopped,
           Searched(j, f), UNCHANGED runs, Unreported
    PROVE  WorkerEffect(j)
<1>1. CASE Worker(j, [f EXCEPT !.pc = "persist", !.stage = "scout"])
  <2> DEFINE e == [f EXCEPT !.pc = "persist", !.stage = "scout"]
  <2>1. e \in Job
    BY DEF Job, WorkerPoints, Stages
  <2>2. Advances(j, e)
    BY <2>1 DEF Advances, Job
  <2> QED
    BY <1>1, <2>1, <2>2, MoveEffect
<1>2. CASE \E next \in NextStages(j) :
               Worker(j, [f EXCEPT !.stage = next, !.pc = "enter"])
  <2>1. PICK next \in NextStages(j) :
               Worker(j, [f EXCEPT !.stage = next, !.pc = "enter"])
    BY <1>2
  <2> DEFINE e == [f EXCEPT !.stage = next, !.pc = "enter"]
  <2>2. next \in Stages
    BY <2>1 DEF NextStages, Stages
  <2>3. e \in Job
    BY <2>2 DEF Job, WorkerPoints
  <2>4. Advances(j, e)
    BY <2>3 DEF Advances, Job
  <2> QED
    BY <2>1, <2>3, <2>4, MoveEffect
<1> QED
  BY <1>1, <1>2 DEF Searched

\* A search that ran to its end changes the worker alone.
LEMMA SearchDoneEffect ==
    ASSUME TypeInv, NEW j \in JobIds, SearchDone(j)
    PROVE  WorkerEffect(j)
<1>1. Live(j) /\ Unreported /\ UNCHANGED runs /\ job[j].slot \in Nat
  BY DEF SearchDone, Live, WorkerPoints, TypeInv, SlotChosen, SlotPoints
<1>2. job[j] \in Job /\ Searched(j, job[j])
  BY RunOfType DEF TypeInv, SearchDone
<1> QED
  BY <1>1, <1>2, SearchedEffect

\* A cached scout changes the worker alone.
LEMMA ScoutCachedEffect ==
    ASSUME TypeInv, NEW j \in JobIds, ScoutCached(j)
    PROVE  WorkerEffect(j)
<1> DEFINE f == [job[j] EXCEPT !.engine = TRUE]
<1>1. Live(j) /\ Unreported /\ UNCHANGED runs /\ job[j].slot \in Nat
  BY DEF ScoutCached, Live, WorkerPoints, TypeInv, SlotChosen, SlotPoints
<1>2. job[j] \in Job
  BY RunOfType DEF TypeInv
<1>3. /\ f \in Job /\ f.slot \in Nat
      /\ f.cancel = job[j].cancel /\ f.stopped = job[j].stopped
  BY <1>1, <1>2 DEF Job
<1>4. Searched(j, f)
  BY DEF ScoutCached
<1> HIDE DEF f
<1> QED
  BY <1>1, <1>3, <1>4, SearchedEffect

\* A search that was cut short or threw sends the worker on or out.
LEMMA BackEffect ==
    ASSUME TypeInv, NEW j \in JobIds, Live(j), UNCHANGED runs, Unreported,
           \/ Worker(j, Caught(j))
           \/ Worker(j, Dropped(j))
    PROVE  WorkerEffect(j)
<1>1. job[j] \in Job
  BY RunOfType DEF TypeInv
<1>2. Dropped(j) \in Job /\ Advances(j, Dropped(j))
  BY <1>1 DEF Dropped, Job, Advances, WorkerPoints, SlotPoints, Stages
<1>3. CASE Worker(j, Dropped(j))
  BY <1>2, <1>3, MoveEffect
<1>4. CASE Worker(j, Caught(j))
  BY <1>4, CaughtAdvances, CaughtType, MoveEffect DEF TypeInv
<1> QED
  BY <1>3, <1>4

\* An interrupted or aborted search sends the worker on or out.
LEMMA SearchCutEffect ==
    ASSUME TypeInv, NEW j \in JobIds, SearchInterrupted(j) \/ SearchAborted(j)
    PROVE  WorkerEffect(j)
<1>1. Live(j) /\ Unreported /\ UNCHANGED runs
  BY DEF SearchInterrupted, SearchAborted, Live, WorkerPoints
<1>2. \/ Worker(j, Caught(j))
      \/ Worker(j, Dropped(j))
  BY DEF SearchInterrupted, SearchAborted
<1> QED
  BY <1>1, <1>2, BackEffect

\* The steps that end with an update of the worker's own run.
LEMMA WriteEffect ==
    ASSUME TypeInv, NEW j \in JobIds, NEW f \in Job, Advances(j, f), Worker(j, f),
           Unreported, NoNewRun
    PROVE  WorkerEffect(j)
BY DEF WorkerEffect

\* persist_engine_result writes to a run that is there, or throws.
LEMMA PersistSlotEffect ==
    ASSUME TypeInv, NEW j \in JobIds, PersistSlot(j)
    PROVE  WorkerEffect(j)
<1> DEFINE slot == job[j].slot
           done == job[j].done \cup {slot}
           plies == CompletedMoves(j[2], done)
           rebuild == j[1] = "minimum" /\ ~IsFen(j[2]) /\ plies > 0
           f == [job[j] EXCEPT !.done = done,
                               !.pc = IF rebuild THEN "rebuild" ELSE "pick"]
<1>1. Live(j) /\ Unreported /\ slot \in Nat
  BY DEF PersistSlot, Live, WorkerPoints, TypeInv, SlotChosen, SlotPoints
<1>2. job[j] \in Job /\ RunOf(j) \in RunIds /\ j[2] \in Games
  BY RunOfType DEF TypeInv
<1>3. CASE ~HasRun(j)
  BY <1>1, <1>3, ThrowEffect DEF PersistSlot
<1>4. CASE HasRun(j)
  <2>1. plies \in Nat
    BY <1>2, CompletedMovesType
  <2>2. Worker(j, f) /\ runs' = PersistRow(runs, RunOf(j), slot, plies)
    BY <1>4 DEF PersistSlot
  <2>3. done \in SUBSET Nat
    BY <1>1, <1>2 DEF Job
  <2> HIDE DEF done, rebuild, plies
  <2>4. f \in Job
    BY <1>2, <2>3 DEF Job, WorkerPoints
  <2>5. Advances(j, f)
    BY <1>1, <1>2, <2>4 DEF Advances, Job, SlotPoints
  <2>6. runs \in Tables
    BY DEF TypeInv, TypeOK, Tables
  <2>7. NoNewRun
    BY <1>1, <1>2, <1>4, <2>1, <2>2, <2>6, PersistRowType, PersistRowAddsNoRun
       DEF NoNewRun, HasRun
  <2> QED
    BY <1>1, <2>2, <2>4, <2>5, <2>7, WriteEffect
<1> QED
  BY <1>3, <1>4

\* rebuild_classification writes to a run that is there, or throws.
LEMMA ClassifyEffect ==
    ASSUME TypeInv, NEW j \in JobIds, RebuildPrefix(j) \/ Publish(j)
    PROVE  WorkerEffect(j)
<1>1. Live(j) /\ Unreported
  BY DEF RebuildPrefix, Publish, Live, WorkerPoints
<1>2. job[j] \in Job /\ RunOf(j) \in RunIds
  BY RunOfType DEF TypeInv
<1>3. CASE Throw(j)
  BY <1>1, <1>3, ThrowEffect
<1>4. CASE ~Throw(j)
  <2>1. PICK pc \in {"pick", "complete"}, final \in BOOLEAN :
            /\ Worker(j, [job[j] EXCEPT !.pc = pc])
            /\ runs' = PersistClassifications(runs, RunOf(j), final)
    BY <1>4 DEF RebuildPrefix, Publish
  <2> DEFINE f == [job[j] EXCEPT !.pc = pc]
  <2>2. f \in Job /\ Advances(j, f)
    BY <1>1, <1>2 DEF Job, Advances, WorkerPoints, SlotPoints
  <2>3. runs \in Tables
    BY DEF TypeInv, TypeOK, Tables
  <2>4. NoNewRun
    BY <1>2, <2>1, <2>3, PersistClassificationsType, PersistClassificationsAddsNoRun
       DEF NoNewRun
  <2> QED
    BY <1>1, <2>1, <2>2, <2>4, WriteEffect
<1> QED
  BY <1>3, <1>4

\* Marking the run complete adds no run.
LEMMA CompleteEffect ==
    ASSUME TypeInv, NEW j \in JobIds, Complete(j)
    PROVE  WorkerEffect(j)
<1> DEFINE f == [job[j] EXCEPT !.pc = "prune"]
<1>1. Live(j) /\ Unreported /\ Worker(j, f)
  BY DEF Complete, Live, WorkerPoints
<1>2. job[j] \in Job /\ RunOf(j) \in RunIds
  BY RunOfType DEF TypeInv
<1>3. f \in Job /\ Advances(j, f)
  BY <1>1, <1>2 DEF Job, Advances, WorkerPoints, SlotPoints
<1>4. runs \in Tables /\ "complete" \in Statuses
  BY DEF TypeInv, TypeOK, Tables, Statuses
<1>5. NoNewRun
  BY <1>2, <1>4, SetStatusType, SetStatusAddsNoRun DEF NoNewRun, Complete
<1> QED
  BY <1>1, <1>3, <1>5, WriteEffect

\* Dropping the other runs of the game adds no run.
LEMMA PruneEffect ==
    ASSUME TypeInv, NEW j \in JobIds, Prune(j)
    PROVE  WorkerEffect(j)
<1> DEFINE f == [job[j] EXCEPT !.state = "completed", !.pc = "stop"]
<1>1. Live(j) /\ Unreported /\ Worker(j, f)
  BY DEF Prune, Live, WorkerPoints
<1>2. job[j] \in Job
  BY RunOfType DEF TypeInv
<1>3. f \in Job /\ Advances(j, f)
  BY <1>1, <1>2 DEF Job, JobStates, Advances, WorkerPoints, SlotPoints
<1>4. runs \in Tables
  BY DEF TypeInv, TypeOK, Tables
<1>5. NoNewRun
  BY <1>4, PruneExceptType, PruneExceptAddsNoRun DEF NoNewRun, Prune
<1> QED
  BY <1>1, <1>3, <1>5, WriteEffect

\* Reporting a cancel or an error adds no run.
LEMMA ReportEffect ==
    ASSUME TypeInv, NEW j \in JobIds, NEW pc \in {"reportCancelled", "reportFailed"},
           NEW status \in {"cancelled", "error"}, Report(j, pc, status)
    PROVE  WorkerEffect(j)
<1> DEFINE f == [job[j] EXCEPT !.pc = "stop"]
<1>1. Live(j) /\ Unreported /\ Worker(j, f)
  BY DEF Report, Live, WorkerPoints
<1>2. job[j] \in Job /\ RunOf(j) \in RunIds
  BY RunOfType DEF TypeInv
<1>3. f \in Job /\ Advances(j, f)
  BY <1>1, <1>2 DEF Job, Advances, WorkerPoints, SlotPoints
<1>4. runs \in Tables /\ status \in Statuses
  BY DEF TypeInv, TypeOK, Tables, Statuses
<1>5. NoNewRun
  <2>1. CASE UNCHANGED runs
    BY <2>1, RunsUnchanged DEF TypeInv
  <2>2. CASE runs' = SetStatus(runs, RunOf(j), status)
    BY <1>2, <1>4, <2>2, SetStatusType, SetStatusAddsNoRun DEF NoNewRun
  <2> QED
    BY <2>1, <2>2 DEF Report
<1> QED
  BY <1>1, <1>3, <1>5, WriteEffect

\* A finished worker is no longer live.
LEMMA FinishEffect ==
    ASSUME TypeInv, NEW j \in JobIds, Finish(j)
    PROVE  WorkerEffect(j)
<1> DEFINE n == NewJob(job[j].config, {}, 0)
           f == [n EXCEPT !.pc = "finished", !.state = job[j].state, !.cancel = job[j].cancel]
<1>1. Unreported /\ UNCHANGED runs /\ Worker(j, f)
  BY DEF Finish
<1>2. job[j] \in Job
  BY RunOfType DEF TypeInv
<1>3. n \in Job
  BY <1>2, NewJobType DEF Job
<1>4. ~n.stopped
  BY DEF NewJob
<1> HIDE DEF n
<1>5. f \in Job
  BY <1>2, <1>3 DEF Job
<1>6. Advances(j, f)
  BY <1>3, <1>4, <1>5 DEF Job, Advances, WorkerPoints, SlotPoints
<1> QED
  BY <1>1, <1>5, <1>6, MoveEffect

\* A database call that throws leads to the catch clause.
LEMMA FaultEffect ==
    ASSUME TypeInv, NEW j \in JobIds, Fault(j)
    PROVE  WorkerEffect(j)
BY ThrowEffect DEF Fault, Live, WorkerPoints

\* Every step of a worker has the effect described above.
LEMMA WorkerStepEffect ==
    ASSUME TypeInv, NEW j \in JobIds, WorkerStep(j)
    PROVE  WorkerEffect(j)
BY BeginEffect, SkipTheorySlotEffect, EndTheoryEffect, PickInOrderEffect,
   PickFocusedEffect, AimEffect, EnterSearchEffect, SearchDoneEffect,
   ScoutCachedEffect, SearchCutEffect, PersistSlotEffect, ClassifyEffect,
   CompleteEffect, PruneEffect, ReportEffect, FinishEffect, FaultEffect
   DEF WorkerStep

-----------------------------------------------------------------------------
(* The inductive invariant behind the safety properties. *)

\* A call at one of these points is stopping jobs.
Stops == {"cancel", "stopEngine", "join"}

\* The jobs that must not run any more when the call goes on at then.
MustBeGone(then) ==
    {j \in JobIds :
        \/ then = "takeOver" /\ j = <<"minimum", call.game>>
        \/ /\ then = "spawn"
           /\ \/ j = Slot
              \/ call.kind = "refine" /\ (j[1] = "refine" \/ j = <<"minimum", call.game>>)
        \/ then = "deleteRows" /\ j[2] = call.game
        \/ then \in {"closeProfile", "closeAll"} /\ j[1] = "minimum" /\ j[2] \in call.affected
        \/ then \in {"removeGames", "reopen"} /\ j[2] \in call.affected}

\* While the call stops jobs, it is going to join those that still run; past
\* the join they have ended.
JoinsEnough ==
    IF call.pc \in Stops
    THEN \A j \in MustBeGone(call.then) : Live(j) => j \in call.join
    ELSE \A j \in MustBeGone(call.pc) : ~Live(j)

\* The destructor means every game.
DestructorStopsAll ==
    \/ call.pc \in {"closeAll", "reopen"}
    \/ call.pc \in Stops /\ call.then \in {"closeAll", "reopen"}
    => call.affected = Games

\* A job that is to be joined is still to be cancelled, or was.
CancelsFirst ==
    call.pc \in Stops =>
        /\ \A j \in call.join \ call.todo : Live(j) => job[j].cancel
        /\ call.pc = "stopEngine" => job[call.victim].cancel
        /\ call.pc = "join" => call.todo = {}

\* Which handler a point belongs to.
KindOfCall ==
    /\ \/ call.pc \in {"yield", "takeOver", "retarget", "compare", "preempt"}
       \/ call.pc \in Stops /\ call.then \in {"takeOver", "retarget"}
       => call.kind = "refine"
    /\ call.pc = "resume" => call.kind = "minimum"

\* The engine of a preparation pass is not stopped before cancel_requested.
StoppedIsCancelled ==
    \A j \in JobIds : j[1] = "minimum" /\ job[j].stopped => job[j].cancel

\* A run is only inserted for a game that exists.
GameExists == call.pc \in {"prepare", "claim"} => call.game \in games

IInv == /\ TypeInv
        /\ OneLiveRefinement
        /\ JoinsEnough
        /\ DestructorStopsAll
        /\ CancelsFirst
        /\ KindOfCall
        /\ StoppedIsCancelled
        /\ GameExists
        /\ NoOrphanRun

\* A process that has just started satisfies the invariant.
LEMMA InitInv == Init => IInv
<1> SUFFICES ASSUME Init PROVE IInv
  OBVIOUS
<1>1. TypeOK
  <2>1. runs \in [RunIds -> Run]
    BY NoRunType DEF Init
  <2>2. job \in [JobIds -> Job]
    BY NoJobType DEF Init
  <2> QED
    BY <2>1, <2>2, IdleType DEF Init, TypeOK
<1>2. \A j \in JobIds : job[j] = NoJob
  BY DEF Init
<1>3. \A j \in JobIds : ~Live(j) /\ ~job[j].stopped /\ job[j].pc = "none"
  BY <1>2, NoJobType DEF Live, WorkerPoints
<1>4. call.pc = "idle"
  BY IdleType DEF Init
<1>5. TypeInv
  BY <1>1, <1>3 DEF TypeInv, SlotChosen, SlotPoints
<1>6. OneLiveRefinement /\ StoppedIsCancelled
  BY <1>3 DEF OneLiveRefinement, StoppedIsCancelled
<1>7. JoinsEnough /\ DestructorStopsAll /\ CancelsFirst /\ KindOfCall /\ GameExists
  BY <1>3, <1>4 DEF JoinsEnough, MustBeGone, DestructorStopsAll, CancelsFirst, KindOfCall,
                    GameExists, Stops
<1>8. NoOrphanRun
  BY DEF Init, NoOrphanRun, Present, NoRun
<1> QED
  BY <1>5, <1>6, <1>7, <1>8 DEF IInv

-----------------------------------------------------------------------------
(* Worker steps keep the invariant. *)

\* No step of a worker breaks the invariant.
LEMMA WorkerKeepsInv ==
    ASSUME IInv, NEW j \in JobIds, WorkerEffect(j)
    PROVE  IInv'
<1>1. PICK f \in Job : Advances(j, f) /\ Worker(j, f)
  BY DEF WorkerEffect
<1>2. NoNewRun /\ Unreported
  BY DEF WorkerEffect
<1>3. job \in [JobIds -> Job] /\ runs \in [RunIds -> Run] /\ call \in Call
  BY DEF IInv, TypeInv, TypeOK
<1>4. job' = [job EXCEPT ![j] = f]
  BY <1>1 DEF Worker
<1>5. \A k \in JobIds : Live(k)' => Live(k)
  BY <1>1, <1>3, <1>4 DEF Advances, Live
<1>6. \A k \in JobIds : job'[k].cancel = job[k].cancel
  BY <1>1, <1>3, <1>4 DEF Advances
<1>7. \A k \in JobIds : job'[k].stopped => job[k].stopped
  BY <1>1, <1>3, <1>4 DEF Advances
<1>8. TypeInv'
  <2>1. TypeOK'
    BY <1>2, <1>3, <1>4 DEF IInv, TypeInv, TypeOK, Unreported, NoNewRun, Tables
  <2>2. SlotChosen'
    BY <1>1, <1>3, <1>4 DEF IInv, TypeInv, SlotChosen, Advances
  <2> QED
    BY <2>1, <2>2 DEF TypeInv
<1>9. OneLiveRefinement'
  BY <1>5 DEF IInv, OneLiveRefinement
<1>10. StoppedIsCancelled'
  BY <1>6, <1>7 DEF IInv, StoppedIsCancelled
<1>11. call' = call /\ games' = games
  BY <1>2 DEF Unreported
<1>12. JoinsEnough'
  BY <1>5, <1>11 DEF IInv, JoinsEnough, MustBeGone, Slot
<1>13. CancelsFirst'
  BY <1>3, <1>5, <1>6, <1>11 DEF IInv, CancelsFirst, Call
<1>14. DestructorStopsAll' /\ KindOfCall' /\ GameExists'
  BY <1>11 DEF IInv, DestructorStopsAll, KindOfCall, GameExists
<1>15. NoOrphanRun'
  BY <1>2, <1>11 DEF IInv, NoOrphanRun, NoNewRun, Present
<1> QED
  BY <1>8, <1>9, <1>10, <1>12, <1>13, <1>14, <1>15 DEF IInv

-----------------------------------------------------------------------------
(* Steps of a call that only move the call on. *)

\* A step of the call alone keeps what is said of jobs and runs.
LEMMA QuietKeepsRest ==
    ASSUME IInv, Quiet, call' \in Call
    PROVE  /\ TypeInv' /\ OneLiveRefinement' /\ StoppedIsCancelled' /\ NoOrphanRun'
           /\ \A j \in JobIds : Live(j)' <=> Live(j)
<1>1. UNCHANGED <<games, settings, runs, job>>
  BY DEF Quiet
<1>2. TypeInv'
  BY <1>1 DEF IInv, TypeInv, TypeOK, SlotChosen
<1>3. OneLiveRefinement' /\ \A j \in JobIds : Live(j)' <=> Live(j)
  BY <1>1 DEF IInv, OneLiveRefinement, Live
<1>4. StoppedIsCancelled' /\ NoOrphanRun'
  BY <1>1 DEF IInv, StoppedIsCancelled, NoOrphanRun, Present
<1> QED
  BY <1>2, <1>3, <1>4

\* Back at idle, only the facts about jobs and runs matter.
LEMMA IdleKeepsInv ==
    ASSUME TypeInv', OneLiveRefinement', StoppedIsCancelled', NoOrphanRun',
           call'.pc = "idle"
    PROVE  IInv'
<1>1. JoinsEnough'
  BY DEF JoinsEnough, MustBeGone, Stops
<1>2. DestructorStopsAll' /\ CancelsFirst' /\ KindOfCall' /\ GameExists'
  BY DEF DestructorStopsAll, CancelsFirst, KindOfCall, GameExists, Stops
<1> QED
  BY <1>1, <1>2 DEF IInv

\* A call begins to stop jobs: it suffices that it tells the live ones to stop
\* and joins those that must be gone when it goes on.
LEMMA StoppingKeepsInv ==
    ASSUME IInv, Quiet,
           NEW c \in Call, NEW todo \in SUBSET JobIds, NEW join \in SUBSET JobIds,
           NEW mark \in {"never", "live", "always"}, NEW then \in Continuations,
           call' = Stopping(c, todo, join, mark, then),
           \A j \in join : Live(j) => j \in todo,
           \A j \in MustBeGone(then)' : Live(j) => j \in join,
           then \in {"closeAll", "reopen"} => c.affected = Games,
           then \in {"takeOver", "retarget"} => c.kind = "refine"
    PROVE  IInv'
<1>1. call' \in Call
  BY StoppingType
<1>2. /\ call'.pc = "cancel" /\ call'.todo = todo /\ call'.join = join
      /\ call'.then = then /\ call'.affected = c.affected /\ call'.kind = c.kind
  BY DEF Stopping, Call
<1>3. /\ TypeInv' /\ OneLiveRefinement' /\ StoppedIsCancelled' /\ NoOrphanRun'
      /\ \A j \in JobIds : Live(j)' <=> Live(j)
  BY <1>1, QuietKeepsRest
<1>4. JoinsEnough'
  BY <1>2, <1>3 DEF JoinsEnough, MustBeGone, Stops
<1>5. CancelsFirst'
  BY <1>2, <1>3 DEF CancelsFirst, Stops
<1>6. DestructorStopsAll' /\ KindOfCall' /\ GameExists'
  BY <1>2 DEF DestructorStopsAll, KindOfCall, GameExists, Stops
<1> QED
  BY <1>3, <1>4, <1>5, <1>6 DEF IInv

-----------------------------------------------------------------------------
(* Cancel, StopEngine, Join. *)

\* Setting cancel_requested of the next job.
LEMMA CancelKeepsInv ==
    ASSUME IInv, Cancel
    PROVE  IInv'
<1>1. /\ call \in Call /\ job \in [JobIds -> Job] /\ call.pc = "cancel"
      /\ UNCHANGED <<games, settings, runs>>
  BY DEF Cancel, IInv, TypeInv, TypeOK
<1>2. CASE call.todo = {}
  <2>1. call' = [call EXCEPT !.pc = "join"] /\ UNCHANGED job
    BY <1>2 DEF Cancel
  <2>2. call' \in Call
    BY <1>1, <2>1 DEF Call, CallPoints
  <2>3. /\ TypeInv' /\ OneLiveRefinement' /\ StoppedIsCancelled' /\ NoOrphanRun'
        /\ \A j \in JobIds : Live(j)' <=> Live(j)
    BY <1>1, <2>1, <2>2, QuietKeepsRest DEF Quiet
  <2>4. /\ call'.pc = "join" /\ call'.then = call.then /\ call'.join = call.join
        /\ call'.todo = {} /\ call'.kind = call.kind /\ call'.game = call.game
        /\ call'.affected = call.affected
    BY <1>1, <1>2, <2>1 DEF Call
  <2>5. JoinsEnough'
    BY <1>1, <2>3, <2>4 DEF IInv, JoinsEnough, MustBeGone, Slot, Stops
  <2>6. CancelsFirst'
    BY <1>1, <1>2, <2>1, <2>3, <2>4 DEF IInv, CancelsFirst, Stops, Call
  <2>7. DestructorStopsAll' /\ KindOfCall' /\ GameExists'
    BY <1>1, <2>4 DEF IInv, DestructorStopsAll, KindOfCall, GameExists, Stops
  <2> QED
    BY <2>3, <2>5, <2>6, <2>7 DEF IInv
<1>3. CASE call.todo # {}
  <2>1. PICK v \in call.todo, s \in JobStates :
            /\ job' = [job EXCEPT ![v].cancel = TRUE, ![v].state = s]
            /\ call' = [call EXCEPT !.pc = "stopEngine", !.victim = v, !.todo = @ \ {v}]
    <3>1. PICK v \in call.todo :
            LET marked == call.mark = "always" \/ (call.mark = "live" /\ Live(v))
            IN  /\ job' = [job EXCEPT ![v].cancel = TRUE,
                                      ![v].state = IF marked THEN "cancelling" ELSE @]
                /\ call' = [call EXCEPT !.pc = "stopEngine", !.victim = v, !.todo = @ \ {v}]
      BY <1>3 DEF Cancel
    <3>2. v \in JobIds /\ job[v].state \in JobStates /\ "cancelling" \in JobStates
      BY <1>1 DEF Call, Job, JobStates
    <3>3. CASE call.mark = "always" \/ (call.mark = "live" /\ Live(v))
      BY <1>1, <3>1, <3>2, <3>3
    <3>4. CASE ~(call.mark = "always" \/ (call.mark = "live" /\ Live(v)))
      <4>1. job' = [job EXCEPT ![v].cancel = TRUE, ![v].state = job[v].state]
        BY <1>1, <3>1, <3>2, <3>4
      <4> QED
        BY <3>1, <3>2, <4>1
    <3> QED
      BY <3>3, <3>4
  <2>2. v \in JobIds
    BY <1>1 DEF Call
  <2>3. call' \in Call
    BY <1>1, <2>1, <2>2 DEF Call, CallPoints
  <2>4. job' \in [JobIds -> Job]
    <3> DEFINE f == [job[v] EXCEPT !.cancel = TRUE, !.state = s]
    <3>1. f \in Job
      BY <1>1, <2>1, <2>2 DEF Job
    <3>2. job' = [job EXCEPT ![v] = f]
      BY <1>1, <2>1, <2>2
    <3> QED
      BY <1>1, <2>2, <3>1, <3>2
  <2>5. \A j \in JobIds : /\ job'[j].pc = job[j].pc /\ job'[j].slot = job[j].slot
                          /\ job'[j].stopped = job[j].stopped
                          /\ job[j].cancel => job'[j].cancel
    BY <1>1, <2>1, <2>2 DEF Job
  <2>6. job'[v].cancel
    BY <1>1, <2>1, <2>2 DEF Job
  <2>7. \A j \in JobIds : Live(j)' <=> Live(j)
    BY <2>5 DEF Live
  <2>8. TypeInv'
    BY <1>1, <2>3, <2>4, <2>5 DEF IInv, TypeInv, TypeOK, SlotChosen
  <2>9. OneLiveRefinement' /\ StoppedIsCancelled' /\ NoOrphanRun'
    BY <1>1, <2>5, <2>7 DEF IInv, OneLiveRefinement, StoppedIsCancelled, NoOrphanRun, Present
  <2>10. /\ call'.pc = "stopEngine" /\ call'.then = call.then /\ call'.join = call.join
         /\ call'.todo = call.todo \ {v} /\ call'.kind = call.kind /\ call'.game = call.game
         /\ call'.affected = call.affected /\ call'.victim = v
    BY <1>1, <2>1 DEF Call
  <2>11. JoinsEnough'
    BY <1>1, <2>7, <2>10 DEF IInv, JoinsEnough, MustBeGone, Slot, Stops
  <2>12. CancelsFirst'
    BY <1>1, <2>5, <2>6, <2>7, <2>10 DEF IInv, CancelsFirst, Stops, Call
  <2>13. DestructorStopsAll' /\ KindOfCall' /\ GameExists'
    BY <1>1, <2>10 DEF IInv, DestructorStopsAll, KindOfCall, GameExists, Stops
  <2> QED
    BY <2>8, <2>9, <2>11, <2>12, <2>13 DEF IInv
<1> QED
  BY <1>2, <1>3

\* Cancelling the engine of the job just told to stop.
LEMMA StopEngineKeepsInv ==
    ASSUME IInv, StopEngine
    PROVE  IInv'
<1> DEFINE v == call.victim
<1>1. /\ call \in Call /\ job \in [JobIds -> Job] /\ call.pc = "stopEngine"
      /\ UNCHANGED <<games, settings, runs>> /\ v \in JobIds
      /\ job' = [job EXCEPT ![v].stopped = Live(v)]
      /\ call' = [call EXCEPT !.pc = "cancel"]
  BY DEF StopEngine, IInv, TypeInv, TypeOK, Call
<1>2. job' \in [JobIds -> Job]
  <2> DEFINE f == [job[v] EXCEPT !.stopped = Live(v)]
  <2>1. Live(v) \in BOOLEAN
    BY DEF Live
  <2>2. f \in Job
    BY <1>1, <2>1 DEF Job
  <2>3. job' = [job EXCEPT ![v] = f]
    BY <1>1
  <2> QED
    BY <1>1, <2>2, <2>3
<1>3. \A j \in JobIds : /\ job'[j].pc = job[j].pc /\ job'[j].slot = job[j].slot
                        /\ job'[j].cancel = job[j].cancel
                        /\ j # v => job'[j].stopped = job[j].stopped
  BY <1>1 DEF Job
<1>4. job[v].cancel
  BY <1>1 DEF IInv, CancelsFirst, Stops
<1>5. \A j \in JobIds : Live(j)' <=> Live(j)
  BY <1>3 DEF Live
<1>6. call' \in Call
  BY <1>1 DEF Call, CallPoints
<1>7. TypeInv'
  BY <1>1, <1>2, <1>3, <1>6 DEF IInv, TypeInv, TypeOK, SlotChosen
<1>8. StoppedIsCancelled'
  BY <1>3, <1>4 DEF IInv, StoppedIsCancelled
<1>9. OneLiveRefinement' /\ NoOrphanRun'
  BY <1>1, <1>5 DEF IInv, OneLiveRefinement, NoOrphanRun, Present
<1>10. /\ call'.pc = "cancel" /\ call'.then = call.then /\ call'.join = call.join
       /\ call'.todo = call.todo /\ call'.kind = call.kind /\ call'.game = call.game
       /\ call'.affected = call.affected
  BY <1>1 DEF Call
<1>11. JoinsEnough'
  BY <1>1, <1>5, <1>10 DEF IInv, JoinsEnough, MustBeGone, Slot, Stops
<1>12. CancelsFirst'
  BY <1>1, <1>3, <1>5, <1>10 DEF IInv, CancelsFirst, Stops, Call
<1>13. DestructorStopsAll' /\ KindOfCall' /\ GameExists'
  BY <1>1, <1>10 DEF IInv, DestructorStopsAll, KindOfCall, GameExists, Stops
<1> QED
  BY <1>7, <1>8, <1>9, <1>11, <1>12, <1>13 DEF IInv

\* Joining: what is joined has ended, and the rest is as it was.
LEMMA JoinKeepsInv ==
    ASSUME IInv, Join
    PROVE  IInv'
<1>1. /\ call \in Call /\ job \in [JobIds -> Job] /\ call.pc = "join"
      /\ UNCHANGED <<games, settings, runs>>
      /\ \A j \in call.join : job[j].pc \in {"none", "finished"}
      /\ job' = [j \in JobIds |-> IF j \in call.join THEN NoJob ELSE job[j]]
  BY DEF Join, IInv, TypeInv, TypeOK
<1>2. job' \in [JobIds -> Job]
  BY <1>1, NoJobType
<1>3. \A j \in JobIds : Live(j)' => Live(j) /\ j \notin call.join
  BY <1>1, NoJobType DEF Live, WorkerPoints
<1>4. \A j \in JobIds : job'[j] = job[j] \/ job'[j] = NoJob
  BY <1>1
<1>5. StoppedIsCancelled' /\ SlotChosen'
  BY <1>4, NoJobType DEF IInv, TypeInv, SlotChosen, StoppedIsCancelled, SlotPoints
<1>6. OneLiveRefinement' /\ NoOrphanRun'
  BY <1>1, <1>3 DEF IInv, OneLiveRefinement, NoOrphanRun, Present
<1>7. CASE call.then = "idle"
  <2>1. call' = Idle
    BY <1>7 DEF Join
  <2>2. TypeInv' /\ call'.pc = "idle"
    BY <1>1, <1>2, <1>5, <2>1, IdleType DEF IInv, TypeInv, TypeOK
  <2> QED
    BY <1>5, <1>6, <2>2, IdleKeepsInv
<1>8. CASE call.then # "idle"
  <2>1. call' = [call EXCEPT !.pc = call.then, !.join = {}]
    BY <1>8 DEF Join
  <2>2. call' \in Call
    BY <1>1, <2>1 DEF Call, CallPoints, Continuations
  <2>3. TypeInv'
    BY <1>1, <1>2, <1>5, <2>2 DEF IInv, TypeInv, TypeOK
  <2>4. /\ call'.pc = call.then /\ call'.kind = call.kind /\ call'.game = call.game
        /\ call'.affected = call.affected /\ call'.then = call.then
        /\ call'.join = {} /\ call'.todo = {}
    BY <1>1, <2>1 DEF IInv, CancelsFirst, Stops, Call
  <2>5. call'.pc \notin Stops /\ call'.pc \notin {"prepare", "claim", "resume"}
    BY <1>1, <2>4 DEF Call, Continuations, Stops
  <2>6. JoinsEnough'
    BY <1>1, <1>3, <2>4, <2>5 DEF IInv, JoinsEnough, MustBeGone, Slot, Stops
  <2>7. CancelsFirst' /\ GameExists'
    BY <2>5 DEF CancelsFirst, GameExists
  <2>8. DestructorStopsAll' /\ KindOfCall'
    BY <1>1, <2>4, <2>5 DEF IInv, DestructorStopsAll, KindOfCall, Stops, Call, Continuations
  <2> QED
    BY <1>5, <1>6, <2>3, <2>6, <2>7, <2>8 DEF IInv
<1> QED
  BY <1>7, <1>8

-----------------------------------------------------------------------------
(* The steps of the start calls. *)

\* A quiet step to a point that no job has to be gone at.
LEMMA PassingKeepsInv ==
    ASSUME IInv, Quiet, NEW c \in Call, call' = c,
           c.pc \in {"idle", "reuse", "prepare", "claim", "compare", "preempt"},
           c.pc \in {"compare", "preempt"} => c.kind = "refine",
           c.pc \in {"prepare", "claim"} => c.game \in games
    PROVE  IInv'
<1>1. TypeInv' /\ OneLiveRefinement' /\ StoppedIsCancelled' /\ NoOrphanRun'
  BY QuietKeepsRest
<1>2. call'.pc \notin Stops
  BY DEF Stops
<1>3. JoinsEnough'
  BY <1>2 DEF JoinsEnough, MustBeGone
<1>4. DestructorStopsAll' /\ CancelsFirst' /\ KindOfCall'
  BY <1>2 DEF DestructorStopsAll, CancelsFirst, KindOfCall
<1>5. GameExists'
  BY DEF GameExists, Quiet
<1> QED
  BY <1>1, <1>3, <1>4, <1>5 DEF IInv

\* The requested configuration is one of the configurations.
LEMMA RequestType ==
    ASSUME TypeOK, NEW kind \in Kinds
    PROVE  Request(kind) \in Configs
BY SettingsTypes DEF TypeOK, Request

\* The lookup of a start call.
LEMMA StartKeepsInv ==
    ASSUME IInv, NEW kind \in Kinds, NEW g \in Games, NEW ply \in Nat, Start(kind, g, ply)
    PROVE  IInv'
<1> DEFINE c == [Idle EXCEPT !.kind = kind, !.game = g, !.ply = ply]
<1>1. c \in Call /\ c.game = g
  BY IdleType DEF Call
<1>2. Quiet /\ g \in games
  BY DEF Start
<1> HIDE DEF c
<1>3. CASE \E best \in Best(CompatibleConfigs(runs, g, Request(kind))) :
               call' = [c EXCEPT !.pc = "reuse", !.config = best]
  <2>1. PICK best \in Configs : call' = [c EXCEPT !.pc = "reuse", !.config = best]
    BY <1>3 DEF Best, CompatibleConfigs
  <2>2. [c EXCEPT !.pc = "reuse", !.config = best] \in Call
    BY <1>1 DEF Call, CallPoints
  <2>3. call'.pc = "reuse"
    BY <1>1, <2>1 DEF Call
  <2> QED
    BY <1>2, <2>1, <2>2, <2>3, PassingKeepsInv
<1>4. CASE call' = [c EXCEPT !.pc = "prepare", !.config = Request(kind)]
  <2>1. Request(kind) \in Configs
    BY RequestType DEF IInv, TypeInv
  <2>2. [c EXCEPT !.pc = "prepare", !.config = Request(kind)] \in Call
    BY <1>1, <2>1 DEF Call, CallPoints
  <2>3. call'.pc = "prepare" /\ call'.game = g
    BY <1>1, <1>4 DEF Call
  <2> QED
    BY <1>2, <1>4, <2>2, <2>3, PassingKeepsInv
<1> QED
  BY <1>3, <1>4 DEF Start, c

\* The SELECT of prepare_analysis.
LEMMA PrepareReadKeepsInv ==
    ASSUME IInv, PrepareRead
    PROVE  IInv'
<1>1. /\ call \in Call /\ call.pc = "prepare" /\ Quiet /\ runs \in Tables
      /\ call' = [call EXCEPT !.pc = "claim", !.found = runs[Target].status]
  BY DEF PrepareRead, IInv, TypeInv, TypeOK, Tables
<1>2. Target \in RunIds
  BY <1>1 DEF Target, Call, RunIds
<1>3. runs[Target].status \in Statuses
  BY <1>1, <1>2 DEF Tables, Run
<1>4. call' \in Call /\ call'.pc = "claim" /\ call'.game = call.game
  BY <1>1, <1>3 DEF Call, CallPoints
<1>5. call.game \in games
  BY <1>1 DEF IInv, GameExists
<1> QED
  BY <1>1, <1>4, <1>5, PassingKeepsInv

\* A write by the calling thread, back to idle.
LEMMA WriteAndReturnKeepsInv ==
    ASSUME IInv, NoNewRun, call' = Idle, UNCHANGED <<games, settings, job>>
    PROVE  IInv'
<1>1. TypeInv' /\ call'.pc = "idle"
  BY IdleType DEF IInv, TypeInv, TypeOK, SlotChosen, NoNewRun, Tables
<1>2. OneLiveRefinement' /\ StoppedIsCancelled'
  BY DEF IInv, OneLiveRefinement, StoppedIsCancelled, Live
<1>3. NoOrphanRun'
  BY DEF IInv, NoOrphanRun, NoNewRun, Present
<1> QED
  BY <1>1, <1>2, <1>3, IdleKeepsInv

\* Classifying a run that is reused.
LEMMA ReuseKeepsInv ==
    ASSUME IInv, Reuse
    PROVE  IInv'
<1>1. /\ call \in Call /\ runs \in Tables /\ call.pc = "reuse"
      /\ UNCHANGED <<games, settings, job>>
  BY DEF Reuse, IInv, TypeInv, TypeOK, Tables
<1>2. Target \in RunIds
  BY <1>1 DEF Target, Call, RunIds
<1>3. NoNewRun
  BY <1>1, <1>2, PersistClassificationsType, PersistClassificationsAddsNoRun
     DEF Reuse, NoNewRun
<1>4. CASE call' = Idle
  BY <1>1, <1>3, <1>4, WriteAndReturnKeepsInv
<1>5. CASE call' = [call EXCEPT !.pc = "supersede"]
  <2>1. call' \in Call /\ call'.pc = "supersede"
    BY <1>1, <1>5 DEF Call, CallPoints
  <2>2. TypeInv'
    BY <1>1, <1>3, <2>1 DEF IInv, TypeInv, TypeOK, SlotChosen, NoNewRun, Tables
  <2>3. OneLiveRefinement' /\ StoppedIsCancelled'
    BY <1>1 DEF IInv, OneLiveRefinement, StoppedIsCancelled, Live
  <2>4. NoOrphanRun'
    BY <1>1, <1>3 DEF IInv, NoOrphanRun, NoNewRun, Present
  <2>5. JoinsEnough'
    BY <2>1 DEF JoinsEnough, MustBeGone, Stops
  <2>6. DestructorStopsAll' /\ CancelsFirst' /\ KindOfCall' /\ GameExists'
    BY <2>1 DEF DestructorStopsAll, CancelsFirst, KindOfCall, GameExists, Stops
  <2> QED
    BY <2>2, <2>3, <2>4, <2>5, <2>6 DEF IInv
<1> QED
  BY <1>4, <1>5 DEF Reuse

\* Dropping the runs a reused one supersedes.
LEMMA SupersedeKeepsInv ==
    ASSUME IInv, Supersede
    PROVE  IInv'
<1>1. call \in Call /\ runs \in Tables
  BY DEF IInv, TypeInv, TypeOK, Tables
<1>2. NoNewRun
  BY <1>1, PruneExceptType, PruneExceptAddsNoRun DEF Supersede, NoNewRun
<1> QED
  BY <1>2, WriteAndReturnKeepsInv DEF Supersede

\* The INSERT or UPDATE of prepare_analysis; the game still exists.
LEMMA ClaimKeepsInv ==
    ASSUME IInv, Claim
    PROVE  IInv'
<1>1. /\ call \in Call /\ runs \in Tables /\ call.pc = "claim"
      /\ UNCHANGED <<games, settings, job>>
  BY DEF Claim, IInv, TypeInv, TypeOK, Tables
<1>2. Target \in RunIds /\ Target[1] = call.game /\ call.found \in Statuses
  BY <1>1 DEF Target, Call, RunIds
<1>3. CASE call.found = "complete" /\ call.kind = "minimum"
  <2>1. call' = Idle
    BY <1>3 DEF Claim
  <2>2. \/ runs' = PersistClassifications(runs, Target, TRUE)
        \/ runs' = runs
    BY <1>3 DEF Claim
  <2>3. NoNewRun
    BY <1>1, <1>2, <2>2, PersistClassificationsType, PersistClassificationsAddsNoRun
       DEF NoNewRun
  <2> QED
    BY <1>1, <2>1, <2>3, WriteAndReturnKeepsInv
<1>4. CASE ~(call.found = "complete" /\ call.kind = "minimum")
  <2>1. /\ runs' = Prepare(runs, Target, call.found)
        /\ call' = [call EXCEPT !.pc = IF call.kind = "minimum" THEN "resume" ELSE "yield"]
    BY <1>4 DEF Claim
  <2>2. runs' \in Tables
    BY <1>1, <1>2, <2>1, PrepareType
  <2>3. call' \in Call
    BY <1>1, <2>1 DEF Call, CallPoints
  <2>4. /\ call'.pc = IF call.kind = "minimum" THEN "resume" ELSE "yield"
        /\ call'.kind = call.kind /\ call.kind \in Kinds
    BY <1>1, <2>1 DEF Call
  <2>5. TypeInv'
    BY <1>1, <2>2, <2>3 DEF IInv, TypeInv, TypeOK, SlotChosen, Tables
  <2>6. OneLiveRefinement' /\ StoppedIsCancelled'
    BY <1>1 DEF IInv, OneLiveRefinement, StoppedIsCancelled, Live
  <2>7. NoOrphanRun'
    <3>1. call.game \in games
      BY <1>1 DEF IInv, GameExists
    <3>2. \A i \in RunIds : Present(runs', i) => i = Target \/ Present(runs, i)
      BY <1>1, <1>2, <2>1, PrepareAddsOneRun
    <3> QED
      BY <1>1, <1>2, <3>1, <3>2 DEF IInv, NoOrphanRun, Present
  <2>8. call'.pc \notin Stops
    BY <2>4 DEF Stops
  <2>9. JoinsEnough' /\ DestructorStopsAll' /\ CancelsFirst' /\ KindOfCall' /\ GameExists'
    BY <2>4, <2>8 DEF JoinsEnough, MustBeGone, DestructorStopsAll, CancelsFirst,
                      KindOfCall, GameExists, Kinds
  <2> QED
    BY <2>5, <2>6, <2>7, <2>9 DEF IInv
<1> QED
  BY <1>3, <1>4

\* A call works for a slot of its kind and game.
LEMMA SlotType ==
    ASSUME call \in Call
    PROVE  Slot \in JobIds /\ Slot = <<call.kind, call.game>>
BY DEF Slot, Call, JobIds

\* A quiet step to the point where the thread is created.
LEMMA ToSpawnKeepsInv ==
    ASSUME IInv, Quiet, call' = [call EXCEPT !.pc = "spawn"],
           call.kind = "minimum", ~Live(Slot)
    PROVE  IInv'
<1>1. call \in Call
  BY DEF IInv, TypeInv, TypeOK
<1>2. /\ call' \in Call /\ call'.pc = "spawn" /\ call'.kind = "minimum"
      /\ call'.game = call.game
  BY <1>1 DEF Call, CallPoints
<1>3. /\ TypeInv' /\ OneLiveRefinement' /\ StoppedIsCancelled' /\ NoOrphanRun'
      /\ \A j \in JobIds : Live(j)' <=> Live(j)
  BY <1>2, QuietKeepsRest
<1>4. JoinsEnough'
  BY <1>1, <1>2, <1>3 DEF JoinsEnough, MustBeGone, Slot, Stops
<1>5. DestructorStopsAll' /\ CancelsFirst' /\ KindOfCall' /\ GameExists'
  BY <1>2 DEF DestructorStopsAll, CancelsFirst, KindOfCall, GameExists, Stops
<1> QED
  BY <1>3, <1>4, <1>5 DEF IInv

\* A live worker is in a map.
LEMMA LiveIsHeld ==
    ASSUME NEW j \in JobIds, Live(j)
    PROVE  j \in Held
BY DEF Live, Held, WorkerPoints

\* start_analysis_json keeps, replaces or creates the job.
LEMMA ResumeKeepsInv ==
    ASSUME IInv, Resume
    PROVE  IInv'
<1>1. call \in Call /\ call.pc = "resume" /\ Quiet
  BY DEF Resume, IInv, TypeInv, TypeOK
<1>2. call.kind = "minimum" /\ Slot \in JobIds
  BY <1>1, SlotType DEF IInv, KindOfCall
<1>3. CASE call' = [call EXCEPT !.pc = "spawn"] /\ job[Slot].pc = "none"
  <2>1. ~Live(Slot)
    BY <1>3 DEF Live, WorkerPoints
  <2> QED
    BY <1>1, <1>2, <1>3, <2>1, ToSpawnKeepsInv
<1>4. CASE call' = Stopping(call, {Slot} \cap {j \in JobIds : Live(j)}, {Slot}, "never", "spawn")
  <2>1. call'.kind = call.kind /\ call'.game = call.game
    BY <1>1, <1>4 DEF Stopping, Call
  <2>2. \A j \in MustBeGone("spawn")' : j = Slot
    BY <1>2, <2>1 DEF MustBeGone, Slot
  <2> DEFINE todo == {Slot} \cap {j \in JobIds : Live(j)}
  <2>3. /\ todo \in SUBSET JobIds /\ {Slot} \in SUBSET JobIds
        /\ \A j \in {Slot} : Live(j) => j \in todo
    BY <1>2
  <2>4. \A j \in MustBeGone("spawn")' : Live(j) => j \in {Slot}
    BY <2>2
  <2>5. "spawn" \in Continuations
    BY DEF Continuations
  <2> HIDE DEF todo
  <2> QED
    BY <1>1, <1>4, <2>3, <2>4, <2>5, StoppingKeepsInv DEF todo
<1>5. CASE call' = Idle
  BY <1>1, <1>5, IdleType, PassingKeepsInv
<1> QED
  BY <1>3, <1>4, <1>5 DEF Resume

\* A refinement stops and joins its game's preparation pass.
LEMMA YieldKeepsInv ==
    ASSUME IInv, Yield
    PROVE  IInv'
<1> DEFINE minimum == {<<"minimum", call.game>>} \cap Held
           todo == {j \in minimum : Live(j)}
<1>1. /\ call \in Call /\ call.pc = "yield" /\ Quiet
      /\ call' = Stopping(call, todo, minimum, "never", "takeOver")
  BY DEF Yield, IInv, TypeInv, TypeOK
<1>2. call.kind = "refine"
  BY <1>1 DEF IInv, KindOfCall
<1>3. minimum \in SUBSET JobIds /\ todo \in SUBSET JobIds
  BY DEF Held
<1>4. \A j \in minimum : Live(j) => j \in todo
  OBVIOUS
<1>5. \A j \in MustBeGone("takeOver")' : Live(j) => j \in minimum
  <2>1. call'.game = call.game
    BY <1>1 DEF Stopping, Call
  <2> QED
    BY <2>1, LiveIsHeld DEF MustBeGone
<1>6. "takeOver" \in Continuations
  BY DEF Continuations
<1> HIDE DEF minimum, todo
<1> QED
  BY <1>1, <1>2, <1>3, <1>4, <1>5, <1>6, StoppingKeepsInv

\* A refinement stops and joins every other refinement.
LEMMA TakeOverKeepsInv ==
    ASSUME IInv, TakeOver
    PROVE  IInv'
<1> DEFINE refine == {j \in Held : j[1] = "refine"}
           same == Live(Slot) /\ job[Slot].config = call.config
<1>1. call \in Call /\ call.pc = "takeOver" /\ Quiet
  BY DEF TakeOver, IInv, TypeInv, TypeOK
<1>2. call.kind = "refine"
  BY <1>1 DEF IInv, KindOfCall
<1>3. refine \in SUBSET JobIds /\ refine \ {Slot} \in SUBSET JobIds
  BY DEF Held
<1>4. CASE same
  <2> DEFINE stale == refine \ {Slot}
             todo == {j \in stale : Live(j)}
  <2>1. call' = Stopping(call, todo, stale, "never", "retarget")
    BY <1>4 DEF TakeOver
  <2>2. MustBeGone("retarget")' = {}
    BY DEF MustBeGone
  <2>3. /\ stale \in SUBSET JobIds /\ todo \in SUBSET JobIds
        /\ \A j \in stale : Live(j) => j \in todo
    BY <1>3
  <2>4. "retarget" \in Continuations
    BY DEF Continuations
  <2> HIDE DEF stale, todo
  <2> QED
    BY <1>1, <1>2, <2>1, <2>2, <2>3, <2>4, StoppingKeepsInv
<1>5. CASE ~same
  <2> DEFINE todo == {j \in refine : Live(j)}
  <2>1. call' = Stopping(call, todo, refine, "never", "spawn")
    BY <1>5 DEF TakeOver
  <2>2. call'.game = call.game /\ call'.kind = call.kind
    BY <1>1, <2>1 DEF Stopping, Call
  <2>3. <<"minimum", call.game>> \in JobIds => ~Live(<<"minimum", call.game>>)
    BY <1>1 DEF IInv, JoinsEnough, MustBeGone, Stops
  <2>4. \A j \in JobIds : Live(j) /\ j[1] = "refine" => j \in refine
    BY LiveIsHeld
  <2>5. Slot' = <<"refine", call.game>>
    BY <1>2, <2>2 DEF Slot
  <2>6. \A j \in MustBeGone("spawn")' :
            j \in JobIds /\ (j[1] = "refine" \/ j = <<"minimum", call.game>>)
    BY <1>2, <2>2, <2>5 DEF MustBeGone
  <2>7. \A j \in MustBeGone("spawn")' : Live(j) => j \in refine
    BY <2>3, <2>4, <2>6
  <2>8. todo \in SUBSET JobIds /\ \A j \in refine : Live(j) => j \in todo
    BY <1>3
  <2>9. "spawn" \in Continuations
    BY DEF Continuations
  <2> HIDE DEF refine, todo
  <2> QED
    BY <1>1, <1>3, <2>1, <2>7, <2>8, <2>9, StoppingKeepsInv
<1> QED
  BY <1>4, <1>5

\* Steps that change the requested slot or the engine flag of the kept worker.
LEMMA TouchKeepsInv ==
    ASSUME IInv, UNCHANGED <<games, settings, runs>>, call.kind = "refine",
           NEW f \in Job, f.pc = job[Slot].pc, f.slot = job[Slot].slot,
           job' = [job EXCEPT ![Slot] = f],
           call' \in Call, call'.pc \in {"idle", "compare"}, call'.kind = "refine"
               \/ call'.pc = "idle"
    PROVE  IInv'
<1>1. call \in Call /\ job \in [JobIds -> Job]
  BY DEF IInv, TypeInv, TypeOK
<1>2. Slot \in JobIds /\ Slot[1] = "refine"
  BY <1>1, SlotType
<1>3. \A j \in JobIds : /\ job'[j].pc = job[j].pc /\ job'[j].slot = job[j].slot
                        /\ j[1] = "minimum" => job'[j] = job[j]
  BY <1>1, <1>2
<1>4. \A j \in JobIds : Live(j)' <=> Live(j)
  BY <1>3 DEF Live
<1>5. TypeInv'
  BY <1>1, <1>2, <1>3 DEF IInv, TypeInv, TypeOK, SlotChosen
<1>6. OneLiveRefinement' /\ StoppedIsCancelled' /\ NoOrphanRun'
  BY <1>3, <1>4 DEF IInv, OneLiveRefinement, StoppedIsCancelled, NoOrphanRun, Present
<1>7. JoinsEnough' /\ DestructorStopsAll' /\ CancelsFirst' /\ KindOfCall' /\ GameExists'
  BY DEF JoinsEnough, MustBeGone, DestructorStopsAll, CancelsFirst, KindOfCall, GameExists, Stops
<1> QED
  BY <1>5, <1>6, <1>7 DEF IInv

\* The kept refinement gets its new slot and generation.
LEMMA RetargetKeepsInv ==
    ASSUME IInv, Retarget
    PROVE  IInv'
<1>1. call \in Call /\ job \in [JobIds -> Job] /\ call.pc = "retarget"
  BY DEF Retarget, IInv, TypeInv, TypeOK
<1>2. call.kind = "refine" /\ Slot \in JobIds
  BY <1>1, SlotType DEF IInv, KindOfCall
<1>3. job[Slot] \in Job /\ call.ply \in Nat
  BY <1>1, <1>2 DEF Call
<1> DEFINE f == [job[Slot] EXCEPT !.target = call.ply, !.retargeted = TRUE]
<1>4. f \in Job /\ f.pc = job[Slot].pc /\ f.slot = job[Slot].slot
  BY <1>3 DEF Job
<1>5. job' = [job EXCEPT ![Slot] = f] /\ UNCHANGED <<games, settings, runs>>
  BY <1>1, <1>2 DEF Retarget
<1>6. call' \in Call /\ call'.pc = "compare" /\ call'.kind = "refine"
  BY <1>1, <1>2 DEF Retarget, Call, CallPoints
<1> HIDE DEF f
<1> QED
  BY <1>2, <1>4, <1>5, <1>6, TouchKeepsInv

\* The call looks at the slot the kept refinement works on.
LEMMA CompareKeepsInv ==
    ASSUME IInv, Compare
    PROVE  IInv'
<1>1. call \in Call /\ call.pc = "compare" /\ Quiet
  BY DEF Compare, IInv, TypeInv, TypeOK
<1>2. call.kind = "refine"
  BY <1>1 DEF IInv, KindOfCall
<1>3. CASE call' = [call EXCEPT !.pc = "preempt"]
  <2>1. call' \in Call /\ call'.pc = "preempt" /\ call'.kind = "refine"
    BY <1>1, <1>2, <1>3 DEF Call, CallPoints
  <2> QED
    BY <1>1, <2>1, PassingKeepsInv
<1>4. CASE call' = Idle
  BY <1>1, <1>4, IdleType, PassingKeepsInv
<1> QED
  BY <1>3, <1>4 DEF Compare

\* The call cancels the search of the kept refinement.
LEMMA PreemptKeepsInv ==
    ASSUME IInv, Preempt
    PROVE  IInv'
<1>1. call \in Call /\ job \in [JobIds -> Job] /\ call.pc = "preempt"
  BY DEF Preempt, IInv, TypeInv, TypeOK
<1>2. call.kind = "refine" /\ Slot \in JobIds
  BY <1>1, SlotType DEF IInv, KindOfCall
<1> DEFINE f == [job[Slot] EXCEPT !.stopped = Live(Slot)]
<1>3. Live(Slot) \in BOOLEAN
  BY DEF Live
<1>4. f \in Job /\ f.pc = job[Slot].pc /\ f.slot = job[Slot].slot
  BY <1>1, <1>2, <1>3 DEF Job
<1>5. job' = [job EXCEPT ![Slot] = f] /\ UNCHANGED <<games, settings, runs>>
  BY <1>1, <1>2 DEF Preempt
<1>6. call' \in Call /\ call'.pc = "idle"
  BY IdleType DEF Preempt
<1> HIDE DEF f
<1> QED
  BY <1>2, <1>4, <1>5, <1>6, TouchKeepsInv

\* A thread is created only where all it excludes is gone.
LEMMA SpawnKeepsInv ==
    ASSUME IInv, Spawn
    PROVE  IInv'
<1>1. /\ call \in Call /\ job \in [JobIds -> Job] /\ runs \in [RunIds -> Run]
      /\ call.pc = "spawn" /\ UNCHANGED <<games, settings, runs>> /\ call' = Idle
  BY DEF Spawn, IInv, TypeInv, TypeOK
<1>2. Slot \in JobIds /\ Slot = <<call.kind, call.game>> /\ Target \in RunIds
  BY <1>1, SlotType DEF Target, Call, RunIds
<1>3. call' \in Call /\ call'.pc = "idle"
  BY <1>1, IdleType
<1>4. NoOrphanRun'
  BY <1>1 DEF IInv, NoOrphanRun, Present
<1>5. CASE UNCHANGED job
  <2>1. TypeInv' /\ OneLiveRefinement' /\ StoppedIsCancelled'
    BY <1>1, <1>3, <1>5 DEF IInv, TypeInv, TypeOK, SlotChosen, OneLiveRefinement,
                           StoppedIsCancelled, Live
  <2> QED
    BY <1>3, <1>4, <2>1, IdleKeepsInv
<1>6. CASE job' = [job EXCEPT ![Slot] = NewJob(call.config, runs[Target].rows, call.ply)]
  <2> DEFINE n == NewJob(call.config, runs[Target].rows, call.ply)
  <2>1. n \in Job
    BY <1>1, <1>2, NewJobType DEF Call, Run
  <2>2. n.pc = "begin" /\ ~n.stopped
    BY DEF NewJob
  <2> HIDE DEF n
  <2>3. job' = [job EXCEPT ![Slot] = n]
    BY <1>6 DEF n
  <2>4. \A j \in JobIds : IF j = Slot THEN job'[j] = n ELSE job'[j] = job[j]
    BY <1>1, <1>2, <2>3
  <2>5. TypeInv'
    BY <1>1, <1>2, <1>3, <2>1, <2>2, <2>3, <2>4
       DEF IInv, TypeInv, TypeOK, SlotChosen, SlotPoints
  <2>6. StoppedIsCancelled'
    BY <2>2, <2>4 DEF IInv, StoppedIsCancelled
  <2>7. \A j \in JobIds \ {Slot} : Live(j)' <=> Live(j)
    BY <2>4 DEF Live
  <2>8. call.kind = "refine" => \A j \in JobIds : j[1] = "refine" => ~Live(j)
    BY <1>1 DEF IInv, JoinsEnough, MustBeGone, Stops
  <2>9. OneLiveRefinement'
    <3> SUFFICES ASSUME NEW j \in JobIds, NEW k \in JobIds, j[1] = "refine", k[1] = "refine",
                        Live(j)', Live(k)', j # k
                 PROVE  FALSE
      BY DEF OneLiveRefinement
    <3>1. CASE call.kind = "refine"
      BY <2>7, <2>8, <3>1
    <3>2. CASE call.kind # "refine"
      BY <1>2, <2>7, <3>2 DEF IInv, OneLiveRefinement
    <3> QED
      BY <3>1, <3>2
  <2> QED
    BY <1>3, <1>4, <2>5, <2>6, <2>9, IdleKeepsInv
<1> QED
  BY <1>5, <1>6 DEF Spawn

-----------------------------------------------------------------------------
(* The other calls. *)

\* A call that stops the jobs of a game, of all games, or all jobs, and starts
\* from idle.
LEMMA CancelAnalysisKeepsInv ==
    ASSUME IInv, NEW g \in Games, CancelAnalysis(g)
    PROVE  IInv'
<1> DEFINE jobs == {<<k, g>> : k \in Kinds} \cap Held
<1>1. Quiet /\ call' = Stopping(Idle, jobs, {}, "always", "idle")
  BY DEF CancelAnalysis
<1>2. jobs \in SUBSET JobIds
  BY DEF Held
<1>3. MustBeGone("idle")' = {}
  BY DEF MustBeGone
<1>4. "idle" \in Continuations /\ Idle \in Call
  BY IdleType DEF Continuations
<1> HIDE DEF jobs
<1> QED
  BY <1>1, <1>2, <1>3, <1>4, StoppingKeepsInv

\* delete_analysis stops both jobs of its game.
LEMMA DeleteAnalysisKeepsInv ==
    ASSUME IInv, NEW g \in Games, DeleteAnalysis(g)
    PROVE  IInv'
<1> DEFINE jobs == {<<k, g>> : k \in Kinds} \cap Held
           todo == {j \in jobs : Live(j)}
           c == [Idle EXCEPT !.game = g]
<1>1. Quiet /\ call' = Stopping(c, todo, jobs, "live", "deleteRows")
  BY DEF DeleteAnalysis
<1>2. jobs \in SUBSET JobIds /\ todo \in SUBSET JobIds
  BY DEF Held
<1>3. c \in Call /\ c.game = g
  BY IdleType DEF Call
<1>4. \A j \in jobs : Live(j) => j \in todo
  OBVIOUS
<1>5. \A j \in MustBeGone("deleteRows")' : Live(j) => j \in jobs
  <2>1. call'.game = g
    BY <1>1, <1>3 DEF Stopping, Call
  <2>2. \A j \in MustBeGone("deleteRows")' : j \in JobIds /\ j[2] = g
    BY <2>1 DEF MustBeGone
  <2>3. \A j \in JobIds : j[2] = g => j \in {<<k, g>> : k \in Kinds}
    BY DEF JobIds
  <2> QED
    BY <2>2, <2>3, LiveIsHeld
<1>6. "deleteRows" \in Continuations
  BY DEF Continuations
<1> HIDE DEF jobs, todo, c
<1> QED
  BY <1>1, <1>2, <1>3, <1>4, <1>5, <1>6, StoppingKeepsInv

\* A sideline stops every main-line job.
LEMMA StartVariationKeepsInv ==
    ASSUME IInv, StartVariation
    PROVE  IInv'
<1> DEFINE todo == {j \in Held : Live(j)}
<1>1. Quiet /\ call' = Stopping(Idle, todo, Held, "live", "idle")
  BY DEF StartVariation
<1>2. Held \in SUBSET JobIds /\ todo \in SUBSET JobIds
  BY DEF Held
<1>3. MustBeGone("idle")' = {}
  BY DEF MustBeGone
<1>4. "idle" \in Continuations /\ Idle \in Call
  BY IdleType DEF Continuations
<1>5. \A j \in Held : Live(j) => j \in todo
  OBVIOUS
<1> HIDE DEF todo
<1> QED
  BY <1>1, <1>2, <1>3, <1>4, <1>5, StoppingKeepsInv

\* Deleting a profile, and the destructor, stop preparation passes first.
LEMMA StopGamesKeepsInv ==
    ASSUME IInv, NEW gs \in SUBSET Games, NEW then \in {"closeProfile", "closeAll"},
           StopGames(gs, then), then = "closeAll" => gs = Games
    PROVE  IInv'
<1> DEFINE minimum == {j \in Held : j[1] = "minimum" /\ j[2] \in gs}
           c == [Idle EXCEPT !.affected = gs]
<1>1. Quiet /\ call' = [Stopping(Idle, minimum, minimum, "never", then) EXCEPT !.affected = gs]
  BY DEF StopGames
<1>2. c \in Call /\ c.affected = gs /\ then \in Continuations
  BY IdleType DEF Call, Continuations
<1>3. call' = Stopping(c, minimum, minimum, "never", then)
  BY <1>1, IdleType DEF Stopping, Call
<1>4. minimum \in SUBSET JobIds
  BY DEF Held
<1>5. \A j \in MustBeGone(then)' : Live(j) => j \in minimum
  <2>1. call'.affected = gs
    BY <1>2, <1>3 DEF Stopping, Call
  <2>2. \A j \in MustBeGone(then)' : j \in JobIds /\ j[1] = "minimum" /\ j[2] \in gs
    BY <2>1 DEF MustBeGone
  <2> QED
    BY <2>2, LiveIsHeld
<1> HIDE DEF minimum, c
<1> QED
  BY <1>1, <1>2, <1>3, <1>4, <1>5, StoppingKeepsInv

\* ... and refinements next.
LEMMA CloseRefinementsKeepsInv ==
    ASSUME IInv, CloseRefinements
    PROVE  IInv'
<1> DEFINE refine == {j \in Held : j[1] = "refine" /\ j[2] \in call.affected}
<1>1. call \in Call /\ call.pc \in {"closeProfile", "closeAll"} /\ Quiet
  BY DEF CloseRefinements, IInv, TypeInv, TypeOK
<1>2. PICK then \in {"removeGames", "reopen"} :
         /\ call' = Stopping(call, refine, refine, "never", then)
         /\ then = "reopen" => call.pc = "closeAll"
  BY DEF CloseRefinements
<1>3. refine \in SUBSET JobIds /\ then \in Continuations
  BY DEF Held, Continuations
<1>4. then = "reopen" => call.affected = Games
  BY <1>2 DEF IInv, DestructorStopsAll
<1>5. \A j \in MustBeGone(then)' : Live(j) => j \in refine
  <2>1. call'.affected = call.affected
    BY <1>1, <1>2 DEF Stopping, Call
  <2>2. \A j \in MustBeGone(then)' : j \in JobIds /\ j[2] \in call.affected
    BY <2>1 DEF MustBeGone
  <2>3. \A j \in JobIds : j[1] = "minimum" /\ j[2] \in call.affected => ~Live(j)
    BY <1>1 DEF IInv, JoinsEnough, MustBeGone, Stops
  <2>4. \A j \in JobIds : j[1] \in {"minimum", "refine"}
    BY DEF JobIds, Kinds
  <2> QED
    BY <2>2, <2>3, <2>4, LiveIsHeld
<1> HIDE DEF refine
<1> QED
  BY <1>1, <1>2, <1>3, <1>4, <1>5, StoppingKeepsInv

\* Games are removed together with their runs.
LEMMA RemovalKeepsInv ==
    ASSUME IInv, NEW gone, games' = games \ gone, runs' = DropGames(runs, gone),
           UNCHANGED <<settings, job>>, call' \in Call, call'.pc = "idle"
    PROVE  IInv'
<1>1. runs \in Tables
  BY DEF IInv, TypeInv, TypeOK, Tables
<1>2. runs' \in Tables
  BY <1>1, DropGamesType
<1>3. TypeInv'
  BY <1>2 DEF IInv, TypeInv, TypeOK, SlotChosen, Tables
<1>4. OneLiveRefinement' /\ StoppedIsCancelled'
  BY DEF IInv, OneLiveRefinement, StoppedIsCancelled, Live
<1>5. NoOrphanRun'
  <2>1. \A i \in RunIds : Present(runs', i) => Present(runs, i) /\ i[1] \notin gone
    BY <1>1, DropGamesAddsNoRun
  <2> QED
    BY <2>1 DEF IInv, NoOrphanRun, Present
<1> QED
  BY <1>3, <1>4, <1>5, IdleKeepsInv

\* delete_game_analyses adds no run.
LEMMA DeleteRowsKeepsInv ==
    ASSUME IInv, DeleteRows
    PROVE  IInv'
<1>1. runs \in Tables
  BY DEF IInv, TypeInv, TypeOK, Tables
<1>2. NoNewRun
  BY <1>1, DropGamesType, DropGamesAddsNoRun DEF DeleteRows, NoNewRun
<1> QED
  BY <1>2, WriteAndReturnKeepsInv DEF DeleteRows

\* A call whose database access throws returns and changes nothing.
LEMMA CallFaultKeepsInv ==
    ASSUME IInv, CallFault
    PROVE  IInv'
BY IdleType, PassingKeepsInv DEF CallFault

\* A crash or restart leaves no job, and no run that was not there.
LEMMA ReopenKeepsInv ==
    ASSUME IInv, Reopen
    PROVE  IInv'
<1>1. runs \in Tables /\ UNCHANGED <<games, settings>>
  BY DEF Reopen, IInv, TypeInv, TypeOK, Tables
<1>2. PICK expired : runs' = Reopened(runs, expired)
  BY DEF Reopen
<1>3. NoNewRun
  BY <1>1, <1>2, ReopenedType, ReopenedAddsNoRun DEF NoNewRun
<1>4. call' \in Call /\ call'.pc = "idle"
  BY IdleType DEF Reopen
<1>5. job' \in [JobIds -> Job] /\ \A j \in JobIds : job'[j] = NoJob
  BY NoJobType DEF Reopen
<1>6. TypeInv'
  BY <1>1, <1>3, <1>4, <1>5, NoJobType
     DEF IInv, TypeInv, TypeOK, SlotChosen, SlotPoints, NoNewRun, Tables
<1>7. OneLiveRefinement' /\ StoppedIsCancelled'
  BY <1>5, NoJobType DEF OneLiveRefinement, StoppedIsCancelled, Live, WorkerPoints
<1>8. NoOrphanRun'
  BY <1>1, <1>3 DEF IInv, NoOrphanRun, NoNewRun, Present
<1> QED
  BY <1>4, <1>6, <1>7, <1>8, IdleKeepsInv

\* Changed settings concern later calls only.
LEMMA ChangeSettingsKeepsInv ==
    ASSUME IInv, NEW s \in SettingsSpace, ChangeSettings(s)
    PROVE  IInv'
<1>1. TypeInv' /\ call'.pc = "idle"
  BY DEF ChangeSettings, IInv, TypeInv, TypeOK, SlotChosen
<1>2. OneLiveRefinement' /\ StoppedIsCancelled' /\ NoOrphanRun'
  BY DEF ChangeSettings, IInv, OneLiveRefinement, StoppedIsCancelled, NoOrphanRun, Live, Present
<1> QED
  BY <1>1, <1>2, IdleKeepsInv

-----------------------------------------------------------------------------
(* Theorems. *)

\* No step of a call, and no new call, breaks the invariant.
LEMMA CallKeepsInv == IInv /\ (CallStep \/ NewCall) => IInv'
<1> SUFFICES ASSUME IInv, CallStep \/ NewCall PROVE IInv'
  OBVIOUS
<1>1. CASE CallStep
  <2>1. CASE RemoveGames
    BY <2>1, IdleType, RemovalKeepsInv DEF RemoveGames
  <2>2. CASE Restart
    BY <2>2, ReopenKeepsInv DEF Restart
  <2> QED
    BY <1>1, <2>1, <2>2, CancelKeepsInv, StopEngineKeepsInv, JoinKeepsInv, ReuseKeepsInv,
       SupersedeKeepsInv, CallFaultKeepsInv, PrepareReadKeepsInv, ClaimKeepsInv, ResumeKeepsInv, YieldKeepsInv,
       TakeOverKeepsInv, RetargetKeepsInv, CompareKeepsInv, PreemptKeepsInv,
       SpawnKeepsInv, DeleteRowsKeepsInv, CloseRefinementsKeepsInv
       DEF CallStep
<1>2. CASE NewCall
  <2>1. ASSUME NEW g \in Games, StartAnalysis(g) PROVE IInv'
    BY <2>1, StartKeepsInv DEF StartAnalysis, Kinds
  <2>2. ASSUME NEW g \in Games, NEW ply \in Slots(g), StartRefinement(g, ply) PROVE IInv'
    BY <2>2, StartKeepsInv, SlotsType DEF StartRefinement, Kinds
  <2>3. ASSUME NEW g \in Games, DeleteLocalGame(g) PROVE IInv'
    <3>1. call' \in Call /\ call'.pc = "idle"
      BY <2>3 DEF DeleteLocalGame, IInv, TypeInv, TypeOK
    <3> QED
      BY <2>3, <3>1, RemovalKeepsInv DEF DeleteLocalGame
  <2>4. ASSUME NEW gs \in SUBSET Games, DeleteProfile(gs) PROVE IInv'
    BY <2>4, StopGamesKeepsInv DEF DeleteProfile
  <2>5. CASE Shutdown
    BY <2>5, StopGamesKeepsInv DEF Shutdown
  <2>6. CASE Crash
    BY <2>6, ReopenKeepsInv DEF Crash
  <2> QED
    BY <1>2, <2>1, <2>2, <2>3, <2>4, <2>5, <2>6, CancelAnalysisKeepsInv,
       DeleteAnalysisKeepsInv, StartVariationKeepsInv, ChangeSettingsKeepsInv
       DEF NewCall
<1> QED
  BY <1>1, <1>2

\* Nor does a step that changes nothing.
LEMMA StutterKeepsInv == IInv /\ UNCHANGED vars => IInv'
BY DEF vars, IInv, TypeInv, TypeOK, SlotChosen, OneLiveRefinement, JoinsEnough, MustBeGone,
       Slot, DestructorStopsAll, CancelsFirst, KindOfCall, StoppedIsCancelled, GameExists,
       NoOrphanRun, Present, Live

\* IInv is inductive: it holds initially and every step of a worker, of a call
\* in progress, and every new call keeps it.
THEOREM Invariance == Spec => []IInv
<1>1. IInv /\ [Next]_vars => IInv'
  <2> SUFFICES ASSUME IInv, [Next]_vars PROVE IInv'
    OBVIOUS
  <2>1. ASSUME NEW j \in JobIds, WorkerStep(j) PROVE IInv'
    BY <2>1, WorkerStepEffect, WorkerKeepsInv DEF IInv
  <2> QED
    BY <2>1, CallKeepsInv, StutterKeepsInv DEF Next
<1> QED
  BY InitInv, <1>1, PTL DEF Spec

\* The variables keep their types.
THEOREM TypeCorrect == Spec => []TypeOK
<1>1. IInv => TypeOK
  BY DEF IInv, TypeInv
<1> QED
  BY <1>1, Invariance, PTL

\* There is never more than one live refinement in the process.
THEOREM RefinementIsUnique == Spec => []OneLiveRefinement
<1>1. IInv => OneLiveRefinement
  BY DEF IInv
<1> QED
  BY <1>1, Invariance, PTL

\* A new worker finds its slot free, and a new refinement has the game to itself.
THEOREM SpawnExclusive == Spec => []SpawnIsExclusive
<1>1. IInv => SpawnIsExclusive
  <2> SUFFICES ASSUME IInv, call.pc = "spawn" PROVE
          /\ ~Live(Slot)
          /\ call.kind = "refine" =>
                 \A j \in JobIds : Live(j) => j[1] = "minimum" /\ j[2] # call.game
    BY DEF SpawnIsExclusive
  <2>1. call \in Call /\ Slot \in JobIds
    BY SlotType DEF IInv, TypeInv, TypeOK
  <2>2. \A j \in MustBeGone("spawn") : ~Live(j)
    BY DEF IInv, JoinsEnough, Stops
  <2>3. ~Live(Slot)
    BY <2>1, <2>2 DEF MustBeGone
  <2>4. ASSUME call.kind = "refine", NEW j \in JobIds, Live(j)
        PROVE  j[1] = "minimum" /\ j[2] # call.game
    <3>1. j[1] # "refine" /\ j # <<"minimum", call.game>>
      BY <2>2, <2>4 DEF MustBeGone
    <3> QED
      BY <3>1 DEF JobIds, Kinds
  <2> QED
    BY <2>3, <2>4
<1> QED
  BY <1>1, Invariance, PTL

\* A join waits only for threads that were told to stop.
THEOREM JoinsCancelled == Spec => []JoinsOnlyCancelled
<1>1. IInv => JoinsOnlyCancelled
  BY DEF IInv, CancelsFirst, JoinsOnlyCancelled, Stops
<1> QED
  BY <1>1, Invariance, PTL

\* Rows, games and the process go away only when no worker of theirs is left.
THEOREM RemovalIsSafe == Spec => []NoWriterAtRemoval
<1>1. IInv => NoWriterAtRemoval
  <2> SUFFICES ASSUME IInv PROVE NoWriterAtRemoval
    OBVIOUS
  <2>1. call \in Call
    BY DEF IInv, TypeInv, TypeOK
  <2>2. call.pc \in {"deleteRows", "removeGames", "reopen"} =>
            \A j \in MustBeGone(call.pc) : ~Live(j)
    BY DEF IInv, JoinsEnough, Stops
  <2>3. call.pc = "deleteRows" => \A k \in Kinds : ~Live(<<k, call.game>>)
    BY <2>1, <2>2, JobIdTypes DEF MustBeGone, Call
  <2>4. call.pc = "removeGames" => \A j \in JobIds : j[2] \in call.affected => ~Live(j)
    BY <2>2 DEF MustBeGone
  <2>5. call.pc = "reopen" => \A j \in JobIds : ~Live(j)
    BY <2>2 DEF MustBeGone, IInv, DestructorStopsAll, JobIds
  <2> QED
    BY <2>3, <2>4, <2>5 DEF NoWriterAtRemoval
<1> QED
  BY <1>1, Invariance, PTL

\* No step brings back a run of a game that was removed.
THEOREM RemovedStaysRemoved == Spec => []NoOrphanRun
<1>1. IInv => NoOrphanRun
  BY DEF IInv
<1> QED
  BY <1>1, Invariance, PTL

\* The engine of a preparation pass is only stopped after its cancel_requested.
THEOREM PreparationIsComplete == Spec => []PreparationNeverSkips
<1>1. IInv => PreparationNeverSkips
  BY DEF IInv, StoppedIsCancelled, PreparationNeverSkips
<1> QED
  BY <1>1, Invariance, PTL
=============================================================================
