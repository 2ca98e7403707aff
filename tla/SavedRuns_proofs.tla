--------------------------- MODULE SavedRuns_proofs ---------------------------
(***************************************************************************)
(* What the saved runs of AnalysisJobs promise, for any games, settings    *)
(* and books, with and without faults, as long as no run is deleted under  *)
(* a worker that goes on with it (KeepsRunsInUse): a complete run has all  *)
(* rows, completed_plies is covered, a worker's completed_slots is saved,  *)
(* and all writes together implement the abstract ledger RunLedger. Which  *)
(* two steps can delete such a run, and which rule for callers keeps them  *)
(* from it, are sections of their own.                                     *)
(***************************************************************************)
EXTENDS AnalysisJobs_proofs

-----------------------------------------------------------------------------
(* The invariant. *)

\* Where a preparation pass still visits slots; all slots before Behind are
\* then done.
Visiting == SlotPoints \cup {"begin", "theory", "pick", "rebuild"}
Behind(f) == IF f.pc \in SlotPoints THEN f.slot ELSE f.slot + 1

\* f, a state of job j, has done what it says: slots of its game, in order if
\* it is a preparation pass, and all of them when it publishes the run.
Covers(j, f) ==
    /\ f.done \subseteq Slots(j[2])
    /\ f.pc \in SlotPoints => f.slot \in Slots(j[2])
    /\ j[1] = "minimum" /\ f.pc \in Visiting =>
           \A s \in Slots(j[2]) : s < Behind(f) => s \in f.done
    /\ f.pc \in {"publish", "complete"} => Slots(j[2]) \subseteq f.done

JobsCover == \A j \in JobIds : Covers(j, job[j])

\* A worker's completed_slots is saved, or its game is gone.  A worker whose
\* run is gone has done nothing, so that a run put in its place owes it no row.
DoneIsSaved ==
    \A j \in JobIds : Live(j) /\ j[2] \in games => job[j].done \subseteq runs[RunOf(j)].rows

\* A run that prepare_analysis did not find is still not there when it inserts.
StillMissing == call.pc = "claim" /\ call.found = "none" => ~Present(runs, Target)

RunsInv == TableSound(runs) /\ JobsCover /\ DoneIsSaved /\ StillMissing

\* A process that has just started satisfies it.
LEMMA RunsInit == Init => RunsInv
<1> SUFFICES ASSUME Init PROVE RunsInv
  OBVIOUS
<1>1. \A id \in RunIds : runs[id] = NoRun
  BY DEF Init
<1>2. TableSound(runs)
  BY <1>1, NewRunSound DEF TableSound, RunIds
<1>3. \A j \in JobIds : job[j] = NoJob
  BY DEF Init
<1>4. NoJob.done = {} /\ NoJob.pc = "none"
  BY DEF NoJob, NewJob
<1>5. JobsCover
  BY <1>3, <1>4 DEF JobsCover, Covers, SlotPoints, Visiting
<1>6. DoneIsSaved
  BY <1>3, <1>4 DEF DoneIsSaved, Live, WorkerPoints
<1>7. StillMissing
  BY IdleType DEF Init, StillMissing
<1> QED
  BY <1>2, <1>5, <1>6, <1>7 DEF RunsInv

-----------------------------------------------------------------------------
(* What every step, of a worker or a call, has to show. *)

\* Job j goes on with the same run, and what it has done more is saved in it.
GoesOn(j) ==
    /\ Live(j)
    /\ job'[j].config = job[j].config
    /\ job'[j].done \subseteq job[j].done \cup runs'[RunOf(j)].rows

\* Job j is new, and has done what its run says.
StartsFresh(j) == job'[j].done \subseteq runs'[<<j[2], job'[j].config>>].rows

\* A step that keeps the runs in use keeps what a worker has done saved.
LEMMA SavedStaysSaved ==
    ASSUME IInv, DoneIsSaved, TableSound(runs), KeepsRunsInUse, KeepsRows(runs, runs'),
           games' \subseteq games,
           \A j \in JobIds : Live(j)' => GoesOn(j) \/ StartsFresh(j)
    PROVE  DoneIsSaved'
<1> SUFFICES ASSUME NEW j \in JobIds, Live(j)', j[2] \in games'
             PROVE  job'[j].done \subseteq runs'[<<j[2], job'[j].config>>].rows
  BY DEF DoneIsSaved, RunOf
<1>1. CASE StartsFresh(j)
  BY <1>1 DEF StartsFresh
<1>2. CASE GoesOn(j)
  <2>1. RunOf(j) \in RunIds /\ <<j[2], job'[j].config>> = RunOf(j)
    BY <1>2, RunOfType DEF GoesOn, RunOf, IInv, TypeInv
  <2>2. job[j].done \subseteq runs[RunOf(j)].rows
    BY <1>2 DEF GoesOn, DoneIsSaved
  <2>3. CASE HasRun(j)
    <3>1. Present(runs', RunOf(j))
      BY <1>2, <2>3 DEF GoesOn, KeepsRunsInUse
    <3>2. runs[RunOf(j)].rows \subseteq runs'[RunOf(j)].rows
      BY <2>1, <3>1 DEF KeepsRows
    <3> QED
      BY <1>2, <2>1, <2>2, <3>2 DEF GoesOn
  <2>4. CASE ~HasRun(j)
    <3>1. runs[RunOf(j)].rows = {}
      BY <2>1, <2>4 DEF HasRun, Present, TableSound, RunSound
    <3> QED
      BY <1>2, <2>1, <2>2, <3>1 DEF GoesOn
  <2> QED
    BY <2>3, <2>4
<1> QED
  BY <1>1, <1>2
-----------------------------------------------------------------------------
(* Steps of a worker. *)

\* Job j goes on as f, the table stays sound, and only Prune removes runs.
RunsEffect(j) ==
    /\ \E f \in Job :
           /\ Worker(j, f)
           /\ Covers(j, f)
           /\ f.pc \in WorkerPoints =>
                  /\ Live(j)
                  /\ f.config = job[j].config
                  /\ f.done \subseteq job[j].done \cup runs'[RunOf(j)].rows
    /\ TableSound(runs')
    /\ KeepsRows(runs, runs')

\* What a step of job j may assume.
Before(j) ==
    /\ TypeInv /\ StoppedIsCancelled
    /\ Live(j) /\ Covers(j, job[j])
    /\ TableSound(runs)
    /\ HasRun(j) => job[j].done \subseteq runs[RunOf(j)].rows

\* A step that leaves completed_slots alone.
LEMMA MoveRuns ==
    ASSUME NEW j \in JobIds, Before(j), NEW f \in Job, Worker(j, f), Covers(j, f),
           f.config = job[j].config, f.done = job[j].done,
           TableSound(runs'), KeepsRows(runs, runs')
    PROVE  RunsEffect(j)
BY DEF RunsEffect, Before

\* ... and the table too.
LEMMA QuietRuns ==
    ASSUME NEW j \in JobIds, Before(j), NEW f \in Job, Worker(j, f), Covers(j, f),
           f.config = job[j].config, f.done = job[j].done, UNCHANGED runs
    PROVE  RunsEffect(j)
BY MoveRuns DEF Before, KeepsRows

\* The facts about a job that the steps start from.
LEMMA BeforeTypes ==
    ASSUME NEW j \in JobIds, Before(j)
    PROVE  /\ job[j] \in Job /\ RunOf(j) \in RunIds /\ j[2] \in Games
           /\ RunOf(j)[1] = j[2] /\ runs \in Tables /\ job[j].done \subseteq Slots(j[2])
<1>1. job[j] \in Job /\ RunOf(j) \in RunIds /\ j[2] \in Games
  BY RunOfType DEF Before, TypeInv
<1>2. RunOf(j)[1] = j[2] /\ runs \in Tables /\ job[j].done \subseteq Slots(j[2])
  BY DEF Before, TypeInv, TypeOK, Tables, RunOf, Covers
<1> QED
  BY <1>1, <1>2

\* A worker that ends, or reports, has nothing left to show.
LEMMA LeavingCovers ==
    ASSUME NEW j, NEW f \in Job, f.done \subseteq Slots(j[2]),
           f.pc \in {"none", "finished", "reportCancelled", "reportFailed", "prune", "stop"}
    PROVE  Covers(j, f)
BY DEF Covers, SlotPoints, Visiting

\* The catch clause keeps what was done.
LEMMA ThrowRuns ==
    ASSUME NEW j \in JobIds, Before(j), Worker(j, Caught(j)), UNCHANGED runs
    PROVE  RunsEffect(j)
<1>1. /\ Caught(j) \in Job /\ Caught(j).pc \in {"reportCancelled", "reportFailed"}
  BY CaughtType DEF Before, TypeInv
<1>2. Caught(j).config = job[j].config /\ Caught(j).done = job[j].done
  BY BeforeTypes DEF Caught, Job
<1>3. Covers(j, Caught(j))
  BY <1>1, <1>2, BeforeTypes, LeavingCovers
<1> QED
  BY <1>1, <1>2, <1>3, QuietRuns

\* Entering run_analysis or run_refinement_queue.
LEMMA BeginRuns ==
    ASSUME NEW j \in JobIds, Before(j), Begin(j)
    PROVE  RunsEffect(j)
<1>1. CASE Throw(j)
  BY <1>1, ThrowRuns DEF Throw
<1>2. CASE ~Throw(j)
  <2> DEFINE f == [job[j] EXCEPT !.state = "running", !.pc = "theory",
                                 !.engine = (j[1] = "refine")]
  <2>1. Worker(j, f) /\ UNCHANGED runs /\ job[j].pc = "begin"
    BY <1>2 DEF Begin
  <2> job[j] \in Job
    BY BeforeTypes
  <2>2. f \in Job
    BY DEF Job, JobStates, WorkerPoints
  <2>3. /\ f.pc = "theory" /\ f.config = job[j].config /\ f.done = job[j].done
        /\ f.slot = job[j].slot
    BY BeforeTypes DEF Job
  <2> HIDE DEF f
  <2>4. Covers(j, f)
    BY <2>1, <2>3 DEF Before, Covers, SlotPoints, Visiting, Behind
  <2> QED
    BY <2>1, <2>2, <2>3, <2>4, QuietRuns
<1> QED
  BY <1>1, <1>2

\* A row is written for the slot that becomes done.
LEMMA RowRuns ==
    ASSUME NEW j \in JobIds, Before(j), HasRun(j), NEW slot \in Slots(j[2]),
           NEW f \in Job, Worker(j, f), Covers(j, f), f.config = job[j].config,
           f.done = job[j].done \cup {slot},
           runs' = PersistRow(runs, RunOf(j), slot, CompletedMoves(j[2], f.done))
    PROVE  RunsEffect(j)
<1> DEFINE plies == CompletedMoves(j[2], f.done)
<1>1. /\ RunOf(j) \in RunIds /\ j[2] \in Games /\ RunOf(j)[1] = j[2] /\ runs \in Tables
      /\ TableSound(runs) /\ job[j].done \subseteq runs[RunOf(j)].rows
  BY BeforeTypes DEF Before
<1>2. plies \in Nat
  BY <1>1, CompletedMovesType
<1>3. plies <= CompletedMoves(j[2], runs[RunOf(j)].rows \cup {slot})
  BY <1>1, CompletedMovesMonotonic
<1>4. /\ TableSound(runs') /\ KeepsRows(runs, runs')
      /\ runs'[RunOf(j)].rows = runs[RunOf(j)].rows \cup {slot}
  <2> DEFINE id == RunOf(j)
  <2>1. slot \in Slots(id[1]) /\ plies <= CompletedMoves(id[1], runs[id].rows \cup {slot})
    BY <1>1, <1>3
  <2>2. runs' = PersistRow(runs, id, slot, plies) /\ id \in RunIds
    BY <1>1
  <2> HIDE DEF id, plies
  <2>3. /\ TableSound(PersistRow(runs, id, slot, plies))
        /\ KeepsRows(runs, PersistRow(runs, id, slot, plies))
        /\ PersistRow(runs, id, slot, plies)[id].rows = runs[id].rows \cup {slot}
    BY <1>1, <1>2, <2>1, <2>2, PersistRowSound
  <2> QED
    BY <2>2, <2>3 DEF id
<1>5. f.done \subseteq job[j].done \cup runs'[RunOf(j)].rows
  BY <1>4
<1> QED
  BY <1>4, <1>5 DEF RunsEffect, Before

\* A placeholder row, and the slot it is for.
LEMMA SkipTheorySlotRuns ==
    ASSUME NEW j \in JobIds, Before(j), SkipTheorySlot(j)
    PROVE  RunsEffect(j)
<1>1. PICK slot \in Least(TheorySkipped(j[2]) \ job[j].done) :
        LET done == job[j].done \cup {slot}
        IN  IF HasRun(j)
            THEN /\ Worker(j, [job[j] EXCEPT !.done = done])
                 /\ runs' = PersistRow(runs, RunOf(j), slot, CompletedMoves(j[2], done))
            ELSE Throw(j)
  BY DEF SkipTheorySlot
<1>2. slot \in Slots(j[2]) /\ slot \in Nat
  BY <1>1, BeforeTypes, SlotsType DEF Least, TheorySkipped
<1>3. CASE ~HasRun(j)
  BY <1>1, <1>3, ThrowRuns DEF Throw
<1>4. CASE HasRun(j)
  <2> DEFINE done == job[j].done \cup {slot}
             f == [job[j] EXCEPT !.done = done]
  <2>1. Worker(j, f) /\ runs' = PersistRow(runs, RunOf(j), slot, CompletedMoves(j[2], done))
    BY <1>1, <1>4
  <2>2. /\ f \in Job /\ f.done = done /\ f.config = job[j].config
        /\ f.pc = "theory" /\ f.slot = job[j].slot
    BY <1>2, BeforeTypes DEF Job, SkipTheorySlot
  <2>3. job[j].pc = "theory"
    BY DEF SkipTheorySlot
  <2> HIDE DEF f
  <2>4. Covers(j, f)
    BY <1>2, <2>2, <2>3, BeforeTypes DEF Before, Covers, SlotPoints, Visiting, Behind
  <2> QED
    BY <1>2, <1>4, <2>1, <2>2, <2>4, RowRuns
<1> QED
  BY <1>3, <1>4

\* Steps that classify, and go on to another point.
LEMMA ClassifyRuns ==
    ASSUME NEW j \in JobIds, Before(j), NEW f \in Job, Worker(j, f), Covers(j, f),
           f.config = job[j].config, f.done = job[j].done, NEW finalize \in BOOLEAN,
           runs' = PersistClassifications(runs, RunOf(j), finalize)
    PROVE  RunsEffect(j)
<1>1. RunOf(j) \in RunIds /\ runs \in Tables /\ TableSound(runs)
  BY BeforeTypes DEF Before
<1>2. TableSound(runs') /\ KeepsRows(runs, runs')
  BY <1>1, PersistClassificationsSound
<1> QED
  BY <1>2, MoveRuns

\* The loop over the slots begins where it stood.
LEMMA EndTheoryRuns ==
    ASSUME NEW j \in JobIds, Before(j), EndTheory(j)
    PROVE  RunsEffect(j)
<1> DEFINE f == [job[j] EXCEPT !.pc = "pick"]
<1>1. /\ f \in Job /\ f.pc = "pick" /\ f.config = job[j].config /\ f.done = job[j].done
      /\ f.slot = job[j].slot
  BY BeforeTypes DEF Job, WorkerPoints
<1>2. job[j].pc = "theory"
  BY DEF EndTheory
<1>3. \/ Worker(j, f) /\ UNCHANGED runs
      \/ /\ Worker(j, f)
         /\ runs' = PersistClassifications(
                runs, RunOf(j), CompletedMoves(j[2], job[j].done) = 0)
      \/ Throw(j)
  BY DEF EndTheory
<1> HIDE DEF f
<1>4. Covers(j, f)
  BY <1>1, <1>2 DEF Before, Covers, SlotPoints, Visiting, Behind
<1> QED
  BY <1>1, <1>3, <1>4, QuietRuns, ClassifyRuns, ThrowRuns DEF Throw

\* At a slot, with the slots before it done.
LEMMA SlotCovers ==
    ASSUME NEW j, NEW f \in Job, f.pc \in SlotPoints, f.slot \in Slots(j[2]),
           f.done \subseteq Slots(j[2]),
           j[1] = "minimum" => \A s \in Slots(j[2]) : s < f.slot => s \in f.done
    PROVE  Covers(j, f)
BY DEF Covers, SlotPoints, Behind

\* A worker that stays at its slot.
LEMMA StayRuns ==
    ASSUME NEW j \in JobIds, Before(j), job[j].pc \in SlotPoints,
           NEW f \in Job, Worker(j, f), f.pc \in SlotPoints, f.slot = job[j].slot,
           f.config = job[j].config, f.done = job[j].done, UNCHANGED runs
    PROVE  RunsEffect(j)
<1>1. /\ job[j].slot \in Slots(j[2]) /\ job[j].done \subseteq Slots(j[2])
      /\ j[1] = "minimum" => \A s \in Slots(j[2]) : s < job[j].slot => s \in job[j].done
  BY DEF Before, Covers, Visiting, Behind
<1>2. Covers(j, f)
  BY <1>1, SlotCovers
<1> QED
  BY <1>2, QuietRuns

\* The slot is fixed, and is searched or written.
LEMMA VisitRuns ==
    ASSUME NEW j \in JobIds, Before(j), NEW f \in Job, f.slot \in Slots(j[2]),
           f.config = job[j].config, f.done = job[j].done,
           j[1] = "minimum" => \A s \in Slots(j[2]) : s < f.slot => s \in f.done,
           Visit(j, f), UNCHANGED runs
    PROVE  RunsEffect(j)
<1>1. PICK pc \in {"enter", "persist"} : Worker(j, [f EXCEPT !.pc = pc])
  BY DEF Visit
<1> DEFINE e == [f EXCEPT !.pc = pc]
<1>2. /\ e \in Job /\ e.pc \in SlotPoints /\ e.slot = f.slot /\ e.config = f.config
      /\ e.done = f.done
  BY DEF Job, WorkerPoints, SlotPoints
<1>3. Worker(j, e)
  BY <1>1
<1>4. f.done \subseteq Slots(j[2])
  BY BeforeTypes
<1> HIDE DEF e
<1>5. Covers(j, e)
  BY <1>2, <1>4, SlotCovers
<1> QED
  BY <1>2, <1>3, <1>5, QuietRuns

\* All slots up to the last one visited are done, so none is left over.
LEMMA PickInOrderRuns ==
    ASSUME NEW j \in JobIds, Before(j), PickInOrder(j)
    PROVE  RunsEffect(j)
<1>1. /\ job[j] \in Job /\ job[j].done \subseteq Slots(j[2]) /\ Slots(j[2]) \subseteq Nat
      /\ job[j].slot \in Int
  BY BeforeTypes, SlotsType DEF Job
<1>2. \A s \in Slots(j[2]) : s <= job[j].slot => s \in job[j].done
  <2>1. job[j].pc = "pick" /\ j[1] = "minimum"
    BY DEF PickInOrder
  <2>2. \A s \in Slots(j[2]) : s < job[j].slot + 1 => s \in job[j].done
    BY <2>1 DEF Before, Covers, Visiting, Behind, SlotPoints
  <2> QED
    BY <1>1, <2>2
<1>3. UNCHANGED runs
  BY DEF PickInOrder
<1>4. CASE RemainingInOrder(j) = {} /\ Worker(j, [job[j] EXCEPT !.pc = "publish"])
  <2> DEFINE f == [job[j] EXCEPT !.pc = "publish"]
  <2>1. f \in Job /\ f.pc = "publish" /\ f.config = job[j].config /\ f.done = job[j].done
    BY <1>1 DEF Job, WorkerPoints
  <2>2. Slots(j[2]) \subseteq job[j].done
    BY <1>1, <1>2, <1>4 DEF RemainingInOrder, Missing
  <2>3. Worker(j, f)
    BY <1>4
  <2> HIDE DEF f
  <2>4. Covers(j, f)
    BY <1>1, <2>1, <2>2 DEF Covers, SlotPoints, Visiting
  <2> QED
    BY <1>3, <2>1, <2>3, <2>4, QuietRuns
<1>5. ASSUME NEW slot \in Least(RemainingInOrder(j)),
             IF job[j].cancel
             THEN Worker(j, [Caught(j) EXCEPT !.slot = slot])
             ELSE Visit(j, [job[j] EXCEPT !.slot = slot])
      PROVE  RunsEffect(j)
  <2>1. slot \in Slots(j[2]) /\ slot \in Nat
    BY <1>1 DEF Least, RemainingInOrder, Missing
  <2>2. \A s \in Slots(j[2]) : s < slot => s \in job[j].done
    <3> SUFFICES ASSUME NEW s \in Slots(j[2]), s < slot, s \notin job[j].done PROVE FALSE
      OBVIOUS
    <3>1. s > job[j].slot
      BY <1>1, <1>2
    <3>2. s \in RemainingInOrder(j)
      BY <3>1 DEF RemainingInOrder, Missing
    <3>3. slot <= s
      BY <3>2 DEF Least
    <3> QED
      BY <1>1, <2>1, <3>3
  <2>3. CASE job[j].cancel
    <3> DEFINE f == [Caught(j) EXCEPT !.slot = slot]
    <3>1. Caught(j) \in Job /\ Caught(j).pc \in {"reportCancelled", "reportFailed"}
      BY CaughtType DEF Before, TypeInv
    <3>2. Caught(j).config = job[j].config /\ Caught(j).done = job[j].done
      BY <1>1 DEF Caught, Job
    <3>3. /\ f \in Job /\ f.pc \in {"reportCancelled", "reportFailed"}
          /\ f.config = job[j].config /\ f.done = job[j].done
      BY <2>1, <3>1, <3>2 DEF Job
    <3>4. Worker(j, f)
      BY <1>5, <2>3
    <3> HIDE DEF f
    <3>5. Covers(j, f)
      BY <1>1, <3>3, LeavingCovers
    <3> QED
      BY <1>3, <3>3, <3>4, <3>5, QuietRuns
  <2>4. CASE ~job[j].cancel
    <3> DEFINE f == [job[j] EXCEPT !.slot = slot]
    <3>1. f \in Job /\ f.slot = slot /\ f.config = job[j].config /\ f.done = job[j].done
      BY <1>1, <2>1 DEF Job
    <3>2. Visit(j, f)
      BY <1>5, <2>4
    <3> HIDE DEF f
    <3> QED
      BY <1>3, <2>1, <2>2, <3>1, <3>2, VisitRuns
  <2> QED
    BY <2>3, <2>4
<1> QED
  BY <1>4, <1>5 DEF PickInOrder

\* The refinement ends when every slot is done.
LEMMA PickFocusedRuns ==
    ASSUME NEW j \in JobIds, Before(j), PickFocused(j)
    PROVE  RunsEffect(j)
<1>1. /\ job[j] \in Job /\ job[j].done \subseteq Slots(j[2]) /\ Slots(j[2]) \subseteq Nat
  BY BeforeTypes, SlotsType
<1>2. UNCHANGED runs /\ j[1] = "refine"
  BY DEF PickFocused
<1>3. CASE Worker(j, Caught(j))
  BY <1>2, <1>3, ThrowRuns
<1>4. CASE Missing(j) = {} /\ Worker(j, [job[j] EXCEPT !.pc = "publish"])
  <2> DEFINE f == [job[j] EXCEPT !.pc = "publish"]
  <2>1. f \in Job /\ f.pc = "publish" /\ f.config = job[j].config /\ f.done = job[j].done
    BY <1>1 DEF Job, WorkerPoints
  <2>2. Slots(j[2]) \subseteq job[j].done
    BY <1>4 DEF Missing
  <2>3. Worker(j, f)
    BY <1>4
  <2> HIDE DEF f
  <2>4. Covers(j, f)
    BY <1>1, <2>1, <2>2 DEF Covers, SlotPoints, Visiting
  <2> QED
    BY <1>2, <2>1, <2>3, <2>4, QuietRuns
<1>5. ASSUME NEW slot \in NextFocused(j),
             Worker(j, [job[j] EXCEPT !.slot = slot, !.pc = "aim"])
      PROVE  RunsEffect(j)
  <2> DEFINE f == [job[j] EXCEPT !.slot = slot, !.pc = "aim"]
  <2>1. slot \in Slots(j[2]) /\ slot \in Nat
    <3>1. NextFocused(j) \subseteq Missing(j)
      BY DEF NextFocused, Least, Greatest
    <3> QED
      BY <1>1, <3>1 DEF Missing
  <2>2. /\ f \in Job /\ f.pc = "aim" /\ f.slot = slot /\ f.config = job[j].config
        /\ f.done = job[j].done
    BY <1>1, <2>1 DEF Job, WorkerPoints
  <2>3. Worker(j, f)
    BY <1>5
  <2> HIDE DEF f
  <2>4. Covers(j, f)
    BY <1>1, <1>2, <2>1, <2>2 DEF Covers, SlotPoints
  <2> QED
    BY <1>2, <2>2, <2>3, <2>4, QuietRuns
<1> QED
  BY <1>3, <1>4, <1>5 DEF PickFocused

\* Reading target_generation.
LEMMA AimRuns ==
    ASSUME NEW j \in JobIds, Before(j), Aim(j)
    PROVE  RunsEffect(j)
<1> DEFINE f == [job[j] EXCEPT !.retargeted = FALSE]
<1>1. /\ f \in Job /\ f.slot = job[j].slot /\ f.config = job[j].config /\ f.done = job[j].done
  BY BeforeTypes DEF Job
<1>2. /\ job[j].slot \in Slots(j[2])
      /\ j[1] = "minimum" => \A s \in Slots(j[2]) : s < job[j].slot => s \in job[j].done
  BY DEF Aim, Before, Covers, Visiting, Behind, SlotPoints
<1>3. Visit(j, f) /\ UNCHANGED runs
  BY DEF Aim
<1> HIDE DEF f
<1> QED
  BY <1>1, <1>2, <1>3, VisitRuns

\* analyze() begins.
LEMMA EnterSearchRuns ==
    ASSUME NEW j \in JobIds, Before(j), EnterSearch(j)
    PROVE  RunsEffect(j)
<1> DEFINE f == [job[j] EXCEPT !.engine = TRUE, !.stopped = FALSE, !.pc = "search"]
<1>1. /\ f \in Job /\ f.pc \in SlotPoints /\ f.slot = job[j].slot
      /\ f.config = job[j].config /\ f.done = job[j].done
  BY BeforeTypes DEF Job, WorkerPoints, SlotPoints
<1>2. Worker(j, f) /\ UNCHANGED runs /\ job[j].pc \in SlotPoints
  BY DEF EnterSearch, SlotPoints
<1> HIDE DEF f
<1> QED
  BY <1>1, <1>2, StayRuns

\* A search that is over leads to the write or to the next search of the slot.
LEMMA SearchedRuns ==
    ASSUME NEW j \in JobIds, Before(j), job[j].pc \in SlotPoints,
           NEW f \in Job, f.slot = job[j].slot, f.config = job[j].config,
           f.done = job[j].done, Searched(j, f), UNCHANGED runs
    PROVE  RunsEffect(j)
<1>1. PICK pc \in {"persist", "enter"}, stage \in Stages :
          Worker(j, [f EXCEPT !.pc = pc, !.stage = stage])
  BY DEF Searched, NextStages, Stages
<1> DEFINE e == [f EXCEPT !.pc = pc, !.stage = stage]
<1>2. /\ e \in Job /\ e.pc \in SlotPoints /\ e.slot = job[j].slot
      /\ e.config = job[j].config /\ e.done = job[j].done
  BY DEF Job, WorkerPoints, SlotPoints
<1>3. Worker(j, e)
  BY <1>1
<1> HIDE DEF e
<1> QED
  BY <1>2, <1>3, StayRuns

\* Both ways for a search to end well.
LEMMA SearchDoneRuns ==
    ASSUME NEW j \in JobIds, Before(j), SearchDone(j) \/ ScoutCached(j)
    PROVE  RunsEffect(j)
<1>1. job[j] \in Job
  BY BeforeTypes
<1>2. CASE SearchDone(j)
  BY <1>1, <1>2, SearchedRuns DEF SearchDone, SlotPoints
<1>3. CASE ScoutCached(j)
  <2> DEFINE f == [job[j] EXCEPT !.engine = TRUE]
  <2>1. /\ f \in Job /\ f.slot = job[j].slot /\ f.config = job[j].config
        /\ f.done = job[j].done
    BY <1>1 DEF Job
  <2>2. Searched(j, f) /\ UNCHANGED runs /\ job[j].pc \in SlotPoints
    BY <1>3 DEF ScoutCached, SlotPoints
  <2> HIDE DEF f
  <2> QED
    BY <2>1, <2>2, SearchedRuns
<1> QED
  BY <1>2, <1>3

\* Only a refinement leaves a slot out, and it comes back to it: the engine of a
\* preparation pass is stopped together with cancel_requested.
LEMMA SearchCutRuns ==
    ASSUME NEW j \in JobIds, Before(j), SearchInterrupted(j) \/ SearchAborted(j)
    PROVE  RunsEffect(j)
<1>1. UNCHANGED runs
  BY DEF SearchInterrupted, SearchAborted
<1>2. CASE Worker(j, Caught(j))
  BY <1>1, <1>2, ThrowRuns
<1>3. CASE j[1] # "minimum" /\ Worker(j, Dropped(j))
  <2>1. /\ Dropped(j) \in Job /\ Dropped(j).pc = "pick"
        /\ Dropped(j).config = job[j].config /\ Dropped(j).done = job[j].done
    BY BeforeTypes DEF Dropped, Job, WorkerPoints, Stages
  <2>2. job[j].done \subseteq Slots(j[2])
    BY BeforeTypes
  <2>3. Covers(j, Dropped(j))
    BY <1>3, <2>1, <2>2 DEF Covers, SlotPoints
  <2> QED
    BY <1>1, <1>3, <2>1, <2>3, QuietRuns
<1>4. SearchInterrupted(j) /\ j[1] = "minimum" => job[j].cancel
  BY DEF SearchInterrupted, Before, StoppedIsCancelled
<1> QED
  BY <1>2, <1>3, <1>4 DEF SearchInterrupted, SearchAborted

\* persist_engine_result, and the slot is done.
LEMMA PersistSlotRuns ==
    ASSUME NEW j \in JobIds, Before(j), PersistSlot(j)
    PROVE  RunsEffect(j)
<1> DEFINE slot == job[j].slot
           done == job[j].done \cup {slot}
<1>1. /\ job[j] \in Job /\ job[j].done \subseteq Slots(j[2]) /\ Slots(j[2]) \subseteq Nat
      /\ slot \in Slots(j[2]) /\ j[2] \in Games
      /\ j[1] = "minimum" => \A s \in Slots(j[2]) : s < slot => s \in job[j].done
  BY BeforeTypes, SlotsType DEF PersistSlot, Before, Covers, Visiting, Behind, SlotPoints
<1>2. CASE ~HasRun(j)
  BY <1>2, ThrowRuns DEF PersistSlot, Throw
<1>3. CASE HasRun(j)
  <2>1. PICK pc \in {"rebuild", "pick"} : Worker(j, [job[j] EXCEPT !.done = done, !.pc = pc])
    BY <1>3 DEF PersistSlot
  <2>2. runs' = PersistRow(runs, RunOf(j), slot, CompletedMoves(j[2], done))
    BY <1>3 DEF PersistSlot
  <2> DEFINE f == [job[j] EXCEPT !.done = done, !.pc = pc]
  <2>3. /\ f \in Job /\ f.pc \in {"rebuild", "pick"} /\ f.slot = slot /\ f.done = done
        /\ f.config = job[j].config
    BY <1>1 DEF Job, WorkerPoints
  <2>4. \A s \in Slots(j[2]) : s < slot + 1 => s < slot \/ s = slot
    BY <1>1
  <2>5. Worker(j, f)
    BY <2>1
  <2> HIDE DEF f
  <2>6. Covers(j, f)
    BY <1>1, <2>3, <2>4 DEF Covers, SlotPoints, Visiting, Behind
  <2> QED
    BY <1>1, <1>3, <2>2, <2>3, <2>5, <2>6, RowRuns
<1> QED
  BY <1>2, <1>3

\* rebuild_classification, of the slots so far or of the whole game.
LEMMA RebuildRuns ==
    ASSUME NEW j \in JobIds, Before(j), RebuildPrefix(j) \/ Publish(j)
    PROVE  RunsEffect(j)
<1>1. CASE Throw(j)
  BY <1>1, ThrowRuns DEF Throw
<1>2. CASE RebuildPrefix(j) /\ ~Throw(j)
  <2> DEFINE f == [job[j] EXCEPT !.pc = "pick"]
  <2>1. /\ f \in Job /\ f.pc = "pick" /\ f.config = job[j].config /\ f.done = job[j].done
        /\ f.slot = job[j].slot
    BY BeforeTypes DEF Job, WorkerPoints
  <2>2. /\ Worker(j, f) /\ runs' = PersistClassifications(runs, RunOf(j), FALSE)
        /\ job[j].pc = "rebuild"
    BY <1>2 DEF RebuildPrefix
  <2> HIDE DEF f
  <2>3. Covers(j, f)
    BY <2>1, <2>2 DEF Before, Covers, SlotPoints, Visiting, Behind
  <2> QED
    BY <2>1, <2>2, <2>3, ClassifyRuns
<1>3. CASE Publish(j) /\ ~Throw(j)
  <2> DEFINE f == [job[j] EXCEPT !.pc = "complete"]
  <2>1. f \in Job /\ f.pc = "complete" /\ f.config = job[j].config /\ f.done = job[j].done
    BY BeforeTypes DEF Job, WorkerPoints
  <2>2. /\ Worker(j, f) /\ runs' = PersistClassifications(runs, RunOf(j), TRUE)
        /\ job[j].pc = "publish"
    BY <1>3 DEF Publish
  <2> HIDE DEF f
  <2>3. Covers(j, f)
    BY <2>1, <2>2 DEF Before, Covers, SlotPoints, Visiting
  <2> QED
    BY <2>1, <2>2, <2>3, ClassifyRuns
<1> QED
  BY <1>1, <1>2, <1>3

\* A worker that leaves and sets the status of its run.
LEMMA StatusRuns ==
    ASSUME NEW j \in JobIds, Before(j), NEW f \in Job, Worker(j, f),
           f.pc \in {"prune", "stop"}, f.config = job[j].config, f.done = job[j].done,
           NEW status \in Statuses \ {"none"},
           status = "complete" => Slots(j[2]) \subseteq job[j].done,
           runs' = SetStatus(runs, RunOf(j), status)
    PROVE  RunsEffect(j)
<1>1. /\ RunOf(j) \in RunIds /\ RunOf(j)[1] = j[2] /\ runs \in Tables /\ TableSound(runs)
      /\ HasRun(j) => job[j].done \subseteq runs[RunOf(j)].rows
      /\ job[j].done \subseteq Slots(j[2])
  BY BeforeTypes DEF Before
<1>2. status = "complete" /\ Present(runs, RunOf(j)) =>
          Slots(RunOf(j)[1]) \subseteq runs[RunOf(j)].rows
  BY <1>1 DEF HasRun
<1>3. TableSound(runs') /\ KeepsRows(runs, runs')
  BY <1>1, <1>2, SetStatusSound
<1>4. Covers(j, f)
  BY <1>1, LeavingCovers
<1> QED
  BY <1>3, <1>4, MoveRuns

\* Complete: every slot is done, and what is done has a row.
LEMMA CompleteRuns ==
    ASSUME NEW j \in JobIds, Before(j), Complete(j)
    PROVE  RunsEffect(j)
<1> DEFINE f == [job[j] EXCEPT !.pc = "prune"]
<1>1. f \in Job /\ f.pc = "prune" /\ f.config = job[j].config /\ f.done = job[j].done
  BY BeforeTypes DEF Job, WorkerPoints
<1>2. Worker(j, f) /\ runs' = SetStatus(runs, RunOf(j), "complete")
  BY DEF Complete
<1>3. Slots(j[2]) \subseteq job[j].done
  BY DEF Complete, Before, Covers
<1>4. "complete" \in Statuses \ {"none"}
  BY DEF Statuses
<1> HIDE DEF f
<1> QED
  BY <1>1, <1>2, <1>3, <1>4, StatusRuns

\* Dropping the other runs of the game.
LEMMA PruneRuns ==
    ASSUME NEW j \in JobIds, Before(j), Prune(j)
    PROVE  RunsEffect(j)
<1> DEFINE f == [job[j] EXCEPT !.state = "completed", !.pc = "stop"]
<1>1. f \in Job /\ f.pc = "stop" /\ f.config = job[j].config /\ f.done = job[j].done
  BY BeforeTypes DEF Job, JobStates, WorkerPoints
<1>2. Worker(j, f) /\ runs' = PruneExcept(runs, j[2], job[j].config)
  BY DEF Prune
<1>3. TableSound(runs') /\ KeepsRows(runs, runs')
  BY <1>2, BeforeTypes, PruneExceptSound DEF Before
<1> HIDE DEF f
<1>4. Covers(j, f)
  BY <1>1, BeforeTypes, LeavingCovers
<1> QED
  BY <1>1, <1>2, <1>3, <1>4, MoveRuns

\* Reporting a cancel or an error.
LEMMA ReportRuns ==
    ASSUME NEW j \in JobIds, Before(j), NEW pc \in {"reportCancelled", "reportFailed"},
           NEW status \in {"cancelled", "error"}, Report(j, pc, status)
    PROVE  RunsEffect(j)
<1> DEFINE f == [job[j] EXCEPT !.pc = "stop"]
<1>1. f \in Job /\ f.pc = "stop" /\ f.config = job[j].config /\ f.done = job[j].done
  BY BeforeTypes DEF Job, WorkerPoints
<1>2. Worker(j, f)
  BY DEF Report
<1>3. status \in Statuses \ {"none"} /\ status # "complete"
  BY DEF Statuses
<1> HIDE DEF f
<1>4. CASE runs' = SetStatus(runs, RunOf(j), status)
  BY <1>1, <1>2, <1>3, <1>4, StatusRuns
<1>5. CASE UNCHANGED runs
  <2>1. Covers(j, f)
    BY <1>1, BeforeTypes, LeavingCovers
  <2> QED
    BY <1>1, <1>2, <1>5, <2>1, QuietRuns
<1> QED
  BY <1>4, <1>5 DEF Report

\* A worker that returns has no completed_slots any more.
LEMMA FinishRuns ==
    ASSUME NEW j \in JobIds, Before(j), Finish(j)
    PROVE  RunsEffect(j)
<1> DEFINE n == NewJob(job[j].config, {}, 0)
           f == [n EXCEPT !.pc = "finished", !.state = job[j].state, !.cancel = job[j].cancel]
<1>1. Worker(j, f) /\ UNCHANGED runs
  BY DEF Finish
<1>2. job[j] \in Job
  BY BeforeTypes
<1>3. n \in Job /\ n.done = {}
  BY <1>2, NewJobType DEF Job, NewJob
<1> HIDE DEF n
<1>4. f \in Job /\ f.pc = "finished" /\ f.done = {}
  BY <1>2, <1>3 DEF Job
<1> HIDE DEF f
<1>5. Covers(j, f)
  BY <1>4, LeavingCovers
<1>6. f.pc \notin WorkerPoints
  BY <1>4 DEF WorkerPoints
<1>7. TableSound(runs') /\ KeepsRows(runs, runs')
  BY <1>1 DEF Before, KeepsRows
<1> QED
  BY <1>1, <1>4, <1>5, <1>6, <1>7 DEF RunsEffect

\* Every step of a worker has the effect described above.
LEMMA WorkerStepRuns ==
    ASSUME NEW j \in JobIds, Before(j), WorkerStep(j)
    PROVE  RunsEffect(j)
<1>1. CASE Fault(j)
  BY <1>1, ThrowRuns DEF Fault, Throw
<1> QED
  BY <1>1, BeginRuns, SkipTheorySlotRuns, EndTheoryRuns, PickInOrderRuns, PickFocusedRuns,
     AimRuns, EnterSearchRuns, SearchDoneRuns, SearchCutRuns, PersistSlotRuns, RebuildRuns,
     CompleteRuns, PruneRuns, ReportRuns, FinishRuns
     DEF WorkerStep

-----------------------------------------------------------------------------
(* The worker steps keep the invariant. *)

\* A worker that steps may assume what the invariant says of it.
LEMMA StepsFromInv ==
    ASSUME IInv, RunsInv, NEW j \in JobIds, WorkerStep(j)
    PROVE  Before(j)
<1>1. Live(j)
  BY DEF WorkerStep, Begin, SkipTheorySlot, EndTheory, PickInOrder, PickFocused, Aim,
         EnterSearch, ScoutCached, SearchDone, SearchInterrupted, SearchAborted,
         PersistSlot, RebuildPrefix, Publish, Complete, Prune, Report, Finish, Fault,
         Live, WorkerPoints
<1>2. RunOf(j) \in RunIds /\ RunOf(j)[1] = j[2]
  BY RunOfType DEF IInv, TypeInv, RunOf
<1>3. HasRun(j) => j[2] \in games
  BY <1>2 DEF IInv, NoOrphanRun, HasRun
<1>4. HasRun(j) => job[j].done \subseteq runs[RunOf(j)].rows
  BY <1>1, <1>3 DEF RunsInv, DoneIsSaved
<1> QED
  BY <1>1, <1>4 DEF Before, IInv, RunsInv, JobsCover

\* A step of a worker, if it keeps the runs in use.
LEMMA WorkerKeepsRuns ==
    ASSUME IInv, RunsInv, KeepsRunsInUse, NEW j \in JobIds, WorkerStep(j)
    PROVE  RunsInv'
<1>3. RunsEffect(j)
  BY StepsFromInv, WorkerStepRuns
<1>4. NoNewRun /\ Unreported
  BY WorkerStepEffect DEF IInv, WorkerEffect
<1>5. PICK f \in Job :
         /\ Worker(j, f)
         /\ Covers(j, f)
         /\ f.pc \in WorkerPoints =>
                /\ Live(j)
                /\ f.config = job[j].config
                /\ f.done \subseteq job[j].done \cup runs'[RunOf(j)].rows
  BY <1>3 DEF RunsEffect
<1>6. TableSound(runs') /\ KeepsRows(runs, runs') /\ UNCHANGED <<games, call>>
  BY <1>3, <1>4 DEF RunsEffect, Unreported
<1>7. job'[j] = f /\ \A k \in JobIds : k # j => job'[k] = job[k]
  BY <1>5 DEF Worker, IInv, TypeInv, TypeOK
<1>8. JobsCover'
  BY <1>5, <1>7 DEF RunsInv, JobsCover
<1>9. \A k \in JobIds : Live(k)' => GoesOn(k)
  <2>1. Live(j)' => GoesOn(j)
    BY <1>5, <1>7 DEF Live, GoesOn
  <2>2. ASSUME NEW k \in JobIds, k # j, Live(k)' PROVE GoesOn(k)
    BY <1>7, <2>2 DEF Live, GoesOn
  <2> QED
    BY <2>1, <2>2
<1>10. DoneIsSaved'
  BY <1>6, <1>9, SavedStaysSaved DEF RunsInv
<1>11. StillMissing'
  <2>1. call.pc = "claim" => Target \in RunIds
    BY DEF IInv, TypeInv, TypeOK, Call, Target, RunIds
  <2> QED
    BY <1>4, <1>6, <2>1 DEF RunsInv, StillMissing, NoNewRun, Target
<1> QED
  BY <1>6, <1>8, <1>10, <1>11 DEF RunsInv

-----------------------------------------------------------------------------
(* So do the calls. *)

\* A call leaves job k where it is, or takes it away.
SameWork(k) ==
    /\ job'[k].pc = job[k].pc /\ job'[k].slot = job[k].slot
    /\ job'[k].done = job[k].done /\ job'[k].config = job[k].config
TakenAway(k) == job'[k].pc = "none" /\ job'[k].done = {}

\* Only the point after the SELECT has something to say of a missing run.
LEMMA ElsewhereStillMissing ==
    ASSUME call'.pc # "claim"
    PROVE  StillMissing'
BY DEF StillMissing

\* What a call that starts no thread has to show.
LEMMA CallRuns ==
    ASSUME IInv, RunsInv, KeepsRunsInUse, TableSound(runs'), KeepsRows(runs, runs'),
           games' \subseteq games, StillMissing',
           \A k \in JobIds : SameWork(k) \/ TakenAway(k)
    PROVE  RunsInv'
<1>1. JobsCover'
  <2> SUFFICES ASSUME NEW k \in JobIds PROVE Covers(k, job'[k])
    BY DEF JobsCover
  <2>1. CASE SameWork(k)
    BY <2>1 DEF SameWork, RunsInv, JobsCover, Covers, Behind
  <2>2. CASE TakenAway(k)
    BY <2>2 DEF TakenAway, Covers, SlotPoints, Visiting
  <2> QED
    BY <2>1, <2>2
<1>2. \A k \in JobIds : Live(k)' => GoesOn(k)
  BY DEF Live, GoesOn, SameWork, TakenAway, WorkerPoints
<1>3. DoneIsSaved'
  BY <1>2, SavedStaysSaved DEF RunsInv
<1> QED
  BY <1>1, <1>3 DEF RunsInv

\* A step of the call alone.
LEMMA QuietCallRuns ==
    ASSUME IInv, RunsInv, KeepsRunsInUse, Quiet, StillMissing'
    PROVE  RunsInv'
<1>1. TableSound(runs') /\ KeepsRows(runs, runs') /\ games' \subseteq games
  BY DEF Quiet, RunsInv, KeepsRows
<1>2. \A k \in JobIds : SameWork(k)
  BY DEF Quiet, SameWork
<1> QED
  BY <1>1, <1>2, CallRuns

\* A write of the calling thread.
LEMMA WriteCallRuns ==
    ASSUME IInv, RunsInv, KeepsRunsInUse, TableSound(runs'), KeepsRows(runs, runs'),
           games' \subseteq games, UNCHANGED job, call'.pc # "claim"
    PROVE  RunsInv'
<1>1. \A k \in JobIds : SameWork(k)
  BY DEF SameWork
<1> QED
  BY <1>1, CallRuns, ElsewhereStillMissing

\* The steps of a call that only move it on.
LEMMA PassingRuns ==
    ASSUME IInv, RunsInv, KeepsRunsInUse,
           \/ Resume \/ Yield \/ TakeOver \/ Compare \/ StartVariation
           \/ CloseRefinements \/ CallFault
           \/ \E g \in Games : CancelAnalysis(g) \/ DeleteAnalysis(g)
           \/ \E gs \in SUBSET Games, then \in Continuations : StopGames(gs, then)
    PROVE  RunsInv'
<1>1. call \in Call /\ Idle \in Call /\ Idle.pc = "idle"
  BY IdleType DEF IInv, TypeInv, TypeOK
<1>2. ASSUME NEW c \in Call, NEW todo, NEW join, NEW mark, NEW then,
             call' = Stopping(c, todo, join, mark, then)
      PROVE  call'.pc # "claim"
  BY <1>2 DEF Stopping, Call
<1>3. Quiet
  BY DEF Resume, Yield, TakeOver, Compare, StartVariation, CloseRefinements, CallFault,
         CancelAnalysis, DeleteAnalysis, StopGames
<1>4. call'.pc # "claim"
  <2>1. CASE Resume
    BY <1>1, <1>2, <2>1 DEF Resume, Call
  <2>2. CASE Yield \/ TakeOver \/ CloseRefinements
    BY <1>1, <1>2, <2>2 DEF Yield, TakeOver, CloseRefinements
  <2>3. CASE Compare \/ CallFault
    BY <1>1, <2>3 DEF Compare, CallFault, Call
  <2>4. CASE StartVariation \/ \E g \in Games : CancelAnalysis(g)
    BY <1>1, <1>2, <2>4 DEF StartVariation, CancelAnalysis
  <2>5. ASSUME NEW g \in Games, DeleteAnalysis(g) PROVE call'.pc # "claim"
    <3>1. [Idle EXCEPT !.game = g] \in Call
      BY <1>1 DEF Call
    <3> QED
      BY <1>2, <2>5, <3>1 DEF DeleteAnalysis
  <2>6. ASSUME NEW gs \in SUBSET Games, NEW then \in Continuations, StopGames(gs, then)
        PROVE  call'.pc # "claim"
    BY <1>1, <2>6 DEF StopGames, Stopping, Call
  <2> QED
    BY <2>1, <2>2, <2>3, <2>4, <2>5, <2>6
<1> QED
  BY <1>3, <1>4, QuietCallRuns, ElsewhereStillMissing

\* The lookup and the SELECT of a start call.
LEMMA LookupRuns ==
    ASSUME IInv, RunsInv, KeepsRunsInUse,
           \/ PrepareRead
           \/ \E kind \in Kinds, g \in Games, ply \in Nat : Start(kind, g, ply)
    PROVE  RunsInv'
<1>1. call \in Call /\ Idle \in Call
  BY IdleType DEF IInv, TypeInv, TypeOK
<1>2. CASE PrepareRead
  <2>1. Quiet /\ call' = [call EXCEPT !.pc = "claim", !.found = runs[Target].status]
    BY <1>2 DEF PrepareRead
  <2>2. call'.found = runs[Target].status /\ Target' = Target
    BY <1>1, <2>1 DEF Call, Target
  <2>3. StillMissing'
    BY <2>1, <2>2 DEF StillMissing, Present, Quiet
  <2> QED
    BY <2>1, <2>3, QuietCallRuns
<1>3. ASSUME NEW kind \in Kinds, NEW g \in Games, NEW ply \in Nat, Start(kind, g, ply)
      PROVE  RunsInv'
  <2> DEFINE c == [Idle EXCEPT !.kind = kind, !.game = g, !.ply = ply]
  <2>1. c \in Call
    BY <1>1 DEF Call
  <2>2. PICK pc \in {"reuse", "prepare"} :
               \E config : call' = [c EXCEPT !.pc = pc, !.config = config]
    BY <1>3 DEF Start
  <2>3. call'.pc # "claim" /\ Quiet
    BY <1>3, <2>1, <2>2 DEF Call, Start
  <2> QED
    BY <2>3, QuietCallRuns, ElsewhereStillMissing
<1> QED
  BY <1>2, <1>3

\* Flags and targets are not what a worker has done; what was joined is gone.
LEMMA FlagsLeaveWork ==
    ASSUME TypeInv, Cancel \/ StopEngine \/ Retarget \/ Preempt \/ Join
    PROVE  /\ UNCHANGED <<games, settings, runs>>
           /\ \A k \in JobIds : SameWork(k) \/ TakenAway(k)
<1>1. /\ call \in Call /\ job \in [JobIds -> Job]
      /\ UNCHANGED <<games, settings, runs>>
  BY DEF Cancel, StopEngine, Retarget, Preempt, Join, TypeInv, TypeOK
<1>2. CASE Join
  <2>1. job' = [j \in JobIds |-> IF j \in call.join THEN NoJob ELSE job[j]]
    BY <1>2 DEF Join
  <2>2. NoJob.pc = "none" /\ NoJob.done = {}
    BY DEF NoJob, NewJob
  <2> QED
    BY <1>1, <2>1, <2>2 DEF SameWork, TakenAway
<1>3. CASE Cancel /\ ~UNCHANGED job
  <2>1. PICK j \in call.todo :
            LET marked == call.mark = "always" \/ (call.mark = "live" /\ Live(j))
            IN  job' = [job EXCEPT ![j].cancel = TRUE,
                                   ![j].state = IF marked THEN "cancelling" ELSE @]
    BY <1>3 DEF Cancel
  <2>2. j \in JobIds
    BY <1>1 DEF Call
  <2> QED
    BY <1>1, <2>1, <2>2 DEF SameWork, Job
<1>4. CASE UNCHANGED job
  BY <1>1, <1>4 DEF SameWork
<1>5. CASE StopEngine
  <2>1. call.victim \in JobIds
    BY <1>1 DEF Call
  <2> QED
    BY <1>1, <1>5, <2>1 DEF StopEngine, SameWork, Job
<1>6. CASE Retarget \/ Preempt
  <2>1. Slot \in JobIds
    BY <1>1, SlotType
  <2> QED
    BY <1>1, <1>6, <2>1 DEF Retarget, Preempt, SameWork, Job
<1> QED
  BY <1>1, <1>2, <1>3, <1>4, <1>5, <1>6

\* So they keep the invariant.
LEMMA FlagRuns ==
    ASSUME IInv, RunsInv, KeepsRunsInUse, Cancel \/ StopEngine \/ Retarget \/ Preempt \/ Join
    PROVE  RunsInv'
<1>1. call \in Call /\ TypeInv
  BY DEF IInv, TypeInv, TypeOK
<1>2. /\ UNCHANGED <<games, settings, runs>>
      /\ \A k \in JobIds : SameWork(k) \/ TakenAway(k)
  BY <1>1, FlagsLeaveWork
<1>3. TableSound(runs') /\ KeepsRows(runs, runs') /\ games' \subseteq games
  BY <1>2 DEF RunsInv, KeepsRows
<1>4. call'.pc # "claim"
  <2>1. CASE Join
    BY <1>1, <2>1, IdleType DEF Join, Call, Continuations
  <2>2. CASE Cancel \/ StopEngine \/ Retarget \/ Preempt
    BY <1>1, <2>2, IdleType DEF Cancel, StopEngine, Retarget, Preempt, Call
  <2> QED
    BY <2>1, <2>2
<1> QED
  BY <1>2, <1>3, <1>4, CallRuns, ElsewhereStillMissing

\* The writes of the start calls and of delete_analysis.
LEMMA TableRuns ==
    ASSUME IInv, RunsInv, KeepsRunsInUse, Reuse \/ Supersede \/ Claim \/ DeleteRows
    PROVE  RunsInv'
<1>1. /\ call \in Call /\ runs \in Tables /\ TableSound(runs)
      /\ UNCHANGED <<games, settings, job>>
  BY DEF Reuse, Supersede, Claim, DeleteRows, IInv, TypeInv, TypeOK, Tables, RunsInv
<1>2. Target \in RunIds /\ KeepsRows(runs, runs)
  BY <1>1 DEF Target, Call, RunIds, KeepsRows
<1>3. call'.pc # "claim"
  BY <1>1, IdleType DEF Reuse, Supersede, Claim, DeleteRows, Call
<1>4. TableSound(runs') /\ KeepsRows(runs, runs')
  <2>1. CASE Reuse
    BY <1>1, <1>2, <2>1, PersistClassificationsSound DEF Reuse
  <2>2. CASE Supersede
    BY <1>1, <2>2, PruneExceptSound DEF Supersede
  <2>3. CASE DeleteRows
    BY <1>1, <2>3, DropGamesSound DEF DeleteRows
  <2>4. CASE Claim
    <3>1. call.found \in Statuses /\ (call.found = "none" => ~Present(runs, Target))
      BY <1>1, <2>4 DEF Call, Claim, RunsInv, StillMissing
    <3>2. \/ UNCHANGED runs
          \/ runs' = PersistClassifications(runs, Target, TRUE)
          \/ runs' = Prepare(runs, Target, call.found)
      BY <2>4 DEF Claim
    <3> QED
      BY <1>1, <1>2, <3>1, <3>2, PersistClassificationsSound, PrepareSound
  <2> QED
    BY <2>1, <2>2, <2>3, <2>4
<1> QED
  BY <1>1, <1>3, <1>4, WriteCallRuns

\* Games go with their runs.
LEMMA RemovalRuns ==
    ASSUME IInv, RunsInv, KeepsRunsInUse, RemoveGames \/ \E g \in Games : DeleteLocalGame(g)
    PROVE  RunsInv'
<1>1. PICK gone : runs' = DropGames(runs, gone) /\ games' = games \ gone
  BY DEF RemoveGames, DeleteLocalGame
<1>2. UNCHANGED job /\ call'.pc # "claim"
  BY IdleType DEF RemoveGames, DeleteLocalGame
<1>3. TableSound(runs') /\ KeepsRows(runs, runs')
  BY <1>1, DropGamesSound DEF IInv, TypeInv, TypeOK, Tables, RunsInv
<1> QED
  BY <1>1, <1>2, <1>3, WriteCallRuns

\* The settings are not what a run is.
LEMMA SettingsRuns ==
    ASSUME IInv, RunsInv, KeepsRunsInUse, \E s \in SettingsSpace : ChangeSettings(s)
    PROVE  RunsInv'
<1>1. UNCHANGED <<games, runs, job, call>> /\ call.pc = "idle"
  BY DEF ChangeSettings
<1>2. TableSound(runs') /\ KeepsRows(runs, runs')
  BY <1>1 DEF RunsInv, KeepsRows
<1> QED
  BY <1>1, <1>2, WriteCallRuns

\* After a crash or a restart there is no job, and nothing new in the table.
LEMMA ReopenRuns ==
    ASSUME IInv, RunsInv, KeepsRunsInUse, Reopen
    PROVE  RunsInv'
<1>1. PICK expired : runs' = Reopened(runs, expired)
  BY DEF Reopen
<1>2. TableSound(runs') /\ KeepsRows(runs, runs')
  BY <1>1, ReopenedSound DEF IInv, TypeInv, TypeOK, Tables, RunsInv
<1>3. games' \subseteq games /\ call'.pc # "claim"
  BY IdleType DEF Reopen
<1>4. NoJob.pc = "none" /\ NoJob.done = {}
  BY DEF NoJob, NewJob
<1>5. \A k \in JobIds : TakenAway(k)
  BY <1>4 DEF Reopen, TakenAway
<1> QED
  BY <1>2, <1>3, <1>5, CallRuns, ElsewhereStillMissing

\* A new worker has done what its run has rows for.
LEMMA SpawnRuns ==
    ASSUME IInv, RunsInv, KeepsRunsInUse, Spawn
    PROVE  RunsInv'
<1>1. /\ call \in Call /\ job \in [JobIds -> Job] /\ runs \in [RunIds -> Run]
      /\ UNCHANGED <<games, settings, runs>> /\ call'.pc # "claim"
  BY IdleType DEF Spawn, IInv, TypeInv, TypeOK
<1>2. Slot \in JobIds /\ Slot[2] = call.game /\ Target \in RunIds
  BY <1>1, SlotType DEF Slot, Target, Call, RunIds
<1>3. TableSound(runs') /\ KeepsRows(runs, runs')
  BY <1>1 DEF RunsInv, KeepsRows
<1>4. CASE UNCHANGED job
  BY <1>1, <1>3, <1>4, WriteCallRuns
<1>5. CASE job' = [job EXCEPT ![Slot] = NewJob(call.config, runs[Target].rows, call.ply)]
  <2> DEFINE n == NewJob(call.config, runs[Target].rows, call.ply)
  <2>1. /\ n.pc = "begin" /\ n.slot = -1 /\ n.done = runs[Target].rows
        /\ n.config = call.config
    BY DEF NewJob
  <2>2. job'[Slot] = n /\ \A k \in JobIds : k # Slot => job'[k] = job[k]
    BY <1>1, <1>2, <1>5
  <2> HIDE DEF n
  <2>3. runs[Target].rows \subseteq Slots(call.game)
    BY <1>2 DEF RunsInv, TableSound, RunSound, Target
  <2>4. Covers(Slot, n)
    <3>1. \A s \in Slots(call.game) : ~(s < 0)
      BY <1>1, SlotsType DEF Call
    <3> QED
      BY <1>2, <2>1, <2>3, <3>1 DEF Covers, SlotPoints, Visiting, Behind
  <2>5. JobsCover'
    BY <2>2, <2>4 DEF RunsInv, JobsCover
  <2>6. \A k \in JobIds : Live(k)' => GoesOn(k) \/ StartsFresh(k)
    <3>1. StartsFresh(Slot)
      BY <1>1, <1>2, <2>1, <2>2 DEF StartsFresh, Target
    <3>2. ASSUME NEW k \in JobIds, k # Slot, Live(k)' PROVE GoesOn(k)
      BY <2>2, <3>2 DEF Live, GoesOn
    <3> QED
      BY <3>1, <3>2
  <2>7. DoneIsSaved'
    BY <1>1, <1>3, <2>6, SavedStaysSaved DEF RunsInv
  <2> QED
    BY <1>1, <1>3, <2>5, <2>7, ElsewhereStillMissing DEF RunsInv
<1> QED
  BY <1>4, <1>5 DEF Spawn

\* Every step of a call, and every new call.
LEMMA CallKeepsRuns ==
    ASSUME IInv, RunsInv, KeepsRunsInUse, CallStep \/ NewCall
    PROVE  RunsInv'
<1>1. CASE CallStep
  <2>1. CASE CallFault \/ Resume \/ Yield \/ TakeOver \/ Compare \/ CloseRefinements
    BY <2>1, PassingRuns
  <2>2. CASE Restart
    BY <2>2, ReopenRuns DEF Restart
  <2> QED
    BY <1>1, <2>1, <2>2, FlagRuns, TableRuns, LookupRuns, SpawnRuns, RemovalRuns DEF CallStep
<1>2. CASE NewCall
  <2>1. ASSUME NEW g \in Games, StartAnalysis(g) PROVE RunsInv'
    BY <2>1, LookupRuns DEF StartAnalysis, Kinds
  <2>2. ASSUME NEW g \in Games, NEW ply \in Slots(g), StartRefinement(g, ply) PROVE RunsInv'
    BY <2>2, LookupRuns, SlotsType DEF StartRefinement, Kinds
  <2>3. ASSUME NEW g \in Games, CancelAnalysis(g) \/ DeleteAnalysis(g) PROVE RunsInv'
    BY <2>3, PassingRuns
  <2>4. ASSUME NEW g \in Games, DeleteLocalGame(g) PROVE RunsInv'
    BY <2>4, RemovalRuns
  <2>5. CASE StartVariation
    BY <2>5, PassingRuns
  <2>6. ASSUME NEW gs \in SUBSET Games, NEW then \in {"closeProfile", "closeAll"},
               StopGames(gs, then)
        PROVE  RunsInv'
    <3>1. then \in Continuations
      BY DEF Continuations
    <3> QED
      BY <2>6, <3>1, PassingRuns
  <2>7. ASSUME NEW gs \in SUBSET Games, DeleteProfile(gs) PROVE RunsInv'
    BY <2>6, <2>7 DEF DeleteProfile
  <2>8. CASE Shutdown
    BY <2>6, <2>8 DEF Shutdown
  <2>9. ASSUME NEW s \in SettingsSpace, ChangeSettings(s) PROVE RunsInv'
    BY <2>9, SettingsRuns
  <2>10. CASE Crash
    BY <2>10, ReopenRuns DEF Crash
  <2> QED
    BY <1>2, <2>1, <2>2, <2>3, <2>4, <2>5, <2>7, <2>8, <2>9, <2>10 DEF NewCall
<1> QED
  BY <1>1, <1>2

-----------------------------------------------------------------------------
(* Theorems. *)

\* As long as no run is deleted under a worker that goes on with it, the table
\* is sound, workers have done what their points say, and that is saved.
THEOREM RunsAreSound == Spec /\ [][KeepsRunsInUse]_vars => []RunsInv
<1>1. IInv /\ RunsInv /\ [Next]_vars /\ [KeepsRunsInUse]_vars => RunsInv'
  <2> SUFFICES ASSUME IInv, RunsInv, [Next]_vars, [KeepsRunsInUse]_vars PROVE RunsInv'
    OBVIOUS
  <2>1. CASE UNCHANGED vars
    BY <2>1 DEF vars, RunsInv, JobsCover, DoneIsSaved, StillMissing, Live, RunOf, Target
  <2>2. CASE Next /\ KeepsRunsInUse
    BY <2>2, WorkerKeepsRuns, CallKeepsRuns DEF Next
  <2> QED
    BY <2>1, <2>2
<1> QED
  BY RunsInit, <1>1, Invariance, PTL DEF Spec

\* Then a run marked complete has a row for every position of its game,
THEOREM CompleteIsWhole == Spec /\ [][KeepsRunsInUse]_vars => []CompleteRunIsWhole
<1>1. RunsInv => CompleteRunIsWhole
  BY DEF RunsInv, TableSound, RunSound, CompleteRunIsWhole
<1> QED
  BY <1>1, RunsAreSound, PTL

\* completed_plies promises no move that the rows do not cover,
THEOREM ProgressBacked == Spec /\ [][KeepsRunsInUse]_vars => []ProgressIsBacked
<1>1. RunsInv => ProgressIsBacked
  BY DEF RunsInv, TableSound, RunSound, ProgressIsBacked
<1> QED
  BY <1>1, RunsAreSound, PTL

\* and what a worker takes for done has its row.
THEOREM WorkersTrustRows == Spec /\ [][KeepsRunsInUse]_vars => []WorkerTrustsRows
<1>1. IInv /\ RunsInv => WorkerTrustsRows
  <2> SUFFICES ASSUME IInv, RunsInv, NEW j \in JobIds, Live(j), HasRun(j)
               PROVE  job[j].done \subseteq runs[RunOf(j)].rows
    BY DEF WorkerTrustsRows
  <2>1. RunOf(j) \in RunIds /\ RunOf(j)[1] = j[2]
    BY RunOfType DEF IInv, TypeInv, RunOf
  <2>2. j[2] \in games
    BY <2>1 DEF IInv, NoOrphanRun, HasRun
  <2> QED
    BY <2>2 DEF RunsInv, DoneIsSaved
<1> QED
  BY <1>1, RunsAreSound, Invariance, PTL

-----------------------------------------------------------------------------
(* Where the hypothesis can fail.                                            *)

\* The steps that delete a game's other runs: a start that reuses one, and a
\* pass that completes.
Pruning == Supersede \/ \E j \in JobIds : Prune(j)

\* What deletes no run takes none away from a worker.
LEMMA KeepingIsInUse ==
    ASSUME TypeInv, KeepsPresent(runs, runs')
    PROVE  KeepsRunsInUse
BY RunOfType DEF KeepsPresent, KeepsRunsInUse, HasRun, RunOf, TypeInv

\* A worker deletes runs only in Prune.
LEMMA WorkersKeepPresent ==
    ASSUME TypeInv, NEW j \in JobIds, WorkerStep(j), ~Prune(j)
    PROVE  KeepsPresent(runs, runs')
<1>1. runs \in Tables /\ RunOf(j) \in RunIds /\ KeepsPresent(runs, runs)
  BY RunOfType DEF TypeInv, TypeOK, Tables, RunOf, KeepsPresent
<1>2. CASE UNCHANGED runs
  BY <1>1, <1>2
<1>3. ASSUME NEW status \in Statuses \ {"none"}, runs' = SetStatus(runs, RunOf(j), status)
      PROVE  KeepsPresent(runs, runs')
  BY <1>1, <1>3, WritesKeepPresent
<1>4. ASSUME NEW slot, NEW plies, runs' = PersistRow(runs, RunOf(j), slot, plies)
      PROVE  KeepsPresent(runs, runs')
  BY <1>1, <1>4, WritesKeepPresent
<1>5. ASSUME NEW finalize, runs' = PersistClassifications(runs, RunOf(j), finalize)
      PROVE  KeepsPresent(runs, runs')
  BY <1>1, <1>5, WritesKeepPresent
<1>6. CASE SkipTheorySlot(j) \/ PersistSlot(j)
  <2>1. \/ UNCHANGED runs
        \/ \E slot, plies : runs' = PersistRow(runs, RunOf(j), slot, plies)
    BY <1>6 DEF SkipTheorySlot, PersistSlot, Throw
  <2> QED
    BY <1>2, <1>4, <2>1
<1>7. CASE EndTheory(j) \/ RebuildPrefix(j) \/ Publish(j)
  <2>1. \/ UNCHANGED runs
        \/ \E finalize : runs' = PersistClassifications(runs, RunOf(j), finalize)
    BY <1>7 DEF EndTheory, RebuildPrefix, Publish, Throw
  <2> QED
    BY <1>2, <1>5, <2>1
<1>8. CASE \/ Complete(j)
           \/ Report(j, "reportCancelled", "cancelled") \/ Report(j, "reportFailed", "error")
  <2>1. \/ UNCHANGED runs
        \/ \E status \in {"complete", "cancelled", "error"} :
               runs' = SetStatus(runs, RunOf(j), status)
    BY <1>8 DEF Complete, Report
  <2> QED
    BY <1>2, <1>3, <2>1 DEF Statuses
<1>9. CASE \/ Begin(j) \/ PickInOrder(j) \/ PickFocused(j) \/ Aim(j) \/ EnterSearch(j)
           \/ ScoutCached(j) \/ SearchDone(j) \/ SearchInterrupted(j) \/ SearchAborted(j)
           \/ Finish(j) \/ Fault(j)
  <2>1. UNCHANGED runs
    BY <1>9 DEF Begin, PickInOrder, PickFocused, Aim, EnterSearch, ScoutCached, SearchDone,
                SearchInterrupted, SearchAborted, Finish, Fault, Throw
  <2> QED
    BY <1>2, <2>1
<1> QED
  BY <1>6, <1>7, <1>8, <1>9 DEF WorkerStep

\* A removed game has no worker that goes on with it: delete_analysis and
\* delete_profile have joined them, and delete_local_game takes the game.
LEMMA RemovalsInUse ==
    ASSUME IInv, \/ DeleteRows \/ RemoveGames \/ Restart \/ Crash
                 \/ \E g \in Games : DeleteLocalGame(g)
    PROVE  KeepsRunsInUse
<1>1. job \in [JobIds -> Job] /\ runs \in [RunIds -> Run] /\ call \in Call
  BY DEF IInv, TypeInv, TypeOK
<1>2. ASSUME NEW gone, runs' = DropGames(runs, gone), UNCHANGED job,
             \A j \in JobIds : Live(j) /\ j[2] \in games' => j[2] \notin gone
      PROVE  KeepsRunsInUse
  <2> SUFFICES ASSUME NEW j \in JobIds, Live(j), HasRun(j), j[2] \in games'
               PROVE  Present(runs', RunOf(j))
    BY DEF KeepsRunsInUse
  <2>1. RunOf(j) \in RunIds /\ RunOf(j)[1] = j[2]
    BY <1>1, RunOfType DEF RunOf, IInv, TypeInv
  <2> QED
    BY <1>2, <2>1 DEF DropGames, HasRun, Present
<1>3. CASE DeleteRows
  <2>1. ASSUME NEW j \in JobIds, j[2] = call.game PROVE ~Live(j)
    BY <1>3, <2>1 DEF DeleteRows, IInv, JoinsEnough, MustBeGone, Stops
  <2>2. runs' = DropGames(runs, {call.game}) /\ UNCHANGED job
    BY <1>3 DEF DeleteRows
  <2> QED
    BY <1>2, <2>1, <2>2
<1>4. CASE RemoveGames
  BY <1>2, <1>4 DEF RemoveGames
<1>5. ASSUME NEW g \in Games, DeleteLocalGame(g) PROVE KeepsRunsInUse
  BY <1>2, <1>5 DEF DeleteLocalGame
<1>6. CASE Restart \/ Crash
  <2>1. job' = [j \in JobIds |-> NoJob]
    BY <1>6 DEF Restart, Crash, Reopen
  <2> QED
    BY <2>1, NoJobType DEF KeepsRunsInUse, Live, WorkerPoints
<1> QED
  BY <1>3, <1>4, <1>5, <1>6

\* A call begins without a write, but for a crash and a game that goes.
LEMMA NewCallsWriteNothing ==
    ASSUME NewCall
    PROVE  UNCHANGED runs \/ Crash \/ \E g \in Games : DeleteLocalGame(g)
<1>1. ASSUME NEW g \in Games,
             \/ StartAnalysis(g) \/ \E ply \in Slots(g) : StartRefinement(g, ply)
             \/ CancelAnalysis(g) \/ DeleteAnalysis(g)
      PROVE  UNCHANGED runs
  BY <1>1 DEF StartAnalysis, StartRefinement, Start, CancelAnalysis, DeleteAnalysis, Quiet
<1>2. ASSUME \/ StartVariation \/ Shutdown \/ \E gs \in SUBSET Games : DeleteProfile(gs)
             \/ \E s \in SettingsSpace : ChangeSettings(s)
      PROVE  UNCHANGED runs
  BY <1>2 DEF StartVariation, Shutdown, DeleteProfile, StopGames, ChangeSettings, Quiet
<1> QED
  BY <1>1, <1>2 DEF NewCall

\* The other steps of a call delete nothing.
LEMMA CallsInUse ==
    ASSUME IInv, CallStep \/ NewCall, ~Supersede
    PROVE  KeepsRunsInUse
<1>1. runs \in Tables /\ Target \in RunIds /\ call.found \in Statuses /\ TypeInv
  BY DEF IInv, TypeInv, TypeOK, Tables, Target, Call, RunIds
<1>2. CASE UNCHANGED runs
  BY <1>1, <1>2, KeepingIsInUse DEF KeepsPresent
<1>3. CASE Reuse \/ Claim
  <2>1. \/ UNCHANGED runs
        \/ runs' = PersistClassifications(runs, Target, TRUE)
        \/ runs' = Prepare(runs, Target, call.found)
    BY <1>3 DEF Reuse, Claim
  <2>2. KeepsPresent(runs, PersistClassifications(runs, Target, TRUE))
    BY <1>1, WritesKeepPresent DEF Statuses
  <2>3. KeepsPresent(runs, Prepare(runs, Target, call.found))
    BY <1>1, WritesKeepPresent DEF Statuses
  <2> QED
    BY <1>1, <1>2, <2>1, <2>2, <2>3, KeepingIsInUse
<1>4. CASE CallStep
  <2>1. CASE \/ Cancel \/ StopEngine \/ Join \/ PrepareRead \/ Resume \/ Yield \/ TakeOver
             \/ Retarget \/ Compare \/ Preempt \/ Spawn \/ CloseRefinements \/ CallFault
    <3>1. UNCHANGED runs
      BY <2>1 DEF Cancel, StopEngine, Join, PrepareRead, Resume, Yield, TakeOver, Retarget,
                  Compare, Preempt, Spawn, CloseRefinements, CallFault, Quiet
    <3> QED
      BY <1>2, <3>1
  <2> QED
    BY <1>3, <1>4, <2>1, RemovalsInUse DEF CallStep
<1>5. CASE NewCall
  <2>1. UNCHANGED runs \/ Crash \/ \E g \in Games : DeleteLocalGame(g)
    BY <1>5, NewCallsWriteNothing
  <2> QED
    BY <1>2, <2>1, RemovalsInUse
<1> QED
  BY <1>4, <1>5

\* Only those two steps can take a run away from a worker that goes on with it:
\* every other deletion, of an analysis, a game or a profile, has stopped the
\* workers first, or takes the game along.
THEOREM OnlyPruningTakesRuns == Spec => [][KeepsRunsInUse \/ Pruning]_vars
<1>1. IInv /\ [Next]_vars => [KeepsRunsInUse \/ Pruning]_vars
  <2> SUFFICES ASSUME IInv, Next, ~Pruning PROVE KeepsRunsInUse
    OBVIOUS
  <2>1. CASE CallStep \/ NewCall
    BY <2>1, CallsInUse DEF Pruning
  <2>2. ASSUME NEW j \in JobIds, WorkerStep(j) PROVE KeepsRunsInUse
    <3>1. TypeInv /\ ~Prune(j)
      BY DEF IInv, Pruning
    <3> QED
      BY <2>2, <3>1, WorkersKeepPresent, KeepingIsInUse
  <2> QED
    BY <2>1, <2>2 DEF Next
<1> QED
  BY <1>1, Invariance, PTL DEF Spec

\* So with one configuration, as when the settings stay and the minimum depth
\* is the maximum, the promises hold without the hypothesis: there is no other
\* run of a game to delete.
THEOREM OneConfigurationIsSafe ==
    ASSUME \A c, d \in Configs : c = d
    PROVE  Spec => [](CompleteRunIsWhole /\ ProgressIsBacked /\ WorkerTrustsRows)
<1>1. IInv /\ [KeepsRunsInUse \/ Pruning]_vars => [KeepsRunsInUse]_vars
  <2> SUFFICES ASSUME IInv, Pruning PROVE KeepsRunsInUse
    OBVIOUS
  <2>1. PICK g \in Games, keep \in Configs : runs' = PruneExcept(runs, g, keep)
    <3>1. CASE Supersede
      BY <3>1 DEF Supersede, IInv, TypeInv, TypeOK, Call
    <3>2. ASSUME NEW j \in JobIds, Prune(j)
          PROVE  \E g \in Games, keep \in Configs : runs' = PruneExcept(runs, g, keep)
      BY <3>2 DEF Prune, IInv, TypeInv, TypeOK, Job, JobIds
    <3> QED
      BY <3>1, <3>2 DEF Pruning
  <2>2. \A id \in RunIds : runs'[id] = runs[id]
    BY <2>1 DEF PruneExcept, RunIds
  <2> QED
    BY <2>2, KeepingIsInUse DEF KeepsPresent, Present, IInv
<1>2. Spec => [][KeepsRunsInUse]_vars
  BY <1>1, OnlyPruningTakesRuns, Invariance, PTL
<1> QED
  BY <1>2, CompleteIsWhole, ProgressBacked, WorkersTrustRows, PTL

-----------------------------------------------------------------------------
(* Callers that stay clear of those two steps.                               *)

\* What a caller can see to, although the code does not: the settings change
\* while no analysis runs, and start_analysis_json is not called for a game
\* whose refinement still runs.
CarefulUse ==
    /\ settings' # settings => \A j \in JobIds : ~Live(j)
    /\ \A g \in Games : StartAnalysis(g) => ~Live(<<"refine", g>>)

\* The points of a start call at which it may still come to create a thread.
StartPoints == {"prepare", "claim", "resume", "yield", "takeOver", "spawn"}
Starting ==
    \/ call.pc \in StartPoints
    \/ call.pc \in Stops /\ call.then \in StartPoints

\* c is what is requested now, and no other complete run of g serves it.
Serves(kind, g, c) ==
    c = Request(kind) /\ CompatibleConfigs(runs, g, c) \subseteq {c}

\* A game has one worker at most, and it makes what is requested and missing.
UseJobs ==
    /\ \A j, k \in JobIds : Live(j) /\ Live(k) /\ j[2] = k[2] => j = k
    /\ \A j \in JobIds : Live(j) => Serves(j[1], j[2], job[j].config)

\* A start call that finds no run makes what is missing too; one that reuses a
\* run meets no worker of the game but one that makes this very run.
UseCall ==
    /\ Starting =>
           /\ Serves(call.kind, call.game, call.config)
           /\ call.kind = "minimum" => ~Live(<<"refine", call.game>>)
           /\ call.kind = "refine" => settings.depth > settings.minDepth
    /\ call.pc \in {"reuse", "supersede"} =>
           \A j \in JobIds : Live(j) /\ j[2] = call.game => job[j].config = call.config

UseInv == UseJobs /\ UseCall

\* It leaves the pruning steps no run of a worker to delete.
LEMMA PruningInUse ==
    ASSUME IInv, UseInv, Pruning
    PROVE  KeepsRunsInUse
<1> SUFFICES ASSUME NEW k \in JobIds, Live(k), HasRun(k) PROVE Present(runs', RunOf(k))
  BY DEF KeepsRunsInUse
<1>1. RunOf(k) \in RunIds /\ RunOf(k) = <<k[2], job[k].config>>
  BY RunOfType DEF IInv, TypeInv, RunOf
<1>2. CASE Supersede
  <2>1. runs' = PruneExcept(runs, call.game, call.config) /\ call.pc = "supersede"
    BY <1>2 DEF Supersede
  <2>2. k[2] = call.game => job[k].config = call.config
    BY <2>1 DEF UseInv, UseCall
  <2> QED
    BY <1>1, <2>1, <2>2 DEF PruneExcept, HasRun, Present
<1>3. ASSUME NEW j \in JobIds, Prune(j) PROVE Present(runs', RunOf(k))
  <2>1. runs' = PruneExcept(runs, j[2], job[j].config) /\ Live(j)
    BY <1>3 DEF Prune, Live, WorkerPoints
  <2>2. k[2] = j[2] => k = j
    BY <2>1 DEF UseInv, UseJobs
  <2> QED
    BY <1>1, <2>1, <2>2 DEF PruneExcept, HasRun, Present
<1> QED
  BY <1>2, <1>3 DEF Pruning

\* So no step deletes a run that a worker goes on with.
LEMMA UseKeepsRuns ==
    ASSUME IInv, UseInv, Next
    PROVE  KeepsRunsInUse
<1>1. CASE Pruning
  BY <1>1, PruningInUse
<1>2. CASE ~Pruning
  <2>1. CASE CallStep \/ NewCall
    BY <1>2, <2>1, CallsInUse DEF Pruning
  <2>2. ASSUME NEW j \in JobIds, WorkerStep(j) PROVE KeepsRunsInUse
    <3>1. TypeInv /\ ~Prune(j)
      BY <1>2 DEF IInv, Pruning
    <3> QED
      BY <2>2, <3>1, WorkersKeepPresent, KeepingIsInUse
  <2> QED
    BY <2>1, <2>2 DEF Next
<1> QED
  BY <1>1, <1>2

\* Requests: what is better than enough is enough, a run of the maximum depth
\* serves as one of the minimum depth, and not the other way round.
LEMMA SatisfiesTransitive ==
    ASSUME NEW a \in Configs, NEW b \in Configs, NEW c \in Configs,
           Satisfies(a, b), Satisfies(b, c)
    PROVE  Satisfies(a, c)
BY ConfigAssumption DEF Satisfies

\* The two configurations that the settings ask for.
LEMMA RequestsCompare ==
    ASSUME NEW s \in SettingsSpace
    PROVE  /\ Satisfies(MaxConfig(s), MinConfig(s))
           /\ s.depth > s.minDepth => ~Satisfies(MinConfig(s), MaxConfig(s))
<1>1. /\ MinConfig(s).depth = s.minDepth /\ MaxConfig(s).depth = s.depth
      /\ s.minDepth <= s.depth
      /\ MinConfig(s).multiPv = s.multiPv /\ MaxConfig(s).multiPv = s.multiPv
      /\ MinConfig(s).time = s.time /\ MaxConfig(s).time = s.time
      /\ MinConfig(s).adaptive = s.adaptive /\ MaxConfig(s).adaptive = s.adaptive
  BY SettingsAssumption DEF MinConfig, MaxConfig
<1>2. MinConfig(s) \in Configs /\ MaxConfig(s) \in Configs
  BY SettingsTypes
<1>3. s.minDepth \in Nat /\ s.depth \in Nat /\ s.multiPv \in Nat /\ s.time \in Nat
  BY <1>1, <1>2, ConfigAssumption
<1> QED
  BY <1>1, <1>3 DEF Satisfies

\* A worker completes no run but its own.
LEMMA OnlyOwnCompleted ==
    ASSUME TypeInv, NEW j \in JobIds, WorkerStep(j)
    PROVE  \A id \in RunIds : runs'[id].status = "complete" =>
               runs[id].status = "complete" \/ id = RunOf(j)
<1>1. runs \in [RunIds -> Run] /\ RunOf(j) \in RunIds
  BY RunOfType DEF TypeInv, TypeOK
<1>2. CASE UNCHANGED runs
  BY <1>2
<1>3. ASSUME NEW status, runs' = SetStatus(runs, RunOf(j), status)
      PROVE  \A id \in RunIds \ {RunOf(j)} : runs'[id] = runs[id]
  BY <1>1, <1>3 DEF SetStatus
<1>4. ASSUME NEW slot, NEW plies, runs' = PersistRow(runs, RunOf(j), slot, plies)
      PROVE  \A id \in RunIds \ {RunOf(j)} : runs'[id] = runs[id]
  BY <1>1, <1>4 DEF PersistRow
<1>5. ASSUME NEW finalize, runs' = PersistClassifications(runs, RunOf(j), finalize)
      PROVE  \A id \in RunIds \ {RunOf(j)} : runs'[id] = runs[id]
  BY <1>1, <1>5 DEF PersistClassifications
<1>6. CASE SkipTheorySlot(j) \/ PersistSlot(j)
  <2>1. \/ UNCHANGED runs
        \/ \E slot, plies : runs' = PersistRow(runs, RunOf(j), slot, plies)
    BY <1>6 DEF SkipTheorySlot, PersistSlot, Throw
  <2> QED
    BY <1>2, <1>4, <2>1
<1>7. CASE EndTheory(j) \/ RebuildPrefix(j) \/ Publish(j)
  <2>1. \/ UNCHANGED runs
        \/ \E finalize : runs' = PersistClassifications(runs, RunOf(j), finalize)
    BY <1>7 DEF EndTheory, RebuildPrefix, Publish, Throw
  <2> QED
    BY <1>2, <1>5, <2>1
<1>8. CASE \/ Complete(j)
           \/ Report(j, "reportCancelled", "cancelled") \/ Report(j, "reportFailed", "error")
  <2>1. UNCHANGED runs \/ \E status : runs' = SetStatus(runs, RunOf(j), status)
    BY <1>8 DEF Complete, Report
  <2> QED
    BY <1>2, <1>3, <2>1
<1>9. CASE Prune(j)
  <2>1. \A id \in RunIds : runs'[id] = runs[id] \/ runs'[id] = NoRun
    BY <1>9 DEF Prune, PruneExcept
  <2> QED
    BY <2>1 DEF NoRun
<1>10. CASE \/ Begin(j) \/ PickInOrder(j) \/ PickFocused(j) \/ Aim(j) \/ EnterSearch(j)
            \/ ScoutCached(j) \/ SearchDone(j) \/ SearchInterrupted(j) \/ SearchAborted(j)
            \/ Finish(j) \/ Fault(j)
  <2>1. UNCHANGED runs
    BY <1>10 DEF Begin, PickInOrder, PickFocused, Aim, EnterSearch, ScoutCached, SearchDone,
                 SearchInterrupted, SearchAborted, Finish, Fault, Throw
  <2> QED
    BY <1>2, <2>1
<1> QED
  BY <1>6, <1>7, <1>8, <1>9, <1>10 DEF WorkerStep

\* A worker that completes its run makes the one that was missing; a start call
\* for the game that is under way is for this run, or for a deeper one.
LEMMA WorkerKeepsUse ==
    ASSUME IInv, RunsInv, UseInv, NEW j \in JobIds, WorkerStep(j)
    PROVE  UseInv'
<1>1. Before(j) /\ RunsEffect(j)
  BY StepsFromInv, WorkerStepRuns
<1>2. Unreported
  BY WorkerStepEffect DEF IInv, WorkerEffect
<1>3. UNCHANGED <<settings, call>>
  BY <1>2 DEF Unreported
<1>4. \A k \in JobIds : Live(k)' => Live(k) /\ job'[k].config = job[k].config
  <2>1. PICK f \in Job : Worker(j, f) /\ (f.pc \in WorkerPoints => f.config = job[j].config)
    BY <1>1 DEF RunsEffect
  <2>2. job'[j] = f /\ \A k \in JobIds : k # j => job'[k] = job[k]
    BY <2>1 DEF Worker, IInv, TypeInv, TypeOK
  <2> QED
    BY <1>1, <2>1, <2>2 DEF Live, Before
<1>5. Live(j) /\ j = <<j[1], j[2]>> /\ RunOf(j) = <<j[2], job[j].config>>
  BY <1>1 DEF Before, JobIds, RunOf
<1>6. \A g \in Games, d \in Configs : runs'[<<g, d>>].status = "complete" =>
          \/ runs[<<g, d>>].status = "complete"
          \/ g = j[2] /\ d = job[j].config
  <2>1. TypeInv
    BY DEF IInv
  <2>2. \A g \in Games, d \in Configs : <<g, d>> \in RunIds
    BY DEF RunIds
  <2> QED
    BY <1>5, <2>1, <2>2, OnlyOwnCompleted
<1>7. UseJobs'
  <2>1. \A k, l \in JobIds : Live(k)' /\ Live(l)' /\ k[2] = l[2] => k = l
    BY <1>4 DEF UseInv, UseJobs
  <2>2. ASSUME NEW k \in JobIds, Live(k)' PROVE Serves(k[1], k[2], job[k].config)'
    <3>1. Serves(k[1], k[2], job[k].config) /\ k[2] \in Games
      BY <1>4, <2>2 DEF UseInv, UseJobs, JobIds
    <3>2. k[2] = j[2] => job[j].config = job[k].config
      BY <1>4, <1>5, <2>2 DEF UseInv, UseJobs
    <3> DEFINE c == job[k].config
    <3>3. \A d \in Configs : runs'[<<k[2], d>>].status = "complete" =>
              runs[<<k[2], d>>].status = "complete" \/ d = c
      BY <1>6, <3>1, <3>2
    <3>4. job'[k].config = c
      BY <1>4, <2>2
    <3> HIDE DEF c
    <3>5. Serves(k[1], k[2], c)
      BY <3>1 DEF c
    <3> QED
      BY <1>3, <3>3, <3>4, <3>5 DEF Serves, Request, CompatibleConfigs
  <2> QED
    BY <2>1, <2>2 DEF UseJobs
<1>8. UseCall'
  <2>1. Starting' = Starting
    BY <1>3 DEF Starting
  <2>2. ASSUME Starting
        PROVE  /\ Serves(call.kind, call.game, call.config)'
               /\ (call.kind = "minimum" => ~Live(<<"refine", call.game>>))'
               /\ (call.kind = "refine" => settings.depth > settings.minDepth)'
    <3>1. /\ Serves(call.kind, call.game, call.config)
          /\ call.kind = "minimum" => ~Live(<<"refine", call.game>>)
          /\ call.kind = "refine" => settings.depth > settings.minDepth
      BY <2>2 DEF UseInv, UseCall
    <3>2. /\ call.kind \in Kinds /\ call.game \in Games /\ settings \in SettingsSpace
      BY DEF IInv, TypeInv, TypeOK, Call
    <3>3. <<"refine", call.game>> \in JobIds
      BY <3>2 DEF JobIds, Kinds
    <3>4. call.game = j[2] =>
              job[j].config = call.config \/ ~Satisfies(job[j].config, call.config)
      <4>1. Serves(j[1], j[2], job[j].config)
        BY <1>5 DEF UseInv, UseJobs
      <4>2. job[j].config = Request(j[1]) /\ call.config = Request(call.kind)
        BY <3>1, <4>1 DEF Serves
      <4>3. j[1] \in Kinds
        BY DEF JobIds
      <4>4. CASE j[1] = call.kind
        BY <4>2, <4>4
      <4>5. CASE j[1] = "refine" /\ call.kind = "minimum"
        BY <1>5, <3>1, <4>5
      <4>6. CASE j[1] = "minimum" /\ call.kind = "refine"
        <5>1. job[j].config = MinConfig(settings) /\ call.config = MaxConfig(settings)
          BY <4>2, <4>6 DEF Request
        <5> QED
          BY <3>1, <3>2, <4>6, <5>1, RequestsCompare
      <4> QED
        BY <3>2, <4>3, <4>4, <4>5, <4>6 DEF Kinds
    <3>5. \A d \in Configs : runs'[<<call.game, d>>].status = "complete" =>
              \/ runs[<<call.game, d>>].status = "complete"
              \/ d = call.config
              \/ ~Satisfies(d, call.config)
      BY <1>6, <3>2, <3>4
    <3>6. Serves(call.kind, call.game, call.config)'
      BY <1>3, <3>1, <3>5 DEF Serves, Request, CompatibleConfigs
    <3>7. (call.kind = "minimum" => ~Live(<<"refine", call.game>>))'
      BY <1>3, <1>4, <3>1, <3>3
    <3> QED
      BY <1>3, <3>1, <3>6, <3>7
  <2>3. (call.pc \in {"reuse", "supersede"} =>
             \A k \in JobIds : Live(k) /\ k[2] = call.game => job[k].config = call.config)'
    BY <1>3, <1>4 DEF UseInv, UseCall
  <2> QED
    BY <2>1, <2>2, <2>3 DEF UseCall
<1> QED
  BY <1>7, <1>8 DEF UseInv

\* The table gains no complete run, and no worker is new or has another run.
NothingCompleted ==
    \A id \in RunIds : runs'[id].status = "complete" => runs[id].status = "complete"
NoNewWorker == \A k \in JobIds : Live(k)' => Live(k) /\ job'[k].config = job[k].config

\* Then the workers are what they were.
LEMMA CallKeepsUseJobs ==
    ASSUME IInv, UseInv, settings' = settings, NothingCompleted, NoNewWorker
    PROVE  UseJobs'
<1>1. \A k, l \in JobIds : Live(k)' /\ Live(l)' /\ k[2] = l[2] => k = l
  BY DEF UseInv, UseJobs, NoNewWorker
<1>2. ASSUME NEW k \in JobIds, Live(k)' PROVE Serves(k[1], k[2], job[k].config)'
  <2>1. job'[k].config = job[k].config /\ Serves(k[1], k[2], job[k].config)
    BY <1>2 DEF UseInv, UseJobs, NoNewWorker
  <2>2. \A d \in Configs : <<k[2], d>> \in RunIds
    BY DEF JobIds, RunIds
  <2> QED
    BY <2>1, <2>2 DEF Serves, Request, CompatibleConfigs, NothingCompleted
<1> QED
  BY <1>1, <1>2 DEF UseJobs

\* A step of a call that is not on the way to a new thread, or was before, for
\* the same run.
LEMMA CallKeepsUse ==
    ASSUME IInv, UseInv, settings' = settings, NothingCompleted, NoNewWorker,
           call'.pc \notin {"reuse", "supersede"},
           Starting' => /\ Starting
                        /\ call'.kind = call.kind /\ call'.game = call.game
                        /\ call'.config = call.config
    PROVE  UseInv'
<1>1. UseJobs'
  BY CallKeepsUseJobs
<1>2. ASSUME Starting'
      PROVE  /\ Serves(call.kind, call.game, call.config)'
             /\ (call.kind = "minimum" => ~Live(<<"refine", call.game>>))'
             /\ (call.kind = "refine" => settings.depth > settings.minDepth)'
  <2>1. /\ call'.kind = call.kind /\ call'.game = call.game /\ call'.config = call.config
        /\ Serves(call.kind, call.game, call.config)
        /\ call.kind = "minimum" => ~Live(<<"refine", call.game>>)
        /\ call.kind = "refine" => settings.depth > settings.minDepth
    BY <1>2 DEF UseInv, UseCall
  <2>2. /\ \A d \in Configs : <<call.game, d>> \in RunIds
        /\ <<"refine", call.game>> \in JobIds
    BY DEF IInv, TypeInv, TypeOK, Call, RunIds, JobIds, Kinds
  <2>3. Serves(call.kind, call.game, call.config)'
    BY <2>1, <2>2 DEF Serves, Request, CompatibleConfigs, NothingCompleted
  <2>4. (call.kind = "minimum" => ~Live(<<"refine", call.game>>))'
    BY <2>1, <2>2 DEF NoNewWorker
  <2> QED
    BY <2>1, <2>3, <2>4
<1>3. UseCall'
  BY <1>2 DEF UseCall
<1> QED
  BY <1>1, <1>3 DEF UseInv

\* A step of the call alone.
LEMMA QuietUse ==
    ASSUME Quiet \/ UNCHANGED <<settings, runs, job>>
    PROVE  settings' = settings /\ NothingCompleted /\ NoNewWorker
BY DEF Quiet, NothingCompleted, NoNewWorker, Live

\* A call that returns.
LEMMA ReturnUse ==
    ASSUME call' = Idle
    PROVE  call'.pc \notin {"reuse", "supersede"} /\ ~Starting'
BY IdleType DEF Starting, StartPoints, Stops

\* Stopping jobs, of the kept flags or of the joined jobs.
LEMMA FlagUse ==
    ASSUME IInv, UseInv, Cancel \/ StopEngine \/ Retarget \/ Preempt \/ Join
    PROVE  UseInv'
<1>1. call \in Call /\ TypeInv
  BY DEF IInv, TypeInv, TypeOK
<1>2. /\ UNCHANGED <<games, settings, runs>>
      /\ \A k \in JobIds : SameWork(k) \/ TakenAway(k)
  BY <1>1, FlagsLeaveWork
<1>3. settings' = settings /\ NothingCompleted /\ NoNewWorker
  BY <1>2 DEF NothingCompleted, NoNewWorker, SameWork, TakenAway, Live, WorkerPoints
<1>4. CASE Cancel \/ StopEngine
  <2>1. /\ call'.pc \in Stops /\ call'.then = call.then /\ call'.kind = call.kind
        /\ call'.game = call.game /\ call'.config = call.config /\ call.pc \in Stops
    BY <1>1, <1>4 DEF Cancel, StopEngine, Stops, Call
  <2>2. call'.pc \notin {"reuse", "supersede"} /\ (Starting' => Starting)
    BY <2>1 DEF Starting, StartPoints, Stops
  <2> QED
    BY <1>3, <2>1, <2>2, CallKeepsUse
<1>5. CASE Retarget
  <2>1. call'.pc = "compare"
    BY <1>1, <1>5 DEF Retarget, Call
  <2>2. call'.pc \notin {"reuse", "supersede"} /\ ~Starting'
    BY <2>1 DEF Starting, StartPoints, Stops
  <2> QED
    BY <1>3, <2>2, CallKeepsUse
<1>6. CASE Preempt
  <2>1. call' = Idle
    BY <1>6 DEF Preempt
  <2> QED
    BY <1>3, <2>1, ReturnUse, CallKeepsUse
<1>7. CASE Join /\ call.then = "idle"
  <2>1. call' = Idle
    BY <1>7 DEF Join
  <2> QED
    BY <1>3, <2>1, ReturnUse, CallKeepsUse
<1>8. CASE Join /\ call.then # "idle"
  <2>1. /\ call'.pc = call.then /\ call.pc \in Stops /\ call.then \in Continuations
        /\ call'.kind = call.kind /\ call'.game = call.game /\ call'.config = call.config
    BY <1>1, <1>8 DEF Join, Stops, Call
  <2>2. call'.pc \notin {"reuse", "supersede"} /\ (Starting' => Starting)
    BY <2>1 DEF Starting, StartPoints, Stops, Continuations
  <2> QED
    BY <1>3, <2>1, <2>2, CallKeepsUse
<1> QED
  BY <1>4, <1>5, <1>6, <1>7, <1>8

\* Resume, Yield and TakeOver are on the way to a new thread, and stay so.
LEMMA UnderWayUse ==
    ASSUME IInv, UseInv, PrepareRead \/ Resume \/ Yield \/ TakeOver
    PROVE  UseInv'
<1>1. call \in Call /\ Idle \in Call /\ Quiet /\ Starting
  BY IdleType DEF IInv, TypeInv, TypeOK, PrepareRead, Resume, Yield, TakeOver, Starting,
                  StartPoints
<1>2. settings' = settings /\ NothingCompleted /\ NoNewWorker
  BY <1>1, QuietUse
<1>3. CASE call' = Idle
  BY <1>2, <1>3, ReturnUse, CallKeepsUse
<1>4. CASE \E todo, join, then : call' = Stopping(call, todo, join, "never", then)
  <2>1. /\ call'.pc = "cancel" /\ call'.kind = call.kind
        /\ call'.game = call.game /\ call'.config = call.config
    BY <1>1, <1>4 DEF Stopping, Call
  <2> QED
    BY <1>1, <1>2, <2>1, CallKeepsUse
<1>5. CASE \/ call' = [call EXCEPT !.pc = "spawn"]
           \/ call' = [call EXCEPT !.pc = "claim", !.found = runs[Target].status]
  <2>1. /\ call'.pc \in {"spawn", "claim"} /\ call'.kind = call.kind
        /\ call'.game = call.game /\ call'.config = call.config
    BY <1>1, <1>5 DEF Call
  <2> QED
    BY <1>1, <1>2, <2>1, CallKeepsUse
<1> QED
  BY <1>3, <1>4, <1>5 DEF PrepareRead, Resume, Yield, TakeOver

\* The calls that only stop jobs start none.
LEMMA StopUse ==
    ASSUME IInv, UseInv,
           \/ Compare \/ CallFault \/ CloseRefinements \/ StartVariation
           \/ \E g \in Games : CancelAnalysis(g) \/ DeleteAnalysis(g)
           \/ \E gs \in SUBSET Games, then \in {"closeProfile", "closeAll"} : StopGames(gs, then)
    PROVE  UseInv'
<1>1. call \in Call /\ Idle \in Call
  BY IdleType DEF IInv, TypeInv, TypeOK
<1>2. Quiet
  BY DEF Compare, CallFault, CloseRefinements, StartVariation, CancelAnalysis, DeleteAnalysis,
         StopGames
<1>3. settings' = settings /\ NothingCompleted /\ NoNewWorker
  BY <1>2, QuietUse
<1>4. CASE call' = Idle
  BY <1>3, <1>4, ReturnUse, CallKeepsUse
<1>5. CASE call' = [call EXCEPT !.pc = "preempt"]
  <2>1. call'.pc = "preempt"
    BY <1>1, <1>5 DEF Call
  <2>2. call'.pc \notin {"reuse", "supersede"} /\ ~Starting'
    BY <2>1 DEF Starting, StartPoints, Stops
  <2> QED
    BY <1>3, <2>2, CallKeepsUse
<1>6. ASSUME call'.pc = "cancel", call'.then \notin StartPoints PROVE UseInv'
  <2>1. call'.pc \notin {"reuse", "supersede"} /\ ~Starting'
    BY <1>6 DEF Starting, StartPoints
  <2> QED
    BY <1>3, <2>1, CallKeepsUse
<1>7. ASSUME NEW c \in Call, NEW todo, NEW join, NEW mark,
             NEW then \in {"idle", "deleteRows", "closeProfile", "closeAll", "reopen",
                           "removeGames"},
             call' = Stopping(c, todo, join, mark, then)
      PROVE  UseInv'
  <2>1. call'.pc = "cancel" /\ call'.then = then
    BY <1>7 DEF Stopping, Call
  <2> QED
    BY <1>6, <2>1 DEF StartPoints
<1>8. CASE CloseRefinements
  BY <1>1, <1>7, <1>8 DEF CloseRefinements
<1>9. CASE StartVariation \/ \E g \in Games : CancelAnalysis(g)
  BY <1>1, <1>7, <1>9 DEF StartVariation, CancelAnalysis
<1>10. ASSUME NEW g \in Games, DeleteAnalysis(g) PROVE UseInv'
  <2>1. [Idle EXCEPT !.game = g] \in Call
    BY <1>1 DEF Call
  <2> QED
    BY <1>7, <1>10, <2>1 DEF DeleteAnalysis
<1>11. ASSUME NEW gs \in SUBSET Games, NEW then \in {"closeProfile", "closeAll"},
              StopGames(gs, then)
       PROVE  UseInv'
  <2> DEFINE minimum == {j \in Held : j[1] = "minimum" /\ j[2] \in gs}
             c == Stopping(Idle, minimum, minimum, "never", then)
  <2>1. call' = [c EXCEPT !.affected = gs]
    BY <1>11 DEF StopGames
  <2>2. call'.pc = "cancel" /\ call'.then = then
    BY <1>1, <2>1 DEF Stopping, Call
  <2> QED
    BY <1>6, <2>2 DEF StartPoints
<1> QED
  BY <1>4, <1>5, <1>8, <1>9, <1>10, <1>11 DEF Compare, CallFault

\* What the calls write completes no run.
LEMMA WritesUse ==
    ASSUME IInv, Reuse \/ Supersede \/ Claim \/ DeleteRows \/ RemoveGames
                 \/ \E g \in Games : DeleteLocalGame(g)
    PROVE  settings' = settings /\ NothingCompleted /\ NoNewWorker
<1>1. /\ UNCHANGED <<settings, job>> /\ runs \in [RunIds -> Run] /\ Target \in RunIds
      /\ \A id \in RunIds : Present(runs, id) => id[1] \in games
  BY DEF Reuse, Supersede, Claim, DeleteRows, RemoveGames, DeleteLocalGame, IInv, TypeInv,
         TypeOK, Target, Call, RunIds, NoOrphanRun
<1>2. NoNewWorker
  BY <1>1 DEF NoNewWorker, Live
<1> SUFFICES NothingCompleted
  BY <1>1, <1>2
<1>3. CASE UNCHANGED runs
  BY <1>3 DEF NothingCompleted
<1>4. CASE runs' = PersistClassifications(runs, Target, TRUE)
  BY <1>1, <1>4 DEF NothingCompleted, PersistClassifications, Run
<1>5. CASE \E gone : runs' = DropGames(runs, gone)
  BY <1>5 DEF NothingCompleted, DropGames, NoRun
<1>6. CASE runs' = PruneExcept(runs, call.game, call.config)
  BY <1>6 DEF NothingCompleted, PruneExcept, NoRun
<1>7. CASE runs' = Prepare(runs, Target, call.found)
  <2>1. CASE call.found = "none"
    BY <1>1, <1>7, <2>1 DEF NothingCompleted, Prepare, NewRun, NoRun
  <2>2. CASE call.found = "complete"
    BY <1>7, <2>2 DEF NothingCompleted, Prepare
  <2>3. CASE call.found \notin {"none", "complete"}
    BY <1>1, <1>7, <2>3 DEF NothingCompleted, Prepare, SetStatus, Run
  <2> QED
    BY <2>1, <2>2, <2>3
<1>8. \/ UNCHANGED runs
      \/ runs' = PersistClassifications(runs, Target, TRUE)
      \/ \E gone : runs' = DropGames(runs, gone)
      \/ runs' = PruneExcept(runs, call.game, call.config)
      \/ runs' = Prepare(runs, Target, call.found)
  BY DEF Reuse, Supersede, Claim, DeleteRows, RemoveGames, DeleteLocalGame
<1> QED
  BY <1>3, <1>4, <1>5, <1>6, <1>7, <1>8

\* A start call that reuses a run goes on to supersede the others.
LEMMA ReuseUse ==
    ASSUME IInv, UseInv, Reuse
    PROVE  UseInv'
<1>1. settings' = settings /\ NothingCompleted /\ NoNewWorker
  BY WritesUse
<1>2. CASE call' = Idle
  BY <1>1, <1>2, ReturnUse, CallKeepsUse
<1>3. CASE call' = [call EXCEPT !.pc = "supersede"]
  <2>1. /\ call'.pc = "supersede" /\ call'.game = call.game /\ call'.config = call.config
        /\ call.pc = "reuse"
    BY <1>3 DEF Reuse, IInv, TypeInv, TypeOK, Call
  <2>2. ~Starting'
    BY <2>1 DEF Starting, StartPoints, Stops
  <2>3. ASSUME NEW k \in JobIds, Live(k)', k[2] = call'.game
        PROVE  job'[k].config = call'.config
    BY <1>1, <2>1, <2>3 DEF UseInv, UseCall, NoNewWorker
  <2>4. UseCall'
    BY <2>2, <2>3 DEF UseCall
  <2> QED
    BY <1>1, <2>4, CallKeepsUseJobs DEF UseInv
<1> QED
  BY <1>2, <1>3 DEF Reuse

\* The other writes of a call.
LEMMA OtherWritesUse ==
    ASSUME IInv, UseInv, Supersede \/ Claim \/ DeleteRows \/ RemoveGames
                         \/ \E g \in Games : DeleteLocalGame(g)
    PROVE  UseInv'
<1>1. settings' = settings /\ NothingCompleted /\ NoNewWorker /\ call \in Call
  BY WritesUse DEF IInv, TypeInv, TypeOK
<1>2. CASE call' = Idle
  BY <1>1, <1>2, ReturnUse, CallKeepsUse
<1>3. CASE Claim /\ call' # Idle
  <2>1. /\ call'.pc \in {"resume", "yield"} /\ call'.kind = call.kind
        /\ call'.game = call.game /\ call'.config = call.config /\ Starting
    BY <1>1, <1>3 DEF Claim, Call, Starting, StartPoints
  <2> QED
    BY <1>1, <2>1, CallKeepsUse
<1>4. ASSUME NEW g \in Games, DeleteLocalGame(g) PROVE UseInv'
  <2>1. call' = call /\ call.pc = "idle"
    BY <1>4 DEF DeleteLocalGame
  <2>2. call'.pc \notin {"reuse", "supersede"} /\ ~Starting'
    BY <2>1 DEF Starting, StartPoints, Stops
  <2> QED
    BY <1>1, <2>2, CallKeepsUse
<1> QED
  BY <1>2, <1>3, <1>4 DEF Supersede, DeleteRows, RemoveGames

\* The lookup: a complete run that serves the request is the one the game's
\* worker makes, and if there is none, the request is what is missing.
LEMMA StartUse ==
    ASSUME IInv, UseInv, NEW kind \in Kinds, NEW g \in Games, NEW ply, Start(kind, g, ply),
           kind = "minimum" => ~Live(<<"refine", g>>),
           kind = "refine" => settings.depth > settings.minDepth
    PROVE  UseInv'
<1> DEFINE c == [Idle EXCEPT !.kind = kind, !.game = g, !.ply = ply]
<1>1. /\ Quiet /\ settings \in SettingsSpace /\ runs \in [RunIds -> Run]
      /\ Request(kind) \in Configs
  BY RequestType DEF Start, IInv, TypeInv, TypeOK
<1>2. settings' = settings /\ NothingCompleted /\ NoNewWorker
  BY <1>1, QuietUse
<1>3. UseJobs'
  BY <1>2, CallKeepsUseJobs
<1>4. \A pc, config : LET d == [c EXCEPT !.pc = pc, !.config = config]
                      IN  d.pc = pc /\ d.config = config /\ d.kind = kind /\ d.game = g
  BY IdleType DEF Call
<1>5. ASSUME NEW best \in Best(CompatibleConfigs(runs, g, Request(kind))),
             call' = [c EXCEPT !.pc = "reuse", !.config = best]
      PROVE  UseCall'
  <2>1. call'.pc = "reuse" /\ call'.config = best /\ call'.game = g
    BY <1>4, <1>5
  <2>2. ASSUME NEW k \in JobIds, Live(k), k[2] = g PROVE job[k].config = best
    <3>1. /\ job[k].config = Request(k[1])
          /\ CompatibleConfigs(runs, g, Request(k[1])) \subseteq {job[k].config}
      BY <2>2 DEF UseInv, UseJobs, Serves
    <3>2. /\ best \in Configs /\ runs[<<g, best>>].status = "complete"
          /\ Satisfies(best, Request(kind))
      BY DEF Best, CompatibleConfigs
    <3>3. k[1] \in Kinds /\ k = <<k[1], k[2]>>
      BY DEF JobIds
    <3>4. ASSUME Satisfies(best, Request(k[1])) PROVE job[k].config = best
      BY <3>1, <3>2, <3>4 DEF CompatibleConfigs
    <3>5. CASE k[1] = kind
      BY <3>2, <3>4, <3>5
    <3>6. CASE k[1] = "minimum" /\ kind = "refine"
      <4>1. /\ Request(k[1]) = MinConfig(settings) /\ Request(kind) = MaxConfig(settings)
            /\ MinConfig(settings) \in Configs /\ MaxConfig(settings) \in Configs
        BY <1>1, <3>6, SettingsTypes DEF Request
      <4>2. Satisfies(MaxConfig(settings), MinConfig(settings))
        BY <1>1, RequestsCompare
      <4>3. Satisfies(best, Request(k[1]))
        BY <3>2, <4>1, <4>2, SatisfiesTransitive
      <4> QED
        BY <3>4, <4>3
    <3>7. ~(k[1] = "refine" /\ kind = "minimum")
      BY <2>2, <3>3
    <3> QED
      BY <3>3, <3>5, <3>6, <3>7 DEF Kinds
  <2>3. ~Starting'
    BY <2>1 DEF Starting, StartPoints, Stops
  <2>4. ASSUME NEW k \in JobIds, Live(k)', k[2] = call'.game
        PROVE  job'[k].config = call'.config
    BY <1>2, <2>1, <2>2, <2>4 DEF NoNewWorker
  <2> QED
    BY <2>3, <2>4 DEF UseCall
<1>6. ASSUME CompatibleConfigs(runs, g, Request(kind)) = {},
             call' = [c EXCEPT !.pc = "prepare", !.config = Request(kind)]
      PROVE  UseCall'
  <2>1. /\ call'.pc = "prepare" /\ call'.config = Request(kind)
        /\ call'.kind = kind /\ call'.game = g
    BY <1>4, <1>6
  <2>2. UNCHANGED <<settings, runs, job>>
    BY <1>1 DEF Quiet
  <2>3. Serves(call.kind, call.game, call.config)'
    BY <1>6, <2>1, <2>2 DEF Serves, Request, CompatibleConfigs
  <2>4. (call.kind = "minimum" => ~Live(<<"refine", call.game>>))'
    BY <2>1, <2>2 DEF Live
  <2>5. (call.kind = "refine" => settings.depth > settings.minDepth)'
    BY <2>1, <2>2
  <2> QED
    BY <2>1, <2>3, <2>4, <2>5 DEF UseCall
<1> QED
  BY <1>3, <1>5, <1>6 DEF Start, UseInv

\* A new worker is the only one of its game.
LEMMA SpawnUse ==
    ASSUME IInv, UseInv, Spawn
    PROVE  UseInv'
<1>1. /\ call \in Call /\ job \in [JobIds -> Job] /\ call.pc = "spawn"
      /\ UNCHANGED <<games, settings, runs>> /\ call' = Idle
  BY DEF Spawn, IInv, TypeInv, TypeOK
<1>2. Slot \in JobIds /\ Slot = <<call.kind, call.game>> /\ call.kind \in Kinds
  BY <1>1, SlotType DEF Call
<1>3. UseCall'
  BY <1>1, ReturnUse DEF UseCall
<1>4. CASE UNCHANGED job
  <2>1. settings' = settings /\ NothingCompleted /\ NoNewWorker
    BY <1>1, <1>4, QuietUse
  <2> QED
    BY <1>3, <2>1, CallKeepsUseJobs DEF UseInv
<1>5. CASE job' = [job EXCEPT ![Slot] = NewJob(call.config, runs[Target].rows, call.ply)]
  <2>1. /\ Serves(call.kind, call.game, call.config)
        /\ call.kind = "minimum" => ~Live(<<"refine", call.game>>)
    BY <1>1 DEF UseInv, UseCall, Starting, StartPoints
  <2>2. \A k \in JobIds : k[2] = call.game => ~Live(k)
    <3> SUFFICES ASSUME NEW k \in JobIds, k[2] = call.game PROVE ~Live(k)
      OBVIOUS
    <3>1. \A l \in MustBeGone("spawn") : ~Live(l)
      BY <1>1 DEF IInv, JoinsEnough, Stops
    <3>2. k = <<"minimum", call.game>> \/ k = <<"refine", call.game>>
      BY DEF JobIds, Kinds
    <3>3. CASE call.kind = "minimum"
      BY <1>2, <2>1, <3>1, <3>2, <3>3 DEF MustBeGone
    <3>4. CASE call.kind = "refine"
      BY <1>2, <3>1, <3>2, <3>4 DEF MustBeGone
    <3> QED
      BY <1>2, <3>3, <3>4 DEF Kinds
  <2>3. /\ job'[Slot].config = call.config
        /\ \A k \in JobIds : k # Slot => job'[k] = job[k]
    BY <1>1, <1>2, <1>5 DEF NewJob
  <2>4. \A k \in JobIds : Live(k)' => k = Slot \/ Live(k)
    BY <2>3 DEF Live
  <2>5. \A k, l \in JobIds : Live(k)' /\ Live(l)' /\ k[2] = l[2] => k = l
    BY <1>2, <2>2, <2>4 DEF UseInv, UseJobs
  <2>6. ASSUME NEW k \in JobIds, Live(k)' PROVE Serves(k[1], k[2], job[k].config)'
    <3>1. Serves(k[1], k[2], job'[k].config)
      BY <1>2, <2>1, <2>3, <2>4, <2>6 DEF UseInv, UseJobs
    <3> QED
      BY <1>1, <3>1 DEF Serves, Request, CompatibleConfigs
  <2>7. UseJobs'
    BY <2>5, <2>6 DEF UseJobs
  <2> QED
    BY <1>3, <2>7 DEF UseInv
<1> QED
  BY <1>4, <1>5 DEF Spawn

\* Without a worker, and between calls, there is nothing to keep.
LEMMA RestUse ==
    ASSUME \A j \in JobIds : ~Live(j)', call'.pc = "idle"
    PROVE  UseInv'
<1>1. UseJobs'
  BY DEF UseJobs
<1>2. UseCall'
  BY DEF UseCall, Starting, StartPoints, Stops
<1> QED
  BY <1>1, <1>2 DEF UseInv

\* Every step of a call, and every new call that the rule allows.
LEMMA CallStaysCareful ==
    ASSUME IInv, UseInv, CarefulUse, CallStep \/ NewCall
    PROVE  UseInv'
<1>1. ASSUME Reopen PROVE UseInv'
  <2>1. \A j \in JobIds : ~Live(j)'
    BY <1>1, NoJobType DEF Reopen, Live, WorkerPoints
  <2> QED
    BY <1>1, <2>1, RestUse, IdleType DEF Reopen
<1>2. CASE CallStep
  <2>1. CASE CallFault \/ Compare \/ CloseRefinements
    BY <2>1, StopUse
  <2>2. CASE Supersede \/ Claim \/ DeleteRows \/ RemoveGames
    BY <2>2, OtherWritesUse
  <2>3. CASE Restart
    BY <1>1, <2>3 DEF Restart
  <2> QED
    BY <1>2, <2>1, <2>2, <2>3, FlagUse, ReuseUse, UnderWayUse, SpawnUse DEF CallStep
<1>3. CASE NewCall
  <2>1. ASSUME NEW g \in Games, StartAnalysis(g) PROVE UseInv'
    <3>1. ~Live(<<"refine", g>>)
      BY <2>1 DEF CarefulUse
    <3> QED
      BY <2>1, <3>1, StartUse DEF StartAnalysis, Kinds
  <2>2. ASSUME NEW g \in Games, NEW ply \in Slots(g), StartRefinement(g, ply) PROVE UseInv'
    BY <2>2, StartUse DEF StartRefinement, Kinds
  <2>3. ASSUME NEW g \in Games, CancelAnalysis(g) \/ DeleteAnalysis(g) PROVE UseInv'
    BY <2>3, StopUse
  <2>4. ASSUME NEW g \in Games, DeleteLocalGame(g) PROVE UseInv'
    BY <2>4, OtherWritesUse
  <2>5. CASE StartVariation
    BY <2>5, StopUse
  <2>6. ASSUME NEW gs \in SUBSET Games, DeleteProfile(gs) PROVE UseInv'
    BY <2>6, StopUse DEF DeleteProfile
  <2>7. CASE Shutdown
    BY <2>7, StopUse DEF Shutdown
  <2>8. ASSUME NEW s \in SettingsSpace, ChangeSettings(s) PROVE UseInv'
    <3>1. UNCHANGED <<games, runs, job, call>> /\ call.pc = "idle"
      BY <2>8 DEF ChangeSettings
    <3>2. CASE settings' = settings
      <4>1. NothingCompleted /\ NoNewWorker /\ ~Starting'
        BY <3>1, <3>2, QuietUse DEF Starting, StartPoints, Stops
      <4> QED
        BY <3>1, <3>2, <4>1, CallKeepsUse
    <3>3. CASE settings' # settings
      <4>1. \A j \in JobIds : ~Live(j)'
        BY <3>1, <3>3 DEF CarefulUse, Live
      <4> QED
        BY <3>1, <4>1, RestUse
    <3> QED
      BY <3>2, <3>3
  <2>9. CASE Crash
    BY <1>1, <2>9 DEF Crash
  <2> QED
    BY <1>3, <2>1, <2>2, <2>3, <2>4, <2>5, <2>6, <2>7, <2>8, <2>9 DEF NewCall
<1> QED
  BY <1>2, <1>3

\* So to callers that keep to the rule, no run is deleted under a worker that
\* goes on with it,
THEOREM CarefulUseKeepsRuns == Spec /\ [][CarefulUse]_vars => [][KeepsRunsInUse]_vars
<1>1. Init => UseInv
  <2> SUFFICES ASSUME Init PROVE UseInv
    OBVIOUS
  <2>1. \A j \in JobIds : ~Live(j)
    BY NoJobType DEF Init, Live, WorkerPoints
  <2>2. call.pc = "idle"
    BY IdleType DEF Init
  <2> QED
    BY <2>1, <2>2 DEF UseInv, UseJobs, UseCall, Starting, StartPoints, Stops
<1>2. IInv /\ RunsInv /\ UseInv /\ [Next]_vars => [KeepsRunsInUse]_vars
  BY UseKeepsRuns
<1>3. IInv /\ RunsInv /\ UseInv /\ [Next]_vars /\ [CarefulUse]_vars => RunsInv' /\ UseInv'
  <2> SUFFICES ASSUME IInv, RunsInv, UseInv, [Next]_vars, [CarefulUse]_vars
               PROVE  RunsInv' /\ UseInv'
    OBVIOUS
  <2>1. CASE UNCHANGED vars
    BY <2>1 DEF vars, RunsInv, JobsCover, DoneIsSaved, StillMissing, Live, RunOf, Target,
                UseInv, UseJobs, UseCall, Starting, Serves, Request, CompatibleConfigs
  <2>2. CASE Next /\ CarefulUse
    <3>1. KeepsRunsInUse
      BY <2>2, UseKeepsRuns
    <3> QED
      BY <2>2, <3>1, WorkerKeepsRuns, CallKeepsRuns, WorkerKeepsUse, CallStaysCareful DEF Next
  <2>3. CASE UNCHANGED vars \/ (Next /\ CarefulUse)
    BY <2>1, <2>2
  <2> QED
    BY <2>3
<1>4. Spec /\ [][CarefulUse]_vars => [](RunsInv /\ UseInv)
  BY <1>1, <1>3, RunsInit, Invariance, PTL DEF Spec
<1> QED
  BY <1>2, <1>4, Invariance, PTL DEF Spec

\* and every complete run is whole, completed_plies is covered and the workers
\* are right about their rows.
THEOREM CarefulUseIsSafe ==
    Spec /\ [][CarefulUse]_vars => [](CompleteRunIsWhole /\ ProgressIsBacked /\ WorkerTrustsRows)
BY CarefulUseKeepsRuns, CompleteIsWhole, ProgressBacked, WorkersTrustRows, PTL

-----------------------------------------------------------------------------
(* The saved runs as a ledger.                                               *)

LedgerStep == [Ledger!Next]_(Ledger!vars)

\* A step that changes no run, or nothing but what the ledger leaves out.
LEMMA StutterLedger ==
    ASSUME \A id \in RunIds : /\ runs'[id].status = runs[id].status
                              /\ runs'[id].rows = runs[id].rows
    PROVE  LedgerStep
<1>1. UNCHANGED {id \in RunIds : Present(runs, id)}
  BY DEF Present
<1>2. UNCHANGED {id \in RunIds : runs[id].status = "complete"}
  OBVIOUS
<1>3. UNCHANGED [id \in RunIds |-> runs[id].rows]
  OBVIOUS
<1> QED
  BY <1>1, <1>2, <1>3 DEF LedgerStep, Ledger!vars

\* set_analysis_status, to complete only if the rows are there.
LEMMA StatusLedger ==
    ASSUME runs \in Tables, TableSound(runs), NEW id \in RunIds,
           NEW status \in Statuses \ {"none"},
           status = "complete" /\ Present(runs, id) => Slots(id[1]) \subseteq runs[id].rows,
           runs' = SetStatus(runs, id, status)
    PROVE  LedgerStep
<1>1. CASE ~Present(runs, id)
  BY <1>1, StutterLedger DEF SetStatus
<1>2. CASE Present(runs, id)
  <2>1. /\ runs'[id].status = status /\ runs'[id].rows = runs[id].rows
        /\ \A i \in RunIds : i # id => runs'[i] = runs[i]
    BY <1>2 DEF SetStatus, Tables, Run
  <2>2. UNCHANGED {i \in RunIds : Present(runs, i)}
    BY <1>2, <2>1 DEF Present
  <2>3. UNCHANGED [i \in RunIds |-> runs[i].rows]
    BY <2>1
  <2>4. CASE status = "complete"
    <3>1. runs[id].rows = Slots(id[1])
      BY <1>2, <2>4 DEF TableSound, RunSound
    <3>2. {i \in RunIds : runs'[i].status = "complete"}
              = {i \in RunIds : runs[i].status = "complete"} \cup {id}
      BY <2>1, <2>4
    <3>3. Ledger!Complete(id)
      BY <1>2, <2>2, <2>3, <3>1, <3>2 DEF Ledger!Complete
    <3> QED
      BY <3>3 DEF LedgerStep, Ledger!Next
  <2>5. CASE status # "complete" /\ runs[id].status = "complete"
    <3>1. {i \in RunIds : runs'[i].status = "complete"}
              = {i \in RunIds : runs[i].status = "complete"} \ {id}
      BY <2>1, <2>5
    <3>2. Ledger!Open(id)
      BY <2>2, <2>3, <2>5, <3>1 DEF Ledger!Open
    <3> QED
      BY <3>2 DEF LedgerStep, Ledger!Next
  <2>6. CASE status # "complete" /\ runs[id].status # "complete"
    <3>1. UNCHANGED {i \in RunIds : runs[i].status = "complete"}
      BY <2>1, <2>6
    <3> QED
      BY <2>2, <2>3, <3>1 DEF LedgerStep, Ledger!vars
  <2> QED
    BY <2>4, <2>5, <2>6
<1> QED
  BY <1>1, <1>2

\* persist_engine_result into a run that is there.
LEMMA RowLedger ==
    ASSUME runs \in Tables, NEW id \in RunIds, Present(runs, id), NEW slot \in Slots(id[1]),
           NEW plies, runs' = PersistRow(runs, id, slot, plies)
    PROVE  LedgerStep
<1>1. /\ runs'[id].status = "running" /\ runs'[id].rows = runs[id].rows \cup {slot}
      /\ \A i \in RunIds : i # id => runs'[i] = runs[i]
  BY DEF PersistRow, Tables, Run
<1>2. UNCHANGED {i \in RunIds : Present(runs, i)}
  BY <1>1 DEF Present
<1>3. {i \in RunIds : runs'[i].status = "complete"}
          = {i \in RunIds : runs[i].status = "complete"} \ {id}
  BY <1>1
<1>4. [i \in RunIds |-> runs'[i].rows]
          = [[i \in RunIds |-> runs[i].rows] EXCEPT ![id] = runs[id].rows \cup {slot}]
  BY <1>1
<1>5. Ledger!Record(id)
  BY <1>2, <1>3, <1>4 DEF Ledger!Record
<1> QED
  BY <1>5 DEF LedgerStep, Ledger!Next

\* persist_classifications.
LEMMA ClassifyLedger ==
    ASSUME runs \in Tables, NEW id \in RunIds, NEW finalize,
           runs' = PersistClassifications(runs, id, finalize)
    PROVE  LedgerStep
<1>1. \A i \in RunIds : runs'[i].status = runs[i].status /\ runs'[i].rows = runs[i].rows
  BY DEF PersistClassifications, Tables, Run
<1> QED
  BY <1>1, StutterLedger

\* prepare_analysis, if the run was not there when it is inserted.
LEMMA PrepareLedger ==
    ASSUME runs \in Tables, TableSound(runs), NEW id \in RunIds, NEW found \in Statuses,
           found = "none" => ~Present(runs, id), runs' = Prepare(runs, id, found)
    PROVE  LedgerStep
<1>1. CASE found = "none"
  <2>1. runs'[id] = NewRun /\ \A i \in RunIds : i # id => runs'[i] = runs[i]
    BY <1>1 DEF Prepare, Tables
  <2>2. NewRun.status = "running" /\ NewRun.rows = {}
    BY DEF NewRun, NoRun
  <2>3. ~Present(runs, id) /\ runs[id].rows = {} /\ runs[id].status # "complete"
    BY <1>1 DEF Present, TableSound, RunSound
  <2>4. {i \in RunIds : Present(runs', i)} = {i \in RunIds : Present(runs, i)} \cup {id}
    BY <2>1, <2>2 DEF Present
  <2>5. UNCHANGED {i \in RunIds : runs[i].status = "complete"}
    BY <2>1, <2>2, <2>3
  <2>6. UNCHANGED [i \in RunIds |-> runs[i].rows]
    BY <2>1, <2>2, <2>3
  <2>7. Ledger!Insert(id)
    BY <2>3, <2>4, <2>5, <2>6 DEF Ledger!Insert
  <2> QED
    BY <2>7 DEF LedgerStep, Ledger!Next
<1>2. CASE found = "complete"
  BY <1>2, StutterLedger DEF Prepare
<1>3. CASE found \notin {"none", "complete"}
  <2>1. runs' = SetStatus(runs, id, "running")
    BY <1>3 DEF Prepare
  <2>2. "running" \in Statuses \ {"none"}
    BY DEF Statuses
  <2> QED
    BY <2>1, <2>2, StatusLedger
<1> QED
  BY <1>1, <1>2, <1>3

\* Every deletion takes whole runs.
LEMMA RemovalLedger ==
    ASSUME \A id \in RunIds : runs'[id] = runs[id] \/ runs'[id] = NoRun
    PROVE  LedgerStep
<1> PICK gone \in SUBSET RunIds : gone = {id \in RunIds : runs'[id] = NoRun}
  OBVIOUS
<1>1. NoRun.status = "none" /\ NoRun.rows = {}
  BY DEF NoRun
<1>2. \A id \in RunIds : runs'[id] = IF id \in gone THEN NoRun ELSE runs[id]
  OBVIOUS
<1>3. {id \in RunIds : Present(runs', id)} = {id \in RunIds : Present(runs, id)} \ gone
  BY <1>1, <1>2 DEF Present
<1>4. {id \in RunIds : runs'[id].status = "complete"}
          = {id \in RunIds : runs[id].status = "complete"} \ gone
  BY <1>1, <1>2
<1>5. [id \in RunIds |-> runs'[id].rows]
          = [id \in RunIds |-> IF id \in gone THEN {} ELSE [i \in RunIds |-> runs[i].rows][id]]
  BY <1>1, <1>2
<1>6. Ledger!Remove(gone)
  BY <1>3, <1>4, <1>5 DEF Ledger!Remove
<1> QED
  BY <1>6 DEF LedgerStep, Ledger!Next

\* A worker writes rows of its game into a run that is there, and marks the run
\* complete when all it has done is saved and it has done all.
LEMMA WorkerLedger ==
    ASSUME NEW j \in JobIds, Before(j), WorkerStep(j)
    PROVE  LedgerStep
<1>1. /\ runs \in Tables /\ TableSound(runs) /\ RunOf(j) \in RunIds /\ RunOf(j)[1] = j[2]
      /\ j[2] \in Games /\ job[j].done \subseteq Slots(j[2])
  BY BeforeTypes DEF Before
<1>2. CASE UNCHANGED runs
  BY <1>2, StutterLedger
<1>3. ASSUME NEW slot \in Slots(j[2]), NEW plies, HasRun(j),
             runs' = PersistRow(runs, RunOf(j), slot, plies)
      PROVE  LedgerStep
  BY <1>1, <1>3, RowLedger DEF HasRun
<1>4. ASSUME NEW finalize, runs' = PersistClassifications(runs, RunOf(j), finalize)
      PROVE  LedgerStep
  BY <1>1, <1>4, ClassifyLedger
<1>5. CASE SkipTheorySlot(j)
  <2>1. \/ UNCHANGED runs
        \/ /\ HasRun(j)
           /\ \E slot \in TheorySkipped(j[2]) :
                  \E plies : runs' = PersistRow(runs, RunOf(j), slot, plies)
    BY <1>5 DEF SkipTheorySlot, Throw, Least
  <2>2. TheorySkipped(j[2]) \subseteq Slots(j[2])
    BY DEF TheorySkipped
  <2> QED
    BY <1>2, <1>3, <2>1, <2>2
<1>6. CASE PersistSlot(j)
  <2>1. job[j].slot \in Slots(j[2])
    BY <1>6 DEF PersistSlot, Before, Covers, SlotPoints
  <2>2. \/ UNCHANGED runs
        \/ HasRun(j) /\ \E plies : runs' = PersistRow(runs, RunOf(j), job[j].slot, plies)
    BY <1>6 DEF PersistSlot, Throw
  <2> QED
    BY <1>2, <1>3, <2>1, <2>2
<1>7. CASE EndTheory(j) \/ RebuildPrefix(j) \/ Publish(j)
  <2>1. \/ UNCHANGED runs
        \/ \E finalize : runs' = PersistClassifications(runs, RunOf(j), finalize)
    BY <1>7 DEF EndTheory, RebuildPrefix, Publish, Throw
  <2> QED
    BY <1>2, <1>4, <2>1
<1>8. CASE Complete(j)
  <2>1. Slots(j[2]) \subseteq job[j].done /\ runs' = SetStatus(runs, RunOf(j), "complete")
    BY <1>8 DEF Complete, Before, Covers
  <2>2. Present(runs, RunOf(j)) => Slots(RunOf(j)[1]) \subseteq runs[RunOf(j)].rows
    BY <1>1, <2>1 DEF Before, HasRun
  <2>3. "complete" \in Statuses \ {"none"}
    BY DEF Statuses
  <2> QED
    BY <1>1, <2>1, <2>2, <2>3, StatusLedger
<1>9. CASE Report(j, "reportCancelled", "cancelled") \/ Report(j, "reportFailed", "error")
  <2>1. \/ UNCHANGED runs
        \/ \E status \in {"cancelled", "error"} : runs' = SetStatus(runs, RunOf(j), status)
    BY <1>9 DEF Report
  <2>2. ASSUME NEW status \in {"cancelled", "error"}, runs' = SetStatus(runs, RunOf(j), status)
        PROVE  LedgerStep
    <3>1. status \in Statuses \ {"none"} /\ status # "complete"
      BY DEF Statuses
    <3> QED
      BY <1>1, <2>2, <3>1, StatusLedger
  <2> QED
    BY <1>2, <2>1, <2>2
<1>10. CASE Prune(j)
  <2>1. \A id \in RunIds : runs'[id] = runs[id] \/ runs'[id] = NoRun
    BY <1>10 DEF Prune, PruneExcept
  <2> QED
    BY <2>1, RemovalLedger
<1>11. CASE \/ Begin(j) \/ PickInOrder(j) \/ PickFocused(j) \/ Aim(j) \/ EnterSearch(j)
            \/ ScoutCached(j) \/ SearchDone(j) \/ SearchInterrupted(j) \/ SearchAborted(j)
            \/ Finish(j) \/ Fault(j)
  <2>1. UNCHANGED runs
    BY <1>11 DEF Begin, PickInOrder, PickFocused, Aim, EnterSearch, ScoutCached, SearchDone,
                 SearchInterrupted, SearchAborted, Finish, Fault, Throw
  <2> QED
    BY <1>2, <2>1
<1> QED
  BY <1>5, <1>6, <1>7, <1>8, <1>9, <1>10, <1>11 DEF WorkerStep

\* A call inserts what is not there, opens a run, or deletes.
LEMMA CallLedger ==
    ASSUME IInv, RunsInv, CallStep \/ NewCall
    PROVE  LedgerStep
<1>1. /\ runs \in Tables /\ TableSound(runs) /\ Target \in RunIds /\ call.found \in Statuses
  BY DEF IInv, TypeInv, TypeOK, Tables, RunsInv, Target, Call, RunIds
<1>2. CASE UNCHANGED runs
  BY <1>2, StutterLedger
<1>3. CASE Reuse \/ Claim
  <2>1. \/ UNCHANGED runs
        \/ runs' = PersistClassifications(runs, Target, TRUE)
        \/ Claim /\ runs' = Prepare(runs, Target, call.found)
    BY <1>3 DEF Reuse, Claim
  <2>2. Claim /\ call.found = "none" => ~Present(runs, Target)
    BY DEF Claim, RunsInv, StillMissing
  <2>3. CASE runs' = PersistClassifications(runs, Target, TRUE)
    BY <1>1, <2>3, ClassifyLedger
  <2>4. CASE Claim /\ runs' = Prepare(runs, Target, call.found)
    BY <1>1, <2>2, <2>4, PrepareLedger
  <2> QED
    BY <1>2, <2>1, <2>3, <2>4
<1>4. CASE \/ Supersede \/ DeleteRows \/ RemoveGames \/ Restart \/ Crash
           \/ \E g \in Games : DeleteLocalGame(g)
  <2>1. \A id \in RunIds : runs'[id] = runs[id] \/ runs'[id] = NoRun
    BY <1>4 DEF Supersede, DeleteRows, RemoveGames, Restart, Crash, DeleteLocalGame, Reopen,
                PruneExcept, DropGames, Reopened
  <2> QED
    BY <2>1, RemovalLedger
<1>5. CASE CallStep
  <2>1. CASE \/ Cancel \/ StopEngine \/ Join \/ PrepareRead \/ Resume \/ Yield \/ TakeOver
             \/ Retarget \/ Compare \/ Preempt \/ Spawn \/ CloseRefinements \/ CallFault
    <3>1. UNCHANGED runs
      BY <2>1 DEF Cancel, StopEngine, Join, PrepareRead, Resume, Yield, TakeOver, Retarget,
                  Compare, Preempt, Spawn, CloseRefinements, CallFault, Quiet
    <3> QED
      BY <1>2, <3>1
  <2> QED
    BY <1>3, <1>4, <1>5, <2>1 DEF CallStep
<1>6. CASE NewCall
  <2>1. UNCHANGED runs \/ Crash \/ \E g \in Games : DeleteLocalGame(g)
    BY <1>6, NewCallsWriteNothing
  <2> QED
    BY <1>2, <1>4, <2>1
<1> QED
  BY <1>5, <1>6

\* As long as no run is deleted under a worker that goes on with it, the saved
\* runs implement the ledger,
THEOREM LedgerIsKept == Spec /\ [][KeepsRunsInUse]_vars => KeepsLedger
<1>1. Init => Ledger!Init
  BY DEF Init, Ledger!Init, NoRun, Present
<1>2. IInv /\ RunsInv /\ [Next]_vars => LedgerStep
  <2> SUFFICES ASSUME IInv, RunsInv, [Next]_vars PROVE LedgerStep
    OBVIOUS
  <2>1. CASE UNCHANGED vars
    BY <2>1, StutterLedger DEF vars
  <2>2. ASSUME NEW j \in JobIds, WorkerStep(j) PROVE LedgerStep
    BY <2>2, StepsFromInv, WorkerLedger
  <2> QED
    BY <2>1, <2>2, CallLedger DEF Next
<1> QED
  BY <1>1, <1>2, RunsAreSound, Invariance, PTL DEF Spec, KeepsLedger, Ledger!Spec, LedgerStep

\* and so they do to callers that keep to the rule.
THEOREM CarefulUseKeepsLedger == Spec /\ [][CarefulUse]_vars => KeepsLedger
BY CarefulUseKeepsRuns, LedgerIsKept, PTL


=============================================================================
