-------------------------- MODULE VariationJobs_proofs --------------------------
(***************************************************************************)
(* Sidelines for any positions, settings and number of calls: a sideline   *)
(* pauses only when it was cancelled itself, what it remembers and what it *)
(* compares is of its own positions and as deep as its settings ask for,   *)
(* and none is left beside the main line.                                  *)
(*                                                                         *)
(* All of it rests on where in analyze() a cancellation can come: the flag *)
(* is raised, and the search stopped, only for a job that was told before, *)
(* and whatever the adapter keeps of an earlier job is cleared on the way  *)
(* to the search.                                                          *)
(***************************************************************************)
EXTENDS VariationJobs, TLAPS

\* A result r that a search of pos with the settings of job j gave.
GivenFor(r, pos, j) ==
    r # None /\ r.pos = pos /\ r.depth = j.settings.depth /\ r.time = j.settings.time

ResultGood(j) == GivenFor(j.result, j.fen, j) /\ Finished(j.result)

BeforeGood(j) ==
    /\ j.before # None /\ j.before.pos = j.from
    /\ \/ j.before.end = "cut"
       \/ DeepEnough(j.before, j.settings) /\ j.before.lines >= BeforeMultiPv(j)

\* After analyze(): the result is of the request, and of a search that ended
\* by itself unless the job was cancelled.
TookOK(j) ==
    LET r == IF j.phase = "after" THEN j.result ELSE j.before
    IN  /\ GivenFor(r, RequestOf(j).pos, j)
        /\ j.phase = "before" => r.lines >= BeforeMultiPv(j)
        /\ Finished(r) \/ j.cancel
        /\ j.interrupted => j.cancel

\* Inside analyze(), once it has cleared the flag, and once it has cleared
\* the lines.
Entering == {"check", "position", "go", "recheck", "wait"}
Asked == {"position", "go", "recheck", "wait"}
Searched == {"keepAfter", "lookup", "saved", "hide", "keepBefore", "classify"}

JobOK(j, e) ==
    /\ j \in Job /\ e \in Engine
    /\ e.search # "none" => j.pc \in {"recheck", "wait"}
    /\ e.search \in {"stopping", "stopped"} => j.cancel
    /\ e.search = "time" => RequestOf(j).time > 0
    /\ j.pc \in Entering /\ e.cancelled => j.cancel
    /\ j.pc \in Asked => e.live \in {None, RequestOf(j).pos}
    /\ j.pc = "took" => TookOK(j)
    /\ j.pc \in Searched \/ j.phase = "before" => ResultGood(j)
    /\ j.pc = "keepBefore" =>
         BeforeGood(j) /\ GivenFor(j.before, j.from, j) /\ Finished(j.before)
    /\ j.pc = "classify" => BeforeGood(j)
    /\ j.status # "running" => j.pc \in {"finish", "ended"}
    /\ j.status = "complete" /\ j.pc # "ended" => ResultGood(j) /\ BeforeGood(j)
    /\ j.status = "paused" => j.cancel

CacheOK(c) ==
    /\ c \in [Keys -> Result \cup {None}]
    /\ \A k \in Keys : c[k] # None => Finished(c[k]) /\ KeyOf(c[k]) = k

------------------------------------------------------------------------------
(* Operators.                                                               *)

\* A record of a job is not the absence of one.
LEMMA JobIsSome ==
    ASSUME NEW j \in Job
    PROVE  j # NoJob
<1>1. j.pc # "none"
  BY DEF Job, WorkerPoints
<1> QED
  BY <1>1 DEF NoJob

\* The lines asked for of the position before the move.
LEMMA BeforeMultiPvType ==
    ASSUME NEW j \in Job
    PROVE  /\ BeforeMultiPv(j) \in 1..MaxMultiPv
           /\ ~Terminal(j.from) => BeforeMultiPv(j) <= LegalMoves[j.from]
           /\ Terminal(j.from) => BeforeMultiPv(j) = 1
<1>1. /\ LegalMoves[j.from] \in Nat /\ j.settings.multiPv \in 1..MaxMultiPv
      /\ MaxMultiPv \in Nat \ {0}
  BY EngineAssumption, VariationAssumption DEF Job
<1> QED
  BY <1>1 DEF BeforeMultiPv, Smallest, Terminal

\* A request is of the position that the phase is about.
LEMMA RequestType ==
    ASSUME NEW j \in Job
    PROVE  /\ RequestOf(j) \in Request
           /\ RequestOf(j).pos = (IF j.phase = "after" THEN j.fen ELSE j.from)
           /\ RequestOf(j).depth = j.settings.depth
           /\ RequestOf(j).time = j.settings.time
           /\ j.phase = "before" => RequestOf(j).multiPv = BeforeMultiPv(j)
<1>1. j.settings.depth \in 1..MaxDepth /\ j.settings.multiPv \in 1..MaxMultiPv
      /\ j.settings.time \in 0..MaxTime
      /\ j.fen \in Positions /\ j.from \in Positions
  BY VariationAssumption DEF Job
<1> QED
  BY <1>1, BeforeMultiPvType DEF RequestOf, AfterRequest, BeforeRequest, Asking, Request, Job

\* A search gives as many lines as were asked for and there are moves.
LEMMA LinesType ==
    ASSUME NEW r \in Request
    PROVE  /\ LinesOf(r) \in 1..MaxMultiPv
           /\ r.multiPv <= LegalMoves[r.pos] => LinesOf(r) = r.multiPv
           /\ r.multiPv = 1 => LinesOf(r) = 1
<1>1. LegalMoves[r.pos] \in Nat /\ r.multiPv \in 1..MaxMultiPv /\ MaxMultiPv \in Nat
  BY EngineAssumption DEF Request
<1> QED
  BY <1>1 DEF LinesOf, Smallest

\* What a search for a job gives, as far as it is of the job's position.
LEMMA ResultType ==
    ASSUME NEW j \in Job, NEW end \in Ends
    PROVE  LET r == ResultOf(RequestOf(j), end) IN
           /\ r \in Result /\ r # None
           /\ r.pos = RequestOf(j).pos /\ r.depth = j.settings.depth
           /\ r.time = j.settings.time /\ r.end = end
           /\ j.phase = "before" => r.lines >= BeforeMultiPv(j)
<1> DEFINE q == RequestOf(j)
           r == ResultOf(q, end)
<1>1. q \in Request /\ q.depth = j.settings.depth /\ q.time = j.settings.time
      /\ (j.phase = "before" => q.multiPv = BeforeMultiPv(j) /\ q.pos = j.from)
  BY RequestType DEF Job
<1>2. LinesOf(q) \in 1..MaxMultiPv
  BY <1>1, LinesType
<1>3. r \in Result /\ r.pos = q.pos /\ r.depth = q.depth /\ r.time = q.time /\ r.end = end
      /\ r.lines = LinesOf(q)
  BY <1>1, <1>2 DEF ResultOf, Result, Request
<1>4. j.phase = "before" => LinesOf(q) >= BeforeMultiPv(j)
  <2> SUFFICES ASSUME j.phase = "before" PROVE LinesOf(q) >= BeforeMultiPv(j)
    OBVIOUS
  <2>1. CASE Terminal(j.from)
    BY <1>1, <1>2, <2>1, BeforeMultiPvType
  <2>2. CASE ~Terminal(j.from)
    BY <1>1, <2>2, BeforeMultiPvType, LinesType
  <2> QED
    BY <2>1, <2>2
<1> QED
  BY <1>1, <1>2, <1>3, <1>4, EngineAssumption

\* What the verdicts on a job depend on.
LEMMA SameVerdict ==
    ASSUME NEW j, NEW k, k.from = j.from, k.fen = j.fen, k.settings = j.settings,
           k.phase = j.phase, k.result = j.result, k.before = j.before,
           k.interrupted = j.interrupted, j.cancel => k.cancel
    PROVE  /\ RequestOf(k) = RequestOf(j) /\ BeforeMultiPv(k) = BeforeMultiPv(j)
           /\ ResultGood(k) = ResultGood(j) /\ BeforeGood(k) = BeforeGood(j)
           /\ \A r, pos : GivenFor(r, pos, k) = GivenFor(r, pos, j)
           /\ TookOK(j) => TookOK(k)
<1>1. BeforeMultiPv(k) = BeforeMultiPv(j)
  BY DEF BeforeMultiPv
<1>2. RequestOf(k) = RequestOf(j)
  BY <1>1 DEF RequestOf, AfterRequest, BeforeRequest
<1>3. \A r, pos : GivenFor(r, pos, k) = GivenFor(r, pos, j)
  BY DEF GivenFor
<1>4. ResultGood(k) = ResultGood(j) /\ BeforeGood(k) = BeforeGood(j)
  BY <1>1, <1>3 DEF ResultGood, BeforeGood
<1>5. TookOK(j) => TookOK(k)
  BY <1>1, <1>2, <1>3 DEF TookOK
<1> QED
  BY <1>1, <1>2, <1>3, <1>4, <1>5

\* A worker goes to another point and changes nothing else of its job.
LEMMA GotoOK ==
    ASSUME NEW j, NEW e, JobOK(j, e), NEW f \in Engine, NEW p \in WorkerPoints,
           f.search # "none" => p \in {"recheck", "wait"},
           f.search \in {"stopping", "stopped"} => j.cancel,
           f.search = "time" => RequestOf(j).time > 0,
           p \in Entering /\ f.cancelled => j.cancel,
           p \in Asked => f.live \in {None, RequestOf(j).pos},
           p = "took" => TookOK(j),
           p \in Searched => ResultGood(j),
           p = "keepBefore" =>
             BeforeGood(j) /\ GivenFor(j.before, j.from, j) /\ Finished(j.before),
           p = "classify" => BeforeGood(j),
           j.status = "running"
    PROVE  LET k == [j EXCEPT !.pc = p] IN
           JobOK(k, f) /\ k.cancel = j.cancel
<1> DEFINE k == [j EXCEPT !.pc = p]
<1>1. /\ k \in Job /\ k.pc = p
      /\ k.from = j.from /\ k.fen = j.fen /\ k.settings = j.settings /\ k.phase = j.phase
      /\ k.result = j.result /\ k.before = j.before /\ k.interrupted = j.interrupted
      /\ k.cancel = j.cancel /\ k.status = j.status
  BY DEF JobOK, Job
<1> HIDE DEF k
<1>2. /\ RequestOf(k) = RequestOf(j) /\ BeforeMultiPv(k) = BeforeMultiPv(j)
      /\ ResultGood(k) = ResultGood(j) /\ BeforeGood(k) = BeforeGood(j)
      /\ \A r, pos : GivenFor(r, pos, k) = GivenFor(r, pos, j)
      /\ TookOK(j) => TookOK(k)
  BY <1>1, SameVerdict
<1>3. JobOK(k, f)
  BY <1>1, <1>2 DEF JobOK
<1> QED
  BY <1>1, <1>3 DEF k

\* Every step of the adapter keeps its type.
LEMMA EngineType ==
    ASSUME NEW e \in Engine, NEW p \in Positions
    PROVE  /\ NoEngine \in Engine /\ Started(e) \in Engine /\ Entered(e) \in Engine
           /\ Refused(e) \in Engine /\ Cleared(e) \in Engine /\ Going(e) \in Engine
           /\ Halted(e) \in Engine /\ Rechecked(e, TRUE) \in Engine
           /\ Emitted(e, p) \in Engine /\ Stopped(e) \in Engine /\ Completed(e, p) \in Engine
           /\ TimedOut(e) \in Engine
           /\ Returned(e) \in Engine /\ Shut(e) \in Engine
BY DEF Engine, NoEngine, Started, Entered, Refused, Cleared, Going, Halted, Rechecked,
       Emitted, Stopped, TimedOut, Completed, Returned, Shut

------------------------------------------------------------------------------
(* The worker, step by step.                                                *)

WorkerOK == JobOK(job', engine') /\ CacheOK(cache') /\ job'.cancel = job.cancel

\* The worker begins.
LEMMA BeginOK ==
    ASSUME JobOK(job, engine), CacheOK(cache), Begin
    PROVE  WorkerOK
<1>0. engine \in Engine /\ Started(engine) \in Engine /\ job.pc = "begin"
  BY EngineType DEF JobOK, Begin, At, Engine, Started
<1>1. /\ Started(engine).search = engine.search
      /\ engine.search = "none" /\ job.status = "running"
  BY <1>0 DEF JobOK, Started, Engine
<1>2. CASE engine' = Started(engine) /\ job' = [job EXCEPT !.pc = "enter"]
  BY <1>0, <1>1, <1>2, GotoOK
     DEF WorkerOK, Begin, WorkerPoints, Entering, Asked, Searched
<1>3. CASE engine' = engine /\ job' = [job EXCEPT !.pc = "throw"]
  BY <1>0, <1>1, <1>3, GotoOK
     DEF WorkerOK, Begin, WorkerPoints, Entering, Asked, Searched
<1> QED
  BY <1>2, <1>3 DEF Begin, Goto

\* analyze() clears the flag.
LEMMA EnterOK ==
    ASSUME JobOK(job, engine), CacheOK(cache), Enter
    PROVE  WorkerOK
<1>0. /\ engine \in Engine /\ job.pc = "enter" /\ job.status = "running"
      /\ engine' = Entered(engine) /\ job' = [job EXCEPT !.pc = "check"] /\ cache' = cache
      /\ engine.search = "none"
  BY DEF JobOK, Enter, At, Goto
<1>1. /\ engine' \in Engine /\ engine'.search = "none" /\ ~engine'.cancelled
  BY <1>0 DEF Entered, Engine
<1> QED
  BY <1>0, <1>1, GotoOK DEF WorkerOK, WorkerPoints, Entering, Asked, Searched

\* A result for the request of the job, stopped only if it was cancelled.
LEMMA TakenOK ==
    ASSUME JobOK(job, engine), job.status = "running",
           NEW f \in Engine, f.search = "none",
           NEW r \in Result, GivenFor(r, RequestOf(job).pos, job),
           job.phase = "before" => r.lines >= BeforeMultiPv(job),
           Finished(r) \/ job.cancel,
           NEW interrupted \in BOOLEAN, interrupted => job.cancel
    PROVE  LET k == Taken(r, interrupted) IN JobOK(k, f) /\ k.cancel = job.cancel
<1> DEFINE k == Taken(r, interrupted)
<1>1. /\ k \in Job /\ k.pc = "took"
      /\ k.from = job.from /\ k.fen = job.fen /\ k.settings = job.settings
      /\ k.phase = job.phase /\ k.cancel = job.cancel /\ k.status = "running"
      /\ k.interrupted = interrupted
      /\ job.phase = "after" => k.result = r /\ k.before = job.before
      /\ job.phase # "after" => k.before = r /\ k.result = job.result
  BY DEF JobOK, Taken, Job, WorkerPoints
<1> HIDE DEF k
<1>2. BeforeMultiPv(k) = BeforeMultiPv(job)
  BY <1>1 DEF BeforeMultiPv
<1>3. RequestOf(k) = RequestOf(job)
  BY <1>1, <1>2 DEF RequestOf, AfterRequest, BeforeRequest
<1>4. TookOK(k)
  BY <1>1, <1>2, <1>3 DEF TookOK, GivenFor
<1>5. k.phase = "before" => ResultGood(k)
  BY <1>1 DEF JobOK, ResultGood, GivenFor
<1>6. JobOK(k, f)
  BY <1>1, <1>4, <1>5 DEF JobOK, Entering, Asked, Searched
<1> QED
  BY <1>1, <1>6 DEF k

\* The callback is looked at before the search.
LEMMA CheckOK ==
    ASSUME JobOK(job, engine), CacheOK(cache), Check
    PROVE  WorkerOK
<1>0. /\ engine \in Engine /\ job \in Job /\ job.pc = "check" /\ job.status = "running"
      /\ cache' = cache /\ engine.search = "none" /\ (engine.cancelled => job.cancel)
  BY DEF JobOK, Check, At, Entering
<1>1. CASE job.cancel
  <2>1. engine' \in Engine /\ engine'.search = "none"
    BY <1>0, <1>1 DEF Check, Refused, Engine
  <2>2. job' = [job EXCEPT !.pc = "throw"]
    BY <1>1 DEF Check, Goto
  <2> QED
    BY <1>0, <1>1, <2>1, <2>2, GotoOK DEF WorkerOK, WorkerPoints, Entering, Asked, Searched
<1>2. CASE ~job.cancel
  <2>1. /\ engine' = Cleared(engine) /\ engine' \in Engine
        /\ engine'.search = "none" /\ engine'.live = None /\ ~engine'.cancelled
    BY <1>0, <1>2 DEF Check, Cleared, Engine
  <2>2. CASE Terminal(RequestOf(job).pos)
    <3> DEFINE r == ResultOf(RequestOf(job), "depth")
    <3>1. job' = Taken(r, FALSE)
      BY <1>2, <2>2 DEF Check, Do
    <3>2. /\ r \in Result /\ Finished(r) /\ GivenFor(r, RequestOf(job).pos, job)
          /\ job.phase = "before" => r.lines >= BeforeMultiPv(job)
      BY <1>0, ResultType DEF GivenFor, Finished, Ends
    <3> HIDE DEF r
    <3> QED
      BY <1>0, <2>1, <3>1, <3>2, TakenOK DEF WorkerOK
  <2>3. CASE ~Terminal(RequestOf(job).pos)
    <3>1. job' = [job EXCEPT !.pc = "position"]
      BY <1>2, <2>3 DEF Check, Goto
    <3> QED
      BY <1>0, <2>1, <3>1, GotoOK DEF WorkerOK, WorkerPoints, Entering, Asked, Searched
  <2> QED
    BY <2>2, <2>3
<1> QED
  BY <1>1, <1>2

\* The engine gets the position.
LEMMA SetPositionOK ==
    ASSUME JobOK(job, engine), CacheOK(cache), SetPosition
    PROVE  WorkerOK
<1>0. /\ engine \in Engine /\ job.pc = "position" /\ job.status = "running"
      /\ cache' = cache /\ engine.search = "none" /\ (engine.cancelled => job.cancel)
      /\ engine.live \in {None, RequestOf(job).pos}
  BY DEF JobOK, SetPosition, At, Entering, Asked
<1>1. CASE job.cancel
  <2>1. engine' \in Engine /\ engine'.search = "none" /\ job' = [job EXCEPT !.pc = "throw"]
    BY <1>0, <1>1 DEF SetPosition, Goto, Refused, Engine
  <2> QED
    BY <1>0, <1>1, <2>1, GotoOK DEF WorkerOK, WorkerPoints, Entering, Asked, Searched
<1>2. CASE ~job.cancel
  <2>1. engine' = engine /\ job' = [job EXCEPT !.pc = "go"]
    BY <1>2 DEF SetPosition, Goto
  <2> QED
    BY <1>0, <2>1, GotoOK DEF WorkerOK, WorkerPoints, Entering, Asked, Searched
<1> QED
  BY <1>1, <1>2

\* The search starts.
LEMMA GoOK ==
    ASSUME JobOK(job, engine), CacheOK(cache), Go
    PROVE  WorkerOK
<1>0. /\ engine \in Engine /\ job.pc = "go" /\ job.status = "running"
      /\ cache' = cache /\ (engine.cancelled => job.cancel)
      /\ engine.live \in {None, RequestOf(job).pos}
  BY DEF JobOK, Go, At, Entering, Asked
<1>1. /\ engine' \in Engine /\ engine'.search = "running" /\ engine'.live = engine.live
      /\ engine'.cancelled = engine.cancelled /\ job' = [job EXCEPT !.pc = "recheck"]
  BY <1>0 DEF Go, Goto, Going, Engine
<1> QED
  BY <1>0, <1>1, GotoOK DEF WorkerOK, WorkerPoints, Entering, Asked, Searched

\* The callback is looked at again, and the search stopped if it says so.
LEMMA RecheckOK ==
    ASSUME JobOK(job, engine), CacheOK(cache), Recheck
    PROVE  WorkerOK
<1>0. /\ engine \in Engine /\ job.pc = "recheck" /\ job.status = "running"
      /\ cache' = cache /\ (engine.cancelled => job.cancel)
      /\ engine.live \in {None, RequestOf(job).pos}
      /\ engine.search \in {"stopping", "stopped"} => job.cancel
      /\ engine.search = "time" => RequestOf(job).time > 0
  BY DEF JobOK, Recheck, At, Entering, Asked
<1>1. /\ engine' \in Engine /\ engine'.live = engine.live
      /\ engine'.cancelled => job.cancel
      /\ engine'.search \in {"stopping", "stopped"} => job.cancel
      /\ engine'.search = "time" => RequestOf(job).time > 0
      /\ job' = [job EXCEPT !.pc = "wait"]
  BY <1>0 DEF Recheck, Goto, Rechecked, Halted, Engine
<1> QED
  BY <1>0, <1>1, GotoOK DEF WorkerOK, WorkerPoints, Entering, Asked, Searched

\* The end of a search: a stopped one is a cancelled job's.
LEMMA WaitOK ==
    ASSUME JobOK(job, engine), CacheOK(cache), Wait
    PROVE  WorkerOK
<1>0. /\ engine \in Engine /\ job \in Job /\ job.pc = "wait" /\ job.status = "running"
      /\ cache' = cache /\ (engine.cancelled => job.cancel)
      /\ engine.live \in {None, RequestOf(job).pos}
      /\ engine.search = "stopped" => job.cancel
      /\ engine.search = "time" => RequestOf(job).time > 0
      /\ engine.search \in {"depth", "time", "stopped"}
  BY DEF JobOK, Wait, At, Entering, Asked, Ended, Ends, Engine
<1>1. /\ engine' \in Engine /\ engine'.search = "none"
  BY <1>0 DEF Wait, Returned, Engine
<1>2. CASE engine.live = None
  <2>1. job' = [job EXCEPT !.pc = "throw"]
    BY <1>2 DEF Wait, Goto
  <2> QED
    BY <1>0, <1>1, <2>1, GotoOK DEF WorkerOK, WorkerPoints, Entering, Asked, Searched
<1>3. CASE engine.live # None
  <2> DEFINE q == ResultOf(RequestOf(job), engine.search)
             r == [q EXCEPT !.pos = engine.live]
  <2>1. /\ q \in Result /\ q.pos = RequestOf(job).pos /\ q.depth = job.settings.depth
        /\ q.time = job.settings.time /\ q.end = engine.search
        /\ job.phase = "before" => q.lines >= BeforeMultiPv(job)
    BY <1>0, ResultType DEF Ends
  <2>2. job' = Taken(r, engine.cancelled)
    BY <1>3 DEF Wait, Do
  <2> HIDE DEF q
  <2>3. r = q
    BY <1>0, <1>3, <2>1 DEF Result
  <2>4. GivenFor(q, RequestOf(job).pos, job) /\ (Finished(q) \/ job.cancel)
    BY <1>0, <2>1, EngineAssumption, RequestType DEF GivenFor, Finished
  <2>5. engine.cancelled \in BOOLEAN
    BY <1>0 DEF Engine
  <2> HIDE DEF r
  <2> QED
    BY <1>0, <1>1, <2>1, <2>2, <2>3, <2>4, <2>5, TakenOK DEF WorkerOK
<1> QED
  BY <1>2, <1>3

\* A cancelled job pauses here; one that goes on has a result of a search
\* that ended by itself.
LEMMA TookStepOK ==
    ASSUME JobOK(job, engine), CacheOK(cache), Took
    PROVE  WorkerOK
<1>0. /\ engine \in Engine /\ job \in Job /\ job.pc = "took" /\ job.status = "running"
      /\ cache' = cache /\ engine' = engine /\ engine.search = "none"
      /\ TookOK(job) /\ (job.phase = "before" => ResultGood(job))
  BY DEF JobOK, Took, At
<1>1. CASE job.cancel \/ job.interrupted
  <2> DEFINE k == [job EXCEPT !.status = "paused", !.finished = TRUE, !.before = None,
                              !.pc = "ended"]
  <2>1. job' = k /\ job.cancel
    BY <1>0, <1>1 DEF Took, Do, TookOK
  <2>2. /\ k \in Job /\ k.pc = "ended" /\ k.status = "paused" /\ k.cancel = job.cancel
        /\ k.from = job.from /\ k.fen = job.fen /\ k.settings = job.settings
        /\ k.phase = job.phase /\ k.result = job.result
    BY <1>0 DEF Job
  <2> HIDE DEF k
  <2>3. k.phase = "before" => ResultGood(k)
    BY <1>0, <2>2 DEF ResultGood, GivenFor
  <2>4. JobOK(k, engine)
    BY <1>0, <2>1, <2>2, <2>3 DEF JobOK, Entering, Asked, Searched
  <2> QED
    BY <1>0, <2>1, <2>2, <2>4 DEF WorkerOK
<1>2. CASE ~job.cancel /\ ~job.interrupted
  <2>1. job' = [job EXCEPT !.pc = IF job.phase = "after" THEN "keepAfter" ELSE "keepBefore"]
    BY <1>2 DEF Took, Goto
  <2>2. CASE job.phase = "after"
    <3>1. ResultGood(job)
      BY <1>0, <1>2, <2>2, RequestType DEF TookOK, ResultGood, GivenFor
    <3> QED
      BY <1>0, <2>1, <2>2, <3>1, GotoOK DEF WorkerOK, WorkerPoints, Entering, Asked, Searched
  <2>3. CASE job.phase # "after"
    <3>1. job.phase = "before" /\ job.settings.depth \in Int /\ job.settings.time \in Int
      BY <1>0, <2>3, VariationAssumption DEF Job
    <3>2. GivenFor(job.before, job.from, job) /\ BeforeGood(job) /\ Finished(job.before)
      BY <1>0, <1>2, <3>1, RequestType
         DEF TookOK, BeforeGood, GivenFor, Finished, DeepEnough
    <3> QED
      BY <1>0, <2>1, <2>3, <3>1, <3>2, GotoOK DEF WorkerOK, WorkerPoints, Entering, Asked, Searched
  <2> QED
    BY <2>2, <2>3
<1> QED
  BY <1>1, <1>2

\* A result is remembered under its own key.
LEMMA Remembered ==
    ASSUME CacheOK(cache), NEW p \in Positions, NEW j \in Job, NEW r \in Result,
           GivenFor(r, p, j), Finished(r), NEW multiPv
    PROVE  CacheOK([cache EXCEPT ![KeyOf(Asking(p, j.settings, multiPv))] = r])
<1> DEFINE key == KeyOf(Asking(p, j.settings, multiPv))
<1>1. key = <<p, j.settings.depth, j.settings.time>>
  BY DEF KeyOf, Asking
<1>2. key \in Keys /\ KeyOf(r) = key
  BY <1>1, VariationAssumption DEF Keys, KeyOf, Job, GivenFor
<1>3. CacheOK([cache EXCEPT ![key] = r])
  <2> HIDE DEF key
  <2> QED
    BY <1>2 DEF CacheOK
<1> QED
  BY <1>3

\* The result of the position after the move is remembered.
LEMMA KeepAfterOK ==
    ASSUME JobOK(job, engine), CacheOK(cache), KeepAfter
    PROVE  WorkerOK
<1>0. /\ engine \in Engine /\ job \in Job /\ job.pc = "keepAfter" /\ job.status = "running"
      /\ engine' = engine /\ engine.search = "none" /\ ResultGood(job)
      /\ job' = [job EXCEPT !.pc = "lookup"]
      /\ cache' = [cache EXCEPT ![KeyOf(AfterRequest(job))] = job.result]
  BY DEF JobOK, KeepAfter, At, Goto, Searched
<1>1. job.fen \in Positions /\ job.result \in Result
  BY <1>0 DEF Job, ResultGood, GivenFor
<1>2. CacheOK(cache')
  BY <1>0, <1>1, Remembered DEF ResultGood, AfterRequest
<1> QED
  BY <1>0, <1>2, GotoOK DEF WorkerOK, WorkerPoints, Entering, Asked, Searched

\* The result before the move, found and not searched for.
LEMMA FoundOK ==
    ASSUME JobOK(job, engine), job.status = "running", job.pc \in Searched,
           NEW r \in Result, r.pos = job.from,
           \/ r.end = "cut"
           \/ DeepEnough(r, job.settings) /\ r.lines >= BeforeMultiPv(job)
    PROVE  LET k == [job EXCEPT !.before = r, !.pc = "classify"] IN
           JobOK(k, engine) /\ k.cancel = job.cancel
<1> DEFINE k == [job EXCEPT !.before = r, !.pc = "classify"]
<1>1. /\ k \in Job /\ k.pc = "classify" /\ k.before = r
      /\ k.from = job.from /\ k.fen = job.fen /\ k.settings = job.settings
      /\ k.result = job.result /\ k.cancel = job.cancel /\ k.status = job.status
  BY DEF JobOK, Job, WorkerPoints
<1> HIDE DEF k
<1>2. BeforeMultiPv(k) = BeforeMultiPv(job)
  BY <1>1 DEF BeforeMultiPv
<1>3. ResultGood(k) /\ BeforeGood(k)
  BY <1>1, <1>2, EngineAssumption DEF JobOK, ResultGood, BeforeGood, GivenFor
<1>4. JobOK(k, engine)
  BY <1>1, <1>3 DEF JobOK, Entering, Asked, Searched
<1> QED
  BY <1>1, <1>4 DEF k

\* The position before the move is looked for among the remembered results,
LEMMA LookupOK ==
    ASSUME JobOK(job, engine), CacheOK(cache), Lookup
    PROVE  WorkerOK
<1> DEFINE key == KeyOf(BeforeRequest(job))
           found == cache[key]
<1>0. /\ engine \in Engine /\ job \in Job /\ job.pc = "lookup" /\ job.status = "running"
      /\ cache' = cache /\ engine' = engine /\ engine.search = "none" /\ ResultGood(job)
  BY DEF JobOK, Lookup, At, Searched
<1>1. CASE WideEnough(found, job)
  <2>1. job' = [job EXCEPT !.before = found, !.pc = "classify"]
    BY <1>1 DEF Lookup, Do
  <2>2. /\ key = <<job.from, job.settings.depth, job.settings.time>> /\ key \in Keys
        /\ job.settings.depth \in Int /\ job.settings.time \in Int
    BY <1>0, VariationAssumption DEF Keys, Job, KeyOf, BeforeRequest, Asking
  <2>3. /\ found \in Result /\ Finished(found) /\ KeyOf(found) = key
        /\ found.lines \in 1..MaxMultiPv
    <3> HIDE DEF key
    <3> QED
      BY <1>1, <2>2 DEF CacheOK, WideEnough, Result
  <2>4. found.lines >= BeforeMultiPv(job)
    BY <1>0, <1>1, <2>3, BeforeMultiPvType DEF WideEnough
  <2> HIDE DEF found
  <2>5. found.pos = job.from /\ DeepEnough(found, job.settings)
    <3>1. /\ found.pos = job.from /\ found.depth = job.settings.depth
          /\ found.time = job.settings.time
      BY <2>2, <2>3 DEF KeyOf
    <3> QED
      BY <2>2, <2>3, <3>1 DEF Finished, DeepEnough
  <2> QED
    BY <1>0, <2>1, <2>3, <2>4, <2>5, FoundOK DEF WorkerOK, Searched
<1>2. CASE ~WideEnough(found, job)
  <2>1. job' = [job EXCEPT !.pc = "saved"]
    BY <1>2 DEF Lookup, Goto
  <2> QED
    BY <1>0, <2>1, GotoOK DEF WorkerOK, WorkerPoints, Entering, Asked, Searched
<1> QED
  BY <1>1, <1>2

\* and among the saved positions.
LEMMA LookupSavedOK ==
    ASSUME JobOK(job, engine), CacheOK(cache), LookupSaved
    PROVE  WorkerOK
<1>0. /\ engine \in Engine /\ job \in Job /\ job.pc = "saved" /\ job.status = "running"
      /\ cache' = cache /\ engine' = engine /\ engine.search = "none" /\ ResultGood(job)
  BY DEF JobOK, LookupSaved, At, Searched
<1>1. CASE job' = [job EXCEPT !.pc = "hide"]
  BY <1>0, <1>1, GotoOK DEF WorkerOK, WorkerPoints, Entering, Asked, Searched
<1>2. ASSUME NEW r \in Result, Answers(r, job),
             job' = [job EXCEPT !.before = r, !.pc = "classify"]
      PROVE  WorkerOK
  <2>1. /\ BeforeMultiPv(job) \in 1..MaxMultiPv
        /\ r.depth \in Int /\ r.lines \in Int /\ r.time \in 0..MaxTime /\ MaxTime \in Nat
        /\ r.end \in Ends /\ job.settings.depth \in Int /\ job.settings.time \in 0..MaxTime
    BY <1>0, VariationAssumption, EngineAssumption, BeforeMultiPvType DEF Job, Result
  <2>2. r.pos = job.from /\ (r.end # "cut" => r.lines >= BeforeMultiPv(job))
    BY <1>2, <2>1 DEF Answers
  <2>3. r.end # "cut" => DeepEnough(r, job.settings)
    BY <1>2, <2>1 DEF Answers, DeepEnough, Ends
  <2> QED
    BY <1>0, <1>2, <2>2, <2>3, FoundOK DEF WorkerOK, Searched
<1> QED
  BY <1>1, <1>2 DEF LookupSaved, Goto, Do

\* The live lines are hidden before the second search.
LEMMA HideOK ==
    ASSUME JobOK(job, engine), CacheOK(cache), Hide
    PROVE  WorkerOK
<1> DEFINE k == [job EXCEPT !.expose = FALSE, !.phase = "before", !.pc = "enter"]
<1>0. /\ engine \in Engine /\ job \in Job /\ job.pc = "hide" /\ job.status = "running"
      /\ cache' = cache /\ engine' = engine /\ engine.search = "none" /\ ResultGood(job)
      /\ job' = k
  BY DEF JobOK, Hide, At, Do, Searched
<1>1. /\ k \in Job /\ k.pc = "enter" /\ k.status = "running" /\ k.cancel = job.cancel
      /\ k.fen = job.fen /\ k.settings = job.settings /\ k.result = job.result
  BY <1>0 DEF Job, WorkerPoints
<1> HIDE DEF k
<1>2. ResultGood(k)
  BY <1>0, <1>1 DEF ResultGood, GivenFor
<1> QED
  BY <1>0, <1>1, <1>2 DEF WorkerOK, JobOK, Entering, Asked, Searched

\* The result of the position before the move is remembered.
LEMMA KeepBeforeOK ==
    ASSUME JobOK(job, engine), CacheOK(cache), KeepBefore
    PROVE  WorkerOK
<1>0. /\ engine \in Engine /\ job \in Job /\ job.pc = "keepBefore" /\ job.status = "running"
      /\ engine' = engine /\ engine.search = "none"
      /\ BeforeGood(job) /\ GivenFor(job.before, job.from, job)
      /\ job' = [job EXCEPT !.pc = "classify"]
      /\ Finished(job.before)
      /\ cache' = [cache EXCEPT ![KeyOf(BeforeRequest(job))] = job.before]
  BY DEF JobOK, KeepBefore, At, Goto
<1>1. job.from \in Positions /\ job.before \in Result
  BY <1>0 DEF Job, BeforeGood
<1>2. CacheOK(cache')
  BY <1>0, <1>1, Remembered DEF BeforeRequest
<1>3. ResultGood(job)
  BY <1>0 DEF JobOK, Searched
<1> QED
  BY <1>0, <1>2, <1>3, GotoOK DEF WorkerOK, WorkerPoints, Entering, Asked, Searched

\* The move is classified, or the job fails, and the thread ends.
LEMMA LastStepsOK ==
    ASSUME JobOK(job, engine), CacheOK(cache), Classify \/ Throw \/ Finish
    PROVE  WorkerOK
<1> DEFINE status == IF job.pc = "classify" THEN "complete"
                     ELSE IF job.pc = "finish" THEN job.status
                     ELSE IF job.cancel THEN "paused" ELSE "error"
           p == IF job.pc = "finish" THEN "ended" ELSE "finish"
           finished == job.finished \/ job.pc = "finish"
           before == IF job.pc = "finish" THEN None ELSE job.before
           k == [job EXCEPT !.status = status, !.finished = finished, !.before = before,
                            !.pc = p]
<1>0. /\ engine \in Engine /\ job \in Job /\ job.pc \in {"classify", "throw", "finish"}
      /\ cache' = cache /\ engine' = engine /\ engine.search = "none"
      /\ job.pc = "classify" => ResultGood(job) /\ BeforeGood(job)
      /\ job.phase = "before" => ResultGood(job)
      /\ job.status = "paused" => job.cancel
      /\ job.status # "running" => job.pc = "finish"
  BY DEF JobOK, Classify, Throw, Finish, At, Searched
<1>1. job' = k
  <2> USE <1>0 DEF At, Do, Job
  <2>1. CASE Classify
    BY <2>1 DEF Classify
  <2>2. CASE Throw
    BY <2>2 DEF Throw
  <2>3. CASE Finish
    BY <2>3 DEF Finish
  <2> QED
    BY <2>1, <2>2, <2>3
<1>5. before \in Result \cup {None} /\ finished \in BOOLEAN
  BY <1>0 DEF Job
<1>6. /\ status \in {"running", "paused", "complete", "error"}
      /\ p \in WorkerPoints \cup {"ended"}
  BY <1>0 DEF Job, WorkerPoints
<1>2. /\ k \in Job /\ k.pc = p /\ k.status = status /\ k.cancel = job.cancel
      /\ k.from = job.from /\ k.fen = job.fen /\ k.settings = job.settings
      /\ k.phase = job.phase /\ k.result = job.result
      /\ k.interrupted = job.interrupted
      /\ job.pc # "finish" => k.before = job.before
  <2>1. job.pc # "finish" => before = job.before
    OBVIOUS
  <2> HIDE DEF before, finished, status, p
  <2>2. k \in Job
    BY <1>0, <1>5, <1>6 DEF Job
  <2> QED
    BY <1>0, <1>5, <1>6, <2>1, <2>2 DEF Job
<1> HIDE DEF k
<1>3. /\ ResultGood(k) = ResultGood(job)
      /\ job.pc # "finish" => BeforeGood(k) = BeforeGood(job)
  <2>1. ResultGood(k) = ResultGood(job)
    BY <1>2 DEF ResultGood, GivenFor
  <2> QED
    BY <1>2, <2>1, SameVerdict
<1>4. JobOK(k, engine)
  BY <1>0, <1>2, <1>3 DEF JobOK, Entering, Asked, Searched
<1> QED
  BY <1>0, <1>1, <1>2, <1>4 DEF WorkerOK

\* So every step of the worker keeps the job and the adapter in order.
LEMMA WorkerKeeps ==
    ASSUME JobOK(job, engine), CacheOK(cache), Worker
    PROVE  WorkerOK
BY BeginOK, EnterOK, CheckOK, SetPositionOK, GoOK, RecheckOK, WaitOK, TookStepOK,
   KeepAfterOK, LookupOK, LookupSavedOK, HideOK, KeepBeforeOK, LastStepsOK DEF Worker

\* The search threads act while a search runs, for the job that began it.
LEMMA SearchKeeps ==
    ASSUME JobOK(job, engine), Emit \/ Complete \/ TimeOut \/ Halt
    PROVE  JobOK(job, engine')
<1>0. /\ engine \in Engine /\ job \in Job
      /\ engine.search \in {"running", "stopping"}
      /\ job.pc \in {"recheck", "wait"}
      /\ engine.search = "stopping" => job.cancel
      /\ engine.cancelled => job.cancel
      /\ engine.live \in {None, RequestOf(job).pos}
  BY DEF JobOK, Emit, Complete, TimeOut, Halt, Thinking, Entering, Asked
<1>1. RequestOf(job).pos \in Positions
  BY <1>0, RequestType DEF Request
<1>2. /\ engine' \in Engine /\ engine'.cancelled = engine.cancelled
      /\ engine'.live \in {None, RequestOf(job).pos}
      /\ engine'.search \in {"stopping", "stopped"} => job.cancel
      /\ engine'.search = "time" => RequestOf(job).time > 0
  BY <1>0, <1>1 DEF Emit, Complete, TimeOut, Halt, Emitted, Completed, TimedOut, Stopped,
                    Engine
<1> QED
  BY <1>0, <1>2 DEF JobOK, Entering, Asked, Searched

------------------------------------------------------------------------------
(* The invariant.                                                           *)

JobInv == JobOK(job, engine) \/ (job = NoJob /\ engine \in Engine /\ engine.search = "none")

\* A call that goes past a point knows what it waited for there.
CallInv ==
    /\ call = NoCall \/ call = [op |-> "closed"] \/ call \in Calls
    /\ call \in Calls =>
        /\ call.op = "start" =>
             (call.pc = "reap" /\ call.fen = None) \/ call.from \in Positions
        /\ call.op = "start" /\ call.pc # "reap" => call.fen \in Positions /\ ~mainLine
        /\ call.pc \in {"cancel", "halt"} => job # NoJob /\ job.cancel
        /\ call.pc \in {"create", "drop"} => ~Working
        /\ call.pc = "create" => call.op = "start"
        /\ call.pc \in {"poll", "expose", "live"} => job # NoJob

RestInv ==
    /\ mapped \in BOOLEAN /\ (mapped => job # NoJob)
    /\ held \in BOOLEAN /\ mainLine \in BOOLEAN /\ calls \in 0..MaxCalls
    /\ mainLine => ~Working /\ ~engine.ready

IInv == JobInv /\ CacheOK(cache) /\ CallInv /\ RestInv

\* A point of a call belongs to a call.
LEMMA InIsCall ==
    ASSUME CallInv, NEW pc, In(pc)
    PROVE  call \in Calls /\ call.pc = pc
BY DEF CallInv, In

\* A call without a position has the type of a call.
LEMMA PlainType ==
    ASSUME NEW op \in {"start", "poll", "cancel", "main", "close"}, NEW pc \in CallPoints
    PROVE  /\ Plain(op, pc) \in Calls /\ Plain(op, pc).op = op /\ Plain(op, pc).pc = pc
           /\ Plain(op, pc).fen = None
<1> DEFINE s == CHOOSE s \in Settings : TRUE
<1>1. s \in Settings
  BY VariationAssumption
<1> HIDE DEF s
<1>2. Plain(op, pc) = [op |-> op, pc |-> pc, from |-> None, fen |-> None,
                       settings |-> s, seen |-> None]
  BY DEF Plain, s
<1> QED
  BY <1>1, <1>2 DEF Calls

\* No call and a closed process are not calls.
LEMMA NoCallIsNone ==
    NoCall \notin Calls /\ [op |-> "closed"] \notin Calls
<1> SUFFICES ASSUME NEW c \in Calls PROVE c # NoCall /\ c # [op |-> "closed"]
  OBVIOUS
<1>1. c.op # "none" /\ c.op # "closed"
  BY DEF Calls
<1> QED
  BY <1>1 DEF NoCall

\* An empty cache is in order.
LEMMA NothingRemembered == CacheOK(NoResults)
BY DEF CacheOK, NoResults

\* A job that has ended does not care what the adapter does.
LEMMA RestingOK ==
    ASSUME JobInv, ~Working, NEW e \in Engine, e.search = "none"
    PROVE  JobOK(job, e) \/ (job = NoJob /\ e.search = "none")
<1>1. CASE job = NoJob
  BY <1>1
<1>2. CASE JobOK(job, engine)
  <2>1. job.pc = "ended"
    BY <1>2, JobIsSome DEF Working, JobOK
  <2> QED
    BY <1>2, <2>1 DEF JobOK, Entering, Asked, Searched
<1> QED
  BY <1>1, <1>2 DEF JobInv

\* A process that has just started satisfies the invariant.
LEMMA InitInv == Init => IInv
<1> SUFFICES ASSUME Init PROVE IInv
  OBVIOUS
<1>1. JobInv
  BY DEF Init, JobInv, Engine, NoEngine
<1>2. CacheOK(cache)
  BY NothingRemembered DEF Init
<1>3. CallInv
  BY NoCallIsNone DEF Init, CallInv
<1>4. RestInv
  <2>1. calls \in 0..MaxCalls
    BY VariationAssumption DEF Init
  <2> QED
    BY <2>1 DEF Init, RestInv
<1> QED
  BY <1>1, <1>2, <1>3, <1>4 DEF IInv

\* A step of the worker keeps the invariant.
LEMMA WorkerInv ==
    ASSUME IInv, Worker
    PROVE  IInv'
<1>1. /\ job # NoJob /\ job.pc \in WorkerPoints
      /\ UNCHANGED <<mapped, held, mainLine, call, calls>>
  BY DEF Worker, Begin, Enter, Check, SetPosition, Go, Recheck, Wait, Took, KeepAfter,
         Lookup, LookupSaved, Hide, KeepBefore, Classify, Throw, Finish, At, Quiet,
         WorkerPoints
<1>2. Working /\ JobOK(job, engine)
  BY <1>1 DEF Working, WorkerPoints, IInv, JobInv
<1>3. JobOK(job', engine') /\ CacheOK(cache') /\ job'.cancel = job.cancel
  BY <1>2, WorkerKeeps DEF IInv, WorkerOK
<1>4. job' # NoJob
  BY <1>3, JobIsSome DEF JobOK
<1>5. CallInv'
  BY <1>1, <1>2, <1>3, <1>4 DEF IInv, CallInv
<1>6. RestInv'
  BY <1>1, <1>2, <1>3, <1>4 DEF IInv, RestInv
<1> QED
  BY <1>3, <1>5, <1>6 DEF IInv, JobInv

\* So do the search threads,
LEMMA SearchInv ==
    ASSUME IInv, Emit \/ Complete \/ TimeOut \/ Halt
    PROVE  IInv'
<1>1. /\ UNCHANGED <<job, cache, mapped, held, mainLine, call, calls>>
      /\ engine.search # "none"
  BY DEF Emit, Complete, TimeOut, Halt, Thinking, OnlyEngine, Quiet
<1>2. JobOK(job, engine) /\ JobOK(job, engine')
  BY <1>1, SearchKeeps DEF IInv, JobInv
<1>3. Working
  BY <1>1, <1>2, JobIsSome DEF Working, JobOK
<1>4. CallInv' /\ RestInv'
  BY <1>1, <1>3 DEF IInv, CallInv, RestInv, Working
<1> QED
  BY <1>1, <1>2, <1>4 DEF IInv, JobInv

\* A call begins.
LEMMA StartsInv ==
    ASSUME IInv,
           \/ \E from \in Positions, s \in Settings :
                \E fen \in Moves[from] : Start(from, fen, s)
           \/ StartRefused \/ Poll \/ Cancel \/ StartMainLine \/ Close
    PROVE  IInv'
<1>1. /\ UNCHANGED <<job, mapped, engine, held, cache, mainLine>>
      /\ calls' = calls + 1 /\ calls < MaxCalls
  BY DEF Start, StartRefused, Poll, Cancel, StartMainLine, Close, Note, Free
<1>2. CallInv'
  <2>1. CASE \E from \in Positions, s \in Settings :
                \E fen \in Moves[from] : Start(from, fen, s)
    <3>1. PICK from \in Positions, s \in Settings :
                \E fen \in Moves[from] : Start(from, fen, s)
      BY <2>1
    <3>2. PICK fen \in Moves[from] : Start(from, fen, s)
      BY <3>1
    <3>3. fen \in Positions
      BY VariationAssumption
    <3>4. call' = [op |-> "start", pc |-> "reap", from |-> from, fen |-> fen,
                   settings |-> s, seen |-> None]
      BY <3>2 DEF Start, Note
    <3>5. call' \in Calls /\ call'.op = "start" /\ call'.pc = "reap" /\ call'.from \in Positions
      BY <3>3, <3>4 DEF Calls, CallPoints
    <3> QED
      BY <3>5 DEF CallInv
  <2>2. CASE Poll
    <3>1. call' \in Calls /\ call'.op = "poll" /\ call'.pc = "poll" /\ job # NoJob
      BY <2>2, PlainType DEF Poll, Note, CallPoints, IInv, RestInv
    <3> QED
      BY <1>1, <3>1 DEF CallInv
  <2>4. CASE StartRefused
    <3>1. call' = Plain("start", "reap")
      BY <2>4 DEF StartRefused, Note
    <3>2. call' \in Calls /\ call'.op = "start" /\ call'.pc = "reap" /\ call'.fen = None
      BY <3>1, PlainType DEF CallPoints
    <3> QED
      BY <3>2 DEF CallInv
  <2>3. CASE Cancel \/ StartMainLine \/ Close
    <3>1. call' \in Calls /\ call'.op # "start" /\ call'.pc = "flag"
      BY <2>3, PlainType DEF Cancel, StartMainLine, Close, Note, CallPoints
    <3> QED
      BY <3>1 DEF CallInv
  <2> QED
    BY <2>1, <2>2, <2>3, <2>4
<1>3. RestInv'
  <2>1. calls' \in 0..MaxCalls
    BY <1>1, VariationAssumption DEF IInv, RestInv
  <2> QED
    BY <1>1, <2>1 DEF IInv, RestInv, Working
<1> QED
  BY <1>1, <1>2, <1>3 DEF IInv, JobInv

\* the removal of an ended job from the map,
LEMMA ReapInv ==
    ASSUME IInv, Reap
    PROVE  IInv'
<1>1. call \in Calls /\ UNCHANGED <<job, engine, held, cache, calls>>
      /\ mapped' = (mapped /\ ~job.finished)
  BY InIsCall DEF IInv, Reap, Move
<1>2. CASE call.fen = None
  <2>1. call' = NoCall /\ mainLine' = mainLine
    BY <1>2 DEF Reap
  <2>2. CallInv'
    BY <2>1, NoCallIsNone DEF CallInv
  <2>3. RestInv'
    BY <1>1, <2>1 DEF IInv, RestInv, Working
  <2> QED
    BY <1>1, <2>2, <2>3 DEF IInv, JobInv
<1>3. CASE call.fen # None
  <2>1. call' = [call EXCEPT !.pc = "flag"] /\ mainLine' = FALSE
    BY <1>3 DEF Reap, Move
  <2>2. /\ call' \in Calls /\ call'.pc = "flag" /\ call'.op = call.op
        /\ call'.from = call.from /\ call'.fen \in Positions
    BY <1>1, <1>3, <2>1 DEF Calls, CallPoints
  <2>3. CallInv'
    BY <1>1, <1>3, <2>1, <2>2 DEF IInv, CallInv
  <2>4. RestInv'
    BY <1>1, <2>1 DEF IInv, RestInv, Working
  <2> QED
    BY <1>1, <2>3, <2>4 DEF IInv, JobInv
<1> QED
  BY <1>2, <1>3

\* A call goes on and changes neither the job nor the adapter.
LEMMA MovedCall ==
    ASSUME IInv, call \in Calls, NEW pc \in CallPoints, call' = [call EXCEPT !.pc = pc],
           call.op = "start" => call.pc # "reap",
           mainLine' = mainLine, job' # NoJob <=> job # NoJob, Working' <=> Working,
           pc \in {"cancel", "halt"} => job' # NoJob /\ job'.cancel,
           pc \in {"create", "drop"} => ~Working,
           pc = "create" => call.op = "start",
           pc \in {"poll", "expose", "live"} => job # NoJob
    PROVE  CallInv'
<1>1. /\ call' \in Calls /\ call'.pc = pc /\ call'.op = call.op
      /\ call'.from = call.from /\ call'.fen = call.fen
  BY DEF Calls
<1> QED
  BY <1>1 DEF IInv, CallInv

\* The flag of a job is raised: what was said of the job still is.
LEMMA FlaggedOK ==
    ASSUME NEW j, NEW e, JobOK(j, e)
    PROVE  JobOK([j EXCEPT !.cancel = TRUE], e) /\ [j EXCEPT !.cancel = TRUE].pc = j.pc
           /\ [j EXCEPT !.cancel = TRUE].cancel
<1> DEFINE k == [j EXCEPT !.cancel = TRUE]
<1>1. /\ k \in Job /\ k.pc = j.pc
      /\ k.from = j.from /\ k.fen = j.fen /\ k.settings = j.settings /\ k.phase = j.phase
      /\ k.result = j.result /\ k.before = j.before /\ k.interrupted = j.interrupted
      /\ k.cancel /\ k.status = j.status
  BY DEF JobOK, Job
<1> HIDE DEF k
<1>2. /\ RequestOf(k) = RequestOf(j)
      /\ ResultGood(k) = ResultGood(j) /\ BeforeGood(k) = BeforeGood(j)
      /\ \A r, pos : GivenFor(r, pos, k) = GivenFor(r, pos, j)
      /\ TookOK(j) => TookOK(k)
  BY <1>1, SameVerdict
<1>3. JobOK(k, e)
  BY <1>1, <1>2 DEF JobOK
<1> QED
  BY <1>1, <1>3 DEF k

\* cancel_requested,
LEMMA FlagInv ==
    ASSUME IInv, Flag
    PROVE  IInv'
<1>1. /\ call \in Calls /\ call.pc = "flag" /\ UNCHANGED <<engine, mainLine, calls>>
      /\ mapped' = (mapped /\ call.op = "cancel")
      /\ cache' \in {cache, NoResults} /\ held' \in {held, FALSE}
  BY InIsCall DEF IInv, Flag, Move
<1>2. CacheOK(cache')
  BY <1>1, NothingRemembered DEF IInv
<1>3. CASE mapped /\ (call.op = "cancel" \/ ~job.finished)
  <2>1. job' = [job EXCEPT !.cancel = TRUE] /\ call' = [call EXCEPT !.pc = "cancel"]
    BY <1>3 DEF Flag, Move
  <2>2. job # NoJob /\ JobOK(job, engine)
    BY <1>3 DEF IInv, JobInv, RestInv
  <2>3. JobOK(job', engine') /\ job'.pc = job.pc /\ job'.cancel
    BY <1>1, <2>1, <2>2, FlaggedOK
  <2>4. job' # NoJob /\ (Working' <=> Working)
    BY <2>2, <2>3, JobIsSome DEF JobOK, Working
  <2>5. CallInv'
    BY <1>1, <2>1, <2>2, <2>3, <2>4, MovedCall DEF CallPoints
  <2>6. RestInv'
    BY <1>1, <2>4 DEF IInv, RestInv
  <2> QED
    BY <1>2, <2>3, <2>5, <2>6 DEF IInv, JobInv
<1>4. CASE ~(mapped /\ (call.op = "cancel" \/ ~job.finished))
  <2>1. job' = job /\ call' = [call EXCEPT !.pc = "join"]
    BY <1>4 DEF Flag, Move
  <2>2. CallInv'
    BY <1>1, <2>1, MovedCall DEF CallPoints, Working
  <2>3. RestInv'
    BY <1>1, <2>1 DEF IInv, RestInv, Working
  <2> QED
    BY <1>1, <1>2, <2>1, <2>2, <2>3 DEF IInv, JobInv
<1> QED
  BY <1>3, <1>4

\* the engine's cancel,
LEMMA StopInv ==
    ASSUME IInv, RaiseCancelled \/ StopSearch
    PROVE  IInv'
<1>1. /\ call \in Calls /\ call.pc \in {"cancel", "halt"}
      /\ UNCHANGED <<job, mapped, held, cache, mainLine, calls>>
      /\ engine' \in {Refused(engine), Halted(engine)}
  BY InIsCall DEF IInv, RaiseCancelled, StopSearch, Move
<1>2. call' \in {[call EXCEPT !.pc = "halt"], [call EXCEPT !.pc = "join"]}
  BY DEF RaiseCancelled, StopSearch, Move
<1>3. JobOK(job, engine) /\ job # NoJob /\ job.cancel
  BY <1>1 DEF IInv, JobInv, CallInv
<1>4. /\ engine' \in Engine /\ engine'.live = engine.live /\ engine'.ready = engine.ready
      /\ engine'.search # "none" => engine.search # "none"
      /\ engine'.search = "time" => engine.search = "time"
  BY <1>1, <1>3 DEF JobOK, Refused, Halted, Engine
<1>5. JobOK(job', engine')
  BY <1>1, <1>3, <1>4 DEF JobOK
<1>6. CallInv'
  BY <1>1, <1>2, <1>3, MovedCall DEF CallPoints, Working
<1>7. RestInv'
  BY <1>1, <1>4 DEF IInv, RestInv, Working
<1> QED
  BY <1>1, <1>5, <1>6, <1>7 DEF IInv, JobInv

\* the join,
LEMMA JoinInv ==
    ASSUME IInv, Join
    PROVE  IInv'
<1>1. /\ call \in Calls /\ call.pc = "join" /\ ~Working
      /\ UNCHANGED <<job, mapped, engine, held, cache, mainLine, calls>>
      /\ call' = [call EXCEPT !.pc = IF call.op = "start" THEN "create" ELSE "drop"]
  BY InIsCall DEF IInv, Join, Move
<1>2. CallInv'
  <2>1. CASE call.op = "start"
    BY <1>1, <2>1, MovedCall DEF CallPoints, Working
  <2>2. CASE call.op # "start"
    BY <1>1, <2>2, MovedCall DEF CallPoints, Working
  <2> QED
    BY <2>1, <2>2
<1>3. RestInv'
  BY <1>1 DEF IInv, RestInv, Working
<1> QED
  BY <1>1, <1>2, <1>3 DEF IInv, JobInv

\* the start of a new job,
LEMMA CreateInv ==
    ASSUME IInv, CreateJob
    PROVE  IInv'
<1>1. /\ call \in Calls /\ call.pc = "create" /\ call.op = "start" /\ ~Working /\ ~mainLine
      /\ call.from \in Positions /\ call.fen \in Positions /\ call.settings \in Settings
      /\ held' = TRUE /\ UNCHANGED <<cache, mainLine, calls>>
  BY InIsCall DEF IInv, CreateJob, CallInv, Move, Calls
<1>2. NoEngine \in Engine /\ NoEngine.search = "none" /\ engine \in Engine /\ engine.search = "none"
  <2>1. NoEngine \in Engine /\ NoEngine.search = "none"
    BY DEF Engine, NoEngine
  <2>2. engine \in Engine /\ engine.search = "none"
    <3>1. CASE job = NoJob
      BY <3>1, JobIsSome DEF IInv, JobInv, JobOK
    <3>2. CASE job # NoJob
      BY <1>1, <3>2 DEF IInv, JobInv, JobOK, Working
    <3> QED
      BY <3>1, <3>2
  <2> QED
    BY <2>1, <2>2
<1>3. CASE /\ job' = NewJob(call.from, call.fen, call.settings)
           /\ mapped' = TRUE /\ Move("poll")
           /\ engine' = IF held THEN engine ELSE NoEngine
  <2>1. engine' \in Engine /\ engine'.search = "none"
    BY <1>2, <1>3
  <2>2. /\ job' \in Job /\ job'.pc = "begin" /\ job'.status = "running"
        /\ job'.phase = "after"
    BY <1>1, <1>3 DEF NewJob, Job, WorkerPoints
  <2>3. JobOK(job', engine')
    BY <2>1, <2>2 DEF JobOK, Entering, Asked, Searched
  <2>4. job' # NoJob
    BY <2>2, JobIsSome
  <2>5. call' = [call EXCEPT !.pc = "poll"]
    BY <1>3 DEF Move
  <2>6. /\ call' \in Calls /\ call'.pc = "poll"
        /\ call'.from \in Positions /\ call'.fen \in Positions
    BY <1>1, <2>5 DEF Calls, CallPoints
  <2>7. CallInv'
    BY <1>1, <2>4, <2>6 DEF CallInv
  <2>8. RestInv'
    BY <1>1, <1>3, <2>4 DEF IInv, RestInv
  <2> QED
    BY <1>1, <2>3, <2>7, <2>8 DEF IInv, JobInv
<1>4. CASE ~held /\ call' = NoCall /\ engine' = NoEngine /\ UNCHANGED <<job, mapped, calls>>
  <2>1. JobInv'
    BY <1>1, <1>2, <1>4, RestingOK DEF IInv, JobInv
  <2>2. CallInv'
    BY <1>4, NoCallIsNone DEF CallInv
  <2>3. RestInv'
    BY <1>1, <1>4 DEF IInv, RestInv
  <2> QED
    BY <1>1, <2>1, <2>2, <2>3 DEF IInv
<1> QED
  BY <1>3, <1>4 DEF CreateJob

\* the end of the shared engine,
LEMMA DropInv ==
    ASSUME IInv, Drop
    PROVE  IInv'
<1>1. /\ call \in Calls /\ call.pc = "drop" /\ ~Working /\ engine \in Engine
      /\ mapped' = FALSE /\ held' = FALSE /\ engine' = Shut(engine)
      /\ mainLine' \in BOOLEAN /\ UNCHANGED <<job, calls>>
      /\ cache' \in {cache, NoResults}
      /\ call' \in {NoCall, [op |-> "closed"]}
  BY InIsCall DEF IInv, Drop, CallInv, JobInv, JobOK, RestInv
<1>2. engine' \in Engine /\ engine'.search = "none" /\ ~engine'.ready
  BY <1>1 DEF Shut, Engine
<1>3. JobInv'
  BY <1>1, <1>2, RestingOK DEF IInv, JobInv
<1>4. CacheOK(cache')
  BY <1>1, NothingRemembered DEF IInv
<1>5. CallInv'
  BY <1>1, NoCallIsNone DEF CallInv
<1>6. RestInv'
  BY <1>1, <1>2 DEF IInv, RestInv, Working
<1> QED
  BY <1>3, <1>4, <1>5, <1>6 DEF IInv

\* the status call,
LEMMA PollInv ==
    ASSUME IInv, PollJob \/ PollExpose \/ PollLive \/ Return
    PROVE  IInv'
<1>1. /\ call \in Calls /\ call.pc \in {"poll", "expose", "live", "return"}
      /\ UNCHANGED <<job, mapped, engine, held, cache, mainLine, calls>>
  BY InIsCall DEF IInv, PollJob, PollExpose, PollLive, Return, Move
<1>2. RestInv'
  BY <1>1 DEF IInv, RestInv, Working
<1>3. CallInv'
  <2>1. CASE Return
    BY <2>1, NoCallIsNone DEF CallInv, Return
  <2>2. CASE PollJob \/ PollExpose \/ PollLive
    <3>1. JobOK(job, engine) /\ job # NoJob
      BY <1>1, <2>2, InIsCall DEF IInv, JobInv, CallInv, PollJob, PollExpose, PollLive
    <3>2. PosOf(job.result) \in Positions \cup {None} /\ engine.live \in Positions \cup {None}
      BY <3>1 DEF JobOK, Job, PosOf, Result, Engine
    <3>3. /\ call' \in Calls /\ call'.pc \in {"expose", "live", "return"}
          /\ call'.op = call.op /\ call'.from = call.from /\ call'.fen = call.fen
      <4>1. CASE PollJob
        BY <1>1, <3>2, <4>1 DEF PollJob, Calls, CallPoints
      <4>2. CASE PollExpose
        BY <1>1, <4>2 DEF PollExpose, Move, Calls, CallPoints
      <4>3. CASE PollLive
        BY <1>1, <3>2, <4>3 DEF PollLive, Calls, CallPoints
      <4> QED
        BY <2>2, <4>1, <4>2, <4>3
    <3> QED
      BY <1>1, <3>1, <3>3 DEF IInv, CallInv, Working
  <2> QED
    BY <2>1, <2>2
<1> QED
  BY <1>1, <1>2, <1>3 DEF IInv, JobInv

\* the end of the main line,
LEMMA MainLineEndsInv ==
    ASSUME IInv, MainLineEnds
    PROVE  IInv'
BY DEF IInv, JobInv, CallInv, RestInv, MainLineEnds, Working

\* and a step that changes nothing.
LEMMA StutterInv ==
    ASSUME IInv, UNCHANGED vars
    PROVE  IInv'
BY DEF IInv, JobInv, CallInv, RestInv, Working, vars

------------------------------------------------------------------------------
(* The theorems.                                                            *)

\* Every step keeps the invariant.
LEMMA StepInv == IInv /\ [Next]_vars => IInv'
<1> SUFFICES ASSUME IInv, [Next]_vars PROVE IInv'
  OBVIOUS
<1>1. CASE Worker
  BY <1>1, WorkerInv
<1>2. CASE Emit \/ Complete \/ TimeOut \/ Halt
  BY <1>2, SearchInv
<1>3. CASE Advance
  BY <1>3, ReapInv, FlagInv, StopInv, JoinInv, CreateInv, DropInv, PollInv DEF Advance
<1>4. CASE MainLineEnds
  BY <1>4, MainLineEndsInv
<1>5. CASE \/ \E from \in Positions, s \in Settings :
                \E fen \in Moves[from] : Start(from, fen, s)
           \/ StartRefused \/ Poll \/ Cancel \/ StartMainLine \/ Close
  BY <1>5, StartsInv
<1>6. CASE UNCHANGED vars
  BY <1>6, StutterInv
<1> QED
  BY <1>1, <1>2, <1>3, <1>4, <1>5, <1>6 DEF Next

\* The job and the adapter fit together, point of analyze() by point, and so
\* do the call under way and what is remembered.
THEOREM SidelinesFit == Spec => []IInv
BY InitInv, StepInv, PTL DEF Spec

\* The invariant contains what is promised.
LEMMA IInvImplies ==
    ASSUME IInv
    PROVE  TypeOK /\ PausedOnlyIfCancelled /\ RememberedIsFinished
           /\ ClassifiedFromOwnResults /\ MainLineAlone
<1>1. TypeOK
  BY DEF IInv, JobInv, JobOK, CacheOK, CallInv, RestInv, TypeOK
<1>2. PausedOnlyIfCancelled
  BY DEF IInv, JobInv, JobOK, PausedOnlyIfCancelled
<1>3. RememberedIsFinished
  BY DEF IInv, CacheOK, RememberedIsFinished
<1>4. ClassifiedFromOwnResults
  <2> SUFFICES ASSUME Working, job.status = "complete"
               PROVE  /\ job.result.pos = job.fen /\ DeepEnough(job.result, job.settings)
                      /\ BeforeGood(job)
    BY DEF ClassifiedFromOwnResults, BeforeGood
  <2>1. job \in Job /\ ResultGood(job) /\ BeforeGood(job)
    BY DEF IInv, JobInv, JobOK, Working
  <2>2. job.settings.depth \in Int /\ job.settings.time \in Int
    BY <2>1, VariationAssumption DEF Job
  <2> QED
    BY <2>1, <2>2 DEF ResultGood, GivenFor, Finished, DeepEnough
<1>5. MainLineAlone
  BY DEF IInv, RestInv, MainLineAlone
<1> QED
  BY <1>1, <1>2, <1>3, <1>4, <1>5

\* Every variable of the sidelines keeps its type.
THEOREM SidelinesTyped == Spec => []TypeOK
BY SidelinesFit, IInvImplies, PTL

\* A sideline pauses only when it was cancelled itself, although it shares
\* the adapter, and its flag, with the ones before it.
THEOREM PausesOnlyIfCancelled == Spec => []PausedOnlyIfCancelled
BY SidelinesFit, IInvImplies, PTL

\* What analyze() leaves of a search that was stopped is never remembered, and
\* what is has its position, depth and time limit for its key.
THEOREM MemoryIsFinished == Spec => []RememberedIsFinished
BY SidelinesFit, IInvImplies, PTL

\* A move is classified from results of its own two positions, as deep as the
\* settings ask for (or as their time limit or early stops allow) and as wide,
\* but for what the main line saved of a search that was stopped.
THEOREM ComparedAreOwn == Spec => []ClassifiedFromOwnResults
BY SidelinesFit, IInvImplies, PTL

\* The main line has Stockfish for itself.
THEOREM MainLineIsAlone == Spec => []MainLineAlone
BY SidelinesFit, IInvImplies, PTL
================================================================================
