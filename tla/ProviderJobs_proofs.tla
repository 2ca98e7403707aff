-------------------------- MODULE ProviderJobs_proofs --------------------------
(***************************************************************************)
(* Provider jobs for any number of jobs, profiles, providers and calls:    *)
(* types; the promise to the providers, kept by whatever mix of jobs; that *)
(* at most one synchronisation of a profile goes on uncancelled, that a    *)
(* mark "syncing" has a job that will settle it, that a deleted profile    *)
(* leaves nothing, and that a complete job has stored what it listed.      *)
(***************************************************************************)
EXTENDS ProviderJobs, ProviderScheduler_proofs

\* A worker is done when it finished and only then, and has no outcome before;
\* one at a request has a request to go, and one that is going to mark a profile
\* is known to work for it.
Sound(v) ==
    /\ v \in Job
    /\ v.finished => v.pc = "done"
    /\ v.pc = "done" => v.finished
    /\ v.outcome # "running" => v.pc = "done"
    /\ v.pc \in {"fetch", "sent"} => v.left >= 1
    /\ v.pc \in {"bind", "begin"} => v.kind \in {"create", "sync"}
    /\ v.pc = "begin" => v.bound
    /\ v.pc \in {"check", "store"} => v.task \in Resources

\* What no step of a worker changes once its profile is known.
Same(v, w) ==
    /\ w.kind = v.kind /\ w.provider = v.provider /\ w.profile = v.profile
    /\ w.bound = v.bound /\ w.cancel = v.cancel /\ w.entry = v.entry
    /\ w.joined = v.joined /\ w.reported = v.reported

\* What the next point of a worker that is not done keeps.
Onward(v, w) ==
    /\ Sound(w)
    /\ Same(v, w)
    /\ Marking(v) => Marking(w)

\* A task takes a number of requests.
LEMMA RequestsType ==
    ASSUME NEW r, NEW task
    PROVE  Requests(r, task) \in Nat /\ (Requests(r, task) # 0 => Requests(r, task) >= 1)
BY JobAssumption DEF Requests

\* Going to a task, or past those that take no request.
LEMMA ToTaskOnward ==
    ASSUME NEW v \in Job, NEW task \in Resources, ~v.finished, v.outcome = "running"
    PROVE  Onward(v, ToTask(v, task))
<1>0. task \in Tasks
  BY DEF Tasks
<1>1. /\ Requests(v.provider, task) \in Nat
      /\ Requests(v.provider, task) # 0 => Requests(v.provider, task) >= 1
  BY RequestsType
<1>2. CASE v.kind \in {"create", "sync"}
  BY <1>0, <1>1, <1>2 DEF Onward, Sound, Same, Marking, MarkPoints, ToTask, Job, WorkerPoints
<1>3. CASE v.kind \notin {"create", "sync"}
  BY <1>0, <1>1, <1>3 DEF Onward, Sound, Same, Marking, MarkPoints, ToTask, Job, WorkerPoints
<1> QED
  BY <1>2, <1>3

\* A job that ends has an outcome.
LEMMA ToFinishSound ==
    ASSUME NEW v \in Job, NEW outcome \in {"complete", "error"}
    PROVE  /\ Sound(ToFinish(v, outcome)) /\ Same(v, ToFinish(v, outcome))
           /\ ToFinish(v, outcome).finished
BY DEF ToFinish, Sound, Same, Job, Tasks, Resources

\* Going on after a task.
LEMMA AfterTaskOnward ==
    ASSUME NEW v \in Job, ~v.finished, v.outcome = "running"
    PROVE  Onward(v, AfterTask(v))
<1>1. CASE v.kind = "create" /\ ~v.bound
  <2>1. AfterTask(v) = [v EXCEPT !.pc = "bind"]
    BY <1>1 DEF AfterTask
  <2> QED
    BY <1>1, <2>1 DEF Onward, Sound, Same, Marking, Job, WorkerPoints
<1>2. CASE ~(v.kind = "create" /\ ~v.bound)
  <2>1. CASE v.task \in {"profile", "avatar"}
    <3>1. AfterTask(v) = ToTask(v, "stats")
      BY <1>2, <2>1 DEF AfterTask
    <3> QED
      BY <3>1, ToTaskOnward DEF Tasks, Resources
  <2>2. CASE v.task = "stats"
    <3>1. CASE v.kind = "scout"
      <4>1. AfterTask(v) = ToFinish(v, "complete")
        BY <1>2, <2>2, <3>1 DEF AfterTask
      <4> QED
        BY <4>1, <3>1, ToFinishSound DEF Onward, Marking
    <3>2. CASE v.kind # "scout"
      <4>1. AfterTask(v) = ToTask(v, "months")
        BY <1>2, <2>2, <3>2 DEF AfterTask
      <4> QED
        BY <4>1, ToTaskOnward DEF Tasks, Resources
    <3> QED
      BY <3>1, <3>2
  <2>3. CASE v.task = "months"
    <3>1. AfterTask(v) = ToTask(v, "games")
      BY <1>2, <2>3 DEF AfterTask
    <3> QED
      BY <3>1, ToTaskOnward DEF Tasks, Resources
  <2>4. CASE v.task = "games"
    <3>1. AfterTask(v) = [v EXCEPT !.pc = "settle"]
      BY <1>2, <2>4 DEF AfterTask
    <3> QED
      BY <3>1 DEF Onward, Sound, Same, Marking, MarkPoints, Job, WorkerPoints
  <2> QED
    BY <2>1, <2>2, <2>3, <2>4 DEF Job, Tasks, Resources
<1> QED
  BY <1>1, <1>2

\* An exception leads to the failure of a synchronisation or to the end.
LEMMA RaiseOnward ==
    ASSUME NEW v \in Job, ~v.finished, v.outcome = "running"
    PROVE  Onward(v, Raise(v))
<1>1. CASE v.kind = "sync" \/ (v.kind = "create" /\ v.bound)
  <2>1. Raise(v) = [v EXCEPT !.pc = "fail"]
    BY <1>1 DEF Raise
  <2> QED
    BY <2>1 DEF Onward, Sound, Same, Marking, MarkPoints, Job, WorkerPoints
<1>2. CASE ~(v.kind = "sync" \/ (v.kind = "create" /\ v.bound))
  <2>1. Raise(v) = ToFinish(v, "error")
    BY <1>2 DEF Raise
  <2> QED
    BY <1>2, <2>1, ToFinishSound DEF Onward, Marking
<1> QED
  BY <1>1, <1>2

\* One request of a task less.
LEMMA MoreRequestsOnward ==
    ASSUME NEW v \in Job, ~v.finished, v.outcome = "running", v.left >= 1,
           v.task # "avatar"
    PROVE  Onward(v, MoreRequests(v))
<1>1. v.left \in Nat /\ v.left - 1 \in Nat /\ (v.left > 1 => v.left - 1 >= 1)
  BY DEF Job
<1>2. CASE v.left > 1 /\ v.kind # "report"
  <2>1. MoreRequests(v) = [v EXCEPT !.left = v.left - 1, !.pc = "fetch"]
    BY <1>2 DEF MoreRequests
  <2> QED
    BY <1>1, <1>2, <2>1 DEF Onward, Sound, Same, Marking, MarkPoints, Job, WorkerPoints
<1>3. CASE ~(v.left > 1 /\ v.kind # "report")
  <2>1. MoreRequests(v) = [v EXCEPT !.left = v.left - 1, !.pc = "store"]
    BY <1>3 DEF MoreRequests
  <2> QED
    BY <1>1, <2>1 DEF Onward, Sound, Same, Marking, MarkPoints, Job, WorkerPoints, Tasks
<1> QED
  BY <1>2, <1>3

\* Whatever the answer, the job goes on soundly.
LEMMA DigestOnward ==
    ASSUME NEW v \in Job, ~v.finished, v.outcome = "running", v.left >= 1, NEW a
    PROVE  Onward(v, Digest(v, a))
<1>1. /\ Onward(v, AfterTask(v)) /\ Onward(v, Raise(v))
      /\ v.task # "avatar" => Onward(v, MoreRequests(v))
  BY AfterTaskOnward, MoreRequestsOnward, RaiseOnward
<1>2. CASE v.task = "avatar" /\ a.error = "none"
  <2>1. Digest(v, a) = [v EXCEPT !.pc = "image"]
    BY <1>2 DEF Digest
  <2> QED
    BY <2>1 DEF Onward, Sound, Same, Marking, MarkPoints, Job, WorkerPoints
<1>3. CASE v.task = "avatar" /\ a.error # "none"
  BY <1>1, <1>3 DEF Digest
<1>4. CASE v.task # "avatar"
  <2>1. Digest(v, a) \in {MoreRequests(v), AfterTask(v), Raise(v)}
    BY <1>4 DEF Digest
  <2> QED
    BY <1>1, <1>4, <2>1
<1> QED
  BY <1>2, <1>3, <1>4

------------------------------------------------------------------------------
(* Types.                                                                   *)

Typed ==
    /\ TypeOK
    /\ \A j \in Jobs : Started(j) => Sound(job[j])
    /\ ui.pc \in {"render", "erase"} => ui.job \in Jobs /\ Started(ui.job)

\* What a step of its worker makes of a job.
Progress(v, w) ==
    /\ Sound(w)
    /\ w.kind = v.kind /\ w.cancel = v.cancel /\ w.entry = v.entry
    /\ v.bound => w.bound /\ w.profile = v.profile

\* Going on is progress ...
LEMMA OnwardIsProgress ==
    ASSUME NEW v, NEW w, Onward(v, w)
    PROVE  Progress(v, w)
BY DEF Onward, Same, Progress

\* ... and so is ending.
LEMMA FinishIsProgress ==
    ASSUME NEW v \in Job, NEW outcome \in {"complete", "error"}
    PROVE  Progress(v, ToFinish(v, outcome))
BY ToFinishSound DEF Same, Progress

\* A step of a worker, its exceptions included.
WorkerStep(j) == Work(j) \/ Fault(j)

\* A job that was started is sound.
LEMMA StartedSound ==
    ASSUME Typed, NEW j \in Jobs, Started(j)
    PROVE  job[j] \in Job /\ Sound(job[j])
BY DEF Typed, Sound

\* A record of a job is not the absence of one.
LEMMA JobIsStarted ==
    ASSUME NEW v \in Job
    PROVE  v # NoJob
BY DEF Job, NoJob, WorkerPoints

\* A fault ends its job, and writes nothing to the database.
LEMMA FaultEnds ==
    ASSUME Typed, NEW j \in Jobs, Fault(j)
    PROVE  /\ Live(j) /\ job[j].pc \in WorkerPoints
           /\ job' = [job EXCEPT ![j] = ToFinish(job[j], "error")]
           /\ job'[j] = ToFinish(job[j], "error")
           /\ UNCHANGED <<clock, gate, profile, cache, sync, avatar, active, ui, calls, aborted>>
<1>1. job \in [Jobs -> Job \cup {NoJob}]
  BY DEF Typed, TypeOK
<1>2. Started(j) /\ Sound(job[j])
  BY StartedSound DEF Fault
<1>3. job[j].pc \in WorkerPoints
  BY DEF Fault, FaultPoints, WorkerPoints
<1>4. ~job[j].finished
  BY <1>2, <1>3 DEF Sound, WorkerPoints
<1> QED
  BY <1>1, <1>2, <1>3, <1>4 DEF Fault, Live

\* A worker's step changes its own job, and that one soundly.
LEMMA WorkProgress ==
    ASSUME Typed, NEW j \in Jobs, WorkerStep(j)
    PROVE  /\ Live(j)
           /\ job' = [job EXCEPT ![j] = job'[j]]
           /\ Progress(job[j], job'[j])
           /\ UNCHANGED <<ui, calls, aborted>>
<1> DEFINE v == job[j]
           New(w) == job' = [job EXCEPT ![j] = w] /\ Progress(v, w)
<1>0. job \in [Jobs -> Job \cup {NoJob}]
  BY DEF Typed, TypeOK
<1>f. CASE Fault(j)
  <2>1. Progress(v, ToFinish(v, "error"))
    BY <1>f, FaultEnds, StartedSound, FinishIsProgress DEF Live
  <2>2. /\ Live(j) /\ job' = [job EXCEPT ![j] = ToFinish(v, "error")]
        /\ UNCHANGED <<ui, calls, aborted>>
    BY <1>f, FaultEnds
  <2>3. job'[j] = ToFinish(v, "error")
    BY <1>f, FaultEnds
  <2> QED
    BY <2>1, <2>2, <2>3
<1> SUFFICES ASSUME Work(j)
             PROVE  /\ Live(j)
                    /\ job' = [job EXCEPT ![j] = job'[j]]
                    /\ Progress(job[j], job'[j])
                    /\ UNCHANGED <<ui, calls, aborted>>
  BY <1>f DEF WorkerStep
<1>1. Started(j)
  BY DEF WorkerStep, Work, Fault, Fetch, Refuse, Respond, Check, Store, Avatar, Image,
      Insert, Activate, Select, Describe, Bind, Begin, Settle, Fail, Overview, Tally, At
<1>2. v \in Job /\ Sound(v)
  BY <1>1, StartedSound
<1>3. v.pc # "done" => ~v.finished /\ v.outcome = "running"
  BY <1>2 DEF Sound
<1>4. v.pc \in WorkerPoints => Progress(v, AfterTask(v)) /\ Progress(v, Raise(v))
  BY <1>2, <1>3, AfterTaskOnward, RaiseOnward, OnwardIsProgress DEF WorkerPoints
<1>5. /\ Progress(v, ToFinish(v, "complete"))
      /\ Progress(v, ToFinish(v, "error"))
  BY <1>2, FinishIsProgress
<1>6. v.pc \in {"fetch", "sent"} => \A a : Progress(v, Digest(v, a))
  BY <1>2, <1>3, DigestOnward, OnwardIsProgress DEF Sound
<1>7. \A task \in Resources : v.pc \in WorkerPoints => Progress(v, ToTask(v, task))
  BY <1>2, <1>3, ToTaskOnward, OnwardIsProgress DEF WorkerPoints
<1>8. \A pc \in WorkerPoints \ {"fetch", "sent", "bind", "begin", "check", "store"} :
         v.pc \in WorkerPoints => Progress(v, [v EXCEPT !.pc = pc])
  BY <1>2, <1>3 DEF Progress, Sound, Job, WorkerPoints
<1> SUFFICES \E w : New(w)
  <2>1. (\E w : New(w)) /\ UNCHANGED <<ui, calls, aborted>> =>
            /\ job' = [job EXCEPT ![j] = job'[j]]
            /\ Progress(v, job'[j])
    BY <1>0
  <2>2. UNCHANGED <<ui, calls, aborted>>
    BY DEF WorkerStep, Work, Fault, Fetch, Refuse, Respond, Check, Store, Avatar,
        Image, Insert, Activate, Select, Describe, Bind, Begin, Settle, Fail,
        Overview, Tally
  <2>3. v.pc # "done"
    BY DEF WorkerStep, Work, Fault, Fetch, Refuse, Respond, Check, Store, Avatar,
        Image, Insert, Activate, Select, Describe, Bind, Begin, Settle, Fail,
        Overview, Tally, At
  <2> QED
    BY <1>1, <1>3, <2>1, <2>2, <2>3 DEF Live
<1> HIDE DEF New
<1>9. \A w : job' = [job EXCEPT ![j] = w] /\ Progress(v, w) => New(w)
  BY DEF New
<1>10. CASE Fetch(j)
  <2>1. v.pc = "fetch" /\ job' = [job EXCEPT ![j] = [v EXCEPT !.pc = "sent"]]
    BY <1>10 DEF Fetch, At, Goto
  <2>2. Progress(v, [v EXCEPT !.pc = "sent"])
    BY <1>2, <1>3, <2>1 DEF Progress, Sound, Job, WorkerPoints
  <2> QED
    BY <1>9, <2>1, <2>2
<1>11. CASE Refuse(j)
  BY <1>6, <1>9, <1>11 DEF Refuse, At
<1>12. CASE Respond(j)
  BY <1>6, <1>9, <1>12 DEF Respond, At
<1>13. CASE Check(j)
  <2>1. v.pc \in WorkerPoints /\ ~v.finished /\ v.outcome = "running"
    BY <1>3, <1>13 DEF Check, At, WorkerPoints
  <2>2. CASE v.cancel
    BY <1>4, <1>9, <1>13, <2>1, <2>2 DEF Check
  <2>3. CASE ~v.cancel
    <3>1. CASE Advance(j)
      BY <1>4, <1>9, <2>1, <3>1 DEF Advance
    <3>2. CASE ~Advance(j)
      <4>1. PICK cached \in BOOLEAN :
              job' = [job EXCEPT ![j] = [v EXCEPT !.pc = IF v.left = 0 THEN "store" ELSE "fetch",
                                                  !.validators = cached]]
        BY <1>13, <2>3, <3>2 DEF Check, Cached
      <4>2. v.left \in Nat
        BY <1>2 DEF Job
      <4>3. CASE v.left = 0
        <5>1. Progress(v, [v EXCEPT !.pc = "store", !.validators = cached])
          <6>1. [v EXCEPT !.pc = "store", !.validators = cached] \in Job
            BY <1>2 DEF Job, WorkerPoints
          <6>2. v.task \in Resources
            BY <1>2, <1>13 DEF Sound, Check, At
          <6> QED
            BY <1>2, <2>1, <6>1, <6>2 DEF Progress, Sound, Job
        <5> QED
          BY <1>9, <4>1, <4>3, <5>1
      <4>4. CASE v.left # 0
        <5>1. Progress(v, [v EXCEPT !.pc = "fetch", !.validators = cached])
          <6>1. [v EXCEPT !.pc = "fetch", !.validators = cached] \in Job
            BY <1>2 DEF Job, WorkerPoints
          <6> QED
            BY <1>2, <2>1, <4>2, <4>4, <6>1 DEF Progress, Sound, Job
        <5> QED
          BY <1>9, <4>1, <4>4, <5>1
      <4> QED
        BY <4>3, <4>4
    <3> QED
      BY <3>1, <3>2
  <2> QED
    BY <2>2, <2>3
<1>14. CASE Store(j)
  BY <1>4, <1>5, <1>8, <1>9, <1>14 DEF Store, At, Goto, Advance, Abort, WorkerPoints
<1>15. CASE Avatar(j)
  <2>1. v.pc \in WorkerPoints /\ ~v.finished /\ v.outcome = "running"
    BY <1>3, <1>15 DEF Avatar, At, WorkerPoints
  <2>2. CASE Advance(j)
    BY <1>4, <1>9, <2>1, <2>2 DEF Advance
  <2>3. CASE Goto(j, "image")
    BY <1>8, <1>9, <2>1, <2>3 DEF Goto, WorkerPoints
  <2>4. CASE job' = [job EXCEPT ![j] = [v EXCEPT !.pc = "fetch", !.task = "avatar", !.left = 1]]
    <3>1. Progress(v, [v EXCEPT !.pc = "fetch", !.task = "avatar", !.left = 1])
      <4>1. [v EXCEPT !.pc = "fetch", !.task = "avatar", !.left = 1] \in Job
        BY <1>2 DEF Job, WorkerPoints, Tasks
      <4> QED
        BY <1>2, <2>1, <4>1 DEF Progress, Sound, Job
    <3> QED
      BY <1>9, <2>4, <3>1
  <2> QED
    BY <1>15, <2>2, <2>3, <2>4 DEF Avatar
<1>16. CASE Image(j)
  BY <1>4, <1>9, <1>16 DEF Image, At, Advance, WorkerPoints
<1>17. CASE Insert(j)
  <2>1. PICK p \in Profiles :
          job' = [job EXCEPT ![j] = [v EXCEPT !.profile = p, !.pc = "activate"]]
    BY <1>17 DEF Insert
  <2>2. ~v.bound /\ ~v.finished /\ v.outcome = "running"
    BY <1>3, <1>17 DEF Insert, At
  <2>3. Progress(v, [v EXCEPT !.profile = p, !.pc = "activate"])
    BY <1>2, <2>2 DEF Progress, Sound, Job, WorkerPoints
  <2> QED
    BY <1>9, <2>1, <2>3
<1>18. CASE Activate(j)
  BY <1>5, <1>8, <1>9, <1>18 DEF Activate, At, Goto, Abort, WorkerPoints
<1>19. CASE Select(j)
  BY <1>8, <1>9, <1>19 DEF Select, At, Goto, WorkerPoints
<1>20. CASE Describe(j)
  BY <1>5, <1>8, <1>9, <1>20 DEF Describe, At, Goto, Abort, WorkerPoints
<1>21. CASE Bind(j)
  <2>1. /\ ~v.finished /\ v.pc = "bind"
        /\ job' = [job EXCEPT ![j] = [v EXCEPT !.bound = TRUE, !.pc = "begin"]]
    BY <1>3, <1>21 DEF Bind, At
  <2>2. Progress(v, [v EXCEPT !.bound = TRUE, !.pc = "begin"])
    BY <1>2, <2>1 DEF Progress, Sound, Job, WorkerPoints
  <2> QED
    BY <1>9, <2>1, <2>2
<1>22. CASE Begin(j)
  BY <1>5, <1>7, <1>9, <1>22 DEF Begin, At, Abort, WorkerPoints, Tasks, Resources
<1>23. CASE Settle(j)
  BY <1>5, <1>8, <1>9, <1>23 DEF Settle, At, Goto, Abort, WorkerPoints
<1>24. CASE Fail(j)
  <2>1. ~v.finished /\ v.outcome = "running"
    BY <1>3, <1>24 DEF Fail, At
  <2>2. Progress(v, [v EXCEPT !.pc = "overview", !.warned = TRUE])
    BY <1>2, <2>1 DEF Progress, Sound, Job, WorkerPoints
  <2> QED
    BY <1>5, <1>9, <1>24, <2>2 DEF Fail, Abort
<1>25. CASE Overview(j)
  BY <1>5, <1>9, <1>25 DEF Overview, Abort
<1>26. CASE Tally(j)
  <2>1. v.pc \in WorkerPoints /\ ~v.finished /\ v.outcome = "running"
    BY <1>3, <1>26 DEF Tally, At, WorkerPoints
  <2>2. CASE \E n \in 1..ReportMonths :
               job' = [job EXCEPT ![j].task = "games", ![j].left = n, ![j].pc = "check"]
    <3>1. PICK n \in 1..ReportMonths :
            job' = [job EXCEPT ![j] = [v EXCEPT !.task = "games", !.left = n, !.pc = "check"]]
      BY <2>2
    <3>3. n \in Nat
      BY JobAssumption
    <3>2. Progress(v, [v EXCEPT !.task = "games", !.left = n, !.pc = "check"])
      <4>1. [v EXCEPT !.task = "games", !.left = n, !.pc = "check"] \in Job
        BY <1>2, <3>3 DEF Job, WorkerPoints, Tasks, Resources
      <4> QED
        BY <1>2, <2>1, <4>1 DEF Progress, Sound, Job, Resources
    <3> QED
      BY <1>9, <3>1, <3>2
  <2>3. CASE v.task = "games" /\ Goto(j, "check")
    <3>1. Progress(v, [v EXCEPT !.pc = "check"])
      BY <1>2, <2>1, <2>3 DEF Progress, Sound, Job, WorkerPoints, Resources
    <3> QED
      BY <1>9, <2>3, <3>1 DEF Goto
  <2> QED
    BY <1>4, <1>5, <1>9, <1>26, <2>1, <2>2, <2>3 DEF Tally, Advance
<1> QED
  BY <1>10, <1>11, <1>12, <1>13, <1>14, <1>15, <1>16, <1>17, <1>18, <1>19, <1>20, <1>21,
     <1>22, <1>23, <1>24, <1>25, <1>26 DEF WorkerStep, Work

\* A step of a worker keeps the types of what it writes.
LEMMA WorkTypes ==
    ASSUME Typed, NEW j \in Jobs, WorkerStep(j)
    PROVE  /\ profile' \in [Profiles -> {"unused", "present", "deleted"}]
           /\ cache' \in [Profiles -> SUBSET Resources]
           /\ sync' \in [Profiles -> {"none", "idle", "syncing", "error"}]
           /\ faulted' \subseteq Profiles
           /\ avatar' \in [Profiles -> [file : BOOLEAN, row : BOOLEAN]]
           /\ active' \in Profiles \cup {NoProfile}
<1>1. job[j] \in Job /\ Sound(job[j])
  <2>1. Started(j)
    BY WorkProgress DEF Live
  <2> QED
    BY <2>1, StartedSound
<1>2. TypeOK
  BY DEF Typed
<1>3. CASE UNCHANGED store
  BY <1>2, <1>3 DEF TypeOK, store
<1>4. CASE Store(j)
  <2>1. job[j].task \in Resources
    BY <1>1, <1>4 DEF Sound, Store, At
  <2> QED
    BY <1>2, <1>4, <2>1 DEF Store, TypeOK
<1>5. CASE Describe(j)
  BY <1>2, <1>5 DEF Describe, TypeOK, Resources
<1>6. CASE Select(j)
  <2>1. job[j].profile \in Profiles \cup {NoProfile}
    BY <1>1 DEF Job
  <2> QED
    BY <1>2, <1>6, <2>1 DEF Select, TypeOK
<1>7. CASE Insert(j)
  BY <1>2, <1>7 DEF Insert, TypeOK
<1>8. CASE Image(j)
  <2>1. avatar[job[j].profile].row \/ Present(job[j].profile) \in BOOLEAN
    BY DEF Present
  <2> QED
    BY <1>2, <1>8 DEF Image, TypeOK, Present
<1>9. CASE Begin(j) \/ Settle(j) \/ Fail(j)
  BY <1>2, <1>9 DEF Begin, Settle, Fail, Mark, TypeOK
<1>f. CASE Fault(j)
  BY <1>2, <1>f DEF Fault, TypeOK
<1>10. CASE \/ Fetch(j) \/ Refuse(j) \/ Respond(j) \/ Check(j) \/ Avatar(j)
            \/ Activate(j) \/ Bind(j) \/ Overview(j) \/ Tally(j)
  BY <1>3, <1>10 DEF Fetch, Refuse, Respond, Check, Avatar, Activate, Bind, Overview, Tally
<1> QED
  BY <1>4, <1>5, <1>6, <1>7, <1>8, <1>9, <1>f, <1>10 DEF WorkerStep, Work

------------------------------------------------------------------------------
(* The other steps: the user's calls, their ends, and the clock.            *)

UserStep ==
    \/ \E j \in Jobs :
        \/ \E r \in Providers : Start(j, r)
        \/ \E p \in Profiles : StartSync(j, p)
        \/ CancelJob(j) \/ PollBegin(j)
    \/ \E p \in Profiles : SelectProfile(p) \/ AskOverview(p) \/ DeleteBegin(p)
    \/ Return \/ ClearMonth \/ Shutdown \/ Time

\* A step is one of a worker, or of the user, the end of a call, or the clock.
LEMMA NextSplits ==
    ASSUME Next
    PROVE  (\E j \in Jobs : WorkerStep(j)) \/ UserStep
BY DEF Next, UserStep, WorkerStep

\* What a call makes of a job it does not start.
Flagged(v, w) ==
    /\ Sound(w)
    /\ w.kind = v.kind /\ w.profile = v.profile /\ w.bound = v.bound
    /\ w.pc = v.pc /\ w.finished = v.finished /\ w.task = v.task
    /\ w.validators = v.validators /\ w.outcome = v.outcome /\ w.warned = v.warned
    /\ v.cancel => w.cancel
    /\ w.entry = v.entry \/ w.cancel \/ w.finished

\* What calls do to a job: flags, and its place on the list.
LEMMA FlagSound ==
    ASSUME NEW v, Sound(v)
    PROVE  /\ Flagged(v, [v EXCEPT !.cancel = TRUE])
           /\ \A e \in {"listed", "reaped", "removed"} :
                e = v.entry \/ v.finished => Flagged(v, [v EXCEPT !.entry = e])
           /\ \A b \in BOOLEAN : /\ Flagged(v, [v EXCEPT !.joined = b])
                                 /\ Flagged(v, [v EXCEPT !.reported = b])
           /\ Flagged(v, [v EXCEPT !.cancel = TRUE, !.entry = "removed", !.joined = TRUE])
<1>1. v \in Job
  BY DEF Sound
<1>2. Flagged(v, [v EXCEPT !.cancel = TRUE])
  <2>1. [v EXCEPT !.cancel = TRUE] \in Job
    BY <1>1 DEF Job
  <2> QED
    BY <1>1, <2>1 DEF Flagged, Sound, Job
<1>3. ASSUME NEW e \in {"listed", "reaped", "removed"}, e = v.entry \/ v.finished
      PROVE  Flagged(v, [v EXCEPT !.entry = e])
  <2>1. [v EXCEPT !.entry = e] \in Job
    BY <1>1 DEF Job
  <2> QED
    BY <1>1, <1>3, <2>1 DEF Flagged, Sound, Job
<1>4. ASSUME NEW b \in BOOLEAN
      PROVE  Flagged(v, [v EXCEPT !.joined = b]) /\ Flagged(v, [v EXCEPT !.reported = b])
  <2>1. [v EXCEPT !.joined = b] \in Job /\ [v EXCEPT !.reported = b] \in Job
    BY <1>1 DEF Job
  <2>2. Flagged(v, [v EXCEPT !.joined = b])
    BY <1>1, <2>1 DEF Flagged, Sound, Job
  <2>3. Flagged(v, [v EXCEPT !.reported = b])
    BY <1>1, <2>1 DEF Flagged, Sound, Job
  <2> QED
    BY <2>2, <2>3
<1>5. Flagged(v, [v EXCEPT !.cancel = TRUE, !.entry = "removed", !.joined = TRUE])
  <2>1. [v EXCEPT !.cancel = TRUE, !.entry = "removed", !.joined = TRUE] \in Job
    BY <1>1 DEF Job
  <2> QED
    BY <1>1, <2>1 DEF Flagged, Sound, Job
<1> QED
  BY <1>2, <1>3, <1>4, <1>5

\* Cancelling several jobs does no more than that to each.
LEMMA CancelledFlags ==
    ASSUME Typed, NEW those \in SUBSET Jobs, \A k \in those : Started(k)
    PROVE  \A k \in Jobs : \/ Cancelled(those)[k] = job[k]
                           \/ Started(k) /\ Flagged(job[k], Cancelled(those)[k])
BY FlagSound DEF Cancelled, Typed

\* A new job is sound.
LEMMA NewJobSound ==
    ASSUME NEW kind \in Kinds, NEW r \in Providers, NEW p \in Profiles \cup {NoProfile},
           NEW point \in {"fetch", "begin"},
           point = "begin" => kind \in {"create", "sync"} /\ p # NoProfile
    PROVE  Sound(NewJob(kind, r, p, point)) /\ ~NewJob(kind, r, p, point).finished
<1>2. NewJob(kind, r, p, point) \in Job
  <2>1. point \in WorkerPoints /\ "profile" \in Tasks
    BY DEF WorkerPoints, Tasks, Resources
  <2>2. CASE p = NoProfile
    <3>1. NewJob(kind, r, p, point) =
            [kind |-> kind, provider |-> r, profile |-> p, bound |-> FALSE,
             pc |-> point, task |-> "profile", left |-> 1, validators |-> FALSE,
             cancel |-> FALSE, outcome |-> "running", warned |-> FALSE, finished |-> FALSE,
             entry |-> "listed", joined |-> FALSE, reported |-> FALSE]
      BY <2>2 DEF NewJob
    <3> QED
      BY <2>1, <3>1 DEF Job
  <2>3. CASE p # NoProfile
    <3>1. NewJob(kind, r, p, point) =
            [kind |-> kind, provider |-> r, profile |-> p, bound |-> TRUE,
             pc |-> point, task |-> "profile", left |-> 1, validators |-> FALSE,
             cancel |-> FALSE, outcome |-> "running", warned |-> FALSE, finished |-> FALSE,
             entry |-> "listed", joined |-> FALSE, reported |-> FALSE]
      BY <2>3 DEF NewJob
    <3> QED
      BY <2>1, <3>1 DEF Job
  <2> QED
    BY <2>2, <2>3
<1>3. point \notin {"bind", "check", "store"}
  OBVIOUS
<1>4. point = "begin" => NewJob(kind, r, p, point).bound
  BY DEF NewJob
<1> QED
  BY <1>2, <1>3, <1>4 DEF NewJob, Sound

\* A call flags jobs and starts one at most.
LEMMA UserJobs ==
    ASSUME Typed, UserStep
    PROVE  /\ job' \in [Jobs -> Job \cup {NoJob}]
           /\ \A k \in Jobs : \/ job'[k] = job[k]
                              \/ Started(k) /\ Flagged(job[k], job'[k])
                              \/ /\ job[k] = NoJob /\ Sound(job'[k])
                                 /\ \/ /\ job'[k].kind # "sync"
                                       /\ job'[k].profile = NoProfile /\ ~job'[k].bound
                                       /\ job'[k].pc = "fetch"
                                    \/ \E p \in Profiles : StartSync(k, p)
<1> DEFINE Each(k) == \/ job'[k] = job[k]
                      \/ Started(k) /\ Flagged(job[k], job'[k])
                      \/ /\ job[k] = NoJob /\ Sound(job'[k])
                         /\ \/ /\ job'[k].kind # "sync"
                               /\ job'[k].profile = NoProfile /\ ~job'[k].bound
                               /\ job'[k].pc = "fetch"
                            \/ \E p \in Profiles : StartSync(k, p)
<1>0. job \in [Jobs -> Job \cup {NoJob}]
  BY DEF Typed, TypeOK
<1>a. \A k \in Jobs : Started(k) => Sound(job[k])
  BY DEF Typed
<1> SUFFICES DOMAIN job' = Jobs /\ job' = [k \in Jobs |-> job'[k]] /\ \A k \in Jobs : Each(k)
  BY <1>0 DEF Flagged, Sound
<1>1. CASE \E j \in Jobs, r \in Providers : Start(j, r)
  <2>1. PICK j \in Jobs, r \in Providers, kind \in {"create", "scout", "report"} :
          Fresh(j) /\ job' = [job EXCEPT ![j] = NewJob(kind, r, NoProfile, "fetch")]
    BY <1>1 DEF Start
  <2>2. Sound(NewJob(kind, r, NoProfile, "fetch"))
    BY NewJobSound DEF Kinds
  <2>3. LET new == NewJob(kind, r, NoProfile, "fetch")
        IN  new.kind # "sync" /\ new.profile = NoProfile /\ ~new.bound /\ new.pc = "fetch"
    BY DEF NewJob
  <2> QED
    BY <1>0, <2>1, <2>2, <2>3 DEF Fresh
<1>2. CASE \E j \in Jobs, p \in Profiles : StartSync(j, p)
  <2>1. PICK j \in Jobs, p \in Profiles : StartSync(j, p)
    BY <1>2
  <2> DEFINE those == {k \in BoundTo(p) : Live(k)}
             new == NewJob("sync", ProviderOf[p], p, "begin")
  <2>2. Fresh(j) /\ job' = [Cancelled(those) EXCEPT ![j] = new]
    BY <2>1 DEF StartSync
  <2>3. Sound(new)
    BY NewJobSound, JobAssumption DEF Kinds
  <2>4. those \in SUBSET Jobs /\ \A k \in those : Started(k)
    BY DEF BoundTo, Live
  <2>5. DOMAIN Cancelled(those) = Jobs
    BY DEF Cancelled
  <2> HIDE DEF new, those
  <2> QED
    BY <2>1, <2>2, <2>3, <2>4, <2>5, CancelledFlags DEF Fresh
<1>3. CASE \E those \in SUBSET Jobs : (\A k \in those : Started(k)) /\ job' = Cancelled(those)
  <2>1. PICK those \in SUBSET Jobs : (\A k \in those : Started(k)) /\ job' = Cancelled(those)
    BY <1>3
  <2>2. DOMAIN Cancelled(those) = Jobs /\ job' = [k \in Jobs |-> job'[k]]
    BY <2>1 DEF Cancelled
  <2> QED
    BY <2>1, <2>2, CancelledFlags
<1>4. CASE \E j \in Jobs : CancelJob(j)
  <2>1. PICK j \in Jobs : Started(j) /\ job' = Cancelled({j})
    BY <1>4 DEF CancelJob, Listed
  <2> QED
    BY <1>3, <2>1
<1>5. CASE \E p \in Profiles : SelectProfile(p)
  <2>1. PICK p \in Profiles : job' = Cancelled({k \in Jobs : /\ Listed(k) /\ Live(k) /\ job[k].bound
                                                         /\ job[k].profile # p})
    BY <1>5 DEF SelectProfile
  <2> QED
    BY <1>3, <2>1 DEF Listed
<1>6. CASE Shutdown
  BY <1>3, <1>6 DEF Shutdown, Listed
<1>7. CASE \E j \in Jobs : PollBegin(j)
  <2>1. PICK j \in Jobs : Started(j) /\ job' = [job EXCEPT ![j] = [@ EXCEPT !.joined = job[j].finished]]
    BY <1>7 DEF PollBegin, Listed
  <2>2. Sound(job[j]) /\ job[j].finished \in BOOLEAN
    BY <1>a, <2>1 DEF Sound, Job
  <2> QED
    BY <1>0, <2>1, <2>2, FlagSound
<1>8. CASE PollRender
  <2>1. ui.job \in Jobs /\ Started(ui.job) /\ Sound(job[ui.job])
    BY <1>8 DEF PollRender, Typed
  <2>2. job' = [job EXCEPT ![ui.job] = [@ EXCEPT !.reported = job[ui.job].finished]]
    BY <1>8 DEF PollRender
  <2>3. job[ui.job].finished \in BOOLEAN
    BY <2>1 DEF Sound, Job
  <2> QED
    BY <1>0, <2>1, <2>2, <2>3, FlagSound
<1>9. CASE PollErase
  <2>1. ui.job \in Jobs /\ Started(ui.job) /\ Sound(job[ui.job])
    BY <1>9 DEF PollErase, Typed
  <2>2. PICK e \in {"listed", "reaped", "removed"} :
          /\ job' = [job EXCEPT ![ui.job] = [@ EXCEPT !.entry = e]]
          /\ e = job[ui.job].entry \/ job[ui.job].finished
    <3>1. job[ui.job].entry \in {"listed", "reaped", "removed"}
      BY <2>1 DEF Sound, Job
    <3> QED
      BY <1>9, <3>1 DEF PollErase
  <2> QED
    BY <1>0, <2>1, <2>2, FlagSound
<1>10. CASE \E p \in Profiles : DeleteBegin(p)
  <2>1. PICK p \in Profiles : DeleteBegin(p)
    BY <1>10
  <2>2. \A k \in BoundTo(p) : Started(k)
    BY DEF BoundTo, Listed
  <2>3. job' = [k \in Jobs |-> IF k \in BoundTo(p)
                               THEN [job[k] EXCEPT !.cancel = TRUE, !.entry = "removed",
                                                   !.joined = TRUE]
                               ELSE job[k]]
    BY <2>1 DEF DeleteBegin
  <2> QED
    BY <1>a, <2>2, <2>3, FlagSound
<1>11. CASE UNCHANGED job
  BY <1>0, <1>11
<1> QED
  BY <1>1, <1>2, <1>4, <1>5, <1>6, <1>7, <1>8, <1>9, <1>10, <1>11
     DEF UserStep, Return, AskOverview, ClearMonth, Time, AnswerOverview, DeleteDrop, Closed

\* The other steps keep the types too.
LEMMA UserTypes ==
    ASSUME Typed, UserStep
    PROVE  /\ profile' \in [Profiles -> {"unused", "present", "deleted"}]
           /\ cache' \in [Profiles -> SUBSET Resources]
           /\ sync' \in [Profiles -> {"none", "idle", "syncing", "error"}]
           /\ faulted' \subseteq Profiles
           /\ avatar' \in [Profiles -> [file : BOOLEAN, row : BOOLEAN]]
           /\ active' \in Profiles \cup {NoProfile}
           /\ calls' \in 0..MaxCalls
           /\ aborted' \in BOOLEAN
<1>1. TypeOK /\ MaxCalls \in Nat
  BY JobAssumption DEF Typed
<1>2. calls' \in 0..MaxCalls
  <2>1. calls' = calls \/ (calls < MaxCalls /\ calls' = calls + 1)
    BY DEF UserStep, Return, Start, StartSync, CancelJob, PollBegin, SelectProfile,
        AskOverview, DeleteBegin, ClearMonth, Shutdown, Time, PollRender, PollErase,
        AnswerOverview, DeleteDrop, Closed, Call
  <2> QED
    BY <1>1, <2>1 DEF TypeOK
<1>3. aborted' \in BOOLEAN
  <2>1. CASE PollErase
    <3>1. Sound(job[ui.job])
      BY <2>1 DEF PollErase, Typed
    <3> QED
      BY <2>1, <3>1 DEF PollErase, Sound, Job
  <2>2. CASE ~PollErase
    BY <1>1, <2>2 DEF UserStep, Return, Start, StartSync, CancelJob, PollBegin,
        SelectProfile, AskOverview, DeleteBegin, ClearMonth, Shutdown, Time, PollRender,
        AnswerOverview, DeleteDrop, Closed, TypeOK
  <2> QED
    BY <2>1, <2>2
<1>4. CASE UNCHANGED store
  BY <1>1, <1>2, <1>3, <1>4 DEF TypeOK, store
<1>5. CASE \E p \in Profiles : SelectProfile(p)
  BY <1>1, <1>2, <1>3, <1>5 DEF SelectProfile, TypeOK
<1>6. CASE ClearMonth
  BY <1>1, <1>2, <1>3, <1>6 DEF ClearMonth, TypeOK
<1>7. CASE DeleteDrop
  <2>1. avatar' \in [Profiles -> [file : BOOLEAN, row : BOOLEAN]]
    <3>1. ui.avatarRow \in BOOLEAN
      BY <1>1 DEF TypeOK, Ui
    <3> QED
      BY <1>1, <1>7, <3>1 DEF DeleteDrop, TypeOK
  <2>2. active' \in Profiles \cup {NoProfile}
    BY <1>1, <1>7 DEF DeleteDrop, TypeOK
  <2> QED
    BY <1>1, <1>2, <1>3, <1>7, <2>1, <2>2 DEF DeleteDrop, TypeOK
<1>8. UNCHANGED store \/ (\E p \in Profiles : SelectProfile(p)) \/ ClearMonth \/ DeleteDrop
  BY DEF UserStep, Return, Start, StartSync, CancelJob, PollBegin, AskOverview, DeleteBegin,
      Shutdown, Time, PollRender, PollErase, AnswerOverview, Closed
<1> QED
  BY <1>4, <1>5, <1>6, <1>7, <1>8

\* The call in progress, and the job it looks at.
LEMMA UserUi ==
    ASSUME Typed, UserStep
    PROVE  /\ ui' \in Ui
           /\ ui'.pc \in {"render", "erase"} => ui'.job \in Jobs /\ Started(ui'.job)
<1>1. TypeOK
  BY DEF Typed
<1>2. ui \in Ui /\ Idle \in Ui
  BY <1>1 DEF TypeOK, Ui, Idle
<1>3. CASE ui' = ui
  BY <1>2, <1>3 DEF Typed
<1>4. CASE \E j \in Jobs : PollBegin(j)
  BY <1>2, <1>4 DEF PollBegin, Listed, Idle, Ui
<1>5. CASE PollRender
  BY <1>2, <1>5 DEF PollRender, Ui, Typed
<1>6. CASE ui' = Idle
  BY <1>2, <1>6 DEF Idle
<1>7. CASE \E p \in Profiles : AskOverview(p)
  BY <1>2, <1>7 DEF AskOverview, Idle, Ui
<1>8. CASE \E p \in Profiles : DeleteBegin(p)
  <2>1. PICK p \in Profiles : ui' = [pc |-> "join", job |-> None, profile |-> p,
                                     join |-> BoundTo(p), avatarRow |-> avatar[p].row]
    BY <1>8 DEF DeleteBegin
  <2>2. avatar[p].row \in BOOLEAN /\ BoundTo(p) \in SUBSET Jobs
    BY <1>1 DEF TypeOK, BoundTo
  <2> QED
    BY <2>1, <2>2 DEF Ui
<1>9. CASE Shutdown
  <2>1. {k \in Jobs : Listed(k)} \in SUBSET Jobs
    OBVIOUS
  <2> QED
    BY <1>2, <1>9, <2>1 DEF Shutdown, Idle, Ui
<1>10. CASE Closed
  BY <1>2, <1>10 DEF Closed, Idle, Ui
<1> QED
  BY <1>3, <1>4, <1>5, <1>6, <1>7, <1>8, <1>9, <1>10
     DEF UserStep, Return, Start, StartSync, CancelJob, SelectProfile, ClearMonth, Time,
         PollErase, AnswerOverview, DeleteDrop

------------------------------------------------------------------------------
(* The gates.                                                               *)

\* What the jobs do to the gates, they do as the callers of ProviderScheduler.
LEMMA StepGates ==
    ASSUME Typed, [Next]_vars
    PROVE  [GateNext]_<<clock, gate>>
<1>1. CASE UNCHANGED vars
  BY <1>1 DEF vars
<1>2. CASE UserStep
  BY <1>2 DEF UserStep, Return, Start, StartSync, CancelJob, PollBegin, SelectProfile,
      AskOverview, DeleteBegin, ClearMonth, Shutdown, Time, PollRender, PollErase,
      AnswerOverview, DeleteDrop, Closed, GateNext
<1>3. ASSUME NEW j \in Jobs, WorkerStep(j)
      PROVE  [GateNext]_<<clock, gate>>
  <2>1. j \in Callers /\ job[j].provider \in Providers
    <3>1. Started(j)
      BY <1>3, WorkProgress DEF Live
    <3> QED
      BY <3>1, StartedSound DEF Jobs, Job
  <2>2. CASE Fetch(j)
    BY <2>1, <2>2 DEF Fetch, GateNext
  <2>3. CASE Respond(j)
    BY <2>1, <2>3 DEF Respond, GateNext
  <2>4. CASE UNCHANGED <<clock, gate>>
    BY <2>4
  <2> QED
    BY <1>3, <2>2, <2>3, <2>4 DEF WorkerStep, Work, Fault, Refuse, Check, Store,
        Avatar, Image, Insert, Activate, Select, Describe, Bind, Begin, Settle, Fail,
        Overview, Tally
<1> QED
  BY <1>1, <1>2, <1>3, NextSplits

\* A process that has just started is typed.
LEMMA InitIsTyped == Init => Typed
<1> SUFFICES ASSUME Init PROVE Typed
  OBVIOUS
<1>1. GateTypeOK
  BY InitTyped DEF Init
<1>2. /\ job \in [Jobs -> Job \cup {NoJob}]
      /\ profile \in [Profiles -> {"unused", "present", "deleted"}]
      /\ cache \in [Profiles -> SUBSET Resources]
      /\ sync \in [Profiles -> {"none", "idle", "syncing", "error"}]
      /\ faulted \subseteq Profiles
      /\ avatar \in [Profiles -> [file : BOOLEAN, row : BOOLEAN]]
  BY DEF Init
<1>3. active \in Profiles \cup {NoProfile}
  BY JobAssumption DEF Init
<1>4. ui \in Ui
  BY DEF Init, Ui, Idle
<1>5. calls \in 0..MaxCalls /\ aborted \in BOOLEAN
  <2>1. 0 \in 0..MaxCalls
    BY JobAssumption
  <2> QED
    BY <2>1 DEF Init
<1> QED
  <2>1. TypeOK
    BY <1>1, <1>2, <1>3, <1>4, <1>5 DEF TypeOK
  <2>2. ui.pc = "idle"
    BY DEF Init, Idle
  <2>3. \A j \in Jobs : ~Started(j)
    BY DEF Init, Started
  <2> QED
    BY <2>1, <2>2, <2>3 DEF Typed

\* Every step keeps the types.
LEMMA NextIsTyped == Typed /\ [Next]_vars => Typed'
<1> SUFFICES ASSUME Typed, [Next]_vars PROVE Typed'
  OBVIOUS
<1>0. job \in [Jobs -> Job \cup {NoJob}]
  BY DEF Typed, TypeOK
<1>1. GateTypeOK'
  BY StepGates, StepTyped DEF Typed, TypeOK
<1>2. CASE UNCHANGED vars
  <2>1. TypeOK'
    BY <1>1, <1>2 DEF vars, Typed, TypeOK
  <2> QED
    BY <1>2, <2>1 DEF vars, Typed, Started
<1>3. CASE UserStep
  <2>1. TypeOK'
    BY <1>1, <1>3, UserJobs, UserTypes, UserUi DEF TypeOK
  <2>2. \A k \in Jobs : Started(k)' => Sound(job'[k])
    BY <1>3, UserJobs DEF Started, Flagged, Typed
  <2>3. \A k \in Jobs : Started(k) => Started(k)'
    BY <1>3, UserJobs, JobIsStarted DEF Started, Flagged, Sound
  <2> QED
    BY <1>3, <2>1, <2>2, <2>3, UserUi DEF Typed
<1>4. ASSUME NEW j \in Jobs, WorkerStep(j)
      PROVE  Typed'
  <2>1. /\ job' = [job EXCEPT ![j] = job'[j]] /\ Sound(job'[j])
        /\ UNCHANGED <<ui, calls, aborted>>
    BY <1>4, WorkProgress DEF Progress
  <2>2. job' \in [Jobs -> Job \cup {NoJob}]
    BY <1>0, <2>1 DEF Sound
  <2>3. TypeOK'
    BY <1>1, <1>4, <2>1, <2>2, WorkTypes DEF Typed, TypeOK
  <2>4. \A k \in Jobs : Started(k)' => Sound(job'[k])
    BY <1>0, <2>1 DEF Started, Typed
  <2>5. \A k \in Jobs : Started(k) => Started(k)'
    BY <1>0, <2>1, JobIsStarted DEF Started, Sound
  <2> QED
    BY <2>1, <2>3, <2>4, <2>5 DEF Typed
<1> QED
  BY <1>2, <1>3, <1>4, NextSplits

\* Types: every job, profile and call stays what Job, Profiles and Ui say.
THEOREM JobsTyped == Spec => []TypeOK
<1>1. Typed => TypeOK
  BY DEF Typed
<1> QED
  BY <1>1, InitIsTyped, NextIsTyped, PTL DEF Spec

\* Whatever mix of jobs and calls runs, no provider gets two requests at once,
\* and none before the pause its last rate limit asked for has passed.
THEOREM JobsKeepPromise == Spec => KeepsPromise
<1>1. Init => GateInit
  BY DEF Init
<1>2. Typed /\ [Next]_vars => [GateNext]_<<clock, gate>>
  BY StepGates
<1>3. Spec => GateSpec
  BY <1>1, <1>2, InitIsTyped, NextIsTyped, PTL DEF Spec, GateSpec
<1> QED
  BY <1>3, GatesKeepPromise

------------------------------------------------------------------------------
(* Synchronisations of one profile.                                         *)

Sync(j) == Live(j) /\ job[j].kind = "sync" /\ ~job[j].cancel

\* The one that goes on is on the list and known by its profile: a new start
\* finds it there and cancels it.
SyncsListed == \A j \in Jobs : Sync(j) => Listed(j) /\ job[j].bound

\* A worker revives no synchronisation and takes none off the list.
LEMMA WorkKeepsSync ==
    ASSUME Typed, SyncsListed, OneUncancelledSync, NEW j \in Jobs, WorkerStep(j)
    PROVE  SyncsListed' /\ OneUncancelledSync'
<1>1. /\ Live(j) /\ Progress(job[j], job'[j])
      /\ \A k \in Jobs \ {j} : job'[k] = job[k]
  <2>1. job \in [Jobs -> Job \cup {NoJob}]
    BY DEF Typed, TypeOK
  <2> QED
    BY <2>1, WorkProgress
<1>2. \A k \in Jobs : Sync(k)' => /\ Sync(k)
                                  /\ job'[k].profile = job[k].profile
                                  /\ job'[k].entry = job[k].entry
                                  /\ job'[k].bound
  <2>1. Sync(j)' => Sync(j)
    BY <1>1 DEF Sync, Live, Progress
  <2>2. Sync(j)' => job[j].bound
    BY <2>1 DEF SyncsListed
  <2> QED
    BY <1>1, <2>1, <2>2 DEF Sync, Live, Progress, SyncsListed, Started
<1>3. \A a, b \in Jobs : Sync(a) /\ Sync(b) /\ job[a].profile = job[b].profile => a = b
  BY DEF OneUncancelledSync, Sync
<1>4. \A a, b \in Jobs : Sync(a)' /\ Sync(b)' /\ job'[a].profile = job'[b].profile => a = b
  BY <1>2, <1>3
<1>5. SyncsListed'
  BY <1>2 DEF SyncsListed, Listed, Sync, Live
<1>6. OneUncancelledSync'
  BY <1>4 DEF OneUncancelledSync, Sync
<1> QED
  BY <1>5, <1>6

\* A new synchronisation cancels the listed ones of its profile; a status call
\* takes only finished jobs off the list.
LEMMA UserKeepsSync ==
    ASSUME Typed, SyncsListed, OneUncancelledSync, UserStep
    PROVE  SyncsListed' /\ OneUncancelledSync'
<1> DEFINE Old(k) == /\ Sync(k) /\ job'[k].profile = job[k].profile
                     /\ job'[k].entry = job[k].entry /\ job'[k].bound
           New(k) == \E p \in Profiles : StartSync(k, p)
<1>1. ASSUME NEW k \in Jobs, Sync(k)'
      PROVE  Old(k) \/ New(k)
  <2>1. CASE job'[k] = job[k]
    BY <1>1, <2>1 DEF Sync, Live, Started, SyncsListed
  <2>2. CASE Started(k) /\ Flagged(job[k], job'[k])
    <3>1. Sync(k) /\ job'[k].profile = job[k].profile /\ job'[k].entry = job[k].entry
      BY <1>1, <2>2 DEF Sync, Live, Flagged
    <3> QED
      BY <2>2, <3>1 DEF Flagged, SyncsListed
  <2> QED
    BY <1>1, <2>1, <2>2, UserJobs DEF Sync
<1>2. ASSUME NEW k \in Jobs, NEW p \in Profiles, StartSync(k, p)
      PROVE  /\ job'[k] = NewJob("sync", ProviderOf[p], p, "begin")
             /\ \A b \in Jobs \ {k} : Sync(b)' => Old(b) /\ job'[b].profile # p
  <2> DEFINE those == {b \in BoundTo(p) : Live(b)}
  <2>1. job' = [Cancelled(those) EXCEPT ![k] = NewJob("sync", ProviderOf[p], p, "begin")]
    BY <1>2 DEF StartSync
  <2>2. job'[k] = NewJob("sync", ProviderOf[p], p, "begin")
    BY <2>1 DEF Cancelled
  <2>3. ASSUME NEW b \in Jobs \ {k}, Sync(b)'
        PROVE  Old(b) /\ job'[b].profile # p
    <3>1. job'[b] = IF b \in those THEN [job[b] EXCEPT !.cancel = TRUE] ELSE job[b]
      BY <2>1 DEF Cancelled
    <3>2. CASE b \in those
      <4>1. Sound(job[b])
        BY <3>2 DEF Typed, BoundTo, Listed
      <4>2. job'[b].cancel
        BY <3>1, <3>2, <4>1 DEF Sound, Job
      <4> QED
        BY <2>3, <4>2 DEF Sync
    <3>3. CASE b \notin those
      <4>1. job'[b] = job[b] /\ Sync(b)
        BY <2>3, <3>1, <3>3 DEF Sync, Live, Started
      <4>2. Listed(b) /\ job[b].bound /\ Live(b)
        BY <4>1 DEF SyncsListed, Sync
      <4>3. job[b].profile # p
        BY <3>3, <4>2 DEF BoundTo
      <4> QED
        BY <4>1, <4>2, <4>3
    <3> QED
      BY <3>2, <3>3
  <2> QED
    BY <2>2, <2>3
<1>3. ASSUME NEW k \in Jobs, NEW p \in Profiles, StartSync(k, p)
      PROVE  /\ job'[k].profile = p /\ job'[k].bound /\ Listed(k)'
  <2> DEFINE new == NewJob("sync", ProviderOf[p], p, "begin")
  <2>1. job'[k] = new
    BY <1>2, <1>3
  <2>2. new # NoJob
    BY NewJobSound, JobIsStarted, JobAssumption DEF Kinds, Sound
  <2>3. new.profile = p /\ new.bound /\ new.entry = "listed"
    BY JobAssumption DEF NewJob
  <2> QED
    BY <2>1, <2>2, <2>3 DEF Listed, Started
<1>4. \A a, b \in Jobs : Sync(a) /\ Sync(b) /\ job[a].profile = job[b].profile => a = b
  BY DEF OneUncancelledSync, Sync
<1>5. ASSUME NEW a \in Jobs, NEW b \in Jobs, Sync(a)', Sync(b)',
             job'[a].profile = job'[b].profile
      PROVE  a = b
  <2>1. CASE New(a)
    BY <1>2, <1>3, <1>5, <2>1
  <2>2. CASE New(b)
    BY <1>2, <1>3, <1>5, <2>2
  <2>3. CASE Old(a) /\ Old(b)
    BY <1>4, <1>5, <2>3
  <2> QED
    BY <1>1, <1>5, <2>1, <2>2, <2>3
<1>6. SyncsListed'
  <2>1. ASSUME NEW k \in Jobs, Sync(k)'
        PROVE  Listed(k)' /\ job'[k].bound
    <3>1. CASE New(k)
      BY <1>3, <3>1
    <3>2. CASE Old(k)
      BY <2>1, <3>2 DEF SyncsListed, Listed, Sync, Live
    <3> QED
      BY <1>1, <2>1, <3>1, <3>2
  <2> QED
    BY <2>1 DEF SyncsListed
<1>7. OneUncancelledSync'
  BY <1>5 DEF OneUncancelledSync, Sync
<1> QED
  BY <1>6, <1>7

\* Of a profile's synchronisations at most one goes on, whatever the user
\* starts, cancels and polls meanwhile.
THEOREM OneSyncGoesOn == Spec => []OneUncancelledSync
<1> DEFINE IInv == Typed /\ SyncsListed /\ OneUncancelledSync
<1>1. Init => IInv
  BY InitIsTyped DEF Init, SyncsListed, OneUncancelledSync, Sync, Live, Started
<1>2. IInv /\ [Next]_vars => IInv'
  <2> SUFFICES ASSUME IInv, [Next]_vars PROVE IInv'
    OBVIOUS
  <2>1. CASE UNCHANGED vars
    BY <2>1, NextIsTyped
       DEF vars, SyncsListed, OneUncancelledSync, Sync, Live, Listed, Started
  <2>2. CASE Next
    BY <2>2, NextIsTyped, NextSplits, WorkKeepsSync, UserKeepsSync
  <2> QED
    BY <2>1, <2>2
<1> QED
  BY <1>1, <1>2, PTL DEF Spec

------------------------------------------------------------------------------
(* The mark "syncing".                                                      *)

MarksHeld ==
    /\ \A p \in Profiles : profile[p] # "present" => sync[p] = "none"
    /\ \A p \in Profiles : sync[p] = "syncing" =>
        \/ p \in faulted
        \/ \E j \in Jobs : Started(j) /\ Marking(job[j]) /\ job[j].profile = p

\* A worker that will settle the mark goes on to do so, or has done it, or its
\* profile is gone, or it met a fault.
LEMMA WorkMarks ==
    ASSUME Typed, MarksHeld, NEW j \in Jobs, WorkerStep(j), Marking(job[j]),
           job[j].profile \in Profiles
    PROVE  \/ Marking(job'[j])
           \/ sync'[job[j].profile] # "syncing"
           \/ job[j].profile \in faulted'
<1> DEFINE v == job[j]
<1>1. Live(j) /\ v \in Job /\ Sound(v) /\ ~v.finished /\ v.outcome = "running"
  BY WorkProgress, StartedSound DEF Live, Sound, Marking, MarkPoints
<1>0. job \in [Jobs -> Job \cup {NoJob}]
      /\ sync \in [Profiles -> {"none", "idle", "syncing", "error"}]
  BY DEF Typed, TypeOK
<1>2. /\ Marking(AfterTask(v)) /\ Marking(Raise(v))
      /\ v.pc \in {"fetch", "sent"} => \A a : Marking(Digest(v, a))
  BY <1>1, AfterTaskOnward, RaiseOnward, DigestOnward DEF Onward, Sound
<1>3. \A pc \in MarkPoints : Marking([v EXCEPT !.pc = pc])
  BY <1>1 DEF Marking, Job
<1>4. ~Present(v.profile) => sync[v.profile] # "syncing"
  BY JobAssumption DEF MarksHeld, Present
<1>5. CASE Fetch(j)
  BY <1>0, <1>3, <1>5 DEF Fetch, Goto, MarkPoints
<1>6. CASE Refuse(j)
  BY <1>0, <1>2, <1>6 DEF Refuse, At
<1>7. CASE Respond(j)
  BY <1>0, <1>2, <1>7 DEF Respond, At
<1>8. CASE Check(j)
  <2>1. CASE job'[j] = Raise(v) \/ job'[j] = AfterTask(v)
    BY <1>2, <2>1
  <2>2. CASE ~(job'[j] = Raise(v) \/ job'[j] = AfterTask(v))
    <3>1. PICK pc \in {"store", "fetch"}, cached \in BOOLEAN :
            job'[j] = [v EXCEPT !.pc = pc, !.validators = cached]
      BY <1>0, <1>8, <2>2 DEF Check, Advance
    <3> QED
      BY <1>1, <3>1 DEF Marking, MarkPoints, Job
  <2> QED
    BY <2>1, <2>2
<1>9. CASE Store(j)
  BY <1>0, <1>2, <1>3, <1>4, <1>9 DEF Store, Goto, Advance, MarkPoints
<1>10. CASE Avatar(j)
  <2>1. CASE job'[j] = AfterTask(v) \/ job'[j] = [v EXCEPT !.pc = "image"]
    BY <1>2, <1>3, <2>1 DEF MarkPoints
  <2>2. CASE job'[j] = [v EXCEPT !.pc = "fetch", !.task = "avatar", !.left = 1]
    BY <1>1, <2>2 DEF Marking, MarkPoints, Job
  <2> QED
    BY <1>0, <1>10, <2>1, <2>2 DEF Avatar, Advance, Goto
<1>11. CASE Image(j)
  BY <1>0, <1>2, <1>11 DEF Image, Advance
<1>12. CASE Settle(j)
  BY <1>0, <1>4, <1>12 DEF Settle, Mark
<1>13. CASE Fail(j)
  BY <1>0, <1>4, <1>13 DEF Fail, Mark
<1>14. CASE Fault(j)
  BY <1>14 DEF Fault
<1> QED
  BY <1>14, <1>5, <1>6, <1>7, <1>8, <1>9, <1>10, <1>11, <1>12, <1>13
     DEF WorkerStep, Work, Fault, Marking, MarkPoints, Insert, Activate, Select,
         Describe, Bind, Begin, Overview, Tally, At, Persists

\* A worker that goes past begin will settle its mark.
LEMMA WorkKeepsMarks ==
    ASSUME Typed, MarksHeld, NEW j \in Jobs, WorkerStep(j)
    PROVE  MarksHeld'
<1>0. /\ job \in [Jobs -> Job \cup {NoJob}]
      /\ profile \in [Profiles -> {"unused", "present", "deleted"}]
      /\ sync \in [Profiles -> {"none", "idle", "syncing", "error"}]
  BY DEF Typed, TypeOK
<1>1. /\ Live(j) /\ Progress(job[j], job'[j])
      /\ job' = [job EXCEPT ![j] = job'[j]]
  BY WorkProgress
<1>2. \A p \in Profiles : profile[p] = "present" => profile'[p] = "present"
  BY <1>0 DEF WorkerStep, Work, Fault, Fetch, Refuse, Respond, Check, Store, Avatar,
      Image, Insert, Activate, Select, Describe, Bind, Begin, Settle, Fail, Overview,
      Tally, store
<1>3. \/ UNCHANGED sync
      \/ Present(job[j].profile) /\ (Begin(j) \/ Settle(j) \/ Fail(j))
  BY DEF WorkerStep, Work, Fault, Fetch, Refuse, Respond, Check, Store, Avatar, Image,
      Insert, Activate, Select, Describe, Bind, Begin, Settle, Fail, Overview, Tally,
      store
<1>4. \A p \in Profiles : profile'[p] # "present" => sync'[p] = "none"
  <2>1. CASE UNCHANGED sync
    BY <1>2, <2>1 DEF MarksHeld
  <2>2. CASE Present(job[j].profile) /\ (Begin(j) \/ Settle(j) \/ Fail(j))
    BY <1>0, <2>2 DEF Present, Begin, Settle, Fail, Mark, MarksHeld
  <2> QED
    BY <1>3, <2>1, <2>2
<1>5. ASSUME NEW p \in Profiles, sync'[p] = "syncing", p \notin faulted'
      PROVE  \E k \in Jobs : Started(k)' /\ Marking(job'[k]) /\ job'[k].profile = p
  <2>1. job'[j] \in Job /\ job'[j] # NoJob
    BY <1>1, JobIsStarted DEF Progress, Sound
  <2>2. CASE sync[p] = "syncing" /\ p \notin faulted
    <3>1. PICK k \in Jobs : Started(k) /\ Marking(job[k]) /\ job[k].profile = p
      BY <2>2 DEF MarksHeld
    <3>2. CASE k # j
      BY <1>0, <1>1, <3>1, <3>2 DEF Started
    <3>3. CASE k = j
      <4>1. Marking(job'[j])
        BY <1>5, <3>1, <3>3, WorkMarks
      <4>2. job'[j].profile = p
        BY <1>1, <3>1, <3>3 DEF Progress, Marking
      <4> QED
        BY <2>1, <4>1, <4>2 DEF Started
    <3> QED
      BY <3>2, <3>3
  <2>3. CASE sync[p] # "syncing" \/ p \in faulted
    <3>1. Begin(j) /\ job[j].profile = p /\ Present(p)
      <4>1. \/ UNCHANGED sync /\ faulted \subseteq faulted'
            \/ Present(job[j].profile) /\ (Begin(j) \/ Settle(j) \/ Fail(j))
        BY DEF WorkerStep, Work, Fault, Fetch, Refuse, Respond, Check, Store, Avatar, Image,
            Insert, Activate, Select, Describe, Bind, Begin, Settle, Fail, Overview, Tally,
            store
      <4> QED
        BY <1>0, <1>5, <2>3, <4>1 DEF Begin, Settle, Fail, Mark
    <3>2. job'[j] = ToTask(job[j], "profile")
      BY <1>0, <3>1 DEF Begin
    <3>3. job[j].kind \in {"create", "sync"} /\ job[j].bound /\ job[j] \in Job
      BY <1>1, <3>1, StartedSound DEF Live, Sound, Begin, At
    <3>4. Marking(job'[j]) /\ job'[j].profile = p
      BY <3>1, <3>2, <3>3 DEF ToTask, Marking, MarkPoints, Job
    <3> QED
      BY <2>1, <3>4 DEF Started
  <2> QED
    BY <2>2, <2>3
<1> QED
  BY <1>4, <1>5 DEF MarksHeld

\* A deletion takes the mark along, and other calls leave the job that holds it.
LEMMA UserKeepsMarks ==
    ASSUME Typed, MarksHeld, UserStep
    PROVE  MarksHeld'
<1>0. /\ profile \in [Profiles -> {"unused", "present", "deleted"}]
      /\ sync \in [Profiles -> {"none", "idle", "syncing", "error"}]
  BY DEF Typed, TypeOK
<1>1. UNCHANGED <<profile, sync, faulted>> \/ DeleteDrop
  BY DEF UserStep, Return, Start, StartSync, CancelJob, PollBegin, SelectProfile,
      AskOverview, DeleteBegin, ClearMonth, Shutdown, Time, PollRender, PollErase,
      AnswerOverview, Closed, store
<1>2. /\ \A p \in Profiles : profile'[p] # "present" => sync'[p] = "none"
      /\ \A p \in Profiles : sync'[p] = "syncing" =>
            sync[p] = "syncing" /\ (p \in faulted => p \in faulted')
  <2>1. CASE UNCHANGED <<profile, sync, faulted>>
    BY <2>1 DEF MarksHeld
  <2>2. CASE DeleteDrop
    BY <1>0, <2>2 DEF DeleteDrop, MarksHeld
  <2> QED
    BY <1>1, <2>1, <2>2
<1>3. \A k \in Jobs : Started(k) /\ Marking(job[k]) =>
        Started(k)' /\ Marking(job'[k]) /\ job'[k].profile = job[k].profile
  BY UserJobs, JobIsStarted DEF Flagged, Marking, Started, Sound
<1> QED
  BY <1>2, <1>3 DEF MarksHeld

\* A profile that is marked as being synchronised has a job that is on its way
\* to settle the mark, unless since the mark was written a job of it ended by an
\* exception that is none of the provider's.
THEOREM MarksAreSettled == Spec => []SyncingMeansLive
<1> DEFINE IInv == Typed /\ MarksHeld
<1>1. Init => IInv
  BY InitIsTyped DEF Init, MarksHeld
<1>2. IInv /\ [Next]_vars => IInv'
  <2> SUFFICES ASSUME IInv, [Next]_vars PROVE IInv'
    OBVIOUS
  <2>1. CASE UNCHANGED vars
    BY <2>1, NextIsTyped DEF vars, MarksHeld, Started
  <2>2. CASE Next
    BY <2>2, NextIsTyped, NextSplits, WorkKeepsMarks, UserKeepsMarks
  <2> QED
    BY <2>1, <2>2
<1>3. IInv => SyncingMeansLive
  BY DEF Typed, MarksHeld, SyncingMeansLive, Live, Persists, Marking, MarkPoints, Sound
<1> QED
  BY <1>1, <1>2, <1>3, PTL DEF Spec
------------------------------------------------------------------------------
(* What a deleted profile leaves behind.                                    *)

\* The call that deletes p waits for the workers of p.
Deleting(p) == ui.pc = "join" /\ ui.profile = p

RowsHaveProfile ==
    \A p \in Profiles : profile[p] # "present" =>
        cache[p] = {} /\ sync[p] = "none" /\ ~avatar[p].row

\* A synchronisation that runs has its profile.  The call that deletes this
\* profile is waiting for it, or would find it on the list.
SyncsHaveProfile ==
    \A j \in Jobs : Live(j) /\ job[j].kind = "sync" =>
        /\ job[j].bound /\ Present(job[j].profile)
        /\ IF Deleting(job[j].profile) THEN j \in ui.join ELSE Listed(j)

\* No worker deletes a profile.
LEMMA WorkKeepsProfiles ==
    ASSUME Typed, NEW j \in Jobs, WorkerStep(j)
    PROVE  \A p \in Profiles : profile[p] = "present" => profile'[p] = "present"
<1>1. profile \in [Profiles -> {"unused", "present", "deleted"}]
  BY DEF Typed, TypeOK
<1> QED
  BY <1>1 DEF WorkerStep, Work, Fault, Fetch, Refuse, Respond, Check, Store, Avatar,
      Image, Insert, Activate, Select, Describe, Bind, Begin, Settle, Fail, Overview,
      Tally, store

\* A worker writes rows only for a profile that is there.
LEMMA WorkKeepsRows ==
    ASSUME Typed, RowsHaveProfile, NEW j \in Jobs, WorkerStep(j)
    PROVE  RowsHaveProfile'
<1>0. /\ profile \in [Profiles -> {"unused", "present", "deleted"}]
      /\ cache \in [Profiles -> SUBSET Resources]
      /\ sync \in [Profiles -> {"none", "idle", "syncing", "error"}]
      /\ avatar \in [Profiles -> [file : BOOLEAN, row : BOOLEAN]]
  BY DEF Typed, TypeOK
<1> SUFFICES ASSUME NEW p \in Profiles, profile'[p] # "present"
             PROVE  cache'[p] = {} /\ sync'[p] = "none" /\ ~avatar'[p].row
  BY DEF RowsHaveProfile
<1>1. profile[p] # "present"
  BY WorkKeepsProfiles
<1>2. cache[p] = {} /\ sync[p] = "none" /\ ~avatar[p].row
  BY <1>1 DEF RowsHaveProfile
<1>3. \/ UNCHANGED cache
      \/ /\ Present(job[j].profile)
         /\ \E c : cache' = [cache EXCEPT ![job[j].profile] = c]
  BY DEF WorkerStep, Work, Fault, Fetch, Refuse, Respond, Check, Store, Avatar, Image,
      Insert, Activate, Select, Describe, Bind, Begin, Settle, Fail, Overview, Tally,
      store
<1>4. \/ UNCHANGED sync
      \/ /\ Present(job[j].profile)
         /\ \E c : sync' = [sync EXCEPT ![job[j].profile] = c]
  BY DEF WorkerStep, Work, Fault, Fetch, Refuse, Respond, Check, Store, Avatar, Image,
      Insert, Activate, Select, Describe, Bind, Begin, Settle, Fail, Overview, Tally,
      Mark, store
<1>5. UNCHANGED avatar \/ Image(j)
  BY DEF WorkerStep, Work, Fault, Fetch, Refuse, Respond, Check, Store, Avatar, Insert,
      Activate, Select, Describe, Bind, Begin, Settle, Fail, Overview, Tally, store
<1>6. cache'[p] = {}
  BY <1>0, <1>1, <1>2, <1>3 DEF Present
<1>7. sync'[p] = "none"
  BY <1>0, <1>1, <1>2, <1>4 DEF Present
<1>8. ~avatar'[p].row
  <2>1. CASE Image(j) /\ job[j].profile = p
    <3>1. avatar'[p] = [file |-> TRUE, row |-> avatar[p].row \/ Present(p)]
      BY <1>0, <2>1 DEF Image
    <3>2. avatar'[p].row = (avatar[p].row \/ Present(p))
      BY <3>1
    <3>3. ~Present(p)
      BY <1>1 DEF Present
    <3> QED
      BY <1>2, <3>2, <3>3, Zenon
  <2>2. CASE ~(Image(j) /\ job[j].profile = p)
    BY <1>0, <1>2, <1>5, <2>2 DEF Image
  <2> QED
    BY <2>1, <2>2
<1> QED
  BY <1>6, <1>7, <1>8

\* A synchronisation keeps its profile.
LEMMA WorkKeepsSyncs ==
    ASSUME Typed, SyncsHaveProfile, NEW j \in Jobs, WorkerStep(j)
    PROVE  SyncsHaveProfile'
<1>1. /\ Live(j) /\ Progress(job[j], job'[j])
      /\ \A k \in Jobs \ {j} : job'[k] = job[k]
      /\ ui' = ui
  <2>1. job \in [Jobs -> Job \cup {NoJob}]
    BY DEF Typed, TypeOK
  <2> QED
    BY <2>1, WorkProgress
<1> SUFFICES ASSUME NEW k \in Jobs, Live(k)', job'[k].kind = "sync"
             PROVE  /\ job'[k].bound
                    /\ job'[k].profile # NoProfile /\ profile'[job'[k].profile] = "present"
                    /\ IF ui'.pc = "join" /\ ui'.profile = job'[k].profile
                       THEN k \in ui'.join ELSE job'[k].entry = "listed"
  BY DEF SyncsHaveProfile, Deleting, Present, Listed, Live
<1>2. Live(k) /\ job[k].kind = "sync"
  BY <1>1 DEF Live, Started, Progress
<1>3. /\ job[k].bound /\ Present(job[k].profile)
      /\ IF Deleting(job[k].profile) THEN k \in ui.join ELSE Listed(k)
  BY <1>2 DEF SyncsHaveProfile
<1>4. /\ job'[k].bound /\ job'[k].profile = job[k].profile
      /\ job'[k].entry = job[k].entry
  BY <1>1, <1>3 DEF Progress
<1>5. job[k].profile \in Profiles
  <2>1. job[k] \in Job
    BY <1>2, StartedSound DEF Live
  <2> QED
    BY <1>3, <2>1 DEF Job, Present
<1>6. profile'[job[k].profile] = "present"
  BY <1>3, <1>5, WorkKeepsProfiles DEF Present
<1> QED
  BY <1>1, <1>3, <1>4, <1>6 DEF Deleting, Listed, Present

\* A deletion takes all rows of the profile along.
LEMMA UserKeepsRows ==
    ASSUME Typed, RowsHaveProfile, UserStep
    PROVE  RowsHaveProfile'
<1>0. /\ profile \in [Profiles -> {"unused", "present", "deleted"}]
      /\ cache \in [Profiles -> SUBSET Resources]
      /\ sync \in [Profiles -> {"none", "idle", "syncing", "error"}]
      /\ avatar \in [Profiles -> [file : BOOLEAN, row : BOOLEAN]]
  BY DEF Typed, TypeOK
<1>1. CASE DeleteDrop
  <2> SUFFICES ASSUME NEW p \in Profiles, profile'[p] # "present"
               PROVE  cache'[p] = {} /\ sync'[p] = "none" /\ ~avatar'[p].row
    BY DEF RowsHaveProfile
  <2>1. CASE p = ui.profile
    <3>1. cache'[p] = {} /\ sync'[p] = "none"
      BY <1>0, <1>1, <2>1 DEF DeleteDrop
    <3>2. avatar'[p] = [file |-> avatar[p].file /\ ~ui.avatarRow, row |-> FALSE]
      BY <1>0, <1>1, <2>1 DEF DeleteDrop
    <3> QED
      BY <3>1, <3>2
  <2>2. CASE p # ui.profile
    <3>1. /\ profile'[p] = profile[p] /\ cache'[p] = cache[p] /\ sync'[p] = sync[p]
          /\ avatar'[p] = avatar[p]
      BY <1>0, <1>1, <2>2 DEF DeleteDrop
    <3> QED
      BY <3>1 DEF RowsHaveProfile
  <2> QED
    BY <2>1, <2>2
<1>2. CASE ClearMonth
  BY <1>0, <1>2 DEF ClearMonth, RowsHaveProfile, Present
<1>3. CASE UNCHANGED <<profile, cache, sync, avatar>>
  BY <1>3 DEF RowsHaveProfile
<1> QED
  BY <1>1, <1>2, <1>3
     DEF UserStep, Return, Start, StartSync, CancelJob, PollBegin, SelectProfile,
         AskOverview, DeleteBegin, Shutdown, Time, PollRender, PollErase, AnswerOverview,
         Closed, store

\* Only the deletion of a profile takes jobs that run off the list.
LEMMA UserKeepsEntries ==
    ASSUME Typed, UserStep, NEW k \in Jobs, Live(k)',
           \A p \in Profiles : ~DeleteBegin(p) /\ ~StartSync(k, p),
           job'[k].kind = "sync"
    PROVE  Live(k) /\ job'[k].entry = job[k].entry
<1>0. job \in [Jobs -> Job \cup {NoJob}]
  BY DEF Typed, TypeOK
<1>1. /\ Live(k) /\ Sound(job[k])
      /\ job'[k] = job[k] \/ Flagged(job[k], job'[k])
  BY UserJobs DEF Flagged, Live, Started, Typed
<1>2. \A those : Cancelled(those)[k].entry = job[k].entry
  BY <1>1 DEF Cancelled, Sound, Job
<1>3. CASE \E j \in Jobs, r \in Providers : Start(j, r)
  BY <1>0, <1>1, <1>3 DEF Start, Fresh, Live, Started
<1>4. CASE \E j \in Jobs, p \in Profiles : StartSync(j, p)
  <2>1. PICK j \in Jobs, p \in Profiles : StartSync(j, p)
    BY <1>4
  <2>2. k # j
    BY <2>1
  <2>3. PICK those : \E new : job' = [Cancelled(those) EXCEPT ![j] = new]
    BY <2>1 DEF StartSync
  <2>4. job'[k] = Cancelled(those)[k]
    BY <2>2, <2>3 DEF Cancelled
  <2> QED
    BY <1>1, <1>2, <2>4
<1>5. CASE (\E j \in Jobs : CancelJob(j)) \/ (\E p \in Profiles : SelectProfile(p)) \/ Shutdown
  BY <1>1, <1>2, <1>5 DEF CancelJob, SelectProfile, Shutdown
<1>6. CASE \E j \in Jobs : PollBegin(j)
  <2>1. PICK j \in Jobs : job' = [job EXCEPT ![j] = [job[j] EXCEPT !.joined = job[j].finished]]
    BY <1>6 DEF PollBegin
  <2> QED
    BY <1>0, <1>1, <2>1 DEF Sound, Job
<1>9. CASE PollRender
  <2>1. job' = [job EXCEPT ![ui.job] = [job[ui.job] EXCEPT !.reported = job[ui.job].finished]]
    BY <1>9 DEF PollRender
  <2> QED
    BY <1>0, <1>1, <2>1 DEF Sound, Job
<1>7. CASE PollErase
  <2>1. CASE ui.job = k
    <3>1. ~job[k].finished
      BY <1>1 DEF Live
    <3> QED
      BY <1>0, <1>1, <1>7, <2>1, <3>1 DEF PollErase, Sound, Job
  <2>2. CASE ui.job # k
    BY <1>0, <1>1, <1>7, <2>2 DEF PollErase
  <2> QED
    BY <2>1, <2>2
<1>8. CASE UNCHANGED job
  BY <1>1, <1>8
<1> QED
  BY <1>3, <1>4, <1>5, <1>6, <1>7, <1>8, <1>9
     DEF UserStep, Return, AskOverview, ClearMonth, Time, AnswerOverview, DeleteDrop, Closed

\* A profile is deleted when its synchronisations were joined.
LEMMA UserKeepsSyncs ==
    ASSUME Typed, SyncsHaveProfile, UserStep
    PROVE  SyncsHaveProfile'
<1>0. profile \in [Profiles -> {"unused", "present", "deleted"}]
  BY DEF Typed, TypeOK
<1> SUFFICES ASSUME NEW k \in Jobs, Live(k)', job'[k].kind = "sync"
             PROVE  /\ job'[k].bound
                    /\ job'[k].profile # NoProfile /\ profile'[job'[k].profile] = "present"
                    /\ IF ui'.pc = "join" /\ ui'.profile = job'[k].profile
                       THEN k \in ui'.join ELSE job'[k].entry = "listed"
  BY DEF SyncsHaveProfile, Deleting, Present, Listed, Live
<1>1. CASE \E p \in Profiles : StartSync(k, p)
  <2>1. PICK p \in Profiles : StartSync(k, p)
    BY <1>1
  <2>2. job'[k] = NewJob("sync", ProviderOf[p], p, "begin")
    BY <2>1 DEF StartSync, Cancelled
  <2>3. job'[k].profile = p /\ job'[k].bound /\ job'[k].entry = "listed"
    <3> DEFINE new == NewJob("sync", ProviderOf[p], p, "begin")
    <3>1. new.profile = p /\ new.bound /\ new.entry = "listed"
      BY JobAssumption DEF NewJob
    <3> QED
      BY <2>2, <3>1
  <2>4. ui' = ui /\ ui.pc = "idle" /\ profile' = profile /\ Present(p)
    BY <2>1 DEF StartSync, Call, store
  <2> QED
    BY <2>3, <2>4 DEF Present
<1>2. CASE \A p \in Profiles : ~StartSync(k, p)
  <2>1. /\ Live(k) /\ job[k].kind = "sync" /\ job[k] \in Job /\ Sound(job[k])
        /\ job'[k].profile = job[k].profile /\ job'[k].bound = job[k].bound
    BY <1>2, UserJobs DEF Flagged, Live, Started, Typed, Sound
  <2>2. /\ job[k].bound /\ Present(job[k].profile) /\ job[k].profile \in Profiles
        /\ IF Deleting(job[k].profile) THEN k \in ui.join ELSE Listed(k)
    BY <2>1 DEF SyncsHaveProfile, Present, Job
  <2>3. CASE \E p \in Profiles : DeleteBegin(p)
    <3>1. PICK p \in Profiles : DeleteBegin(p)
      BY <2>3
    <3>2. ui.pc = "idle" /\ profile' = profile
      BY <3>1 DEF DeleteBegin, Call, store
    <3>3. Listed(k)
      BY <2>2, <3>2 DEF Deleting
    <3>4. ui'.pc = "join" /\ ui'.profile = p /\ ui'.join = BoundTo(p)
      BY <3>1 DEF DeleteBegin
    <3>5. CASE job[k].profile = p
      BY <2>1, <2>2, <3>2, <3>3, <3>4, <3>5 DEF BoundTo, Present
    <3>6. CASE job[k].profile # p
      <4>1. job'[k] = job[k]
        BY <3>1, <3>6 DEF DeleteBegin, BoundTo
      <4> QED
        BY <2>1, <2>2, <3>2, <3>3, <3>4, <3>6, <4>1 DEF Present, Listed
    <3> QED
      BY <3>5, <3>6
  <2>4. CASE \A p \in Profiles : ~DeleteBegin(p)
    <3>1. job'[k].entry = job[k].entry
      BY <1>2, <2>4, UserKeepsEntries
    <3>2. CASE DeleteDrop
      <4>1. job' = job /\ ui' = Idle
        BY <3>2 DEF DeleteDrop
      <4>2. ~Deleting(job[k].profile)
        <5>1. ASSUME Deleting(job[k].profile)
              PROVE  FALSE
          <6>1. job[k].pc = "done"
            BY <2>2, <3>2, <5>1 DEF DeleteDrop, Joined
          <6> QED
            BY <2>1, <6>1 DEF Sound, Live
        <5> QED
          BY <5>1
      <4>3. profile'[job[k].profile] = "present"
        BY <1>0, <2>1, <2>2, <3>2, <4>2 DEF DeleteDrop, Present, Deleting
      <4> QED
        BY <2>1, <2>2, <4>1, <4>2, <4>3 DEF Idle, Listed, Present
    <3>3. CASE ~DeleteDrop
      <4>1. profile' = profile
        BY <2>4, <3>3
           DEF UserStep, Return, Start, StartSync, CancelJob, PollBegin, SelectProfile,
               AskOverview, ClearMonth, Shutdown, Time, PollRender, PollErase,
               AnswerOverview, Closed, store
      <4>2. ui' = ui \/ (ui.pc # "join" /\ ui'.pc # "join")
        <5>1. ui \in Ui
          BY DEF Typed, TypeOK
        <5>2. CASE PollRender
          BY <5>1, <5>2 DEF PollRender, Ui
        <5>3. CASE \E j \in Jobs : PollBegin(j)
          BY <5>3 DEF PollBegin, Call, Idle
        <5>4. CASE \E p \in Profiles : AskOverview(p)
          BY <5>4 DEF AskOverview, Call, Idle
        <5>5. CASE Shutdown
          BY <5>5 DEF Shutdown, Call, Idle
        <5>6. CASE Closed
          BY <5>6 DEF Closed, Idle
        <5>7. CASE PollErase \/ AnswerOverview
          BY <5>7 DEF PollErase, AnswerOverview, Idle
        <5> QED
          BY <2>4, <3>3, <5>2, <5>3, <5>4, <5>5, <5>6, <5>7
             DEF UserStep, Return, Start, StartSync, CancelJob, SelectProfile, ClearMonth,
                 Time
      <4> QED
        BY <2>1, <2>2, <3>1, <4>1, <4>2 DEF Deleting, Listed, Present
    <3> QED
      BY <3>2, <3>3
  <2> QED
    BY <2>3, <2>4
<1> QED
  BY <1>1, <1>2

\* When a profile is deleted nothing of it is left, and every synchronisation
\* of it has ended: none is overlooked by the call that deletes it, and none
\* writes after that.
THEOREM DeletedIsGone == Spec => []NothingForDeleted
<1> DEFINE IInv == Typed /\ RowsHaveProfile /\ SyncsHaveProfile
<1>1. Init => IInv
  <2> SUFFICES ASSUME Init PROVE IInv
    OBVIOUS
  <2>1. RowsHaveProfile
    BY DEF Init, RowsHaveProfile
  <2>2. SyncsHaveProfile
    BY DEF Init, SyncsHaveProfile, Live, Started
  <2> QED
    BY <2>1, <2>2, InitIsTyped
<1>2. IInv /\ [Next]_vars => IInv'
  <2> SUFFICES ASSUME IInv, [Next]_vars PROVE IInv'
    OBVIOUS
  <2>1. CASE UNCHANGED vars
    BY <2>1, NextIsTyped
       DEF vars, RowsHaveProfile, SyncsHaveProfile, Live, Listed, Started, Deleting, Present
  <2>2. CASE Next
    BY <2>2, NextIsTyped, NextSplits, WorkKeepsRows, WorkKeepsSyncs, UserKeepsRows,
       UserKeepsSyncs
  <2> QED
    BY <2>1, <2>2
<1>3. IInv => NothingForDeleted
  BY DEF Typed, RowsHaveProfile, SyncsHaveProfile, NothingForDeleted, Live, Present
<1> QED
  BY <1>1, <1>2, <1>3, PTL DEF Spec

------------------------------------------------------------------------------
(* What a job that goes on has stored.                                      *)

Listing == {"profile", "stats", "months"}

\* What is stored before a task begins, and once it has been done.
Before(task) ==
    CASE task = "profile" -> {}
      [] task \in {"avatar", "stats"} -> {"profile"}
      [] task = "months" -> {"profile", "stats"}
      [] task = "games" -> Listing

Through(v, c) == Before(v.task) \subseteq c /\ {v.task} \cap Listing \subseteq c

\* What a job that is known to write profile v.profile finds in the cache c of
\* it.  The validators of a request are those of a row.
Behind(v, c) ==
    /\ v.pc \notin {"activate", "select", "describe", "bind"}
    /\ v.pc \in {"check", "fetch", "sent", "store"} => Before(v.task) \subseteq c
    /\ v.pc \in {"fetch", "sent"} /\ v.validators => {v.task} \cap Listing \subseteq c
    /\ v.pc \in {"avatar", "image"} => v.task \in {"profile", "avatar"} /\ "profile" \in c
    /\ v.pc = "settle" => Listing \subseteq c
    /\ v.pc = "overview" /\ ~v.warned => Listing \subseteq c
    /\ v.outcome = "complete" /\ ~v.warned => Listing \subseteq c

\* A job of a profile that is there has stored what its point says; no job
\* knows a profile that is not used yet.
StoredBehind ==
    \A j \in Jobs : Started(j) =>
        /\ job[j].profile # NoProfile => profile[job[j].profile] # "unused"
        /\ Persists(j) /\ job[j].bound /\ Present(job[j].profile)
              => Behind(job[j], cache[job[j].profile])

\* Only the resources of the listing count, so others may come and go.
LEMMA BehindKept ==
    ASSUME NEW v \in Job, NEW c, NEW d, Behind(v, c), c \cap Listing \subseteq d
    PROVE  Behind(v, d)
<1>1. v.task \in Tasks
  BY DEF Job
<1>2. Before(v.task) \subseteq Listing
  BY <1>1 DEF Before, Listing, Tasks, Resources
<1>3. "profile" \in Listing
  BY DEF Listing
<1> HIDE DEF Listing, Before
<1> QED
  BY <1>2, <1>3 DEF Behind

\* A job may go to a task when those before it are stored.
LEMMA ToTaskBehind ==
    ASSUME NEW v \in Job, NEW c, NEW task \in Resources, v.outcome = "running",
           Before(task) \subseteq c
    PROVE  Behind(ToTask(v, task), c)
<1>1. /\ ToTask(v, task).task = task /\ ToTask(v, task).validators = FALSE
      /\ ToTask(v, task).outcome = "running"
  BY DEF ToTask, Job
<1>2. ToTask(v, task).pc \in {"check", "store", "fetch"}
  BY DEF ToTask, Job
<1> QED
  BY <1>1, <1>2 DEF Behind

\* Through with one task, a job begins the next with all it takes.
LEMMA AfterTaskBehind ==
    ASSUME NEW v \in Job, NEW c, v.kind \in {"create", "sync"}, v.bound,
           v.outcome = "running", Through(v, c)
    PROVE  Behind(AfterTask(v), c)
<1>1. CASE v.task \in {"profile", "avatar"}
  <2>1. AfterTask(v) = ToTask(v, "stats")
    BY <1>1 DEF AfterTask
  <2>2. Before("stats") \subseteq c
    BY <1>1 DEF Through, Before, Listing
  <2> QED
    BY <2>1, <2>2, ToTaskBehind DEF Resources
<1>2. CASE v.task = "stats"
  <2>1. AfterTask(v) = ToTask(v, "months")
    BY <1>2 DEF AfterTask
  <2>2. Before("months") \subseteq c
    BY <1>2 DEF Through, Before, Listing
  <2> QED
    BY <2>1, <2>2, ToTaskBehind DEF Resources
<1>3. CASE v.task = "months"
  <2>1. AfterTask(v) = ToTask(v, "games")
    BY <1>3 DEF AfterTask
  <2>2. Before("games") \subseteq c
    BY <1>3 DEF Through, Before, Listing
  <2> QED
    BY <2>1, <2>2, ToTaskBehind DEF Resources
<1>4. CASE v.task = "games"
  <2>1. AfterTask(v) = [v EXCEPT !.pc = "settle"]
    BY <1>4 DEF AfterTask
  <2>2. Listing \subseteq c
    BY <1>4 DEF Through, Before
  <2>3. AfterTask(v).pc = "settle" /\ AfterTask(v).outcome = "running"
    BY <2>1 DEF Job
  <2> QED
    BY <2>2, <2>3 DEF Behind
<1> QED
  BY <1>1, <1>2, <1>3, <1>4 DEF Job, Tasks, Resources

\* A job that fails has nothing to show ...
LEMMA RaiseBehind ==
    ASSUME NEW v \in Job, NEW c, v.kind \in {"create", "sync"}, v.bound,
           v.outcome = "running"
    PROVE  Behind(Raise(v), c)
<1>1. Raise(v) = [v EXCEPT !.pc = "fail"]
  BY DEF Raise
<1> QED
  BY <1>1 DEF Behind, Job

\* ... nor has one that ends with an error.
LEMMA ErrorBehind ==
    ASSUME NEW v \in Job, NEW c
    PROVE  Behind(ToFinish(v, "error"), c)
BY DEF ToFinish, Behind, Job

\* An answer is taken for no more than it is: "not modified" needs a row, and
\* a task whose request failed is not gone on from.
LEMMA DigestBehind ==
    ASSUME NEW v \in Job, NEW c, NEW a, v.kind \in {"create", "sync"}, v.bound,
           v.outcome = "running", v.pc \in {"fetch", "sent"}, Behind(v, c),
           a.error = "notModified" => v.validators
    PROVE  Behind(Digest(v, a), c)
<1>1. Before(v.task) \subseteq c
  BY DEF Behind
<1>2. CASE v.task = "avatar"
  <2>1. Through(v, c) /\ "profile" \in c
    BY <1>1, <1>2 DEF Through, Before, Listing
  <2>2. Digest(v, a) = [v EXCEPT !.pc = "image"] \/ Digest(v, a) = AfterTask(v)
    BY <1>2 DEF Digest
  <2>3. Behind([v EXCEPT !.pc = "image"], c)
    BY <1>2, <2>1 DEF Behind, Job
  <2> QED
    BY <2>1, <2>2, <2>3, AfterTaskBehind
<1>3. CASE v.task # "avatar"
  <2>1. CASE a.error = "notModified"
    <3>1. Digest(v, a) = AfterTask(v)
      BY <1>3, <2>1 DEF Digest
    <3>2. Through(v, c)
      BY <1>1, <2>1 DEF Behind, Through
    <3> QED
      BY <3>1, <3>2, AfterTaskBehind
  <2>2. CASE a.error # "notModified"
    <3>1. Digest(v, a) = MoreRequests(v) \/ Digest(v, a) = Raise(v)
      BY <1>3, <2>2 DEF Digest
    <3>2. Behind(MoreRequests(v), c)
      <4>1. /\ MoreRequests(v).pc \in {"fetch", "store"} /\ MoreRequests(v).task = v.task
            /\ MoreRequests(v).validators = v.validators
            /\ MoreRequests(v).outcome = v.outcome
        BY DEF MoreRequests, Job
      <4> QED
        BY <1>1, <4>1 DEF Behind
    <3> QED
      BY <3>1, <3>2, RaiseBehind
  <2> QED
    BY <2>1, <2>2
<1> QED
  BY <1>2, <1>3

\* A worker goes past a task only when its answer is stored.
LEMMA WorkBehind ==
    ASSUME Typed, StoredBehind, NEW j \in Jobs, WorkerStep(j), Persists(j), job[j].bound,
           Present(job[j].profile)
    PROVE  Behind(job'[j], cache'[job[j].profile])
<1> DEFINE v == job[j]
           c == cache[v.profile]
<1>0. /\ job \in [Jobs -> Job \cup {NoJob}]
      /\ cache \in [Profiles -> SUBSET Resources]
  BY DEF Typed, TypeOK
<1>1. v \in Job /\ Sound(v) /\ ~v.finished /\ v.profile \in Profiles
  <2>1. Live(j)
    BY WorkProgress
  <2> QED
    BY <2>1, StartedSound DEF Live, Present, Job
<1>2. v.kind \in {"create", "sync"} /\ Behind(v, c)
  <2>1. Started(j)
    BY WorkProgress DEF Live
  <2> QED
    BY <2>1 DEF StoredBehind, Persists
<1>3. v.pc # "done" => v.outcome = "running"
  BY <1>1 DEF Sound
<1>4. v.pc # "done" => Behind(Raise(v), c)
  BY <1>1, <1>2, <1>3, RaiseBehind
<1>5. v.pc # "done" /\ Through(v, c) => Behind(AfterTask(v), c)
  BY <1>1, <1>2, <1>3, AfterTaskBehind
<1>6. v.pc \in {"fetch", "sent"} =>
        \A a : (a.error = "notModified" => v.validators) => Behind(Digest(v, a), c)
  BY <1>1, <1>2, <1>3, DigestBehind
<1>7. CASE Fetch(j)
  <2>1. job'[j] = [v EXCEPT !.pc = "sent"] /\ v.pc = "fetch" /\ cache' = cache
    BY <1>0, <1>7 DEF Fetch, At, Goto, store
  <2> QED
    BY <1>1, <1>2, <1>3, <2>1 DEF Behind, Job
<1>8. CASE Refuse(j)
  <2>1. /\ v.pc = "fetch" /\ cache' = cache
        /\ job'[j] = Digest(v, [error |-> "rateLimited", retryAfter |-> 0])
    BY <1>0, <1>8 DEF Refuse, At, store
  <2> QED
    BY <1>6, <2>1
<1>9. CASE Respond(j)
  <2>1. v.pc = "sent" /\ cache' = cache
    BY <1>9 DEF Respond, At, store
  <2>2. \E a : (a.error = "notModified" => v.validators) /\ job'[j] = Digest(v, a)
    BY <1>0, <1>9 DEF Respond
  <2> QED
    BY <1>6, <2>1, <2>2
<1>10. CASE Check(j)
  <2>1. v.pc = "check" /\ cache' = cache /\ v.task \in Resources
    BY <1>1, <1>10 DEF Check, At, store, Sound
  <2>2. Before(v.task) \subseteq c
    BY <1>2, <2>1 DEF Behind
  <2>3. CASE job'[j] = Raise(v)
    BY <1>4, <2>1, <2>3
  <2>4. CASE Cached(v) /\ job'[j] = AfterTask(v)
    <3>1. Through(v, c)
      BY <2>2, <2>4 DEF Cached, Through
    <3> QED
      BY <1>5, <2>1, <2>4, <3>1
  <2>5. CASE ~(job'[j] = Raise(v) \/ (Cached(v) /\ job'[j] = AfterTask(v)))
    <3>1. job'[j] = [v EXCEPT !.pc = IF v.left = 0 THEN "store" ELSE "fetch",
                              !.validators = /\ Cached(v)
                                             /\ ~(v.task = "stats" /\ v.provider \in Lichess)]
      BY <1>0, <1>10, <2>5 DEF Check, Advance
    <3>2. /\ job'[j].pc \in {"store", "fetch"} /\ job'[j].task = v.task
          /\ job'[j].outcome = v.outcome
      BY <1>1, <3>1 DEF Job
    <3>3. job'[j].validators = (Cached(v) /\ ~(v.task = "stats" /\ v.provider \in Lichess))
      BY <1>1, <3>1 DEF Job
    <3>4. job'[j].validators => v.task \in c
      BY <3>3, Zenon DEF Cached
    <3> QED
      BY <1>3, <2>1, <2>2, <3>2, <3>4 DEF Behind
  <2> QED
    BY <2>3, <2>4, <2>5
<1>11. CASE Store(j)
  <2>1. /\ v.pc = "store" /\ v.task \in Resources
        /\ cache'[v.profile] = c \cup {v.task}
    BY <1>0, <1>1, <1>11 DEF Store, At, Sound
  <2>2. Through(v, cache'[v.profile])
    BY <1>2, <2>1 DEF Behind, Through
  <2>3. CASE v.task = "profile"
    <3>1. job'[j] = [v EXCEPT !.pc = "avatar"]
      BY <1>0, <1>11, <2>3 DEF Store, Goto
    <3> QED
      BY <1>1, <1>3, <2>1, <2>3, <3>1 DEF Behind, Job
  <2>4. CASE v.task # "profile"
    <3>1. job'[j] = AfterTask(v)
      BY <1>0, <1>11, <2>4 DEF Store, Advance
    <3> QED
      BY <1>1, <1>2, <1>3, <2>1, <2>2, <3>1, AfterTaskBehind
  <2> QED
    BY <2>3, <2>4
<1>12. CASE Avatar(j)
  <2>1. v.pc = "avatar" /\ cache' = cache
    BY <1>12 DEF Avatar, At, store
  <2>2. v.task \in {"profile", "avatar"} /\ "profile" \in c
    BY <1>2, <2>1 DEF Behind
  <2>3. Through(v, c)
    BY <2>2 DEF Through, Before, Listing
  <2>4. CASE job'[j] = AfterTask(v)
    BY <1>5, <2>1, <2>3, <2>4
  <2>5. CASE job'[j] = [v EXCEPT !.pc = "image"]
    BY <1>1, <1>3, <2>1, <2>2, <2>5 DEF Behind, Job
  <2>6. CASE job'[j] = [v EXCEPT !.pc = "fetch", !.task = "avatar", !.left = 1]
    <3>1. Before("avatar") \subseteq c /\ {"avatar"} \cap Listing = {}
      BY <2>2 DEF Before, Listing
    <3>2. /\ job'[j].pc = "fetch" /\ job'[j].task = "avatar" /\ job'[j].outcome = v.outcome
      BY <1>1, <2>6 DEF Job
    <3> QED
      BY <1>3, <2>1, <3>1, <3>2 DEF Behind
  <2> QED
    BY <1>0, <1>12, <2>4, <2>5, <2>6 DEF Avatar, Advance, Goto
<1>13. CASE Image(j)
  <2>1. v.pc = "image" /\ cache' = cache /\ job'[j] = AfterTask(v)
    BY <1>0, <1>13 DEF Image, At, Advance
  <2>2. v.task \in {"profile", "avatar"} /\ "profile" \in c
    BY <1>2, <2>1 DEF Behind
  <2>3. Through(v, c)
    BY <2>2 DEF Through, Before, Listing
  <2> QED
    BY <1>5, <2>1, <2>3
<1>14. CASE Begin(j)
  <2>1. v.pc = "begin" /\ cache' = cache /\ job'[j] = ToTask(v, "profile")
    BY <1>0, <1>14 DEF Begin, At
  <2>2. Before("profile") \subseteq c
    BY DEF Before
  <2> QED
    BY <1>1, <1>3, <2>1, <2>2, ToTaskBehind DEF Resources
<1>15. CASE Settle(j)
  <2>1. v.pc = "settle" /\ cache' = cache /\ job'[j] = [v EXCEPT !.pc = "overview"]
    BY <1>0, <1>15 DEF Settle, At, Goto
  <2>2. Listing \subseteq c
    BY <1>2, <2>1 DEF Behind
  <2> QED
    BY <1>1, <1>3, <2>1, <2>2 DEF Behind, Job
<1>16. CASE Fail(j)
  <2>1. v.pc = "fail" /\ cache' = cache
    BY <1>16 DEF Fail, At
  <2>2. CASE job'[j] = ToFinish(v, "error")
    BY <1>1, <2>1, <2>2, ErrorBehind
  <2>3. CASE job'[j] = [v EXCEPT !.pc = "overview", !.warned = TRUE]
    BY <1>1, <1>3, <2>1, <2>3 DEF Behind, Job
  <2> QED
    BY <1>0, <1>16, <2>2, <2>3 DEF Fail
<1>17. CASE Overview(j)
  <2>1. v.pc = "overview" /\ cache' = cache /\ job'[j] = ToFinish(v, "complete")
    BY <1>0, <1>17 DEF Overview, At, store
  <2>2. ~v.warned => Listing \subseteq c
    BY <1>2, <2>1 DEF Behind
  <2>3. job'[j].pc = "done" /\ job'[j].warned = v.warned
    BY <1>1, <2>1 DEF ToFinish, Job
  <2> QED
    BY <2>1, <2>2, <2>3 DEF Behind
<1>18. CASE Fault(j)
  <2>1. job'[j] = ToFinish(v, "error") /\ cache' = cache
    BY <1>18, FaultEnds
  <2> QED
    BY <1>1, <2>1, ErrorBehind
<1> QED
  BY <1>2, <1>7, <1>8, <1>9, <1>10, <1>11, <1>12, <1>13, <1>14, <1>15, <1>16, <1>17, <1>18
     DEF WorkerStep, Work, Behind, Insert, Activate, Select, Describe, Bind, Tally, At

\* Workers add to the caches only, and begin to use one profile at a time.
LEMMA WorkStore ==
    ASSUME Typed, NEW j \in Jobs, WorkerStep(j), NEW p \in Profiles
    PROVE  /\ cache[p] \subseteq cache'[p]
           /\ profile'[p] = profile[p] \/ (profile[p] = "unused" /\ profile'[p] = "present")
<1>1. /\ profile \in [Profiles -> {"unused", "present", "deleted"}]
      /\ cache \in [Profiles -> SUBSET Resources]
  BY DEF Typed, TypeOK
<1>2. cache[p] \subseteq cache'[p]
  <2>1. UNCHANGED cache \/ Store(j) \/ Describe(j)
    BY DEF WorkerStep, Work, Fault, Fetch, Refuse, Respond, Check, Avatar, Image,
        Insert, Activate, Select, Bind, Begin, Settle, Fail, Overview, Tally, store
  <2>2. CASE Store(j)
    BY <1>1, <2>2 DEF Store
  <2>3. CASE Describe(j)
    BY <1>1, <2>3 DEF Describe
  <2> QED
    BY <2>1, <2>2, <2>3
<1>3. UNCHANGED profile \/ Insert(j)
  BY DEF WorkerStep, Work, Fault, Fetch, Refuse, Respond, Check, Store, Avatar, Image,
      Activate, Select, Describe, Bind, Begin, Settle, Fail, Overview, Tally, store
<1>4. profile'[p] = profile[p] \/ (profile[p] = "unused" /\ profile'[p] = "present")
  BY <1>1, <1>3 DEF Insert
<1> QED
  BY <1>2, <1>4

\* Only two steps tell a worker what profile it works for.
LEMMA WorkSame ==
    ASSUME Typed, NEW j \in Jobs, WorkerStep(j), ~Insert(j), ~Bind(j)
    PROVE  job'[j].profile = job[j].profile /\ job'[j].bound = job[j].bound
<1> DEFINE v == job[j]
           Keeps(w) == w.profile = v.profile /\ w.bound = v.bound
<1>0. job \in [Jobs -> Job \cup {NoJob}]
  BY DEF Typed, TypeOK
<1>1. v \in Job /\ Sound(v) /\ ~v.finished
  <2>1. Live(j)
    BY WorkProgress
  <2> QED
    BY <2>1, StartedSound DEF Live
<1>2. v.pc # "done" => v.outcome = "running"
  BY <1>1 DEF Sound
<1>3. v.pc # "done" =>
        /\ Keeps(AfterTask(v)) /\ Keeps(Raise(v))
        /\ \A task \in Resources : Keeps(ToTask(v, task))
  BY <1>1, <1>2, AfterTaskOnward, RaiseOnward, ToTaskOnward DEF Onward, Same
<1>4. v.pc \in {"fetch", "sent"} => \A a : Keeps(Digest(v, a))
  BY <1>1, <1>2, DigestOnward DEF Onward, Same, Sound
<1>5. Keeps(ToFinish(v, "error")) /\ Keeps(ToFinish(v, "complete"))
  BY <1>1, ToFinishSound DEF Same
<1>6. \A pc \in WorkerPoints : Keeps([v EXCEPT !.pc = pc])
  BY <1>1 DEF Job
<1> HIDE DEF Keeps
<1> SUFFICES Keeps(job'[j])
  BY DEF Keeps
<1>7. CASE Fetch(j)
  BY <1>0, <1>6, <1>7 DEF Fetch, Goto, WorkerPoints
<1>8. CASE Refuse(j)
  BY <1>0, <1>4, <1>8 DEF Refuse, At
<1>9. CASE Respond(j)
  BY <1>0, <1>4, <1>9 DEF Respond, At
<1>10. CASE Check(j)
  <2>1. v.pc = "check"
    BY <1>10 DEF Check, At
  <2>2. CASE job'[j] = Raise(v) \/ job'[j] = AfterTask(v)
    BY <1>3, <2>1, <2>2
  <2>3. CASE ~(job'[j] = Raise(v) \/ job'[j] = AfterTask(v))
    <3>1. PICK pc \in WorkerPoints, b \in BOOLEAN :
            job'[j] = [v EXCEPT !.pc = pc, !.validators = b]
      BY <1>0, <1>10, <2>3 DEF Check, Advance, WorkerPoints
    <3> QED
      BY <1>1, <3>1 DEF Keeps, Job
  <2> QED
    BY <2>2, <2>3
<1>11. CASE Store(j)
  BY <1>0, <1>3, <1>5, <1>6, <1>11 DEF Store, At, Goto, Advance, Abort, WorkerPoints
<1>12. CASE Avatar(j)
  <2>1. CASE job'[j] = AfterTask(v) \/ job'[j] = [v EXCEPT !.pc = "image"]
    BY <1>3, <1>6, <1>12, <2>1 DEF Avatar, At, WorkerPoints
  <2>2. CASE job'[j] = [v EXCEPT !.pc = "fetch", !.task = "avatar", !.left = 1]
    BY <1>1, <2>2 DEF Keeps, Job
  <2> QED
    BY <1>0, <1>12, <2>1, <2>2 DEF Avatar, Advance, Goto
<1>13. CASE Image(j)
  BY <1>0, <1>3, <1>13 DEF Image, At, Advance
<1>14. CASE Activate(j) \/ Select(j) \/ Describe(j) \/ Settle(j)
  BY <1>0, <1>5, <1>6, <1>14 DEF Activate, Select, Describe, Settle, Goto, Abort, WorkerPoints
<1>15. CASE Begin(j)
  BY <1>0, <1>3, <1>5, <1>15 DEF Begin, At, Abort, Resources
<1>16. CASE Fail(j)
  <2>1. Keeps([v EXCEPT !.pc = "overview", !.warned = TRUE])
    BY <1>1 DEF Keeps, Job
  <2> QED
    BY <1>0, <1>5, <1>16, <2>1 DEF Fail, Abort
<1>17. CASE Overview(j)
  BY <1>0, <1>5, <1>17 DEF Overview, Abort
<1>18. CASE Tally(j)
  <2>1. CASE \E n \in 1..ReportMonths :
               job' = [job EXCEPT ![j].task = "games", ![j].left = n, ![j].pc = "check"]
    <3>1. PICK n \in 1..ReportMonths :
            job' = [job EXCEPT ![j] = [v EXCEPT !.task = "games", !.left = n, !.pc = "check"]]
      BY <2>1
    <3>2. job'[j] = [v EXCEPT !.task = "games", !.left = n, !.pc = "check"]
      BY <1>0, <3>1
    <3> QED
      BY <1>1, <3>2 DEF Keeps, Job
  <2> QED
    BY <1>0, <1>3, <1>5, <1>6, <1>18, <2>1 DEF Tally, At, Advance, Goto, WorkerPoints
<1>19. CASE Fault(j)
  BY <1>5, <1>19, FaultEnds
<1> QED
  BY <1>7, <1>8, <1>9, <1>10, <1>11, <1>12, <1>13, <1>14, <1>15, <1>16, <1>17, <1>18, <1>19
     DEF WorkerStep, Work

\* Every step of a worker keeps what jobs have stored.
LEMMA WorkKeepsStored ==
    ASSUME Typed, StoredBehind, NEW j \in Jobs, WorkerStep(j)
    PROVE  StoredBehind'
<1>0. job \in [Jobs -> Job \cup {NoJob}]
      /\ profile \in [Profiles -> {"unused", "present", "deleted"}]
  BY DEF Typed, TypeOK
<1>1. /\ Live(j) /\ Progress(job[j], job'[j])
      /\ \A k \in Jobs \ {j} : job'[k] = job[k]
  BY <1>0, WorkProgress
<1>2. job[j] \in Job /\ job'[j] \in Job
  BY <1>1, StartedSound DEF Live, Progress, Sound
<1>3. ASSUME NEW k \in Jobs, k # j, Started(k)
      PROVE  /\ job[k].profile # NoProfile => profile'[job[k].profile] # "unused"
             /\ /\ job[k].kind \in {"create", "sync"} /\ job[k].bound
                /\ job[k].profile # NoProfile /\ profile'[job[k].profile] = "present"
                => Behind(job[k], cache'[job[k].profile])
  <2>1. job[k] \in Job /\ job[k].profile \in Profiles \cup {NoProfile}
    BY <1>3, StartedSound DEF Job
  <2>2. job[k].profile # NoProfile => profile[job[k].profile] # "unused"
    BY <1>3 DEF StoredBehind
  <2>3. job[k].profile # NoProfile => profile'[job[k].profile] = profile[job[k].profile]
    BY <2>1, <2>2, WorkStore
  <2>4. /\ job[k].kind \in {"create", "sync"} /\ job[k].bound /\ Present(job[k].profile)
        => Behind(job[k], cache'[job[k].profile])
    BY <1>3, <2>1, WorkStore, BehindKept DEF StoredBehind, Present, Persists
  <2> QED
    BY <2>2, <2>3, <2>4 DEF Present
<1>4. /\ job'[j].profile # NoProfile => profile'[job'[j].profile] # "unused"
      /\ /\ job'[j].kind \in {"create", "sync"} /\ job'[j].bound
         /\ job'[j].profile # NoProfile /\ profile'[job'[j].profile] = "present"
         => Behind(job'[j], cache'[job'[j].profile])
  <2>1. CASE job[j].bound
    <3>1. job'[j].kind = job[j].kind /\ job'[j].profile = job[j].profile
      BY <1>1, <2>1 DEF Progress
    <3>2. job[j].profile # NoProfile =>
            /\ profile[job[j].profile] # "unused"
            /\ profile'[job[j].profile] = profile[job[j].profile]
      BY <1>1, <1>2, WorkStore DEF StoredBehind, Live, Job
    <3>3. Persists(j) /\ Present(job[j].profile) => Behind(job'[j], cache'[job[j].profile])
      BY <2>1, WorkBehind
    <3> QED
      BY <3>1, <3>2, <3>3 DEF Persists, Present
  <2>2. CASE ~job[j].bound
    <3>1. CASE Insert(j)
      <4>1. PICK p \in Profiles :
              /\ profile' = [profile EXCEPT ![p] = "present"]
              /\ job' = [job EXCEPT ![j] = [job[j] EXCEPT !.profile = p, !.pc = "activate"]]
        BY <3>1 DEF Insert
      <4>2. job'[j] = [job[j] EXCEPT !.profile = p, !.pc = "activate"]
        BY <1>0, <4>1
      <4>3. job'[j].profile = p /\ job'[j].bound = job[j].bound
        BY <1>2, <4>2 DEF Job
      <4> QED
        BY <1>0, <2>2, <4>1, <4>3
    <3>2. CASE Bind(j)
      <4>1. /\ job[j].pc = "bind" /\ profile' = profile
            /\ job'[j] = [job[j] EXCEPT !.bound = TRUE, !.pc = "begin"]
        BY <1>0, <3>2 DEF Bind, At, store
      <4>2. /\ job'[j].profile = job[j].profile /\ job'[j].pc = "begin"
            /\ job'[j].outcome = job[j].outcome
        BY <1>2, <4>1 DEF Job
      <4>3. job[j].outcome = "running"
        BY <1>1, <4>1, StartedSound DEF Live, Sound
      <4>4. Behind(job'[j], cache'[job'[j].profile])
        BY <4>2, <4>3 DEF Behind
      <4>5. job[j].profile # NoProfile => profile[job[j].profile] # "unused"
        BY <1>1 DEF StoredBehind, Live
      <4> QED
        BY <4>1, <4>2, <4>4, <4>5
    <3>3. CASE ~Insert(j) /\ ~Bind(j)
      <4>1. job'[j].profile = job[j].profile /\ job'[j].bound = job[j].bound
        BY <2>2, <3>3, WorkSame
      <4>2. job[j].profile # NoProfile =>
              /\ profile[job[j].profile] # "unused"
              /\ profile'[job[j].profile] = profile[job[j].profile]
        BY <1>1, <1>2, WorkStore DEF StoredBehind, Live, Job
      <4> QED
        BY <2>2, <4>1, <4>2
    <3> QED
      BY <3>1, <3>2, <3>3
  <2> QED
    BY <2>1, <2>2
<1> SUFFICES ASSUME NEW k \in Jobs, job'[k] # NoJob
             PROVE  /\ job'[k].profile # NoProfile => profile'[job'[k].profile] # "unused"
                    /\ /\ job'[k].kind \in {"create", "sync"} /\ job'[k].bound
                       /\ job'[k].profile # NoProfile /\ profile'[job'[k].profile] = "present"
                       => Behind(job'[k], cache'[job'[k].profile])
  BY DEF StoredBehind, Started, Persists, Present, Behind
<1> QED
  BY <1>1, <1>3, <1>4 DEF Started

\* The other steps keep it as long as the profile is there.
LEMMA UserKeepsStored ==
    ASSUME Typed, StoredBehind, UserStep
    PROVE  StoredBehind'
<1>0. /\ profile \in [Profiles -> {"unused", "present", "deleted"}]
      /\ cache \in [Profiles -> SUBSET Resources]
  BY DEF Typed, TypeOK
<1>1. ASSUME NEW p \in Profiles
      PROVE  /\ profile'[p] = "unused" => profile[p] = "unused"
             /\ profile'[p] = "present" =>
                    profile[p] = "present" /\ cache[p] \cap Listing \subseteq cache'[p]
  <2>1. CASE DeleteDrop
    BY <1>0, <2>1 DEF DeleteDrop
  <2>2. CASE ClearMonth
    <3>1. cache'[p] = cache[p] \/ cache'[p] = cache[p] \ {"games"}
      BY <1>0, <2>2 DEF ClearMonth
    <3> QED
      BY <2>2, <3>1 DEF ClearMonth, Listing
  <2>3. CASE UNCHANGED <<profile, cache>>
    BY <2>3
  <2> QED
    BY <2>1, <2>2, <2>3
       DEF UserStep, Return, Start, StartSync, CancelJob, PollBegin, SelectProfile,
           AskOverview, DeleteBegin, Shutdown, Time, PollRender, PollErase,
           AnswerOverview, Closed, store
<1> SUFFICES ASSUME NEW k \in Jobs, job'[k] # NoJob
             PROVE  /\ job'[k].profile # NoProfile => profile'[job'[k].profile] # "unused"
                    /\ /\ job'[k].kind \in {"create", "sync"} /\ job'[k].bound
                       /\ job'[k].profile # NoProfile /\ profile'[job'[k].profile] = "present"
                       => Behind(job'[k], cache'[job'[k].profile])
  BY DEF StoredBehind, Started, Persists, Present, Behind
<1>2. CASE \E p \in Profiles : StartSync(k, p)
  <2>1. PICK p \in Profiles : StartSync(k, p)
    BY <1>2
  <2>2. job'[k] = NewJob("sync", ProviderOf[p], p, "begin")
    BY <2>1 DEF StartSync, Cancelled
  <2>3. job'[k].profile = p /\ job'[k].pc = "begin" /\ job'[k].outcome = "running"
    BY <2>2 DEF NewJob
  <2>4. profile'[p] = "present"
    BY <2>1 DEF StartSync, store, Present
  <2> QED
    BY <2>3, <2>4 DEF Behind
<1>3. CASE job'[k].profile = NoProfile /\ ~job'[k].bound
  BY <1>3
<1>4. CASE Started(k) /\ (job'[k] = job[k] \/ Flagged(job[k], job'[k]))
  <2>1. job[k] \in Job /\ job[k].profile \in Profiles \cup {NoProfile}
    BY <1>4, StartedSound DEF Job
  <2>2. /\ job'[k].kind = job[k].kind /\ job'[k].profile = job[k].profile
        /\ job'[k].bound = job[k].bound
    BY <1>4 DEF Flagged
  <2>3. job[k].profile # NoProfile => profile'[job[k].profile] # "unused"
    BY <1>1, <1>4, <2>1 DEF StoredBehind
  <2>4. ASSUME job[k].kind \in {"create", "sync"}, job[k].bound,
               job[k].profile # NoProfile, profile'[job[k].profile] = "present"
        PROVE  Behind(job'[k], cache'[job[k].profile])
    <3>1. Behind(job[k], cache[job[k].profile])
      BY <1>1, <1>4, <2>1, <2>4 DEF StoredBehind, Persists, Present
    <3>2. Behind(job[k], cache'[job[k].profile])
      BY <1>1, <2>1, <2>4, <3>1, BehindKept
    <3> QED
      BY <1>4, <3>2 DEF Flagged, Behind
  <2> QED
    BY <2>2, <2>3, <2>4
<1> QED
  BY <1>2, <1>3, <1>4, UserJobs DEF Started

\* A job that creates a profile does not go past that without being known for
\* it; one that synchronises is from its start.
Early(v) == v.pc \notin {"settle", "fail", "overview"} /\ v.outcome # "complete"

BoundFirst ==
    \A j \in Jobs : Started(j) =>
        /\ job[j].kind = "sync" => job[j].bound
        /\ job[j].kind = "create" /\ ~job[j].bound => Early(job[j])

\* A worker binds its job to the profile before it settles anything.
LEMMA WorkEarly ==
    ASSUME Typed, NEW j \in Jobs, WorkerStep(j), job[j].kind = "create", ~job[j].bound,
           Early(job[j])
    PROVE  job'[j].bound \/ Early(job'[j])
<1> DEFINE v == job[j]
<1>0. job \in [Jobs -> Job \cup {NoJob}]
  BY DEF Typed, TypeOK
<1>1. v \in Job /\ Sound(v)
  <2>1. Live(j)
    BY WorkProgress
  <2> QED
    BY <2>1, StartedSound DEF Live
<1>2. AfterTask(v) = [v EXCEPT !.pc = "bind"] /\ Early(AfterTask(v))
  <2>1. AfterTask(v) = [v EXCEPT !.pc = "bind"]
    BY DEF AfterTask
  <2> QED
    BY <1>1, <2>1 DEF Early, Job
<1>3. Early(ToFinish(v, "error"))
  BY <1>1 DEF Early, ToFinish, Job
<1>4. Early(Raise(v))
  BY <1>3 DEF Raise
<1>5. \A a : Early(Digest(v, a))
  <2>1. Early(MoreRequests(v)) /\ Early([v EXCEPT !.pc = "image"])
    BY <1>1 DEF MoreRequests, Early, Job
  <2> QED
    BY <1>2, <1>4, <2>1 DEF Digest
<1>6. \A pc \in {"sent", "avatar", "image", "select", "describe"} : Early([v EXCEPT !.pc = pc])
  BY <1>1 DEF Early, Job
<1>7. CASE Fetch(j)
  BY <1>0, <1>6, <1>7 DEF Fetch, Goto
<1>8. CASE Refuse(j) \/ Respond(j)
  BY <1>0, <1>5, <1>8 DEF Refuse, Respond
<1>9. CASE Check(j)
  <2>1. CASE job'[j] = Raise(v) \/ job'[j] = AfterTask(v)
    BY <1>2, <1>4, <2>1
  <2>2. CASE ~(job'[j] = Raise(v) \/ job'[j] = AfterTask(v))
    <3>1. PICK pc \in {"store", "fetch"}, b \in BOOLEAN :
            job'[j] = [v EXCEPT !.pc = pc, !.validators = b]
      BY <1>0, <1>9, <2>2 DEF Check, Advance
    <3> QED
      BY <1>1, <3>1 DEF Early, Job
  <2> QED
    BY <2>1, <2>2
<1>10. CASE Avatar(j)
  <2>1. CASE job'[j] = [v EXCEPT !.pc = "fetch", !.task = "avatar", !.left = 1]
    BY <1>1, <2>1 DEF Early, Job
  <2> QED
    BY <1>0, <1>2, <1>6, <1>10, <2>1 DEF Avatar, Advance, Goto
<1>11. CASE Image(j)
  BY <1>0, <1>2, <1>11 DEF Image, Advance
<1>12. CASE Insert(j)
  <2>1. PICK p \in Profiles :
          job' = [job EXCEPT ![j] = [job[j] EXCEPT !.profile = p, !.pc = "activate"]]
    BY <1>12 DEF Insert
  <2> QED
    BY <1>0, <1>1, <2>1 DEF Early, Job
<1>13. CASE Activate(j) \/ Select(j) \/ Describe(j)
  BY <1>0, <1>3, <1>6, <1>13 DEF Activate, Select, Describe, Goto, Abort
<1>14. CASE Bind(j)
  <2>1. job'[j] = [v EXCEPT !.bound = TRUE, !.pc = "begin"]
    BY <1>0, <1>14 DEF Bind
  <2> QED
    BY <1>1, <2>1 DEF Job
<1>15. CASE Fault(j)
  BY <1>3, <1>15, FaultEnds
<1> QED
  BY <1>1, <1>7, <1>8, <1>9, <1>10, <1>11, <1>12, <1>13, <1>14, <1>15
     DEF WorkerStep, Work, Store, Begin, Settle, Fail, Overview, Tally, At, Persists, Sound,
         Early

\* Every step keeps that order.
LEMMA StepBindsFirst ==
    ASSUME Typed, BoundFirst, Next
    PROVE  BoundFirst'
<1> SUFFICES ASSUME NEW k \in Jobs, job'[k] # NoJob
             PROVE  /\ job'[k].kind = "sync" => job'[k].bound
                    /\ job'[k].kind = "create" /\ ~job'[k].bound => Early(job'[k])
  BY DEF BoundFirst, Started, Early
<1>1. CASE job'[k] = job[k]
  BY <1>1 DEF BoundFirst, Started
<1>2. CASE UserStep
  <2>1. CASE Started(k) /\ Flagged(job[k], job'[k])
    BY <2>1 DEF BoundFirst, Flagged, Early
  <2>2. CASE job'[k].kind # "sync" /\ job'[k].pc = "fetch" /\ Sound(job'[k])
    BY <2>2 DEF Early, Sound
  <2>3. CASE \E p \in Profiles : StartSync(k, p)
    <3>1. PICK p \in Profiles : job'[k] = NewJob("sync", ProviderOf[p], p, "begin")
      BY <2>3 DEF StartSync, Cancelled
    <3>2. LET new == NewJob("sync", ProviderOf[p], p, "begin")
          IN  new.kind = "sync" /\ new.bound
      BY JobAssumption DEF NewJob
    <3> QED
      BY <3>1, <3>2
  <2> QED
    BY <1>1, <1>2, <2>1, <2>2, <2>3, UserJobs
<1>3. CASE \E j \in Jobs : WorkerStep(j)
  <2>1. PICK j \in Jobs : WorkerStep(j)
    BY <1>3
  <2>2. k = j \/ job'[k] = job[k]
    <3>1. job \in [Jobs -> Job \cup {NoJob}]
      BY DEF Typed, TypeOK
    <3> QED
      BY <2>1, <3>1, WorkProgress
  <2>3. Live(j) /\ Progress(job[j], job'[j])
    BY <2>1, WorkProgress
  <2> QED
    BY <1>1, <2>1, <2>2, <2>3, WorkEarly DEF BoundFirst, Live, Progress
<1> QED
  BY <1>2, <1>3, NextSplits

\* A job that ends as complete without a warning has the profile, the
\* statistics and the list of months of its profile in the cache, by whatever
\* mixture of fresh rows, answers and "not modified" it got there, and no
\* other call or job takes them away while the profile is there.
THEOREM CompleteIsStored == Spec => []CompleteMeansStored
<1> DEFINE IInv == Typed /\ StoredBehind /\ BoundFirst
<1>1. Init => IInv
  BY InitIsTyped DEF Init, StoredBehind, BoundFirst, Started
<1>2. IInv /\ [Next]_vars => IInv'
  <2> SUFFICES ASSUME IInv, [Next]_vars PROVE IInv'
    OBVIOUS
  <2>1. CASE UNCHANGED vars
    <3>1. StoredBehind' /\ BoundFirst'
      BY <2>1 DEF vars, StoredBehind, BoundFirst, Early, Started, Persists, Present, Behind
    <3> QED
      BY <3>1, NextIsTyped
  <2>2. CASE Next
    BY <2>2, NextIsTyped, NextSplits, WorkKeepsStored, UserKeepsStored, StepBindsFirst
  <2> QED
    BY <2>1, <2>2
<1>3. IInv => CompleteMeansStored
  <2>1. ASSUME IInv, NEW j \in Jobs, Started(j), Persists(j), Present(job[j].profile),
               job[j].outcome = "complete", ~job[j].warned
        PROVE  Listing \subseteq cache[job[j].profile]
    <3>1. job[j].bound
      BY <2>1 DEF BoundFirst, Early, Persists
    <3> QED
      BY <2>1, <3>1 DEF StoredBehind, Behind
  <2> QED
    BY <2>1 DEF CompleteMeansStored, Listing
<1> QED
  BY <1>1, <1>2, <1>3, PTL DEF Spec

================================================================================
