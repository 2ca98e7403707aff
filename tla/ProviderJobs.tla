----------------------------- MODULE ProviderJobs -----------------------------
(***************************************************************************)
(* ProviderService: jobs that create a profile, synchronise one or scout a *)
(* player, each on a thread of its own, beside the calls of the one thread *)
(* that drives the C API (native/src/services/provider_service.cpp), on    *)
(* top of the request gates of ProviderScheduler.                          *)
(*                                                                         *)
(* A job runs through tasks: "profile", "stats", "months", "games", each   *)
(* one or more requests and a write of what came back.  Of the database    *)
(* the model keeps which profiles exist, which resource of a profile has a *)
(* cached row (with its validators), the sync state and the active         *)
(* profile; of a month's games, that they are stored with its row.         *)
(***************************************************************************)
EXTENDS ProviderScheduler, FiniteSets

CONSTANTS
    Profiles,       \* profile ids, used or not
    NoProfile,
    ProviderOf,     \* ProviderOf[p]: the provider of profile p
    Known,          \* the profiles that exist at the start
    Perfs,          \* 5 in the code: requests for the statistics of a Lichess player
    ReportMonths,   \* 6 in the code: months a scouting report looks at
    MaxCalls        \* bound: calls of the user

ASSUME JobAssumption ==
    /\ Callers \subseteq Nat
    /\ NoProfile \notin Profiles
    /\ ProviderOf \in [Profiles -> Providers]
    /\ Known \subseteq Profiles
    /\ Perfs \in Nat \ {0} /\ ReportMonths \in Nat \ {0}
    /\ MaxCalls \in Nat

VARIABLES
    job,       \* job[j]: a ProviderJob, its thread and its entry in provider_jobs_
    profile,   \* profile[p]: "unused", "present" or "deleted"
    cache,     \* cache[p]: the resources of p with a row in a provider cache
    sync,      \* sync[p]: status in provider_sync_state, "none" without a row
    faulted,   \* the profiles whose job met a fault since the status was written
    avatar,    \* avatar[p]: [file, row], the image and the path kept in the profile
    active,    \* the setting activeProfileId
    ui,        \* the call in progress
    calls,     \* number of calls so far
    aborted    \* std::terminate was called

store == <<profile, cache, sync, faulted, avatar, active>>
vars == <<clock, gate, job, profile, cache, sync, faulted, avatar, active, ui, calls,
          aborted>>

Jobs == Callers
Kinds == {"create", "sync", "scout", "report"}
Resources == {"profile", "stats", "months", "games"}
Tasks == Resources \cup {"avatar"}
WorkerPoints == {"fetch", "sent", "activate", "select", "describe", "avatar", "image",
                 "bind", "begin", "check", "store", "settle", "overview", "fail"}

Job == [kind : Kinds, provider : Providers,
        profile : Profiles \cup {NoProfile},  \* the profile the worker writes
        bound : BOOLEAN,                      \* job->profile_id is set to it
        pc : WorkerPoints \cup {"done"},
        task : Tasks,
        left : Nat,                           \* requests, or months of a report, to go
        validators : BOOLEAN,                 \* a cached row was read before the request
        cancel : BOOLEAN,                     \* the CancelToken
        outcome : {"running", "complete", "error"},
        warned : BOOLEAN,                     \* "complete", but the sync was cut short
        finished : BOOLEAN,
        entry : {"listed", "reaped", "removed"},
        joined : BOOLEAN,                     \* worker no longer joinable
        reported : BOOLEAN]                   \* a status said that it finished

NoJob == [pc |-> "free"]

Ui == [pc : {"idle", "render", "erase", "ask", "join", "drop", "closing", "closed"},
       job : Jobs \cup {None},
       profile : Profiles \cup {NoProfile},
       join : SUBSET Jobs,
       avatarRow : BOOLEAN]

Idle == [pc |-> "idle", job |-> None, profile |-> NoProfile, join |-> {},
         avatarRow |-> FALSE]

TypeOK ==
    /\ GateTypeOK
    /\ job \in [Jobs -> Job \cup {NoJob}]
    /\ profile \in [Profiles -> {"unused", "present", "deleted"}]
    /\ cache \in [Profiles -> SUBSET Resources]
    /\ sync \in [Profiles -> {"none", "idle", "syncing", "error"}]
    /\ faulted \subseteq Profiles
    /\ avatar \in [Profiles -> [file : BOOLEAN, row : BOOLEAN]]
    /\ active \in Profiles \cup {NoProfile}
    /\ ui \in Ui
    /\ calls \in 0..MaxCalls
    /\ aborted \in BOOLEAN

Init ==
    /\ GateInit
    /\ job = [j \in Jobs |-> NoJob]
    /\ profile = [p \in Profiles |-> IF p \in Known THEN "present" ELSE "unused"]
    /\ cache = [p \in Profiles |-> {}]
    /\ sync = [p \in Profiles |-> "none"]
    /\ faulted = {}
    /\ avatar = [p \in Profiles |-> [file |-> FALSE, row |-> FALSE]]
    /\ active \in IF Known = {} THEN {NoProfile} ELSE Known
    /\ ui = Idle
    /\ calls = 0
    /\ aborted = FALSE

Started(j) == job[j] # NoJob
Live(j) == Started(j) /\ ~job[j].finished
Listed(j) == Started(j) /\ job[j].entry = "listed"
Persists(j) == job[j].kind \in {"create", "sync"}
Present(p) == p # NoProfile /\ profile[p] = "present"

------------------------------------------------------------------------------
(* Where a job goes from one task to the next.                              *)

At(j, point) == Started(j) /\ job[j].pc = point

Goto(j, point) == job' = [job EXCEPT ![j].pc = point]

(* Requests a task takes: Chess.com answers every task with one, Lichess    *)
(* has one per performance and builds the list of months without any.       *)
Requests(r, task) ==
    IF r \notin Lichess THEN 1
    ELSE CASE task = "stats" -> Perfs [] task = "months" -> 0 [] OTHER -> 1

ToTask(v, task) ==
    [v EXCEPT !.task = task,
              !.left = Requests(v.provider, task),
              !.validators = FALSE,
              !.pc = IF v.kind \in {"create", "sync"} THEN "check"
                     ELSE IF Requests(v.provider, task) = 0 THEN "store" ELSE "fetch"]

(* finish_provider_job; the worker's locals are gone.                       *)
ToFinish(v, outcome) ==
    [v EXCEPT !.pc = "done", !.finished = TRUE, !.outcome = outcome, !.task = "profile", !.left = 0,
              !.validators = FALSE]

(* The first request of a creation only has to be written.  A report goes   *)
(* on to the months it chose, a scout is through with the statistics.       *)
AfterTask(v) ==
    IF v.kind = "create" /\ ~v.bound THEN [v EXCEPT !.pc = "bind"]
    ELSE CASE v.task \in {"profile", "avatar"} -> ToTask(v, "stats")
           [] v.task = "stats" -> IF v.kind = "scout" THEN ToFinish(v, "complete")
                                  ELSE ToTask(v, "months")
           [] v.task = "months" -> ToTask(v, "games")
           [] v.task = "games" -> [v EXCEPT !.pc = "settle"]

Advance(j) == job' = [job EXCEPT ![j] = AfterTask(@)]

(* A failure that does not settle the profile's mark.                       *)
Raise_LeavesMark(v) == ToFinish(v, "error")

(* A ProviderException: caught where the sync state can be written, or by   *)
(* the job's outermost handler.                                             *)
Raise(v) ==
    IF v.kind = "sync" \/ (v.kind = "create" /\ v.bound)
    THEN [v EXCEPT !.pc = "fail"]
    ELSE ToFinish(v, "error")

(* Any other exception leaves the sync state as it is: here when a row is   *)
(* not found because its profile is gone, in Fault for other reasons.       *)
Abort(j) == job' = [job EXCEPT ![j] = ToFinish(@, "error")]

------------------------------------------------------------------------------
(* Requests.                                                                *)

(* One request too many.                                                    *)
MoreRequests_OneMore(v) ==
    [v EXCEPT !.left = @ - 1,
              !.pc = IF v.left > 0 /\ v.kind # "report" THEN "fetch" ELSE "store"]

MoreRequests(v) ==
    [v EXCEPT !.left = @ - 1,
              !.pc = IF v.left > 1 /\ v.kind # "report" THEN "fetch" ELSE "store"]

(* A limited request taken for one with nothing new.                        *)
Digest_LimitIsNothingNew(v, a) ==
    CASE v.task = "avatar" -> AfterTask(v)
      [] v.task # "avatar" /\ a.error = "none" -> MoreRequests(v)
      [] v.task # "avatar" /\ a.error \in {"notModified", "rateLimited"} -> AfterTask(v)
      [] OTHER -> Raise(v)

(* What fetch_profile, fetch_stats, fetch_available_months, fetch_games and *)
(* cache_provider_avatar make of an answer.                                 *)
Digest(v, a) ==
    CASE v.task = "avatar" ->
            IF a.error = "none" THEN [v EXCEPT !.pc = "image"] ELSE AfterTask(v)
      [] v.task # "avatar" /\ a.error = "none" -> MoreRequests(v)
      [] v.task # "avatar" /\ a.error = "notModified" -> AfterTask(v)
      [] a.error = "notFound" /\ v.task = "stats" /\ v.provider \in Lichess ->
            MoreRequests(v)
      [] a.error = "notFound" /\ v.task = "games" /\ v.provider \notin Lichess ->
            MoreRequests(v)
      [] OTHER -> Raise(v)

Fetch(j) ==
    /\ At(j, "fetch")
    /\ Send(j, job[j].provider)
    /\ Goto(j, "sent")
    /\ UNCHANGED <<store, ui, calls, aborted>>

Refuse(j) ==
    /\ At(j, "fetch")
    /\ Refused(job[j].provider)
    /\ job' = [job EXCEPT ![j] = Digest(@, [error |-> "rateLimited", retryAfter |-> 0])]
    /\ UNCHANGED <<clock, gate, store, ui, calls, aborted>>

(* "Not modified" answers a request that carried validators; a request is   *)
(* only given up when its token was cancelled.                              *)
Respond(j) ==
    /\ At(j, "sent")
    /\ \E a \in Answers :
        /\ a.error = "notModified" => job[j].validators
        /\ a.error = "cancelled" => job[j].cancel
        /\ a.error # "rateLimited" => a.retryAfter = 0
        /\ Receive(j, job[j].provider, a)
        /\ job' = [job EXCEPT ![j] = Digest(@, a)]
    /\ UNCHANGED <<store, ui, calls, aborted>>

------------------------------------------------------------------------------
(* sync_provider_resources.                                                 *)

Cached(v) == v.profile # NoProfile /\ v.task \in cache[v.profile]

(* ensure_active, the phase, and the look at the cached row: fresh, stale   *)
(* or missing.  A report checks for cancellation before each month.         *)
Check(j) ==
    /\ At(j, "check")
    /\ LET v == job[j] IN
       \/ /\ v.cancel
          /\ job' = [job EXCEPT ![j] = Raise(@)]
       \/ /\ ~v.cancel
          /\ Cached(v)
          /\ Advance(j)
       \/ /\ ~v.cancel
          /\ job' = [job EXCEPT ![j].pc = IF v.left = 0 THEN "store" ELSE "fetch",
                                ![j].validators =
                                    /\ Cached(v)
                                    /\ ~(v.task = "stats" /\ v.provider \in Lichess)]
    /\ UNCHANGED <<clock, gate, store, ui, calls, aborted>>

(* update_provider_profile, put_provider_cache or upsert_provider_games: a  *)
(* row of a profile that is gone violates a foreign key, or changes no row. *)
Store(j) ==
    LET v == job[j] IN
    /\ At(j, "store")
    /\ Persists(j) /\ v.bound
    /\ IF Present(v.profile)
       THEN /\ cache' = [cache EXCEPT ![v.profile] = @ \cup {v.task}]
            /\ IF v.task = "profile" THEN Goto(j, "avatar") ELSE Advance(j)
       ELSE Abort(j) /\ UNCHANGED cache
    /\ UNCHANGED <<clock, gate, profile, sync, faulted, avatar, active, ui, calls, aborted>>

(* cache_provider_avatar: Chess.com only, with a usable address.            *)
Avatar(j) ==
    LET v == job[j] IN
    /\ At(j, "avatar")
    /\ \/ Advance(j)
       \/ /\ v.provider \notin Lichess
          /\ IF avatar[v.profile].file
             THEN Goto(j, "image")
             ELSE job' = [job EXCEPT ![j].pc = "fetch", ![j].task = "avatar",
                                     ![j].left = 1]
    /\ UNCHANGED <<clock, gate, store, ui, calls, aborted>>

(* The image is moved to its place and its path written to the profile's    *)
(* row, if that is still there.                                             *)
Image(j) ==
    LET p == job[j].profile IN
    /\ At(j, "image")
    /\ avatar' = [avatar EXCEPT ![p] = [file |-> TRUE, row |-> @.row \/ Present(p)]]
    /\ Advance(j)
    /\ UNCHANGED <<clock, gate, profile, cache, sync, faulted, active, ui, calls, aborted>>

------------------------------------------------------------------------------
(* run_provider_create: the profile is written and made the active one in   *)
(* statements of their own, and known to the job only after that.           *)

Insert(j) ==
    /\ At(j, "store")
    /\ job[j].kind = "create" /\ ~job[j].bound
    /\ \E p \in Profiles :
        /\ profile[p] = "unused"
        /\ ProviderOf[p] = job[j].provider
        /\ profile' = [profile EXCEPT ![p] = "present"]
        /\ job' = [job EXCEPT ![j].profile = p, ![j].pc = "activate"]
    /\ UNCHANGED <<clock, gate, cache, sync, faulted, avatar, active, ui, calls, aborted>>

Activate(j) ==
    /\ At(j, "activate")
    /\ IF Present(job[j].profile) THEN Goto(j, "select") ELSE Abort(j)
    /\ UNCHANGED <<clock, gate, store, ui, calls, aborted>>

Select(j) ==
    /\ At(j, "select")
    /\ active' = job[j].profile
    /\ Goto(j, "describe")
    /\ UNCHANGED <<clock, gate, profile, cache, sync, faulted, avatar, ui, calls, aborted>>

Describe(j) ==
    LET p == job[j].profile IN
    /\ At(j, "describe")
    /\ IF Present(p)
       THEN /\ cache' = [cache EXCEPT ![p] = @ \cup {"profile"}]
            /\ Goto(j, "avatar")
       ELSE Abort(j) /\ UNCHANGED cache
    /\ UNCHANGED <<clock, gate, profile, sync, faulted, avatar, active, ui, calls, aborted>>

Bind(j) ==
    /\ At(j, "bind")
    /\ job' = [job EXCEPT ![j].bound = TRUE, ![j].pc = "begin"]
    /\ UNCHANGED <<clock, gate, store, ui, calls, aborted>>

(* set_provider_sync_state.                                                 *)
Mark(p, status) ==
    /\ sync' = [sync EXCEPT ![p] = status]
    /\ faulted' = faulted \ {p}

(* set_provider_sync_state needs the profile's row, and so does the start   *)
(* of sync_provider_resources; both are found or both are not, because a    *)
(* profile is not deleted while a job is bound to it.                       *)
Begin(j) ==
    LET p == job[j].profile IN
    /\ At(j, "begin")
    /\ IF Present(p)
       THEN /\ Mark(p, "syncing")
            /\ job' = [job EXCEPT ![j] = ToTask(@, "profile")]
       ELSE Abort(j) /\ UNCHANGED <<sync, faulted>>
    /\ UNCHANGED <<clock, gate, profile, cache, avatar, active, ui, calls, aborted>>

Settle(j) ==
    LET p == job[j].profile IN
    /\ At(j, "settle")
    /\ IF Present(p)
       THEN Mark(p, "idle") /\ Goto(j, "overview")
       ELSE Abort(j) /\ UNCHANGED <<sync, faulted>>
    /\ UNCHANGED <<clock, gate, profile, cache, avatar, active, ui, calls, aborted>>

(* The handlers of ProviderException.  A creation reports its profile even  *)
(* so; retry_after_seconds is asked before the state is written.            *)
Fail(j) ==
    LET v == job[j] IN
    /\ At(j, "fail")
    /\ IF Present(v.profile)
       THEN /\ MayAsk(v.provider)
            /\ Mark(v.profile, "error")
            /\ job' = [job EXCEPT ![j] =
                        IF v.kind = "create" THEN [@ EXCEPT !.pc = "overview", !.warned = TRUE]
                        ELSE ToFinish(@, "error")]
       ELSE Abort(j) /\ UNCHANGED <<sync, faulted>>
    /\ UNCHANGED <<clock, gate, profile, cache, avatar, active, ui, calls, aborted>>

Overview(j) ==
    /\ At(j, "overview")
    /\ IF Present(job[j].profile)
       THEN /\ MayAsk(job[j].provider)
            /\ job' = [job EXCEPT ![j] = ToFinish(@, "complete")]
       ELSE Abort(j)
    /\ UNCHANGED <<clock, gate, store, ui, calls, aborted>>

(* Where a worker is between marking its profile and settling the mark.     *)
MarkPoints == {"fetch", "sent", "avatar", "image", "check", "store", "settle", "fail"}
Marking(v) == v.kind \in {"create", "sync"} /\ v.bound /\ v.pc \in MarkPoints

(* Where it uses the database, which every thread shares: a BEGIN fails     *)
(* inside the transaction of another thread, any statement on an error of   *)
(* the file.  The months a synchronisation asks for are checked when it has *)
(* come to the games.  In the avatar's routine nothing escapes.             *)
FaultPoints == {"activate", "select", "describe", "begin", "check", "store", "settle",
                "fail", "overview"}

(* An exception that is no ProviderException, at any of these points: the   *)
(* outermost handler ends the job, and so does the one for a failing write  *)
(* of "error"; the mark of the profile stays as it is.                      *)
Fault(j) ==
    LET v == job[j] IN
    /\ Started(j) /\ Persists(j)
    /\ v.pc \in FaultPoints \/ (v.pc = "fetch" /\ v.task = "games" /\ v.kind = "sync")
    /\ job' = [job EXCEPT ![j] = ToFinish(@, "error")]
    /\ faulted' = faulted \cup {p \in Profiles : Marking(v) /\ v.profile = p}
    /\ UNCHANGED <<clock, gate, profile, cache, sync, avatar, active, ui, calls, aborted>>

(* A scouting job keeps what it was told in memory.  The list of months     *)
(* says how many the report will fetch, ReportMonths at most; it stops      *)
(* earlier when it has its 1200 games.  Lichess gives no list.              *)
Tally(j) ==
    LET v == job[j] IN
    /\ At(j, "store")
    /\ ~Persists(j)
    /\ \/ v.task \in {"profile", "stats"} /\ Advance(j)
       \/ /\ v.task = "months" /\ v.provider \notin Lichess
          /\ \E n \in 1..ReportMonths :
                job' = [job EXCEPT ![j].task = "games", ![j].left = n, ![j].pc = "check"]
       \/ v.task = "games" /\ v.left > 0 /\ Goto(j, "check")
       \/ /\ v.task \in {"months", "games"}
          /\ job' = [job EXCEPT ![j] = ToFinish(@, "complete")]
    /\ UNCHANGED <<clock, gate, store, ui, calls, aborted>>

Work(j) ==
    \/ Fetch(j) \/ Refuse(j) \/ Respond(j)
    \/ Check(j) \/ Store(j) \/ Avatar(j) \/ Image(j)
    \/ Insert(j) \/ Activate(j) \/ Select(j) \/ Describe(j) \/ Bind(j)
    \/ Begin(j) \/ Settle(j) \/ Fail(j) \/ Overview(j) \/ Tally(j)

------------------------------------------------------------------------------
(* The calls of the user, on one thread.                                    *)

(* Ids are given out in order: next_provider_job_id_.                       *)
Fresh(j) == job[j] = NoJob /\ \A k \in Jobs : k < j => Started(k)

Call == ui.pc = "idle" /\ calls < MaxCalls /\ ~aborted /\ calls' = calls + 1

NewJob(kind, r, p, point) ==
    [kind |-> kind, provider |-> r, profile |-> p, bound |-> p # NoProfile,
     pc |-> point, task |-> "profile", left |-> 1, validators |-> FALSE,
     cancel |-> FALSE, outcome |-> "running", warned |-> FALSE, finished |-> FALSE,
     entry |-> "listed", joined |-> FALSE, reported |-> FALSE]

(* Bound: there is an unused profile for every creation under way.          *)
Creatable(r) ==
    Cardinality({p \in Profiles : ProviderOf[p] = r /\ profile[p] = "unused"}) >
    Cardinality({k \in Jobs : /\ Live(k) /\ job[k].kind = "create"
                              /\ job[k].provider = r /\ job[k].profile = NoProfile})

(* start_provider_profile_json, start_scout_json, start_scout_report_json.  *)
Start(j, r) ==
    /\ Call
    /\ Fresh(j)
    /\ \E kind \in {"create", "scout", "report"} :
        /\ kind = "create" => Creatable(r)
        /\ job' = [job EXCEPT ![j] = NewJob(kind, r, NoProfile, "fetch")]
    /\ UNCHANGED <<clock, gate, store, ui, aborted>>

Cancelled(those) == [k \in Jobs |-> IF k \in those THEN [job[k] EXCEPT !.cancel = TRUE]
                                    ELSE job[k]]

BoundTo(p) == {k \in Jobs : Listed(k) /\ job[k].bound /\ job[k].profile = p}

(* The jobs a synchronisation replaces go on.                               *)
StartSync_KeepsOthers(j, p) ==
    /\ Call
    /\ Fresh(j)
    /\ Present(p)
    /\ job' = [job EXCEPT ![j] = NewJob("sync", ProviderOf[p], p, "begin")]
    /\ UNCHANGED <<clock, gate, store, ui, aborted>>

(* start_provider_sync_json.                                                *)
StartSync(j, p) ==
    /\ Call
    /\ Fresh(j)
    /\ Present(p)
    /\ job' = [Cancelled({k \in BoundTo(p) : Live(k)}) EXCEPT
                 ![j] = NewJob("sync", ProviderOf[p], p, "begin")]
    /\ UNCHANGED <<clock, gate, store, ui, aborted>>

CancelJob(j) ==
    /\ Call
    /\ Listed(j)
    /\ job' = Cancelled({j})
    /\ UNCHANGED <<clock, gate, store, ui, aborted>>

(* Core::set_active_profile: the jobs of other profiles are told to stop.   *)
SelectProfile(p) ==
    /\ Call
    /\ Present(p)
    /\ job' = Cancelled({k \in Jobs : /\ Listed(k) /\ Live(k) /\ job[k].bound
                                      /\ job[k].profile # p})
    /\ active' = p
    /\ UNCHANGED <<clock, gate, profile, cache, sync, faulted, avatar, ui, aborted>>

(* provider_job_status_json looks at "finished" three times: before it      *)
(* joins the worker, when it writes the answer, and before it erases the    *)
(* job.  An erased job whose worker was not joined ends the program.        *)
PollBegin(j) ==
    /\ Call
    /\ Listed(j)
    /\ job' = [job EXCEPT ![j].joined = job[j].finished]
    /\ ui' = [Idle EXCEPT !.pc = "render", !.job = j]
    /\ UNCHANGED <<clock, gate, store, aborted>>

PollRender ==
    /\ ui.pc = "render"
    /\ job' = [job EXCEPT ![ui.job].reported = job[ui.job].finished]
    /\ ui' = [ui EXCEPT !.pc = "erase"]
    /\ UNCHANGED <<clock, gate, store, calls, aborted>>

PollErase ==
    LET v == job[ui.job] IN
    /\ ui.pc = "erase"
    /\ job' = [job EXCEPT ![ui.job].entry = IF v.finished THEN "reaped" ELSE @]
    /\ aborted' = (v.finished /\ ~v.joined)
    /\ ui' = Idle
    /\ UNCHANGED <<clock, gate, store, calls>>

(* provider_overview_json waits for a request in flight.                    *)
AskOverview(p) ==
    /\ Call
    /\ Present(p)
    /\ ui' = [Idle EXCEPT !.pc = "ask", !.profile = p]
    /\ UNCHANGED <<clock, gate, job, store, aborted>>

AnswerOverview ==
    /\ ui.pc = "ask"
    /\ MayAsk(ProviderOf[ui.profile])
    /\ ui' = Idle
    /\ UNCHANGED <<clock, gate, job, store, calls, aborted>>

(* Cancelled jobs are not waited for.                                       *)
DeleteBegin_DoesNotWait(p) ==
    /\ Call
    /\ Present(p)
    /\ job' = Cancelled(BoundTo(p))
    /\ ui' = [Idle EXCEPT !.pc = "join", !.profile = p]
    /\ UNCHANGED <<clock, gate, store, aborted>>

(* Core::delete_profile: the profile is read, its jobs are cancelled, taken *)
(* off the list and waited for, and only then is it deleted.                *)
DeleteBegin(p) ==
    /\ Call
    /\ Present(p)
    /\ job' = [k \in Jobs |-> IF k \in BoundTo(p)
                              THEN [job[k] EXCEPT !.cancel = TRUE, !.entry = "removed",
                                                  !.joined = TRUE]
                              ELSE job[k]]
    /\ ui' = [pc |-> "join", job |-> None, profile |-> p, join |-> BoundTo(p),
              avatarRow |-> avatar[p].row]
    /\ UNCHANGED <<clock, gate, store, aborted>>

Joined == \A k \in ui.join : job[k].pc = "done"

(* The rows go with the profile's; the image only if the profile read at    *)
(* the start named one.                                                     *)
DeleteDrop ==
    LET p == ui.profile
        others == {q \in Profiles \ {p} : Present(q)}
    IN
    /\ ui.pc = "join"
    /\ Joined
    /\ profile' = [profile EXCEPT ![p] = "deleted"]
    /\ cache' = [cache EXCEPT ![p] = {}]
    /\ sync' = [sync EXCEPT ![p] = "none"]
    /\ faulted' = faulted \ {p}
    /\ avatar' = [avatar EXCEPT ![p] = [file |-> @.file /\ ~ui.avatarRow, row |-> FALSE]]
    /\ IF active # p THEN UNCHANGED active
       ELSE IF others = {} THEN active' = NoProfile ELSE active' \in others
    /\ ui' = Idle
    /\ UNCHANGED <<clock, gate, job, calls, aborted>>

(* clear_cached_month, as far as the month's row goes.                      *)
ClearMonth ==
    /\ Call
    /\ Present(active)
    /\ cache' = [cache EXCEPT ![active] = @ \ {"games"}]
    /\ UNCHANGED <<clock, gate, job, profile, sync, faulted, avatar, active, ui, aborted>>

(* ~ProviderService.                                                        *)
Shutdown ==
    LET those == {k \in Jobs : Listed(k)} IN
    /\ Call
    /\ job' = Cancelled(those)
    /\ ui' = [Idle EXCEPT !.pc = "closing", !.join = those]
    /\ UNCHANGED <<clock, gate, store, aborted>>

Closed ==
    /\ ui.pc = "closing"
    /\ Joined
    /\ ui' = [Idle EXCEPT !.pc = "closed"]
    /\ UNCHANGED <<clock, gate, job, store, calls, aborted>>

Time == Tick /\ UNCHANGED <<job, store, ui, calls, aborted>>

Return == PollRender \/ PollErase \/ AnswerOverview \/ DeleteDrop \/ Closed

Next ==
    /\ ~aborted
    /\ \/ \E j \in Jobs :
            \/ Work(j) \/ Fault(j)
            \/ \E r \in Providers : Start(j, r)
            \/ \E p \in Profiles : StartSync(j, p)
            \/ CancelJob(j)
            \/ PollBegin(j)
       \/ \E p \in Profiles : SelectProfile(p) \/ AskOverview(p) \/ DeleteBegin(p)
       \/ Return \/ ClearMonth \/ Shutdown \/ Time

Spec == Init /\ [][Next]_vars

(* Each worker is a thread of its own, and a request is answered or given   *)
(* up by its timeout; a call goes on as soon as what it waits for is there. *)
(* Neither the user nor the clock is fair, and no fault has to happen.      *)
FairSpec ==
    /\ Spec
    /\ \A j \in Jobs : WF_vars(~aborted /\ Work(j))
    /\ WF_vars(~aborted /\ Return)

------------------------------------------------------------------------------
(* Properties.                                                              *)

(* A profile is marked as being synchronised only while a job that will     *)
(* settle the mark is alive, whichever of the jobs of the profile wrote it  *)
(* and however the others ended, by an answer, a limit, a cancel or a job   *)
(* that replaced them.  Only an exception of another kind, met by a job     *)
(* between its mark and the settling, leaves one behind, until the next     *)
(* synchronisation writes the mark anew.                                    *)
SyncingMeansLive ==
    \A p \in Profiles : sync[p] = "syncing" =>
        \/ p \in faulted
        \/ \E j \in Jobs : Live(j) /\ Persists(j) /\ job[j].profile = p

(* When a profile is gone, every synchronisation of it has ended and        *)
(* nothing that one wrote is left: deletion waits for them first.           *)
NothingForDeleted ==
    \A p \in Profiles : profile[p] = "deleted" =>
        /\ cache[p] = {} /\ sync[p] = "none" /\ ~avatar[p].row
        /\ \A j \in Jobs : Started(j) /\ job[j].kind = "sync" /\ job[j].profile = p
                => job[j].finished

(* Of the synchronisations of a profile that still run, the user has one    *)
(* that will go on; the ones it replaced were told to stop.                 *)
OneUncancelledSync ==
    \A j, k \in Jobs :
        /\ Live(j) /\ job[j].kind = "sync" /\ ~job[j].cancel
        /\ Live(k) /\ job[k].kind = "sync" /\ ~job[k].cancel
        /\ job[j].profile = job[k].profile
        => j = k

(* A job that ends as complete, with no warning, has left the profile, the  *)
(* statistics and the list of months in the cache for as long as the        *)
(* profile is there: no answer that is none was taken for one.              *)
CompleteMeansStored ==
    \A j \in Jobs :
        /\ Started(j) /\ Persists(j) /\ job[j].outcome = "complete" /\ ~job[j].warned
        /\ Present(job[j].profile)
        => {"profile", "stats", "months"} \subseteq cache[job[j].profile]

(* A job that a status call took off the list was reported as finished by   *)
(* that call.                                                               *)
ResultDelivered ==
    \A j \in Jobs : Started(j) /\ job[j].entry = "reaped" => job[j].reported

(* A started job ends, unless the program ended first.                      *)
JobsEnd == \A j \in Jobs : Started(j) ~> (aborted \/ At(j, "done"))

(* Every call returns: none waits for a worker or a request for good.       *)
CallsReturn == (ui.pc # "idle") ~> (aborted \/ ui.pc \in {"idle", "closed"})
==============================================================================
