# A TLA+ model of KChess

KChess is a Flutter application on top of a C++20 core (`src/native/src`). The
core stores games and analyses in SQLite, runs Stockfish in worker threads,
fetches games from Chess.com and Lichess, and is driven through a C API
(`native/src/api/core_api.cpp`). This directory models the part of it that is
concurrent and persistent, checks it with TLC on small instances, and proves the
main safety properties with TLAPS for every instance.

## 1. The system

Paths are relative to `src/native/src` unless they begin with `flutter_app`.

| Component | State it keeps | Operations | Talks to |
|---|---|---|---|
| Main-line analysis (`services/analysis_service.cpp`) | `jobs_`, `refinement_jobs_`: one job per game and kind, each with atomics, an engine and a thread | start, refine/retarget, cancel, delete, status; two worker loops | database, engine, settings |
| Sideline analysis (same file) | `variation_jobs_`, a shared engine, a position cache | start, status, cancel, reap | stops main-line jobs, engine |
| Stockfish adapter (`engine/stockfish_engine.cpp`) | instance, `ready`, `cancelled`, live lines, two mutexes | start, analyze, cancel, stop | workers, calling thread |
| Database (`persistence/database.cpp`) | profiles, games, runs, rows, caches; one connection for all threads | about sixty calls, some of them multi-statement transactions | everybody |
| Provider jobs (`services/provider_service.cpp`) | `provider_jobs_`, sync state, HTTP caches | start create/sync/scout, status, cancel | scheduler, database |
| Request scheduler (`providers/provider_request_scheduler.cpp`) | `blocked_until`, `consecutive_rate_limits` per provider | get, retry_after_seconds | HTTP client |
| Profiles, library, merge (`services/profile_service.cpp`, `services/game_library_service.cpp`, `core/core.cpp`) | active profile, games, favourites, cached months | create, delete, merge, import, clear month | database, cancels jobs |
| Settings (`services/settings_service.cpp`) | key/value table | setters with ranges | analysis |
| Statistics, classification, accuracy, theory, chess rules | none, or read-only tables | pure functions | analysis, UI |
| UI state (`flutter_app/lib/features/app/application/app_controller.dart`) | polling timers, selected game | calls of the C API on one isolate | C API |

The UI uses no isolates of its own: **every C API call is made by one thread**,
while workers run beside it. So calls do not overlap each other, but they
interleave with any number of workers, and a call that joins a worker blocks the
UI.

What is hard here, and what makes each part correct:

* *Analysis jobs.* A call stops, joins, replaces or retargets workers that are
  in the middle of a search or a write. Correct when at most one refinement
  lives, a thread is created only after those it replaces have ended, joins end,
  nothing is deleted under a writer, and every cancelled worker ends.
* *Saved runs.* Rows outlive cancellation, errors, crashes and other jobs of the
  game; a later start trusts them. Correct when a run marked complete has all
  its rows and progress never promises more than there is.
* *Engine adapter.* A cancel may come before, during or after a search; `analyze`
  clears the flag. Correct when a lost cancel delays a worker and nothing else.
* *Provider jobs and scheduler.* Deletion, replacement, a change of profile and a
  rate limit race with requests under way. Correct when no synchronisation
  outlives its profile or leaves anything of it, every mark "syncing" is settled
  unless its job met an error that is no provider's, one synchronisation of a
  profile goes on, and no request is sent during a cooldown.
* *Sidelines.* All share one engine and the results they remember. Correct when
  what is remembered came of a search nobody stopped, what is compared is of the right
  positions and as deep as the settings ask, a cancelled sideline ends, and none is
  left beside the main line.
* *Library on a shared connection.* Two threads' statements share transactions.
  Correct when a merge loses nothing, a favourite stays with the owner of its game,
  a month that counts as cached is stored, and games worth keeping stay.

`PROJECT.json` lists every component, the hazards at their lines, the run, mutant
and theorem for each property, and the source lines of each definition.

## 2. Modules

| Module | Content |
|---|---|
| `AnalysisRuns` | The tables `analysis_runs` and `move_analysis`; each operator is one database call and yields the table after it |
| `AnalysisJobs` | Main-line jobs, their workers, the calls, crash and restart; extends `AnalysisRuns`; the refinement mapping to `RunLedger` |
| `RunLedger` | What is promised of the saved runs: rows stay as long as their run, complete means all rows. An abstract specification |
| `RateLimit` | What is promised to a provider: one request at a time, none during a pause. An abstract specification |
| `ProviderScheduler` | The gates of the request scheduler, and the refinement mapping to `RateLimit` |
| `ProviderJobs` | The jobs that create, synchronise and scout, and the calls; extends `ProviderScheduler`, whose steps its own are made of |
| `StockfishEngine` | The adapter's steps, as operators on its state |
| `VariationJobs` | The sideline worker, the search threads, the calls; extends `StockfishEngine` |
| `GameLibrary` | Profiles, games, favourites, collections, cached months and analyses; transactions on the shared connection |
| `LibraryStatistics` | The statistics computed from that state; extends `GameLibrary` |
| `MCAnalysisJobs`, `MCProviderJobs`, `MCVariationJobs`, `MCGameLibrary` | Instances for TLC |
| `AnalysisRuns_proofs`, `AnalysisJobs_proofs` | What every operator keeps of a table; the inductive invariant of the main line and its theorems |
| `SavedRuns_proofs` | What the saved runs promise: complete runs, progress, resumption, the ledger; and when |
| `ProviderScheduler_proofs`, `ProviderJobs_proofs` | The refinement, and the invariants of the provider jobs |
| `VariationJobs_proofs` | The invariant of the sidelines and the shared adapter |
| `GameLibrary_proofs` | What every statement keeps of the library, and what the long transactions keep together |
| `LibraryStatistics_proofs` | What the folds of the statistics yield, and that the statistics agree |

A definition with a suffix, such as `Cancel_EngineOnly`, is a deliberately wrong
variant. No behaviour uses it; putting it in the place of the right one makes
TLC find the property violated that `PROJECT.json` pairs it with. These show that
each property can fail.

### How `AnalysisJobs` corresponds to the code

| Model | Code |
|---|---|
| `job[<<"minimum", g>>]`, `job[<<"refine", g>>]` | the entry of game g in `jobs_`, `refinement_jobs_` |
| `pc` of a job | where `run_analysis` / `run_refinement_queue` stands |
| `cancel`, `state`, `slot`, `target` | `cancel_requested`, `state`, `current_position_slot`, `requested_position_slot` |
| `retargeted` | `target_generation` differs from the value the worker read |
| `done` | the worker's `completed_slots` |
| `stopped`, `engine` | the adapter's `cancelled` flag, its live instance |
| `runs[<<g, c>>]` | the run of game g with the `config_hash` of c |
| `call` | the handler in progress on the calling thread |
| `Live(j)` | `!finished` |

A configuration keeps the columns `compatible_analysis` compares, and the
resources that go into the hash but are not compared. Scores, PVs, categories,
timestamps, JSON and logs are left out: no decision of the service reads them. A
position cache hit is a choice, because the cache survives every deletion and may
hold any position.

A worker step is what happens between two points another thread can see. Where a
handler does several database calls, each is a step (`Publish`, `Complete`,
`Prune`; `PrepareRead`, `Claim`; `Reuse`, `Supersede`). Every call that stops
jobs does so through the same three steps, `Cancel`, `StopEngine` and `Join`, with
the order of the flag and the engine's cancel kept, because the worker loop
depends on it. The cancel of one job is a step of its own, so a worker may run
between the cancels of two jobs.

Engine and database exceptions are `SearchAborted`, `Fault` and `CallFault` when
`Faults` is TRUE. A crash (`Crash`) may happen at any time: the runs
survive, jobs do not, and the next process collapses the runs and drops old
failed ones (`Reopened`). `Shutdown` is the destructor. `DeleteLocalGame` does not
touch jobs, as in the code.

### How `ProviderJobs` corresponds to the code

| Model | Code |
|---|---|
| `job[j]` | the `ProviderJob` with id j, its thread, and whether `provider_jobs_` still lists it (`entry`) |
| `task`, `left`, `pc` | the phase the worker is in, the requests that phase still takes, the point within it |
| `bound` | `profile_id` is set, so that deletion and replacement find the job |
| `cancel` | the `CancelToken` |
| `gate[p]` | the scheduler's `State` of provider p; `holder` is who holds its mutex |
| `cache[p]`, `sync[p]` | which resources of p have a cached row; `provider_sync_state` |
| `active`, `avatar[p]` | the setting, and the image file with its path in the profile |
| `ui` | the handler in progress on the calling thread |

A worker's step lies between two points that another thread can tell apart: a
request is `Fetch` and `Respond` with the gate held between them, a request in a
cooldown is `Refuse`. An answer is what the handlers distinguish (`Answers`), and
`Digest` says what each task makes of it. Whether a cached row is fresh or stale is a
choice. `provider_job_status_json` reads `finished` three times and is three steps;
a deletion reads and cancels, joins, and then deletes.

Errors that are no `ProviderException` end a job in its outermost handler and leave the
profile's mark as it is (`provider_service.cpp` 550, 766; 762 for one that meets the
handler itself). A row whose profile is gone is such an error, at the step that meets it
(`Abort`). The others are the action `Fault`, possible wherever a job uses the database
(`FaultPoints`): a `BEGIN IMMEDIATE` inside another thread's transaction on the shared
connection (`persistence/database.cpp:1722`), an error of the file, and the month before
2000 that the client refuses (`providers/chess_com_provider.cpp:165`). `faulted` is not in the
code; it remembers for `SyncingMeansLive` which profiles have had a job end this way since
their mark was written.

### How `StockfishEngine` and `VariationJobs` correspond to the code

Every start empties `variation_jobs_`, so one job suffices; `mapped` says whether it
is still in the map. The worker's points are those between which a cancel makes a
difference: `analyze()` clears the flag (`Enter`), looks at the callback, gives the
position, starts the search and looks again (`Recheck`), since a stop before `go()`
is lost. The search threads are `Emit` and the three ends of a search: `Complete` at its depth,
`TimeOut` by the time limit, `Halt` because it was told to stop. A search may go on
for ever unless it is told to stop. The time limit may strike at any moment after depth
1, or never: the adapter leaves `limits.startTime` uninitialised (`stockfish_engine.cpp:384`),
from which Stockfish measures it. `analyze()` tells its callers of a stop only by the flag,
so a search ended by its limit returns like one that reached its depth. `end` in a result is
not stored by the code; it says how the search ended, which the properties need.

A saved result of the main line may answer for the position before the move
(`LookupSaved`), when its depth, lines and time limit are enough and its early-stop policy
is the same (`Answers`). Sidelines never stop early themselves; "converged" is the end of a
main-line search that did, and "cut" that of one which was stopped and saved all the
same: as a checkpoint (`analysis_service.cpp` 1514-1525), or under its full depth because the
retarget's stop came after `analyze()` had cleared the flag (1882). Every call that ends sidelines goes
through `Flag`, `RaiseCancelled`, `StopSearch` and `Join`, as in the code; starting
the main line also takes the adapter away (`Drop`). Starting the main line is modelled
here only by what it does to sidelines.

### How `GameLibrary` and `LibraryStatistics` correspond to the code

`db` is what a statement sees and `tx` the open transaction with the database at its
`BEGIN`. `merge_local_profile` and `upsert_provider_games` are a step per game, so
that other threads' statements fall inside them; every other call is one step. A
`BEGIN` inside another thread's transaction fails; a statement without one, such as the
import of a FEN, becomes part of that transaction; a rollback (a statement that
failed, or a crash whose journal is played back) takes along what the others wrote.
The foreign keys are `WithoutGames`, `WithoutProfile` and `DeleteCollection`.
Duplicates are games of equal content. A run is a rank: the further, the better, and
complete is best. `Facts` is what a PGN says; `Archive` is the month a provider lists a
game under and `Ended` the one in which it ended, in UTC. The list of openings is sorted
and ends at `MaxFamilies` families (`statistics_service.cpp` 243-252); the variations within
a family are left out.

## 3. Runs

| Run | Instance | Shows |
|---|---|---|
| `analysis_jobs` | a PGN game with one move and a FEN game, minimum depth 1, maximum 2, three calls | joins, exclusion, removal: the properties proved in section 5 |
| `preparation` | a PGN game with two moves, the first in the book; settings change between two depths; faults; any number of calls, but no run deleted under a worker that goes on with it (`KeepsRunsInUse`) | complete runs have every row; progress and resumption rest on rows |
| `liveness` | a PGN game with two moves, one in the book; two calls; fair scheduling | calls return, cancelled workers end, workers end; the writes of passes and refinements implement `RunLedger` |
| `provider_jobs` | two providers, a profile and one to be created, two jobs, two calls, errors of the database; fair scheduling | the gates keep the promise; marks, deletion, replacement; jobs end and calls return |
| `sidelines` | three positions in a row, the last a mate; one or two lines, with a time limit or without, with early stops or not; three calls; fair scheduling | what is remembered, compared and paused; cancelled sidelines end |
| `library` | an online profile and the local one an import creates, three games of three contents, one a FEN, two months, room for one of two opening families, three calls | merge, favourites, collections, cached months, statistics |
| `result_delivered`, `live_result` | as `provider_jobs` and `sidelines` | two more divergences of section 4 |
| `one_engine`, `retarget_failure`, `supersedes` | a PGN game with one move, three calls | the first three divergences of section 4 |
| `complete_run` | a PGN game with one move, preparation passes alone, seven calls (four starts, three changes of the depth) | the fourth |

*Bounds.* `MaxCalls` bounds the calls a user makes (a crash counts as one), except in
`preparation`, where they are unbounded; the
workers' steps are not bounded, and all graphs are finite without further bounds.
Three calls are enough to have a worker of each kind, a third call that stops or
retargets them, and for each of the three divergences that need it a third call that
reuses what the second left. Two games are needed for a refinement to meet one of another
game, and a game with one move has the first and the last position, which is where
`completed_plies` is off by one. Two moves, one in the book, give a skipped position, the
boundary and a position that needs the engine on both sides. Two depths give two runs per game, the least
for reuse and pruning. Symmetry is not used: the two games differ in kind.
Deadlock is not checked since the user may stop calling.

*Bounds of the other runs.* Workers are unbounded in all of them. In
`provider_jobs` two jobs and two calls make a job meet a replacement, a deletion, a
change of profile, a status call or another job at the same gate. A larger instance with three calls was explored only as far as 1.4 million
states, without a violation. `BackoffStep`, `BackoffCap` and `LichessMinimum` are 1, 2 and 2 for 30, 300 and
60 seconds, and the clock runs to 2: a pause may be the provider's or the one asked
for, whichever is longer. `Perfs` and `ReportMonths` are 1 for 5 and 6, so that the
loops over performances and months do not repeat there. Three
calls in `sidelines` are two starts and a cancel, a main line or a poll: enough for one
sideline to use what another with other settings left. `MaxDepth` is 2 and all
settings ask for depth 1, so that saved results may be deeper; `MaxTime` is 1, a limit or none. Three calls in
`library` import, mark and merge, or list, merge and clear; analyses and months come
without calls. With `MaxFamilies` 1 for 60, the two opening families of the instance are one too many.
Symmetry is used only there, of the ids of games and of collections;
no liveness is checked with it. `CachedMonthIsStored` is about games that ended in the month they
are listed under: clearing goes by the end in UTC and leaves or takes the others.

*Fairness.* Weak fairness of each worker and of the steps of a call that has
begun. The operating system schedules every thread, and a search ends by itself:
every request has a depth limit of at most 64. Nothing is assumed about the
user, crashes or faults. `CancelledJobsEnd` does not assume that the engine
hears the cancel: the flag may be cleared by the next `analyze()`
(`engine/stockfish_engine.cpp:264`), and the worker then ends after that search.
In `provider_jobs`, a request is answered or given up after 20 seconds
(`providers/provider_common.cpp:39`), so `Respond` is fair. In `sidelines`, only a search
that was told to stop is assumed to end, not one with a time limit. Nothing makes `Fault` happen. Neither the user nor the clock is fair in
any run.

`CompleteRunIsWhole`, `ProgressIsBacked`, `WorkerTrustsRows` and `KeepsLedger` fail when a run
is deleted under a worker that goes on with it; that is finding 4 below. `MCInUseSpec` leaves such
steps out, and nothing else. The run has preparation passes only (`depth = minDepth`, `start_move_refinement_json` returns at once); the proofs of section 5 include
refinements. `KeepsLedger` is checked in `liveness`, where both kinds of job write: its two
calls are enough to start a run twice or beside a refinement, and too few to put a run in the
place of one that was deleted under a worker; with a third, TLC finds the violation. What
it says of any number of calls is a theorem.

## 4. Where code and comments disagree

The first and the third need a preparation pass next to a live refinement, the second a
retarget at a particular point, the fourth only that the depth is changed and changed
back during a pass. Line numbers are of `services/analysis_service.cpp`.

1. *Two engines* (`OneEngine`, comment at 1384 "There is exactly one live
   Stockfish instance"). `start_analysis_json` stops sideline jobs but no
   refinement, so its worker's engine runs beside the refinement's.
2. *A retarget fails the job* (`RetargetIsNoFailure`, comment at 1503). The worker
   publishes its slot before it reads `target_generation` (1484, 1485). A
   retarget in between cancels the search of the slot, and `analyze()` throws
   before the first PV with the generations equal.
3. *Better rows are deleted* (`SupersedesOnlyLower`, comment at 1336 "supersedes
   every older/lower saved run"). The prune at 1338 deletes every other run of
   the game, also the deeper one a refinement is filling.
4. *A complete run with missing rows* (`CompleteRunIsWhole`, comment at 1655 "Resume is
   position-exact [...] only missing position slots are sent to Stockfish on the next
   start"). The shallow run of a game is complete and a pass works on a deeper one. The
   depth is set back and the game started: the shallow run is reused, and the prune at
   1622 deletes the one the worker is filling, but the worker goes on. The depth is
   raised again and the game started: the run is inserted anew, empty, and the worker is
   kept (1652). Its `completed_slots` names the deleted rows, so it persists the remaining
   slots and marks the run complete (1335); later starts reuse it (1618). An attempt to
   prove the property for preparation passes showed this; with four calls TLC does not
   reach it, it takes seven. After 3, a refinement call leads to the same
   with the worker kept at 1858-1864. Stopping and joining the jobs of the game before
   the prunes, as `delete_analysis` does, would remove it.
5. *A result is lost* (`ResultDelivered`, `docs/API_NOTES.md:33`). The status call of a
   provider job reads `finished` three times (`services/provider_service.cpp` 860, 867,
   880). A worker that ends between the second and the third is erased by an answer
   that says "running"; its thread was not joined, and destroying it ends the program.
6. *Lines of another position are shown* (`ShownIsOwn`, comment at 2186). The status
   call reads the flag that hides the adapter's lines and then the lines (2267, 2268);
   the worker may begin its second search in between.

## 5. Proofs

### The main line

`AnalysisJobs_proofs` proves, for any games, configurations, settings and books,
with and without faults:

| Theorem | Property |
|---|---|
| `TypeCorrect` | `TypeOK` |
| `RefinementIsUnique` | `OneLiveRefinement` |
| `SpawnExclusive` | `SpawnIsExclusive` |
| `JoinsCancelled` | `JoinsOnlyCancelled` |
| `RemovalIsSafe` | `NoWriterAtRemoval` |
| `RemovedStaysRemoved` | `NoOrphanRun` |
| `PreparationIsComplete` | `PreparationNeverSkips` |

Assumptions: there is a game and a setting; positions of a game are numbered from
0; the settings' configurations are configurations and `minDepth <= depth`, which
`set_analysis_depth_range` enforces. TLC evaluates all of them in every run.

`IInv` is the inductive invariant. The properties are not inductive: that no
worker is left when rows are deleted is a fact about the end of a call, and only
true because of what the call did before. `IInv` adds

* `SlotChosen`: from the choice of a position to its write, the worker has one;
* `JoinsEnough`: while a call stops jobs, each live job that must be gone
  afterwards (`MustBeGone`) is in its join set; past the join, each has ended;
* `DestructorStopsAll`: the destructor's games are all games;
* `CancelsFirst`: a job to be joined is still to be cancelled or was;
* `KindOfCall`: which handler a point belongs to;
* `StoppedIsCancelled`: a preparation pass's engine is stopped only after its flag;
* `GameExists`: `prepare_analysis` inserts only for a game that is there.

The proof has two halves. A worker step changes its own job only, and never
revives it, takes a cancel back, sets its own `stopped` or adds a run
(`WorkerEffect`, one lemma per step); that keeps `IInv` (`WorkerKeepsInv`). Each
step of a call has a lemma of its own; most begin to stop jobs
(`StoppingKeepsInv`), return (`IdleKeepsInv`) or pass on (`PassingKeepsInv`).

### Saved runs

`SavedRuns_proofs`, for any games, configurations, settings and books, with and without
faults, refinements included:

| Theorem | Statement |
|---|---|
| `RunsAreSound` | `Spec /\ [][KeepsRunsInUse]_vars => []RunsInv` |
| `CompleteIsWhole` | under the same hypothesis, `CompleteRunIsWhole` |
| `ProgressBacked` | under the same hypothesis, `ProgressIsBacked` |
| `WorkersTrustRows` | under the same hypothesis, `WorkerTrustsRows` |
| `OnlyPruningTakesRuns` | `Spec => [][KeepsRunsInUse \/ Pruning]_vars` |
| `OneConfigurationIsSafe` | with one configuration, the three properties follow from `Spec` |
| `CarefulUseKeepsRuns` | `Spec /\ [][CarefulUse]_vars => [][KeepsRunsInUse]_vars` |
| `CarefulUseIsSafe` | under `CarefulUse`, the three properties |
| `LedgerIsKept` | `Spec /\ [][KeepsRunsInUse]_vars => KeepsLedger`: the saved runs implement `RunLedger` |
| `CarefulUseKeepsLedger` | under `CarefulUse`, the same |

`KeepsRunsInUse` says of a step that it deletes no run under a worker that goes on with it,
unless the game goes too. It is a hypothesis because the code does not ensure it (finding
4). `OnlyPruningTakesRuns` says exactly where: `Pruning` is `Supersede` or some `Prune`, the
prunes at 1622 and 1821, and at 1338 and 1558. The other deletions keep it, because
`delete_analysis` and `delete_profile` have joined the workers, `delete_local_game` takes
the game, and no worker survives a crash. So the three promises hold up to finding 4, and
they hold outright when there is only one run of a game to have, as without a refinement and
with settings that stay.

None of the three is inductive. `RunsInv` adds

* `TableSound`: in every run the rows are of positions of its game, a complete run has all
  of them, and a run that is not there has none;
* `JobsCover`: what a worker has done fits the point where it stands. A preparation pass
  has done every slot it has passed, so that no slot is left over when none is ahead; from
  `publish` on every slot is done. That needs `PreparationNeverSkips`, from `IInv`;
* `DoneIsSaved`: what a worker of a game that exists has done is saved in its run. A run
  that is gone counts as empty: its worker has done nothing, or else a run inserted in
  its place would owe it rows. This is the part that `KeepsRunsInUse` keeps;
* `StillMissing`: a run that the SELECT of `prepare_analysis` did not find is not there at
  its INSERT, so that nothing is overwritten.

As for the main line, one lemma per step says what it does to its job and the table
(`RunsEffect`), and the lemmas of `AnalysisRuns_proofs` what each database call keeps
(`KeepsRows`, `KeepsPresent`, `TableSound`).

*A rule for callers.* `CarefulUse` is a condition on calls alone, of any number and in any
order: the settings change only while no main-line worker lives, and
`start_analysis_json` is not called for a game whose refinement lives. Refinements,
cancels, deletions, sidelines, faults and crashes are free. It implies `KeepsRunsInUse`, so
finding 4 needs one of the two things it forbids. The code does not ensure it: opening a
game calls `startAnalysis` whatever else runs
(`flutter_app/lib/features/app/application/app_controller.dart`, 559), and the settings
can be changed at any time. The argument is an invariant of its own, `UseInv`, on top of
`IInv`:

* `UseJobs`: a game has one worker at most, and what it makes is what a start of its kind
  would request now, and no complete run other than its own would serve that request;
* `UseCall`: the same of a start that has found nothing to reuse and has not created its
  thread yet; and while a start reuses a run and prunes the others, the only worker its
  game can have is one that makes this very run.

So `Supersede` and `Prune` find no worker of another run of the game (`PruningInUse`),
and `OnlyPruningTakesRuns` says that nothing else matters.

*The ledger.* `RunLedger` knows the runs that are saved, their rows, and which are
complete. The mapping takes a run of the table as saved unless its status is "none", and
as complete if its status is "complete"; the rows of a complete run are the slots of its
game. Each database call is one step of it or none (`StatusLedger`, `RowLedger`,
`ClassifyLedger`, and so on), and each step of a worker or call makes at most one such
call. Two of the steps need the invariant. An `Insert` must not meet a run that is there
although `prepare_analysis` looked for it one step earlier (`StillMissing`). `Complete` must
find every row although they may have been written by several workers, perhaps before a
crash (`JobsCover`, `DoneIsSaved`); this is where `KeepsRunsInUse` is needed.

### Provider requests and jobs

For any providers, threads, profiles, pauses and number of calls:

| Theorem | Statement |
|---|---|
| `GatesTyped` | `GateSpec => []GateTypeOK` |
| `GatesKeepPromise` | `GateSpec => KeepsPromise`: the gates implement `RateLimit` |
| `JobsTyped` | `Spec => []TypeOK` of `ProviderJobs` |
| `JobsKeepPromise` | `Spec => KeepsPromise`: all jobs together implement `RateLimit` |
| `OneSyncGoesOn` | `OneUncancelledSync` |
| `MarksAreSettled` | `SyncingMeansLive` |
| `DeletedIsGone` | `NothingForDeleted` |
| `CompleteIsStored` | `CompleteMeansStored` |

Assumptions: a retry-after value 0 exists, the pauses are naturals and
`BackoffStep <= BackoffCap`; job ids are naturals, profiles have a provider, and the
numbers of performances and months are positive.

The refinement maps a held gate to `busy` and `blocked_until` to `notBefore`. A step that
sends is `Begin`, an answer `Answered` or `Limited`; every other step stutters. The
pause after the n-th limit is at least the one after the first because the step is not
above the cap. `JobsKeepPromise` adds that each step of a job either leaves
the gates alone or is a step of them.

The four invariants are not inductive. `OneSyncGoesOn` needs that an uncancelled live
synchronisation is still listed, and bound to its profile (`SyncsListed`), since
replacement cancels what is listed. `MarksAreSettled` needs that a mark belongs to a
live job past its `begin` that will settle it (`MarksHeld`, `Marking`), or that a job of the
profile ended in `Fault` since the mark was written (`faulted`): a job leaves those
points only through `Settle`, `Fail`, `Fault`, or an exception that a profile that is gone
raises, and a profile with a bound job is not deleted before the job ended. So the mark
is lost by errors that are no provider's, and by nothing else.
`DeletedIsGone` needs that rows, marks and images belong to profiles that are there
(`RowsHaveProfile`), and that a live synchronisation is listed and its profile there, or a
deletion under way waits for it (`SyncsHaveProfile`). `CompleteIsStored` needs what a job has
stored at each of its points (`StoredBehind`): a task is left behind only when its answer
is stored, or the job fails or ends with a warning; and that a job which creates a profile
is bound to it before it settles (`BoundFirst`). As for the
main line, one lemma says what a worker's step may do (`WorkProgress`), and one
what a call may do (`UserJobs`).

### Sidelines

For any positions, settings and number of calls:

| Theorem | Property |
|---|---|
| `SidelinesFit` | the invariant `IInv` |
| `SidelinesTyped` | `TypeOK` |
| `PausesOnlyIfCancelled` | `PausedOnlyIfCancelled` |
| `MemoryIsFinished` | `RememberedIsFinished` |
| `ComparedAreOwn` | `ClassifiedFromOwnResults` |
| `MainLineIsAlone` | `MainLineAlone` |

Assumptions: there is a setting, within the bounds of depth, lines and time; moves are legal
moves, and lead to positions; `None` is neither a position nor a result.

How a search ended depends on what happened to the adapter many steps
earlier, and perhaps to an earlier job. `JobOK` says what the job and the adapter have in
common at each point of `analyze()`: a search runs only between `go()` and the end of the
wait; it is told to stop only for a cancelled job; from `Enter` on the flag is raised
only for a cancelled job, before that it may be left from an earlier one; from the
clearing of the lines on they are of the position asked for. So at the end of a search, a
result that was stopped, and one that is interrupted, is a cancelled job's, which
pauses; any other ended at its depth or by a time limit the settings had. `ComparedAreOwn`
adds that results found under a key, or saved, were asked for no less than the job asks
(`FoundOK`, `LookupSavedOK`); it makes an exception of the results that end "cut", which the
lookup cannot tell from others. `CallInv` carries what a call relies on across its steps: past the flag the job is
cancelled, past the join it has ended, and since a start ended the main line, none runs.

### The library

For any profiles, games, collections, months and threads that interleave:

| Theorem | Property |
|---|---|
| `LibraryIsSound` | the invariant `IInv` |
| `LibraryTyped` | `TypeOK` |
| `FavoritesStayWithOwner` | `FavoritesFollowOwner` |
| `CollectionsStaySound` | `CollectionsSound` |
| `MonthsAreStored` | `CachedMonthIsStored` |
| `KeptGamesAreKept` | `KeptGamesStay` |
| `MergesLoseNothing` | `MergeLosesNothing` |

Assumptions: no profile is both local and online; what a provider lists belongs to an
online profile; `None` is none of the values it stands for the absence of.

A database is `Good` when favourites, collections and months are in order and only
online profiles have synced games. One lemma per call and cascade says that it yields a
good one. A rollback brings back an old database, so the one at the transaction's `BEGIN`
must be good as well (`TxOK`). `MonthOK` says that the games of a month that were stored
are still there when the month is marked: the calls that take synced games away need a
transaction of their own, and fail while this one is open. `MergeOK` is what makes a merge lose nothing: each
game of the two profiles in the saved database is carried by one that is there now,
with its favourite and runs that are as good, although other threads write to it in
the meantime. `Carries` composes (`CarriesOn`), so that each step of the merge needs to
carry only what is there.

### The statistics

`LibraryStatistics_proofs`, for any profiles, games, outcomes and facts:

| Theorem | Property |
|---|---|
| `StatisticsAlwaysAgree` | `StatisticsAgree` |

Assumptions, besides those of the library: the ids of games are finitely many, the ply
of the last move is an integer, negative for a FEN, and names of families have an order.

The shares of a statistic are tallies of disjoint sets of games, and `AddUp` folds their
sum. What a fold yields for every set is an induction over data, for which the prover has
no induction theorem it could use. `FoldByParts` does without: the tally of a union of
shares satisfies the equation that defines the fold (`PartsAddUp`, from the cardinality of
a disjoint union); and if two functions that satisfy it differed, they would differ on a
smallest set of shares, on which they agree after all, since they agree on that set without
one share. What is left is that the shares of each statistic are all there: each bucket,
termination and phase a game may have is one the statistic names. The list of openings is
cut, so that there the sum is of the games whose family is listed. `ListIsOrdered` says
that the sort is a strict total order, `ListIsTheFirst` that its first `MaxFamilies` elements
are all or exactly that many, and that none left out has more games than one of them.

### Only model-checked

The liveness properties (`CallsReturn`, `CancelledJobsEnd`, `WorkersEnd`, `JobsEnd`,
`CancelledEnds`), since liveness under fairness is out of the prover's reach, and that the
steps outside `KeepsRunsInUse` are really taken (finding 4), which is a behaviour and not a
theorem. Every other property of a passing run is a theorem, four of them under
`KeepsRunsInUse` or `CarefulUse`.

## 6. Not modelled, and the plan

Not modelled: HTTP transport, JSON, logging, diagnostics and presentation; the parsing
of PGN, FEN and provider answers, and chess rules (sequential code without state of
its own, of which the models keep the outcome); queries and paging of the game list;
Stockfish itself; the floating-point formulas of classification and accuracy;
`sqlite3_changes` on the shared connection; the Flutter application, except that it
makes all calls from one thread. `PROJECT.json` gives the reason for each component
and names the hazards that no property covers.

What the plan has left, in this order:

1. A variant of the main line in which the prunes stop the jobs of the game first, with
   `KeepsRunsInUse` as a theorem for every caller, and not only for those that keep to
   `CarefulUse`.
2. Pure operators against reference definitions: category priority, early-stop
   depth, dominance of `compatible_analysis`.
