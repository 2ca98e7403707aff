------------------------- MODULE AnalysisRuns_proofs -------------------------
(***************************************************************************)
(* Facts about the operators of AnalysisRuns, for any games and            *)
(* configurations: each yields a table again, none but Prepare brings a    *)
(* run into being, and what is sound stays sound.                          *)
(***************************************************************************)
EXTENDS AnalysisRuns, FiniteSetTheorems, TLAPS

Tables == [RunIds -> Run]

\* completed_plies counts moves: it is a natural number for any set of slots.
LEMMA CompletedMovesType ==
    ASSUME NEW g \in Games, NEW done
    PROVE  CompletedMoves(g, done) \in Nat
<1> DEFINE covered == {m \in 1 .. LastSlot[g] : 0 .. m \subseteq done}
<1>1. LastSlot[g] \in Nat
  BY LastSlotAssumption
<1>2. IsFiniteSet(1 .. LastSlot[g])
  BY <1>1, FS_Interval
<1>3. IsFiniteSet(covered)
  BY <1>2, FS_Subset
<1>4. Cardinality(covered) \in Nat
  BY <1>3, FS_CardinalityType
<1> QED
  BY <1>4 DEF CompletedMoves

\* set_analysis_status keeps the table a table and adds no run.
LEMMA SetStatusType ==
    ASSUME NEW t \in Tables, NEW id \in RunIds, NEW status \in Statuses
    PROVE  SetStatus(t, id, status) \in Tables
BY DEF SetStatus, Tables, Run

\* An UPDATE inserts nothing.
LEMMA SetStatusAddsNoRun ==
    ASSUME NEW t \in Tables, NEW id \in RunIds, NEW status \in Statuses,
           NEW i \in RunIds, Present(SetStatus(t, id, status), i)
    PROVE  Present(t, i)
BY DEF SetStatus, Tables, Run, Present

\* persist_engine_result, for a run that is there.
LEMMA PersistRowType ==
    ASSUME NEW t \in Tables, NEW id \in RunIds, NEW slot \in Nat, NEW plies \in Nat
    PROVE  PersistRow(t, id, slot, plies) \in Tables
BY DEF PersistRow, Tables, Run, Statuses

\* A row of a run that is there makes no run.
LEMMA PersistRowAddsNoRun ==
    ASSUME NEW t \in Tables, NEW id \in RunIds, NEW slot, NEW plies,
           Present(t, id), NEW i \in RunIds, Present(PersistRow(t, id, slot, plies), i)
    PROVE  Present(t, i)
BY DEF PersistRow, Tables, Present

\* persist_classifications.
LEMMA PersistClassificationsType ==
    ASSUME NEW t \in Tables, NEW id \in RunIds, NEW finalize \in BOOLEAN
    PROVE  PersistClassifications(t, id, finalize) \in Tables
BY DEF PersistClassifications, Tables, Run

\* Nor does a classification.
LEMMA PersistClassificationsAddsNoRun ==
    ASSUME NEW t \in Tables, NEW id \in RunIds, NEW finalize, NEW i \in RunIds,
           Present(PersistClassifications(t, id, finalize), i)
    PROVE  Present(t, i)
BY DEF PersistClassifications, Tables, Present

\* An absent run and a new one have the type of a run.
LEMMA NoRunType == NoRun \in Run /\ NewRun \in Run
BY DEF NoRun, NewRun, Run, Statuses

\* prepare_analysis: only the requested run can be new.
LEMMA PrepareType ==
    ASSUME NEW t \in Tables, NEW id \in RunIds, NEW found \in Statuses
    PROVE  Prepare(t, id, found) \in Tables
<1>1. CASE found = "none"
  BY <1>1, NoRunType DEF Prepare, Tables
<1>2. CASE found = "complete"
  BY <1>2 DEF Prepare
<1>3. CASE found \notin {"none", "complete"}
  BY <1>3, SetStatusType DEF Prepare, Statuses
<1> QED
  BY <1>1, <1>2, <1>3

\* prepare_analysis inserts no run but the requested one.
LEMMA PrepareAddsOneRun ==
    ASSUME NEW t \in Tables, NEW id \in RunIds, NEW found \in Statuses,
           NEW i \in RunIds, i # id, Present(Prepare(t, id, found), i)
    PROVE  Present(t, i)
BY DEF Prepare, SetStatus, Present, Tables

\* The cascade of a removed game, the pruning of superseded runs, and startup
\* only remove runs.
LEMMA DropGamesType ==
    ASSUME NEW t \in Tables, NEW gone
    PROVE  DropGames(t, gone) \in Tables
BY NoRunType DEF DropGames, Tables

\* ON DELETE CASCADE leaves no run of a removed game.
LEMMA DropGamesAddsNoRun ==
    ASSUME NEW t \in Tables, NEW gone, NEW i \in RunIds, Present(DropGames(t, gone), i)
    PROVE  Present(t, i) /\ i[1] \notin gone
BY DEF DropGames, Present, NoRun

\* prune_game_analyses_except keeps the table a table ...
LEMMA PruneExceptType ==
    ASSUME NEW t \in Tables, NEW g, NEW keep
    PROVE  PruneExcept(t, g, keep) \in Tables
BY NoRunType DEF PruneExcept, Tables

\* ... and inserts nothing.
LEMMA PruneExceptAddsNoRun ==
    ASSUME NEW t \in Tables, NEW g, NEW keep, NEW i \in RunIds,
           Present(PruneExcept(t, g, keep), i)
    PROVE  Present(t, i)
BY DEF PruneExcept, Present, NoRun

\* The collapse and the retention at startup keep the table a table ...
LEMMA ReopenedType ==
    ASSUME NEW t \in Tables, NEW expired
    PROVE  Reopened(t, expired) \in Tables
BY NoRunType DEF Reopened, Tables

\* ... and insert nothing.
LEMMA ReopenedAddsNoRun ==
    ASSUME NEW t \in Tables, NEW expired, NEW i \in RunIds, Present(Reopened(t, expired), i)
    PROVE  Present(t, i)
BY DEF Reopened, Present, NoRun
-----------------------------------------------------------------------------
(* Tables whose runs are what the service takes them for. *)

\* The rows are of positions of the game, a run that is not there has none, a
\* complete one has all, and completed_plies is covered by the rows.
RunSound(g, run) ==
    /\ run.rows \subseteq Slots(g)
    /\ run.status = "none" => run.rows = {}
    /\ run.status = "complete" => run.rows = Slots(g)
    /\ run.plies <= CompletedMoves(g, run.rows)

TableSound(t) == \A id \in RunIds : RunSound(id[1], t[id])

\* Of a run that is still there, u has the rows that t had.
KeepsRows(t, u) == \A id \in RunIds : Present(u, id) => t[id].rows \subseteq u[id].rows

\* More rows cover at least as many moves.
LEMMA CompletedMovesMonotonic ==
    ASSUME NEW g \in Games, NEW done, NEW more, done \subseteq more
    PROVE  CompletedMoves(g, done) <= CompletedMoves(g, more)
<1> DEFINE covered(d) == {m \in 1 .. LastSlot[g] : 0 .. m \subseteq d}
<1>1. LastSlot[g] \in Nat
  BY LastSlotAssumption
<1>2. IsFiniteSet(1 .. LastSlot[g])
  BY <1>1, FS_Interval
<1>3. covered(more) \in SUBSET (1 .. LastSlot[g]) /\ covered(done) \in SUBSET covered(more)
  OBVIOUS
<1>4. IsFiniteSet(covered(more))
  BY <1>2, <1>3, FS_Subset
<1>5. Cardinality(covered(done)) <= Cardinality(covered(more))
  BY <1>3, <1>4, FS_Subset
<1>6. CASE IsFen(g)
  BY <1>6 DEF CompletedMoves
<1>7. CASE ~IsFen(g)
  BY <1>5, <1>7 DEF CompletedMoves
<1> QED
  BY <1>6, <1>7

\* No run, and one without rows, are sound.
LEMMA NewRunSound ==
    ASSUME NEW g \in Games
    PROVE  RunSound(g, NoRun) /\ RunSound(g, NewRun)
<1>1. CompletedMoves(g, {}) \in Nat
  BY CompletedMovesType
<1> QED
  BY <1>1 DEF RunSound, NoRun, NewRun

\* set_analysis_status, to complete only if the rows are there.
LEMMA SetStatusSound ==
    ASSUME NEW t \in Tables, TableSound(t), NEW id \in RunIds,
           NEW status \in Statuses \ {"none"},
           status = "complete" /\ Present(t, id) => Slots(id[1]) \subseteq t[id].rows
    PROVE  TableSound(SetStatus(t, id, status)) /\ KeepsRows(t, SetStatus(t, id, status))
<1> DEFINE u == SetStatus(t, id, status)
<1>1. ASSUME NEW i \in RunIds
      PROVE  /\ u[i].rows = t[i].rows /\ u[i].plies = t[i].plies
             /\ \/ u[i].status = t[i].status
                \/ i = id /\ Present(t, id) /\ u[i].status = status
  BY DEF SetStatus, Tables, Run
<1>2. ASSUME NEW i \in RunIds PROVE RunSound(i[1], u[i])
  <2>1. RunSound(i[1], t[i])
    BY DEF TableSound
  <2>2. status # "none"
    OBVIOUS
  <2>3. CASE u[i].status = t[i].status
    BY <1>1, <2>1, <2>3 DEF RunSound
  <2>4. CASE i = id /\ Present(t, id) /\ u[i].status = status
    <3>1. u[i].rows = t[i].rows /\ u[i].plies = t[i].plies
      BY <1>1
    <3> HIDE DEF u
    <3> QED
      BY <2>1, <2>2, <2>4, <3>1 DEF RunSound
  <2> QED
    BY <1>1, <2>3, <2>4
<1>3. KeepsRows(t, u)
  BY <1>1 DEF KeepsRows
<1> QED
  BY <1>2, <1>3 DEF TableSound

\* persist_engine_result, if completed_plies is covered by the rows and the new
\* one.
LEMMA PersistRowSound ==
    ASSUME NEW t \in Tables, TableSound(t), NEW id \in RunIds,
           NEW slot \in Slots(id[1]), NEW plies \in Nat,
           plies <= CompletedMoves(id[1], t[id].rows \cup {slot})
    PROVE  /\ TableSound(PersistRow(t, id, slot, plies))
           /\ KeepsRows(t, PersistRow(t, id, slot, plies))
           /\ PersistRow(t, id, slot, plies)[id].rows = t[id].rows \cup {slot}
<1> DEFINE u == PersistRow(t, id, slot, plies)
<1>1. /\ u[id].rows = t[id].rows \cup {slot} /\ u[id].plies = plies
      /\ u[id].status = "running"
      /\ \A i \in RunIds : i # id => u[i] = t[i]
  BY DEF PersistRow, Tables, Run
<1>2. RunSound(id[1], u[id])
  BY <1>1 DEF TableSound, RunSound
<1>3. \A i \in RunIds : RunSound(i[1], u[i])
  BY <1>1, <1>2 DEF TableSound
<1>4. \A i \in RunIds : t[i].rows \subseteq u[i].rows
  BY <1>1
<1> QED
  BY <1>1, <1>3, <1>4 DEF TableSound, KeepsRows

\* persist_classifications looks at no row.
LEMMA PersistClassificationsSound ==
    ASSUME NEW t \in Tables, TableSound(t), NEW id \in RunIds, NEW finalize \in BOOLEAN
    PROVE  /\ TableSound(PersistClassifications(t, id, finalize))
           /\ KeepsRows(t, PersistClassifications(t, id, finalize))
<1> DEFINE u == PersistClassifications(t, id, finalize)
<1>1. ASSUME NEW i \in RunIds
      PROVE  /\ u[i].rows = t[i].rows /\ u[i].plies = t[i].plies
             /\ u[i].status = t[i].status
  BY DEF PersistClassifications, Tables, Run
<1> QED
  BY <1>1 DEF TableSound, RunSound, KeepsRows

\* prepare_analysis, if the run was not there when it is inserted.
LEMMA PrepareSound ==
    ASSUME NEW t \in Tables, TableSound(t), NEW id \in RunIds, NEW found \in Statuses,
           found = "none" => ~Present(t, id)
    PROVE  TableSound(Prepare(t, id, found)) /\ KeepsRows(t, Prepare(t, id, found))
<1>1. CASE found = "none"
  <2> DEFINE u == Prepare(t, id, found)
  <2>1. u[id] = NewRun /\ \A i \in RunIds : i # id => u[i] = t[i]
    BY <1>1 DEF Prepare, Tables
  <2>2. t[id].rows = {}
    BY <1>1 DEF Present, TableSound, RunSound
  <2>3. id[1] \in Games
    BY DEF RunIds
  <2>4. TableSound(u)
    BY <2>1, <2>3, NewRunSound DEF TableSound
  <2>5. KeepsRows(t, u)
    BY <2>1, <2>2 DEF KeepsRows
  <2> QED
    BY <2>4, <2>5
<1>2. CASE found = "complete"
  BY <1>2 DEF Prepare, KeepsRows
<1>3. CASE found \notin {"none", "complete"}
  <2>1. Prepare(t, id, found) = SetStatus(t, id, "running")
    BY <1>3 DEF Prepare
  <2>2. "running" \in Statuses \ {"none"}
    BY DEF Statuses
  <2> QED
    BY <2>1, <2>2, SetStatusSound
<1> QED
  BY <1>1, <1>2, <1>3

\* What only removes runs leaves the others as they were.
LEMMA RemovalSound ==
    ASSUME NEW t \in Tables, TableSound(t), NEW u,
           \A id \in RunIds : u[id] = t[id] \/ u[id] = NoRun
    PROVE  TableSound(u) /\ KeepsRows(t, u)
<1>1. \A id \in RunIds : RunSound(id[1], NoRun)
  BY NewRunSound DEF RunIds
<1>2. TableSound(u)
  BY <1>1 DEF TableSound
<1>3. KeepsRows(t, u)
  BY DEF KeepsRows, Present, NoRun
<1> QED
  BY <1>2, <1>3

\* The cascade of a removed game, ...
LEMMA DropGamesSound ==
    ASSUME NEW t \in Tables, TableSound(t), NEW gone
    PROVE  TableSound(DropGames(t, gone)) /\ KeepsRows(t, DropGames(t, gone))
<1>1. \A id \in RunIds : DropGames(t, gone)[id] = t[id] \/ DropGames(t, gone)[id] = NoRun
  BY DEF DropGames
<1> QED
  BY <1>1, RemovalSound

\* ... prune_game_analyses_except ...
LEMMA PruneExceptSound ==
    ASSUME NEW t \in Tables, TableSound(t), NEW g, NEW keep
    PROVE  TableSound(PruneExcept(t, g, keep)) /\ KeepsRows(t, PruneExcept(t, g, keep))
<1>1. \A id \in RunIds : \/ PruneExcept(t, g, keep)[id] = t[id]
                         \/ PruneExcept(t, g, keep)[id] = NoRun
  BY DEF PruneExcept
<1> QED
  BY <1>1, RemovalSound

\* ... and startup are such removals.
LEMMA ReopenedSound ==
    ASSUME NEW t \in Tables, TableSound(t), NEW expired
    PROVE  TableSound(Reopened(t, expired)) /\ KeepsRows(t, Reopened(t, expired))
<1>1. \A id \in RunIds : Reopened(t, expired)[id] = t[id] \/ Reopened(t, expired)[id] = NoRun
  BY DEF Reopened
<1> QED
  BY <1>1, RemovalSound

\* No run of t is missing from u.
KeepsPresent(t, u) == \A id \in RunIds : Present(t, id) => Present(u, id)

\* Updates and inserts delete no run.
LEMMA WritesKeepPresent ==
    ASSUME NEW t \in Tables, NEW id \in RunIds
    PROVE  /\ \A status \in Statuses \ {"none"} : KeepsPresent(t, SetStatus(t, id, status))
           /\ \A slot, plies : KeepsPresent(t, PersistRow(t, id, slot, plies))
           /\ \A finalize : KeepsPresent(t, PersistClassifications(t, id, finalize))
           /\ \A found \in Statuses : KeepsPresent(t, Prepare(t, id, found))
<1>1. ASSUME NEW status \in Statuses \ {"none"}
      PROVE  KeepsPresent(t, SetStatus(t, id, status))
  BY DEF KeepsPresent, SetStatus, Present, Tables, Run
<1>2. ASSUME NEW slot, NEW plies PROVE KeepsPresent(t, PersistRow(t, id, slot, plies))
  BY DEF KeepsPresent, PersistRow, Present, Tables, Run
<1>3. ASSUME NEW finalize PROVE KeepsPresent(t, PersistClassifications(t, id, finalize))
  BY DEF KeepsPresent, PersistClassifications, Present, Tables, Run
<1>4. ASSUME NEW found \in Statuses PROVE KeepsPresent(t, Prepare(t, id, found))
  <2>1. CASE found = "none"
    BY <2>1 DEF KeepsPresent, Prepare, Present, Tables, Run, NewRun
  <2>2. CASE found = "complete"
    BY <2>2 DEF KeepsPresent, Prepare
  <2>3. CASE found \notin {"none", "complete"}
    BY <1>1, <2>3 DEF Prepare, Statuses
  <2> QED
    BY <2>1, <2>2, <2>3
<1> QED
  BY <1>1, <1>2, <1>3, <1>4
=============================================================================
