-------------------------- MODULE ArchiveJobsProofs --------------------------
(* Proofs about the archive jobs: what is archived stays archived and is    *)
(* not fetched again, and a job reported as completed has archived all.     *)
EXTENDS ArchiveJobs, FiniteSetTheorems, TLAPS

-----------------------------------------------------------------------------
(* The inductive invariant.                                                *)

Works(r, e) == e \in run[r].todo \/ run[r].stage[e] # "none"

\* What a run works on is listed by its job.
WorksOnItems == \A r \in Run, e \in Event : Works(r, e) => run[r].job \in Job /\ Known(run[r].job, e)

\* There is a worker for each event in work.
WorkersSuffice == \A r \in Run : Cardinality(InWork(r)) <= run[r].workers

\* The task of a live run captures; one task at most is past the lock, and one run is live.
LiveCaptures == \A r \in Run : run[r].live => run[r].job \in Job /\ task[run[r].job] = "capturing"

OneTaskRuns ==
  \A j, k \in Job :
    {task[j], task[k]} \subseteq {"discovery", "capturing"} => j = k

OneRunIsLive == \A r, s \in Run : run[r].live /\ run[s].live => r = s

\* A job with a task is not over.
TasksAreActive == \A j \in Job : task[j] # "none" => job[j] \in {"pending", "running"}

IInv ==
  /\ TypeOK
  /\ WorksOnItems
  /\ WorkersSuffice
  /\ LiveCaptures
  /\ OneTaskRuns
  /\ OneRunIsLive
  /\ TasksAreActive
  /\ CompletedMeansArchived
  /\ ArchivedNotFetchedAgain

-----------------------------------------------------------------------------
(* The rows.                                                               *)

\* A row of an item that is known has the fields of a row, and no row is the missing one.
LEMMA Rows ==
  ASSUME TypeOK, NEW j \in Job, NEW e \in Event
  PROVE  /\ item[j][e] \in ItemRow \cup {NoItem}
         /\ Known(j, e) => item[j][e] \in ItemRow
         /\ match[e] \in MatchRow
<1>1. item[j] \in [Event -> ItemRow \cup {NoItem}]
  BY DEF TypeOK
<1> QED
  BY <1>1 DEF TypeOK, Known

\* A row is not the missing one.
LEMMA RowIsKnown ==
  ASSUME NEW i \in ItemRow
  PROVE  i # NoItem
<1>1. i.state # "none"
  BY DEF ItemRow
<1>2. NoItem.state = "none"
  BY DEF NoItem
<1> QED
  BY <1>1, <1>2

ItemStates == {"discovered", "processing", "ready", "archived", "incomplete"}

OddsStates == {"pending", "complete", "partial", "unavailable", "failed"}

ScoreStates == {"pending", "complete", "failed"}

\* A row that changes in its state, its odds, its score or its link is a row, archived as before.
LEMMA RowUpdates ==
  ASSUME NEW i \in ItemRow
  PROVE  /\ \A st \in ItemStates : /\ [i EXCEPT !.state = st] \in ItemRow
                                   /\ [i EXCEPT !.state = st].archived = i.archived
         /\ \A odds \in OddsStates : /\ [i EXCEPT !.odds = odds] \in ItemRow
                                     /\ [i EXCEPT !.odds = odds].archived = i.archived
         /\ \A score \in ScoreStates : /\ [i EXCEPT !.score = score] \in ItemRow
                                       /\ [i EXCEPT !.score = score].archived = i.archived
         /\ [i EXCEPT !.linked = TRUE] \in ItemRow
         /\ [i EXCEPT !.linked = TRUE].archived = i.archived
  BY DEF ItemRow, ItemStates, OddsStates, ScoreStates

\* The same for the odds, the result and the archive row of a match.
LEMMA MatchUpdates ==
  ASSUME NEW m \in MatchRow
  PROVE  /\ \A odds \in SUBSET Bookmaker : /\ [m EXCEPT !.odds = odds] \in MatchRow
                                           /\ [m EXCEPT !.odds = odds].archived = m.archived
         /\ \A result \in BOOLEAN : /\ [m EXCEPT !.result = result] \in MatchRow
                                    /\ [m EXCEPT !.result = result].archived = m.archived
         /\ [m EXCEPT !.archived = TRUE] \in MatchRow
         /\ [m EXCEPT !.archived = TRUE].archived
  BY DEF MatchRow

\* A run with another stage of one event keeps the other stages and its other parts.
LEMMA StageUpdate ==
  ASSUME NEW rn \in RunRow, NEW e \in Event, NEW to \in Stage
  PROVE  \E new \in RunRow :
           /\ new = [rn EXCEPT !.stage = [rn.stage EXCEPT ![e] = to]]
           /\ new.job = rn.job /\ new.live = rn.live /\ new.todo = rn.todo
           /\ new.workers = rn.workers
           /\ \A d \in Event : new.stage[d] = IF d = e THEN to ELSE rn.stage[d]
<1>1. PICK stage \in [Event -> Stage] :
        stage = [rn.stage EXCEPT ![e] = to]
  <2>1. rn.stage \in [Event -> Stage]
    BY DEF RunRow, Stage
  <2>2. [rn.stage EXCEPT ![e] = to] \in [Event -> Stage]
    BY <2>1
  <2> QED
    BY <2>2
<1>2. [rn EXCEPT !.stage = stage] \in RunRow
  BY DEF RunRow, Stage
<1>3. PICK new \in RunRow : new = [rn EXCEPT !.stage = stage]
  BY <1>2
<1>4. /\ new.job = rn.job /\ new.live = rn.live /\ new.todo = rn.todo
      /\ new.workers = rn.workers /\ new.stage = stage
  BY <1>3 DEF RunRow
<1>5. rn.stage \in [Event -> Stage]
  BY DEF RunRow, Stage
<1>6. \A d \in Event : new.stage[d] = IF d = e THEN to ELSE rn.stage[d]
  BY <1>1, <1>4, <1>5
<1> QED
  BY <1>1, <1>3, <1>4, <1>6

\* A run with other events left, or done, keeps its other parts.
LEMMA SetsUpdate ==
  ASSUME NEW rn \in RunRow, NEW set \in SUBSET Event
  PROVE  /\ \E new \in RunRow :
              /\ new = [rn EXCEPT !.todo = set]
              /\ new.job = rn.job /\ new.live = rn.live /\ new.todo = set
              /\ new.workers = rn.workers /\ new.stage = rn.stage
         /\ \E new \in RunRow :
              /\ new = [rn EXCEPT !.done = set]
              /\ new.job = rn.job /\ new.live = rn.live /\ new.todo = rn.todo
              /\ new.workers = rn.workers /\ new.stage = rn.stage
<1>1. /\ [rn EXCEPT !.todo = set] \in RunRow
      /\ [rn EXCEPT !.todo = set].todo = set /\ [rn EXCEPT !.todo = set].stage = rn.stage
      /\ [rn EXCEPT !.todo = set].job = rn.job /\ [rn EXCEPT !.todo = set].live = rn.live
      /\ [rn EXCEPT !.todo = set].workers = rn.workers
  BY DEF RunRow
<1>2. /\ [rn EXCEPT !.done = set] \in RunRow
      /\ [rn EXCEPT !.done = set].todo = rn.todo /\ [rn EXCEPT !.done = set].stage = rn.stage
      /\ [rn EXCEPT !.done = set].job = rn.job /\ [rn EXCEPT !.done = set].live = rn.live
      /\ [rn EXCEPT !.done = set].workers = rn.workers
  BY DEF RunRow
<1> QED
  BY <1>1, <1>2

\* The fields of a run.
LEMMA RunFields ==
  ASSUME TypeOK, NEW r \in Run
  PROVE  /\ run[r] \in RunRow
         /\ run[r].job \in Job \cup {0} /\ run[r].live \in BOOLEAN
         /\ run[r].todo \subseteq Event /\ run[r].workers \in 0 .. Concurrency
         /\ run[r].stage \in [Event -> Stage]
         /\ run[r].done \subseteq Event
<1>1. run[r] \in RunRow
  BY DEF TypeOK
<1> QED
  BY <1>1 DEF RunRow, Stage

\* A run that does not exist works on nothing.
LEMMA NoRunFields ==
  /\ NoRun \in RunRow
  /\ ~NoRun.live /\ NoRun.todo = {} /\ NoRun.job = 0 /\ NoRun.workers = 0 /\ NoRun.done = {}
  /\ NoRun.stage = [e \in Event |-> "none"]
  BY ArchiveAssumption DEF NoRun, RunRow, Stage

\* The events in work are finitely many.
LEMMA InWorkIsFinite ==
  ASSUME NEW r
  PROVE  IsFiniteSet(InWork(r)) /\ Cardinality(InWork(r)) \in Nat
<1>1. InWork(r) \subseteq Event
  BY DEF InWork
<1> QED
  BY <1>1, ArchiveAssumption, FS_Subset, FS_CardinalityType

\* A run that is swept, or not, is a run; it keeps what it works on, and a live one is kept.
LEMMA SweptFields ==
  ASSUME NEW rn \in RunRow
  PROVE  /\ Swept(rn) \in RunRow
         /\ Swept(rn) = rn \/ (Swept(rn) = NoRun /\ ~rn.live)
  BY NoRunFields DEF Swept

-----------------------------------------------------------------------------
(* What the steps of a run have in common.                                 *)

\* No item appears, and none is archived or the reverse.
KeepsItems ==
  /\ item' \in [Job -> [Event -> ItemRow \cup {NoItem}]]
  /\ \A j \in Job, e \in Event : Known(j, e)' <=> Known(j, e)
  /\ \A j \in Job, e \in Event : Known(j, e) => item'[j][e].archived = item[j][e].archived

\* What an item has archived stays archived.
StaysArchived ==
  \A j \in Job, e \in Event :
    Known(j, e) /\ item[j][e].archived => Known(j, e)' /\ item'[j][e].archived

\* Nothing leaves the archive.
KeepsArchive ==
  /\ match' \in [Event -> MatchRow]
  /\ \A e \in Event : match[e].archived => match'[e].archived

\* A run works on what it worked on, or less, for the same job, and is as live as before.
Moves(r) ==
  /\ run' \in [Run -> RunRow]
  /\ \A s \in Run : s # r => run'[s] = run[s]
  /\ run'[r].live <=> run[r].live
  /\ run[r].live => run'[r].job = run[r].job
  /\ \A e \in Event : Works(r, e)' => Works(r, e) /\ run'[r].job = run[r].job
  /\ Cardinality(InWork(r)') <= run'[r].workers

\* Items that are kept stay archived.
LEMMA KeptArchived == KeepsItems => StaysArchived
  BY DEF KeepsItems, StaysArchived

\* A run that moves on, whatever it learns of its items, keeps the invariant.
LEMMA MovedRun ==
  ASSUME IInv, NEW r \in Run, Moves(r), KeepsItems, KeepsArchive, UNCHANGED <<job, task, used>>
  PROVE  IInv' /\ StaysArchived
<1>1. TypeOK'
  BY DEF IInv, TypeOK, Moves, KeepsItems, KeepsArchive
<1>2. ASSUME NEW s \in Run, NEW e \in Event, Works(s, e)'
      PROVE  Works(s, e) /\ run'[s].job = run[s].job
  BY <1>2 DEF Moves, Works
<1>3. \A s \in Run : (run'[s].live <=> run[s].live) /\ (run[s].live => run'[s].job = run[s].job)
  BY DEF Moves
<1>4. WorksOnItems'
  BY <1>2 DEF IInv, WorksOnItems, KeepsItems
<1>5. WorkersSuffice'
  <2> SUFFICES ASSUME NEW s \in Run PROVE Cardinality(InWork(s)') <= run'[s].workers
    BY DEF WorkersSuffice
  <2>1. CASE s = r
    BY <2>1 DEF Moves
  <2>2. CASE s # r
    <3>1. run'[s] = run[s]
      BY <2>2 DEF Moves
    <3>2. InWork(s)' = InWork(s)
      BY <3>1 DEF InWork
    <3> QED
      BY <3>1, <3>2 DEF IInv, WorkersSuffice
  <2> QED
    BY <2>1, <2>2
<1>6. LiveCaptures' /\ OneRunIsLive'
  BY <1>3 DEF IInv, LiveCaptures, OneRunIsLive
<1>7. OneTaskRuns' /\ TasksAreActive'
  BY DEF IInv, OneTaskRuns, TasksAreActive
<1>8. CompletedMeansArchived'
  BY DEF IInv, CompletedMeansArchived, KeepsItems, KeepsArchive
<1>9. ArchivedNotFetchedAgain'
  <2> SUFFICES ASSUME NEW s \in Run, NEW e \in Event, run'[s].live, Works(s, e)'
      PROVE  ~item'[run'[s].job][e].archived
    BY DEF ArchivedNotFetchedAgain, Works
  <2>1. Works(s, e) /\ run'[s].job = run[s].job /\ run[s].live
    BY <1>2, <1>3
  <2>2. run[s].job \in Job /\ Known(run[s].job, e) /\ ~item[run[s].job][e].archived
    BY <2>1 DEF IInv, WorksOnItems, ArchivedNotFetchedAgain, Works
  <2> QED
    BY <2>1, <2>2 DEF KeepsItems
<1> QED
  BY <1>1, <1>4, <1>5, <1>6, <1>7, <1>8, <1>9, KeptArchived DEF IInv

\* A row of one known item that changes in anything but being archived.
LEMMA ItemTouched ==
  ASSUME TypeOK, NEW j \in Job, NEW e \in Event, Known(j, e), NEW row \in ItemRow,
         row.archived = item[j][e].archived, item' = [item EXCEPT ![j][e] = row]
  PROVE  KeepsItems
<1>1. item[j] \in [Event -> ItemRow \cup {NoItem}]
  BY DEF TypeOK
<1>2. item' \in [Job -> [Event -> ItemRow \cup {NoItem}]]
  BY <1>1 DEF TypeOK
<1>3. \A k \in Job, d \in Event :
        item'[k][d] = IF k = j /\ d = e THEN row ELSE item[k][d]
  BY <1>1 DEF TypeOK
<1>4. row # NoItem
  BY RowIsKnown
<1> QED
  BY <1>2, <1>3, <1>4 DEF KeepsItems, Known

-----------------------------------------------------------------------------
(* The steps of a run.                                                     *)

\* A run that changes the stage of one event in work, and nothing else it works on, moves.
LEMMA StageMoves ==
  ASSUME IInv, NEW r \in Run, NEW e \in Event, run[r].stage[e] # "none",
         NEW to \in {"schedule", "odds", "saved", "score"}, NEW done \in SUBSET Event,
         run' = [run EXCEPT ![r] = [[run[r] EXCEPT !.stage = [run[r].stage EXCEPT ![e] = to]]
                                      EXCEPT !.done = done]]
  PROVE  Moves(r)
<1>1. PICK mid \in RunRow :
        /\ mid = [run[r] EXCEPT !.stage = [run[r].stage EXCEPT ![e] = to]]
        /\ mid.job = run[r].job /\ mid.live = run[r].live /\ mid.todo = run[r].todo
        /\ mid.workers = run[r].workers
        /\ \A d \in Event : mid.stage[d] = IF d = e THEN to ELSE run[r].stage[d]
  <2>1. run[r] \in RunRow /\ to \in Stage
    BY RunFields DEF IInv, Stage
  <2> QED
    BY <2>1, StageUpdate
<1>2. PICK rn \in RunRow :
        /\ rn = [mid EXCEPT !.done = done]
        /\ rn.job = mid.job /\ rn.live = mid.live /\ rn.todo = mid.todo
        /\ rn.workers = mid.workers /\ rn.stage = mid.stage
  BY SetsUpdate
<1>3. /\ rn.job = run[r].job /\ rn.live = run[r].live /\ rn.todo = run[r].todo
      /\ rn.workers = run[r].workers
      /\ \A d \in Event : rn.stage[d] = IF d = e THEN to ELSE run[r].stage[d]
  BY <1>1, <1>2
<1>4. run' = [run EXCEPT ![r] = rn]
  BY <1>1, <1>2
<1>5. run' \in [Run -> RunRow] /\ run'[r] = rn /\ \A s \in Run : s # r => run'[s] = run[s]
  BY <1>4 DEF IInv, TypeOK
<1>6. \A d \in Event : rn.stage[d] # "none" <=> run[r].stage[d] # "none"
  BY <1>3
<1>7. InWork(r)' = InWork(r)
  BY <1>3, <1>5, <1>6 DEF InWork
<1>8. Cardinality(InWork(r)') <= run'[r].workers
  BY <1>3, <1>5, <1>7 DEF IInv, WorkersSuffice
<1>9. \A d \in Event : Works(r, d)' => Works(r, d) /\ run'[r].job = run[r].job
  BY <1>3, <1>5, <1>6 DEF Works
<1>10. (run'[r].live <=> run[r].live) /\ run'[r].job = run[r].job
  BY <1>3, <1>5
<1> QED
  BY <1>5, <1>8, <1>9, <1>10 DEF Moves

\* Where an event is in work, its item is a row of the run's job.
LEMMA ItemInWork ==
  ASSUME IInv, NEW r \in Run, NEW e \in Event, Works(r, e)
  PROVE  /\ run[r].job \in Job /\ Known(run[r].job, e)
         /\ item[run[r].job][e] \in ItemRow
  BY Rows DEF IInv, WorksOnItems

\* What is not touched keeps what it was.
LEMMA NothingTouched ==
  ASSUME TypeOK
  PROVE  /\ item' = item => KeepsItems
         /\ match' = match => KeepsArchive
  BY DEF TypeOK, KeepsItems, KeepsArchive, Known

\* The next event of the iterator gets a worker.
LEMMA BeginStep ==
  ASSUME IInv, NEW r \in Run, NEW e \in Event, BeginEvent(r, e)
  PROVE  IInv' /\ StaysArchived
<1>1. PICK j \in Job : j = run[r].job /\ Known(j, e) /\ item[j][e] \in ItemRow
  BY ItemInWork DEF BeginEvent, Works
<1>2. PICK row \in ItemRow :
        row = [item[j][e] EXCEPT !.state = "processing"] /\ row.archived = item[j][e].archived
  BY <1>1, RowUpdates DEF ItemStates
<1>3. item' = [item EXCEPT ![j][e] = row]
  BY <1>1, <1>2 DEF BeginEvent
<1>4. KeepsItems
  BY <1>1, <1>2, <1>3, ItemTouched DEF IInv
<1>5. PICK mid \in RunRow :
        /\ mid = [run[r] EXCEPT !.todo = run[r].todo \ {e}]
        /\ mid.job = run[r].job /\ mid.live = run[r].live /\ mid.todo = run[r].todo \ {e}
        /\ mid.workers = run[r].workers /\ mid.stage = run[r].stage
  <2>1. run[r] \in RunRow /\ run[r].todo \ {e} \in SUBSET Event
    BY RunFields DEF IInv
  <2> QED
    BY <2>1, SetsUpdate
<1>6. PICK rn \in RunRow :
        /\ rn = [mid EXCEPT !.stage = [mid.stage EXCEPT ![e] = "kickoff"]]
        /\ rn.job = mid.job /\ rn.live = mid.live /\ rn.todo = mid.todo
        /\ rn.workers = mid.workers
        /\ \A d \in Event : rn.stage[d] = IF d = e THEN "kickoff" ELSE mid.stage[d]
  <2>1. "kickoff" \in Stage
    BY DEF Stage
  <2> QED
    BY <2>1, StageUpdate
<1>7. /\ rn.job = run[r].job /\ rn.live = run[r].live /\ rn.todo = run[r].todo \ {e}
      /\ rn.workers = run[r].workers
      /\ \A d \in Event : rn.stage[d] = IF d = e THEN "kickoff" ELSE run[r].stage[d]
  BY <1>5, <1>6
<1>8. run' = [run EXCEPT ![r] = rn]
  BY <1>5, <1>6 DEF BeginEvent, IInv, TypeOK
<1>9. run' \in [Run -> RunRow] /\ run'[r] = rn /\ \A s \in Run : s # r => run'[s] = run[s]
  BY <1>7, <1>8 DEF IInv, TypeOK
<1>10. InWork(r)' = InWork(r) \cup {e}
  BY <1>7, <1>9 DEF InWork
<1>11. Cardinality(InWork(r)') <= run'[r].workers
  <2>1. Cardinality(InWork(r) \cup {e}) <= Cardinality(InWork(r)) + 1
    <3>1. IsFiniteSet(InWork(r)) /\ Cardinality(InWork(r)) \in Nat
      BY InWorkIsFinite
    <3>2. Cardinality(InWork(r) \cup {e})
            = IF e \in InWork(r) THEN Cardinality(InWork(r)) ELSE Cardinality(InWork(r)) + 1
      BY <3>1, FS_AddElement
    <3> QED
      BY <3>1, <3>2
  <2>2. Cardinality(InWork(r)) < run[r].workers /\ run[r].workers \in Nat
    BY RunFields, ArchiveAssumption DEF BeginEvent, IInv
  <2>3. Cardinality(InWork(r) \cup {e}) \in Nat
    BY InWorkIsFinite, FS_AddElement, FS_CardinalityType
  <2> QED
    BY <1>7, <1>9, <1>10, <2>1, <2>2, <2>3, InWorkIsFinite
<1>12. Works(r, e)
  BY DEF BeginEvent, Works
<1>13. \A d \in Event : Works(r, d)' => Works(r, d)
  BY <1>7, <1>9, <1>12 DEF Works
<1>14. Moves(r)
  BY <1>7, <1>9, <1>11, <1>13 DEF Moves
<1>15. UNCHANGED <<job, match, task, used>>
  BY DEF BeginEvent
<1> QED
  BY <1>4, <1>14, <1>15, MovedRun, NothingTouched DEF IInv

\* The match of an event is linked to its item.
LEMMA LinkStep ==
  ASSUME IInv, NEW r \in Run, NEW e \in Event, LinkEvent(r, e)
  PROVE  IInv' /\ StaysArchived
<1>1. PICK j \in Job : j = run[r].job /\ Known(j, e) /\ item[j][e] \in ItemRow
  BY ItemInWork DEF LinkEvent, Works
<1>2. PICK row \in ItemRow :
        /\ row = [[item[j][e] EXCEPT !.state = "processing"] EXCEPT !.linked = TRUE]
        /\ row.archived = item[j][e].archived
  <2>1. PICK mid \in ItemRow :
          /\ mid = [item[j][e] EXCEPT !.state = "processing"]
          /\ mid.archived = item[j][e].archived
    BY <1>1, RowUpdates DEF ItemStates
  <2>2. /\ [mid EXCEPT !.linked = TRUE] \in ItemRow
        /\ [mid EXCEPT !.linked = TRUE].archived = mid.archived
    BY RowUpdates
  <2> QED
    BY <2>1, <2>2
<1>3. item' = [item EXCEPT ![j][e] = row]
  BY <1>1, <1>2, Rows DEF LinkEvent, IInv, TypeOK
<1>4. KeepsItems
  BY <1>1, <1>2, <1>3, ItemTouched DEF IInv
<1>5. PICK done \in SUBSET Event : done = run[r].done \cup {e}
  BY RunFields DEF IInv
<1>6. run' = [run EXCEPT ![r] = [[run[r] EXCEPT !.stage = [run[r].stage EXCEPT ![e] = "schedule"]]
                                   EXCEPT !.done = done]]
  BY <1>5, RunFields DEF LinkEvent, IInv, TypeOK, RunRow
<1>7. run[r].stage[e] # "none" /\ UNCHANGED <<job, match, task, used>>
  BY DEF LinkEvent
<1>8. Moves(r)
  BY <1>6, <1>7, StageMoves
<1> QED
  BY <1>4, <1>7, <1>8, MovedRun, NothingTouched DEF IInv

\* Its schedule is stored.
LEMMA StoredStep ==
  ASSUME IInv, NEW r \in Run, NEW e \in Event, ScheduleStored(r, e)
  PROVE  IInv' /\ StaysArchived
<1>1. run[r] \in RunRow
  BY RunFields DEF IInv
<1>2. PICK done \in SUBSET Event : done = run[r].done
  BY RunFields DEF IInv
<1>3. run' = [run EXCEPT ![r] = [[run[r] EXCEPT !.stage = [run[r].stage EXCEPT ![e] = "odds"]]
                                   EXCEPT !.done = done]]
  BY <1>1, <1>2 DEF ScheduleStored, RunRow
<1>4. run[r].stage[e] # "none" /\ UNCHANGED <<job, item, match, task, used>>
  BY DEF ScheduleStored
<1>5. Moves(r)
  BY <1>3, <1>4, StageMoves
<1> QED
  BY <1>4, <1>5, MovedRun, NothingTouched DEF IInv

\* The match of an event may gain bookmakers and a result.
LEMMA MatchGains ==
  ASSUME TypeOK, NEW e \in Event
  PROVE  /\ \A found \in SUBSET Bookmaker :
              match' = [match EXCEPT ![e].odds = @ \cup found] => KeepsArchive
         /\ match' = [match EXCEPT ![e].result = TRUE] => KeepsArchive
<1>1. match[e] \in MatchRow
  BY DEF TypeOK
<1>2. ASSUME NEW found \in SUBSET Bookmaker, match' = [match EXCEPT ![e].odds = @ \cup found]
      PROVE  KeepsArchive
  <2>1. match[e].odds \cup found \in SUBSET Bookmaker
    BY <1>1 DEF MatchRow
  <2>2. PICK row \in MatchRow :
          /\ row = [match[e] EXCEPT !.odds = match[e].odds \cup found]
          /\ row.archived = match[e].archived
    BY <1>1, <2>1, MatchUpdates
  <2>3. match' = [match EXCEPT ![e] = row]
    BY <1>2, <2>2
  <2> QED
    BY <2>2, <2>3 DEF KeepsArchive, TypeOK
<1>3. ASSUME match' = [match EXCEPT ![e].result = TRUE] PROVE KeepsArchive
  <2>1. PICK row \in MatchRow :
          row = [match[e] EXCEPT !.result = TRUE] /\ row.archived = match[e].archived
    BY <1>1, MatchUpdates
  <2>2. match' = [match EXCEPT ![e] = row]
    BY <1>3, <2>1
  <2> QED
    BY <2>1, <2>2 DEF KeepsArchive, TypeOK
<1> QED
  BY <1>2, <1>3

\* A snapshot with odds is stored; the bookmakers that were found add to the match's odds.
LEMMA SaveStep ==
  ASSUME IInv, NEW r \in Run, NEW e \in Event, SaveOdds(r, e)
  PROVE  IInv' /\ StaysArchived
<1>1. KeepsArchive
  BY MatchGains DEF SaveOdds, IInv
<1>2. run[r] \in RunRow
  BY RunFields DEF IInv
<1>3. PICK done \in SUBSET Event : done = run[r].done
  BY RunFields DEF IInv
<1>4. run' = [run EXCEPT ![r] = [[run[r] EXCEPT !.stage = [run[r].stage EXCEPT ![e] = "saved"]]
                                   EXCEPT !.done = done]]
  BY <1>2, <1>3 DEF SaveOdds, RunRow
<1>5. run[r].stage[e] # "none" /\ UNCHANGED <<job, item, task, used>>
  BY DEF SaveOdds
<1>6. Moves(r)
  BY <1>4, <1>5, StageMoves
<1> QED
  BY <1>1, <1>5, <1>6, MovedRun, NothingTouched DEF IInv

\* The item is told what came of its odds.
LEMMA OddsStep ==
  ASSUME IInv, NEW r \in Run, NEW e \in Event, CaptureOdds(r, e)
  PROVE  IInv' /\ StaysArchived
<1>1. run[r].stage[e] # "none" /\ UNCHANGED <<job, match, task, used>>
  BY DEF CaptureOdds
<1>2. PICK j \in Job : j = run[r].job /\ Known(j, e) /\ item[j][e] \in ItemRow
  BY <1>1, ItemInWork DEF Works
<1>3. PICK status \in {"complete", "partial", "unavailable", "failed"} :
        item' = [item EXCEPT ![run[r].job][e].odds = status]
  BY DEF CaptureOdds, OddsStatus
<1>4. PICK row \in ItemRow :
        row = [item[j][e] EXCEPT !.odds = status] /\ row.archived = item[j][e].archived
  BY <1>2, RowUpdates DEF OddsStates
<1>5. item' = [item EXCEPT ![j][e] = row]
  BY <1>2, <1>3, <1>4
<1>6. KeepsItems
  BY <1>2, <1>4, <1>5, ItemTouched DEF IInv
<1>7. run[r] \in RunRow
  BY RunFields DEF IInv
<1>8. PICK done \in SUBSET Event : done = run[r].done
  BY RunFields DEF IInv
<1>9. run' = [run EXCEPT ![r] = [[run[r] EXCEPT !.stage = [run[r].stage EXCEPT ![e] = "score"]]
                                   EXCEPT !.done = done]]
  BY <1>7, <1>8 DEF CaptureOdds, RunRow
<1>10. Moves(r)
  BY <1>1, <1>9, StageMoves
<1> QED
  BY <1>1, <1>6, <1>10, MovedRun, NothingTouched DEF IInv

\* The score was found or not, and the event is no longer in work; what is left of a run that
\* is over is gone.
LEMMA ScoreStep ==
  ASSUME IInv, NEW r \in Run, NEW e \in Event, CaptureScore(r, e)
  PROVE  IInv' /\ StaysArchived
<1>1. PICK j \in Job : j = run[r].job /\ Known(j, e) /\ item[j][e] \in ItemRow
  BY ItemInWork DEF CaptureScore, Works
<1>2. PICK scored \in BOOLEAN, score \in {"complete", "failed"} :
        /\ match' = [match EXCEPT ![e].result = @ \/ scored]
        /\ item' = [item EXCEPT ![run[r].job][e].state = "ready", ![run[r].job][e].score = score]
  BY DEF CaptureScore
<1>3. PICK row \in ItemRow :
        /\ row = [[item[j][e] EXCEPT !.state = "ready"] EXCEPT !.score = score]
        /\ row.archived = item[j][e].archived
  <2>1. PICK mid \in ItemRow :
          mid = [item[j][e] EXCEPT !.state = "ready"] /\ mid.archived = item[j][e].archived
    BY <1>1, RowUpdates DEF ItemStates
  <2>2. /\ [mid EXCEPT !.score = score] \in ItemRow
        /\ [mid EXCEPT !.score = score].archived = mid.archived
    BY RowUpdates DEF ScoreStates
  <2> QED
    BY <2>1, <2>2
<1>4. item' = [item EXCEPT ![j][e] = row]
  BY <1>1, <1>2, <1>3, Rows DEF IInv, TypeOK
<1>5. KeepsItems
  BY <1>1, <1>3, <1>4, ItemTouched DEF IInv
<1>6. KeepsArchive
  <2>1. match[e] \in MatchRow
    BY DEF IInv, TypeOK
  <2>2. (match[e].result \/ scored) \in BOOLEAN
    OBVIOUS
  <2>3. PICK row2 \in MatchRow :
          /\ row2 = [match[e] EXCEPT !.result = match[e].result \/ scored]
          /\ row2.archived = match[e].archived
    BY <2>1, <2>2, MatchUpdates
  <2>4. match' = [match EXCEPT ![e] = row2]
    BY <1>2, <2>3
  <2> QED
    BY <2>3, <2>4 DEF KeepsArchive, IInv, TypeOK
<1>9. PICK rn \in RunRow :
        /\ rn = [run[r] EXCEPT !.stage = [run[r].stage EXCEPT ![e] = "none"]]
        /\ rn.job = run[r].job /\ rn.live = run[r].live /\ rn.todo = run[r].todo
        /\ rn.workers = run[r].workers
        /\ \A d \in Event : rn.stage[d] = IF d = e THEN "none" ELSE run[r].stage[d]
  <2>1. run[r] \in RunRow /\ "none" \in Stage
    BY RunFields DEF IInv, Stage
  <2> QED
    BY <2>1, StageUpdate
<1>10. run' = [run EXCEPT ![r] = Swept(rn)]
  BY <1>9 DEF CaptureScore
<1>11. /\ run' \in [Run -> RunRow] /\ \A s \in Run : s # r => run'[s] = run[s]
       /\ run'[r] = rn \/ (run'[r] = NoRun /\ ~rn.live)
  BY <1>9, <1>10, SweptFields DEF IInv, TypeOK
<1>12. Moves(r)
  <2>1. CASE run'[r] = rn
    <3>1. InWork(r)' = InWork(r) \ {e}
      BY <1>9, <2>1 DEF InWork
    <3>2. Cardinality(InWork(r)') <= Cardinality(InWork(r))
      BY <3>1, InWorkIsFinite, FS_Subset
    <3>3. Cardinality(InWork(r)') \in Nat
      BY <3>1, InWorkIsFinite, FS_Subset, FS_CardinalityType
    <3>4. run[r].workers \in Nat
      BY RunFields, ArchiveAssumption DEF IInv
    <3>5. Cardinality(InWork(r)') <= run'[r].workers
      BY <1>9, <2>1, <3>2, <3>3, <3>4, InWorkIsFinite DEF IInv, WorkersSuffice
    <3>6. \A d \in Event : Works(r, d)' => Works(r, d) /\ run'[r].job = run[r].job
      BY <1>9, <2>1 DEF Works
    <3> QED
      BY <1>9, <1>11, <2>1, <3>5, <3>6 DEF Moves
  <2>2. CASE run'[r] = NoRun /\ ~rn.live
    <3>1. InWork(r)' = {} /\ \A d \in Event : ~Works(r, d)'
      BY <2>2, NoRunFields DEF InWork, Works
    <3>2. Cardinality(InWork(r)') <= run'[r].workers
      BY <2>2, <3>1, NoRunFields, FS_EmptySet
    <3> QED
      BY <1>9, <1>11, <2>2, <3>1, <3>2, NoRunFields DEF Moves
  <2> QED
    BY <1>11, <2>1, <2>2
<1>13. UNCHANGED <<job, task, used>>
  BY DEF CaptureScore
<1> QED
  BY <1>5, <1>6, <1>12, <1>13, MovedRun

-----------------------------------------------------------------------------
(* The requests, and the beginning and end of a run.                       *)

\* The items of one job, all rows of it together.
ItemRows == [Event -> ItemRow \cup {NoItem}]

\* Rows of one job that are reset, closed or marked: which are known does not change, and
\* nothing that is archived is undone.
KeepsRows(new, old) ==
  /\ new \in ItemRows
  /\ \A e \in Event : new[e] # NoItem <=> old[e] # NoItem
  /\ \A e \in Event : old[e] # NoItem => (new[e].archived <=> old[e].archived)

\* The rows of one job change as KeepsRows says, and nothing else does.
LEMMA RowsKept ==
  ASSUME TypeOK, NEW j \in Job, NEW new, KeepsRows(new, item[j]), item' = [item EXCEPT ![j] = new]
  PROVE  KeepsItems
<1>1. item' \in [Job -> ItemRows]
  BY DEF TypeOK, ItemRows, KeepsRows
<1>2. \A k \in Job : item'[k] = IF k = j THEN new ELSE item[k]
  BY DEF TypeOK
<1>3. \A k \in Job, e \in Event : Known(k, e)' <=> Known(k, e)
  BY <1>2 DEF KeepsRows, Known
<1>4. \A e \in Event : Known(j, e) => new[e].archived = item[j][e].archived
  <2> SUFFICES ASSUME NEW e \in Event, Known(j, e) PROVE new[e].archived = item[j][e].archived
    OBVIOUS
  <2>1. item[j][e] \in ItemRow /\ new[e] \in ItemRow
    BY Rows DEF KeepsRows, ItemRows, Known
  <2>2. item[j][e].archived \in BOOLEAN /\ new[e].archived \in BOOLEAN
    BY <2>1 DEF ItemRow
  <2>3. new[e].archived <=> item[j][e].archived
    BY DEF KeepsRows, Known
  <2> QED
    BY <2>2, <2>3
<1>5. \A k \in Job, e \in Event : Known(k, e) => item'[k][e].archived = item[k][e].archived
  BY <1>2, <1>4
<1> QED
  BY <1>1, <1>3, <1>5 DEF KeepsItems, ItemRows

\* What the end of a job makes of its rows.
LEMMA ClosedRows ==
  ASSUME NEW items \in ItemRows
  PROVE  KeepsRows(Closed(items), items)
<1>1. ASSUME NEW e \in Event
      PROVE  /\ Closed(items)[e] \in ItemRow \cup {NoItem}
             /\ Closed(items)[e] # NoItem <=> items[e] # NoItem
             /\ items[e] # NoItem => (Closed(items)[e].archived <=> items[e].archived)
  <2>1. CASE items[e] # NoItem /\ ~items[e].archived
    <3>1. items[e] \in ItemRow
      BY <2>1 DEF ItemRows
    <3>2. Closed(items)[e] = [items[e] EXCEPT !.state = "incomplete"]
      BY <2>1 DEF Closed
    <3>3. Closed(items)[e] \in ItemRow /\ Closed(items)[e].archived = items[e].archived
      BY <3>1, <3>2, RowUpdates DEF ItemStates
    <3> QED
      BY <2>1, <3>3, RowIsKnown
  <2>2. CASE ~(items[e] # NoItem /\ ~items[e].archived)
    <3>1. Closed(items)[e] = items[e]
      BY <2>2 DEF Closed
    <3> QED
      BY <3>1 DEF ItemRows
  <2> QED
    BY <2>1, <2>2
<1>2. Closed(items) \in ItemRows
  BY <1>1 DEF Closed, ItemRows
<1> QED
  BY <1>1, <1>2 DEF KeepsRows

\* A retry resets what is not archived.
LEMMA ResetRow ==
  ASSUME NEW i \in ItemRow
  PROVE  Reset(i) \in ItemRow /\ Reset(i).archived = i.archived
<1>1. CASE i.archived
  BY <1>1 DEF Reset
<1>2. CASE ~i.archived
  <2>1. PICK odds \in OddsStates, score \in ScoreStates :
          /\ odds = IF i.odds = "complete" THEN i.odds ELSE "pending"
          /\ score = IF i.score = "complete" THEN i.score ELSE "pending"
    BY DEF ItemRow, OddsStates, ScoreStates
  <2>2. PICK a \in ItemRow : a = [i EXCEPT !.state = "discovered"] /\ a.archived = i.archived
                             /\ a.odds = i.odds /\ a.score = i.score
    <3>1. [i EXCEPT !.state = "discovered"].odds = i.odds
          /\ [i EXCEPT !.state = "discovered"].score = i.score
      BY DEF ItemRow
    <3>2. [i EXCEPT !.state = "discovered"] \in ItemRow
          /\ [i EXCEPT !.state = "discovered"].archived = i.archived
      BY RowUpdates DEF ItemStates
    <3> QED
      BY <3>1, <3>2
  <2>3. PICK b \in ItemRow : b = [a EXCEPT !.odds = odds] /\ b.archived = a.archived
                             /\ b.score = a.score
    <3>1. [a EXCEPT !.odds = odds].score = a.score
      BY DEF ItemRow
    <3>2. [a EXCEPT !.odds = odds] \in ItemRow /\ [a EXCEPT !.odds = odds].archived = a.archived
      BY RowUpdates
    <3> QED
      BY <3>1, <3>2
  <2>4. [b EXCEPT !.score = score] \in ItemRow /\ [b EXCEPT !.score = score].archived = b.archived
    BY RowUpdates
  <2>5. Reset(i) = [b EXCEPT !.score = score]
    BY <1>2, <2>1, <2>2, <2>3 DEF Reset, ItemRow
  <2> QED
    BY <2>2, <2>3, <2>4, <2>5
<1> QED
  BY <1>1, <1>2

\* A job is completed by the end of a run only if all it lists is archived.
LEMMA StatusRows ==
  ASSUME NEW items \in ItemRows
  PROVE  /\ StatusOf(items) \in Ended
         /\ StatusOf(items) = "completed" => \A e \in Event : items[e] # NoItem => items[e].archived
  BY DEF StatusOf, Ended

\* A step that leaves the runs alone leaves what they work on as it was.
LEMMA RunsUntouched ==
  ASSUME IInv, UNCHANGED run, KeepsItems
  PROVE  WorksOnItems' /\ WorkersSuffice' /\ OneRunIsLive' /\ ArchivedNotFetchedAgain'
<1>1. \A r \in Run, e \in Event : Works(r, e)' <=> Works(r, e)
  BY DEF Works
<1>2. WorksOnItems' /\ OneRunIsLive'
  BY <1>1 DEF IInv, WorksOnItems, KeepsItems, OneRunIsLive
<1>3. WorkersSuffice'
  BY DEF IInv, WorkersSuffice, InWork
<1>4. ArchivedNotFetchedAgain'
  <2> SUFFICES ASSUME NEW r \in Run, NEW e \in Event, run[r].live, Works(r, e)
      PROVE  ~item'[run[r].job][e].archived
    BY DEF ArchivedNotFetchedAgain, Works
  <2>1. run[r].job \in Job /\ Known(run[r].job, e) /\ ~item[run[r].job][e].archived
    BY DEF IInv, WorksOnItems, ArchivedNotFetchedAgain, Works
  <2> QED
    BY <2>1 DEF KeepsItems
<1> QED
  BY <1>2, <1>3, <1>4

\* Jobs that are not over, or were completed before, and archived matches that stay: completed
\* still means archived.
LEMMA CompletedKept ==
  ASSUME IInv, KeepsItems, KeepsArchive,
         \A j \in Job : job'[j] = "completed" => job[j] = "completed"
  PROVE  CompletedMeansArchived'
  BY DEF IInv, CompletedMeansArchived, KeepsItems, KeepsArchive

\* Nothing runs besides a task that has the lock and has not discovered its events yet.
LEMMA NothingLive ==
  ASSUME IInv, NEW j \in Job, task[j] = "discovery"
  PROVE  /\ \A r \in Run : ~run[r].live
         /\ \A k \in Job : k # j => task[k] \in {"none", "queued"}
<1>1. \A k \in Job : task[k] \in {"none", "queued", "discovery", "capturing"}
  BY DEF IInv, TypeOK
<1> QED
  BY <1>1 DEF IInv, LiveCaptures, OneTaskRuns

\* Nor besides a live run's task.
LEMMA OnlyLiveTask ==
  ASSUME IInv, NEW r \in Run, run[r].live
  PROVE  /\ run[r].job \in Job /\ task[run[r].job] = "capturing"
         /\ \A s \in Run : s # r => ~run[s].live
         /\ \A k \in Job : k # run[r].job => task[k] \in {"none", "queued"}
<1>1. \A k \in Job : task[k] \in {"none", "queued", "discovery", "capturing"}
  BY DEF IInv, TypeOK
<1>2. run[r].job \in Job /\ task[run[r].job] = "capturing"
  BY DEF IInv, LiveCaptures
<1> QED
  BY <1>1, <1>2 DEF IInv, OneRunIsLive, OneTaskRuns

\* Scheduling a job gives it a task if it has none, and leaves a task that is not done alone.
LEMMA ScheduledTasks ==
  ASSUME IInv, NEW j \in Job, task' = Scheduled(j)
  PROVE  /\ task' \in [Job -> {"none", "queued", "discovery", "capturing"}]
         /\ \A k \in Job : task'[k] = task[k] \/ (k = j /\ task[k] = "none" /\ task'[k] = "queued")
         /\ OneTaskRuns'
         /\ UNCHANGED run => LiveCaptures'
<1>1. /\ task' \in [Job -> {"none", "queued", "discovery", "capturing"}]
      /\ \A k \in Job : task'[k] = task[k] \/ (k = j /\ task[k] = "none" /\ task'[k] = "queued")
  BY DEF IInv, TypeOK, Scheduled
<1>2. OneTaskRuns'
  BY <1>1 DEF IInv, OneTaskRuns
<1>3. UNCHANGED run => LiveCaptures'
  BY <1>1 DEF IInv, LiveCaptures
<1> QED
  BY <1>1, <1>2, <1>3

\* A request for the date goes on with the newest job that is not over, or makes a new one.
LEMMA CreateStep ==
  ASSUME IInv, CreateJob
  PROVE  IInv' /\ StaysArchived
<1>1. PICK j \in Job :
        /\ task' = Scheduled(j)
        /\ \/ j \in Active /\ job' = job
           \/ job' = [job EXCEPT ![j] = "pending"]
  <2>1. CASE Active # {} /\ UNCHANGED job /\ \E j \in Active : task' = Scheduled(j)
    BY <2>1 DEF Active
  <2>2. CASE \E j \in Job : job' = [job EXCEPT ![j] = "pending"] /\ task' = Scheduled(j)
    BY <2>2
  <2> QED
    BY <2>1, <2>2 DEF CreateJob
<1>2. UNCHANGED <<item, match, run, used>>
  BY DEF CreateJob
<1>3. /\ job' \in [Job -> JobStatus]
      /\ \A k \in Job : job'[k] = job[k] \/ job'[k] = "pending"
      /\ job'[j] \in {"pending", "running"}
  BY <1>1 DEF IInv, TypeOK, JobStatus, Active
<1>4. TypeOK'
  BY <1>1, <1>2, <1>3, ScheduledTasks DEF IInv, TypeOK
<1>5. KeepsItems /\ KeepsArchive
  BY <1>2, NothingTouched DEF IInv
<1>6. CompletedMeansArchived'
  BY <1>3, <1>5, CompletedKept
<1>7. TasksAreActive'
  BY <1>1, <1>3, ScheduledTasks DEF IInv, TasksAreActive
<1> QED
  BY <1>1, <1>2, <1>4, <1>5, <1>6, <1>7, ScheduledTasks, RunsUntouched, KeptArchived DEF IInv

\* A retry resets the items of a job that are not archived, running or not.
LEMMA RetryStep ==
  ASSUME IInv, NEW j \in Job, RetryJob(j)
  PROVE  IInv' /\ StaysArchived
<1>1. PICK new : new = [e \in Event |-> IF Known(j, e) THEN Reset(item[j][e]) ELSE NoItem]
  OBVIOUS
<1>2. item' = [item EXCEPT ![j] = new]
  BY <1>1 DEF RetryJob, IInv, TypeOK
<1>3. KeepsRows(new, item[j])
  <2>1. ASSUME NEW e \in Event
        PROVE  /\ new[e] \in ItemRow \cup {NoItem}
               /\ new[e] # NoItem <=> item[j][e] # NoItem
               /\ item[j][e] # NoItem => (new[e].archived <=> item[j][e].archived)
    <3>1. CASE Known(j, e)
      <4>1. new[e] = Reset(item[j][e]) /\ item[j][e] \in ItemRow
        BY <1>1, <3>1, Rows DEF IInv
      <4>2. new[e] \in ItemRow /\ new[e].archived = item[j][e].archived
        BY <4>1, ResetRow
      <4> QED
        BY <3>1, <4>2, RowIsKnown DEF Known
    <3>2. CASE ~Known(j, e)
      BY <1>1, <3>2 DEF Known
    <3> QED
      BY <3>1, <3>2
  <2>2. new \in ItemRows
    BY <1>1, <2>1 DEF ItemRows
  <2> QED
    BY <2>1, <2>2 DEF KeepsRows
<1>4. KeepsItems
  BY <1>2, <1>3, RowsKept DEF IInv
<1>5. /\ job' = [job EXCEPT ![j] = "pending"] /\ task' = Scheduled(j)
      /\ used' = [used EXCEPT !.retries = @ + 1] /\ UNCHANGED <<match, run>>
  BY DEF RetryJob
<1>6. KeepsArchive
  BY <1>5, NothingTouched DEF IInv
<1>7. job' \in [Job -> JobStatus] /\ \A k \in Job : job'[k] = IF k = j THEN "pending" ELSE job[k]
  BY <1>5 DEF IInv, TypeOK, JobStatus
<1>8. used' \in [retries: Nat, faults: Nat, crashes: Nat]
  BY <1>5 DEF IInv, TypeOK
<1>9. TypeOK'
  BY <1>4, <1>5, <1>6, <1>7, <1>8, ScheduledTasks DEF IInv, TypeOK, KeepsItems, KeepsArchive
<1>10. CompletedMeansArchived'
  BY <1>4, <1>6, <1>7, CompletedKept
<1>11. TasksAreActive'
  BY <1>5, <1>7, ScheduledTasks DEF IInv, TasksAreActive
<1> QED
  BY <1>4, <1>5, <1>9, <1>10, <1>11, ScheduledTasks, RunsUntouched, KeptArchived DEF IInv

\* The task that gets the lock is the only one that runs, and no run is live.
LEMMA StartStep ==
  ASSUME IInv, NEW j \in Job, StartJob(j)
  PROVE  IInv' /\ StaysArchived
<1>1. /\ task' = [task EXCEPT ![j] = "discovery"] /\ job' = [job EXCEPT ![j] = "running"]
      /\ UNCHANGED <<item, match, run, used>>
      /\ \A k \in Job : task[k] \in {"none", "queued"}
  BY DEF StartJob
<1>2. KeepsItems /\ KeepsArchive
  BY <1>1, NothingTouched DEF IInv
<1>3. /\ job' \in [Job -> JobStatus]
      /\ \A k \in Job : job'[k] = IF k = j THEN "running" ELSE job[k]
      /\ task' \in [Job -> {"none", "queued", "discovery", "capturing"}]
      /\ \A k \in Job : task'[k] = IF k = j THEN "discovery" ELSE task[k]
  BY <1>1 DEF IInv, TypeOK, JobStatus
<1>4. TypeOK'
  BY <1>1, <1>3 DEF IInv, TypeOK
<1>5. \A r \in Run : ~run[r].live
  BY <1>1 DEF IInv, LiveCaptures
<1>6. LiveCaptures' /\ OneTaskRuns' /\ TasksAreActive'
  BY <1>1, <1>3, <1>5 DEF IInv, LiveCaptures, OneTaskRuns, TasksAreActive
<1>7. CompletedMeansArchived'
  BY <1>2, <1>3, CompletedKept
<1> QED
  BY <1>1, <1>2, <1>4, <1>6, <1>7, RunsUntouched, KeptArchived DEF IInv

\* A discovery that fails ends the job, with an error or with what its items say.
LEMMA DiscoveryFailsStep ==
  ASSUME IInv, NEW j \in Job, DiscoveryFails(j)
  PROVE  IInv' /\ StaysArchived
<1>1. /\ task[j] = "discovery" /\ task' = [task EXCEPT ![j] = "none"]
      /\ used' = [used EXCEPT !.faults = @ + 1] /\ UNCHANGED <<match, run>>
  BY DEF DiscoveryFails
<1>2. item[j] \in ItemRows
  BY DEF IInv, TypeOK, ItemRows
<1>3. PICK status \in {"failed"} \cup Ended :
        /\ job' = [job EXCEPT ![j] = status]
        /\ KeepsItems
        /\ status = "completed" =>
             \A e \in Event : Known(j, e)' => item'[j][e].archived
  <2>1. CASE job' = [job EXCEPT ![j] = "failed"] /\ UNCHANGED item
    <3>1. KeepsItems
      BY <2>1, NothingTouched DEF IInv
    <3>2. "failed" \in {"failed"} \cup Ended /\ "failed" # "completed"
      OBVIOUS
    <3> QED
      BY <2>1, <3>1, <3>2
  <2>2. CASE /\ item' = [item EXCEPT ![j] = Closed(item[j])]
             /\ job' = [job EXCEPT ![j] = StatusOf(Closed(item[j]))]
    <3>1. PICK new \in ItemRows : new = Closed(item[j]) /\ KeepsRows(new, item[j])
      BY <1>2, ClosedRows DEF KeepsRows
    <3>2. KeepsItems
      BY <2>2, <3>1, RowsKept DEF IInv
    <3>3. item'[j] = new
      BY <2>2, <3>1 DEF IInv, TypeOK
    <3>4. PICK status \in Ended : status = StatusOf(new)
      BY StatusRows
    <3>5. status = "completed" => \A e \in Event : Known(j, e)' => item'[j][e].archived
      BY <3>3, <3>4, StatusRows DEF Known
    <3> QED
      BY <2>2, <3>1, <3>2, <3>4, <3>5
  <2> QED
    BY <2>1, <2>2 DEF DiscoveryFails
<1>4. KeepsArchive
  BY <1>1, NothingTouched DEF IInv
<1>5. /\ job' \in [Job -> JobStatus]
      /\ \A k \in Job : job'[k] = IF k = j THEN status ELSE job[k]
      /\ task' \in [Job -> {"none", "queued", "discovery", "capturing"}]
      /\ \A k \in Job : task'[k] = IF k = j THEN "none" ELSE task[k]
      /\ used' \in [retries: Nat, faults: Nat, crashes: Nat]
  BY <1>1, <1>3 DEF IInv, TypeOK, JobStatus
<1>6. TypeOK'
  BY <1>1, <1>3, <1>5 DEF IInv, TypeOK, KeepsItems
<1>7. LiveCaptures' /\ OneTaskRuns' /\ TasksAreActive'
  BY <1>1, <1>5, NothingLive DEF IInv, LiveCaptures, OneTaskRuns, TasksAreActive
<1>8. CompletedMeansArchived'
  BY <1>3, <1>4, <1>5 DEF IInv, CompletedMeansArchived, KeepsItems, KeepsArchive
<1> QED
  BY <1>1, <1>3, <1>6, <1>7, <1>8, RunsUntouched, KeptArchived DEF IInv

\* A new item is a row that is not archived.
LEMMA NewItemRow == NewItem \in ItemRow /\ NewItem.archived = FALSE
  BY DEF NewItem, ItemRow

\* The run of a discovery works on what its job has not archived, and is the only live one.
LEMMA DiscoverStep ==
  ASSUME IInv, NEW j \in Job, Discover(j)
  PROVE  IInv' /\ StaysArchived
<1>1. PICK found \in SUBSET Event, r \in Run :
        /\ run[r] = NoRun
        /\ item' = [item EXCEPT ![j] =
             [e \in Event |-> IF e \in found /\ ~Known(j, e) THEN NewItem ELSE @[e]]]
        /\ run' = [run EXCEPT ![r] =
             [NoRun EXCEPT !.job = j, !.live = TRUE, !.todo = PendingEvents(j, found),
                           !.workers = WorkerCount(PendingEvents(j, found))]]
  BY DEF Discover
<1>2. /\ task[j] = "discovery" /\ task' = [task EXCEPT ![j] = "capturing"]
      /\ UNCHANGED <<job, match, used>>
  BY DEF Discover
<1>3. /\ \A s \in Run : ~run[s].live
      /\ \A k \in Job : k # j => task[k] \in {"none", "queued"}
  BY <1>2, NothingLive
<1>4. PICK todo \in SUBSET Event : todo = PendingEvents(j, found)
  BY DEF PendingEvents
<1>5. WorkerCount(todo) \in 0 .. Concurrency
  <2>1. IsFiniteSet(todo) /\ Cardinality(todo) \in Nat
    BY ArchiveAssumption, FS_Subset, FS_CardinalityType
  <2> QED
    BY <2>1, ArchiveAssumption DEF WorkerCount
<1>6. PICK rn \in RunRow :
        /\ rn = [NoRun EXCEPT !.job = j, !.live = TRUE, !.todo = todo, !.workers = WorkerCount(todo)]
        /\ rn.job = j /\ rn.live /\ rn.todo = todo /\ rn.workers = WorkerCount(todo)
        /\ rn.stage = [e \in Event |-> "none"]
  <2> DEFINE x == [NoRun EXCEPT !.job = j, !.live = TRUE, !.todo = todo,
                                !.workers = WorkerCount(todo)]
  <2>1. x \in RunRow
    BY <1>5 DEF NoRun, RunRow, Stage
  <2>2. /\ x.job = j /\ x.live /\ x.todo = todo /\ x.workers = WorkerCount(todo)
        /\ x.stage = [e \in Event |-> "none"]
    BY DEF NoRun
  <2> QED
    BY <2>1, <2>2
<1>7. run' = [run EXCEPT ![r] = rn]
  BY <1>1, <1>4, <1>6
<1>8. run' \in [Run -> RunRow] /\ run'[r] = rn /\ \A s \in Run : s # r => run'[s] = run[s]
  BY <1>7 DEF IInv, TypeOK
<1>9. PICK new \in ItemRows :
        /\ item' = [item EXCEPT ![j] = new]
        /\ \A e \in Event : new[e] = IF e \in found /\ ~Known(j, e) THEN NewItem ELSE item[j][e]
  <2> DEFINE x == [e \in Event |-> IF e \in found /\ ~Known(j, e) THEN NewItem ELSE item[j][e]]
  <2>1. x \in ItemRows
    BY NewItemRow, Rows DEF ItemRows, IInv
  <2>2. item' = [item EXCEPT ![j] = x]
    BY <1>1 DEF IInv, TypeOK
  <2>3. \A e \in Event : x[e] = IF e \in found /\ ~Known(j, e) THEN NewItem ELSE item[j][e]
    OBVIOUS
  <2> HIDE DEF x
  <2> QED
    BY <2>1, <2>2, <2>3
<1>10. /\ item' \in [Job -> ItemRows]
       /\ item'[j] = new /\ \A k \in Job : k # j => item'[k] = item[k]
  BY <1>9 DEF IInv, TypeOK, ItemRows
<1>11. \A k \in Job, e \in Event : Known(k, e) => Known(k, e)' /\ item'[k][e] = item[k][e]
  BY <1>9, <1>10 DEF Known
<1>12. \A e \in Event : e \in todo => Known(j, e)' /\ ~item'[j][e].archived
  <2> SUFFICES ASSUME NEW e \in todo PROVE Known(j, e)' /\ ~item'[j][e].archived
    OBVIOUS
  <2>1. e \in found /\ (~Known(j, e) \/ Open(j, e))
    BY <1>4 DEF PendingEvents
  <2>2. CASE ~Known(j, e)
    BY <1>9, <1>10, <2>1, <2>2, NewItemRow, RowIsKnown DEF Known
  <2>3. CASE Open(j, e)
    <3>1. Known(j, e) /\ ~item[j][e].archived
      BY <2>3 DEF Open
    <3> QED
      BY <1>11, <3>1
  <2> QED
    BY <2>1, <2>2, <2>3
<1>13. /\ task' \in [Job -> {"none", "queued", "discovery", "capturing"}]
       /\ \A k \in Job : task'[k] = IF k = j THEN "capturing" ELSE task[k]
  BY <1>2 DEF IInv, TypeOK
<1>14. TypeOK'
  BY <1>2, <1>8, <1>10, <1>13 DEF IInv, TypeOK, ItemRows
<1>15. WorksOnItems'
  <2> SUFFICES ASSUME NEW s \in Run, NEW e \in Event, Works(s, e)'
      PROVE  run'[s].job \in Job /\ item'[run'[s].job][e] # NoItem
    BY DEF WorksOnItems, Known
  <2>1. CASE s = r
    <3>1. run'[s] = rn /\ e \in todo
      <4>1. run'[s] = rn
        BY <1>8, <2>1
      <4>2. run'[s].todo = todo /\ run'[s].stage[e] = "none"
        BY <1>6, <4>1
      <4>3. e \in run'[s].todo \/ run'[s].stage[e] # "none"
        BY DEF Works
      <4> QED
        BY <4>1, <4>2, <4>3
    <3>2. Known(j, e)'
      BY <1>12, <3>1
    <3>3. run'[s].job = j /\ j \in Job
      BY <1>6, <3>1
    <3> QED
      BY <3>2, <3>3 DEF Known
  <2>2. CASE s # r
    <3>1. run'[s] = run[s] /\ Works(s, e)
      BY <1>8, <2>2 DEF Works
    <3>2. run[s].job \in Job /\ Known(run[s].job, e)
      BY <3>1 DEF IInv, WorksOnItems
    <3> QED
      BY <1>11, <3>1, <3>2 DEF Known
  <2> QED
    BY <2>1, <2>2
<1>16. WorkersSuffice'
  <2> SUFFICES ASSUME NEW s \in Run PROVE Cardinality(InWork(s)') <= run'[s].workers
    BY DEF WorkersSuffice
  <2>1. CASE s = r
    <3>1. run'[s] = rn
      BY <1>8, <2>1
    <3>2. InWork(s)' = {}
      BY <1>6, <3>1 DEF InWork
    <3>3. Cardinality(InWork(s)') = 0
      BY <3>2, FS_EmptySet
    <3> QED
      BY <1>5, <1>6, <3>1, <3>3
  <2>2. CASE s # r
    <3>1. run'[s] = run[s]
      BY <1>8, <2>2
    <3>2. InWork(s)' = InWork(s)
      BY <3>1 DEF InWork
    <3> QED
      BY <3>1, <3>2 DEF IInv, WorkersSuffice
  <2> QED
    BY <2>1, <2>2
<1>17. LiveCaptures' /\ OneRunIsLive' /\ OneTaskRuns' /\ TasksAreActive'
  <2>1. \A s \in Run : run'[s].live => s = r /\ run'[s].job = j
    BY <1>3, <1>6, <1>8
  <2>2. LiveCaptures' /\ OneRunIsLive'
    BY <1>13, <2>1 DEF LiveCaptures, OneRunIsLive
  <2>3. OneTaskRuns' /\ TasksAreActive'
    BY <1>2, <1>3, <1>13 DEF IInv, OneTaskRuns, TasksAreActive
  <2> QED
    BY <2>2, <2>3
<1>18. CompletedMeansArchived'
  <2> SUFFICES ASSUME NEW k \in Job, NEW e \in Event, Known(k, e)'
      PROVE  /\ job[k] = "completed" => item'[k][e].archived
             /\ item'[k][e].archived => match[e].archived
    BY <1>2 DEF CompletedMeansArchived
  <2>1. CASE Known(k, e)
    BY <1>11, <2>1 DEF IInv, CompletedMeansArchived
  <2>2. CASE ~Known(k, e)
    <3>1. k = j /\ item'[k][e] = NewItem
      BY <1>9, <1>10, <2>2 DEF Known
    <3>2. job[k] # "completed"
      BY <1>2, <3>1 DEF IInv, TasksAreActive
    <3> QED
      BY <3>1, <3>2, NewItemRow
  <2> QED
    BY <2>1, <2>2
<1>19. ArchivedNotFetchedAgain'
  <2> SUFFICES ASSUME NEW s \in Run, NEW e \in Event, run'[s].live, Works(s, e)'
      PROVE  ~item'[run'[s].job][e].archived
    BY DEF ArchivedNotFetchedAgain, Works
  <2>1. s = r
    BY <1>3, <1>8
  <2>2. run'[s] = rn
    BY <1>8, <2>1
  <2>3. e \in todo /\ run'[s].job = j
    BY <1>6, <2>2 DEF Works
  <2> QED
    BY <1>12, <2>3
<1>20. StaysArchived
  BY <1>11 DEF StaysArchived, Known
<1> QED
  BY <1>14, <1>15, <1>16, <1>17, <1>18, <1>19, <1>20 DEF IInv

\* Workers that raise end; if their run was live, its job fails, and the others of the run work
\* on without it.
LEMMA WorkersRaiseStep ==
  ASSUME IInv, NEW r \in Run, NEW failed \in SUBSET Event, failed \subseteq InWork(r),
         WorkersRaise(r, failed), KeepsArchive, UNCHANGED item
  PROVE  IInv' /\ StaysArchived
<1>1. /\ used' = [used EXCEPT !.faults = @ + 1]
      /\ UNCHANGED item
      /\ \/ /\ run[r].live
            /\ job' = [job EXCEPT ![run[r].job] = "failed"]
            /\ task' = [task EXCEPT ![run[r].job] = "none"]
         \/ ~run[r].live /\ UNCHANGED <<job, task>>
  BY DEF WorkersRaise
<1>2. /\ run[r] \in RunRow /\ run[r].workers \in Nat
      /\ run[r].stage \in [Event -> Stage]
  BY RunFields, ArchiveAssumption DEF IInv, RunRow, Stage
<1>3. /\ failed \subseteq InWork(r) /\ IsFiniteSet(failed) /\ IsFiniteSet(InWork(r))
      /\ Cardinality(failed) \in Nat /\ Cardinality(InWork(r)) \in Nat
      /\ Cardinality(failed) <= Cardinality(InWork(r))
      /\ Cardinality(InWork(r)) <= run[r].workers
  <2>1. IsFiniteSet(InWork(r)) /\ Cardinality(InWork(r)) \in Nat
    BY InWorkIsFinite
  <2> QED
    BY <2>1, FS_Subset, FS_CardinalityType DEF IInv, WorkersSuffice
<1>4. PICK left \in 0 .. Concurrency : left = run[r].workers - Cardinality(failed)
  BY <1>2, <1>3, RunFields, ArchiveAssumption DEF IInv
<1>5. PICK stage \in [Event -> Stage] :
        stage = [e \in Event |-> IF e \in failed THEN "none" ELSE run[r].stage[e]]
  <2>1. [e \in Event |-> IF e \in failed THEN "none" ELSE run[r].stage[e]] \in [Event -> Stage]
    BY <1>2 DEF Stage
  <2> QED
    BY <2>1
<1>6. PICK rn \in RunRow :
        /\ rn = [run[r] EXCEPT !.live = FALSE, !.workers = left, !.stage = stage]
        /\ ~rn.live /\ rn.workers = left /\ rn.stage = stage
        /\ rn.job = run[r].job /\ rn.todo = run[r].todo
  <2> DEFINE x == [run[r] EXCEPT !.live = FALSE, !.workers = left, !.stage = stage]
  <2>1. x \in RunRow
    BY <1>2 DEF RunRow, Stage
  <2>2. /\ ~x.live /\ x.workers = left /\ x.stage = stage
        /\ x.job = run[r].job /\ x.todo = run[r].todo
    BY <1>2 DEF RunRow
  <2> QED
    BY <2>1, <2>2
<1>7. run' = [run EXCEPT ![r] = Swept(rn)]
  BY <1>4, <1>5, <1>6 DEF WorkersRaise
<1>8. /\ run' \in [Run -> RunRow] /\ \A s \in Run : s # r => run'[s] = run[s]
      /\ run'[r] = rn \/ run'[r] = NoRun
  BY <1>6, <1>7, SweptFields DEF IInv, TypeOK
<1>9. ~run'[r].live
  BY <1>6, <1>8, NoRunFields
<1>10. \A e \in Event : Works(r, e)' => Works(r, e) /\ run'[r].job = run[r].job
  <2>1. CASE run'[r] = rn
    BY <1>5, <1>6, <2>1 DEF Works
  <2>2. CASE run'[r] = NoRun
    BY <2>2, NoRunFields DEF Works
  <2> QED
    BY <1>8, <2>1, <2>2
<1>11. Cardinality(InWork(r)') <= run'[r].workers
  <2>1. CASE run'[r] = rn
    <3>1. InWork(r)' = InWork(r) \ failed
      BY <1>5, <1>6, <2>1 DEF InWork
    <3>2. Cardinality(InWork(r) \ failed) = Cardinality(InWork(r)) - Cardinality(failed)
      <4>1. Cardinality(InWork(r) \ failed)
              = Cardinality(InWork(r)) - Cardinality(InWork(r) \cap failed)
        BY <1>3, FS_Difference
      <4>2. InWork(r) \cap failed = failed
        BY <1>3
      <4> QED
        BY <4>1, <4>2
    <3> QED
      BY <1>2, <1>3, <1>4, <1>6, <2>1, <3>1, <3>2
  <2>2. CASE run'[r] = NoRun
    <3>1. InWork(r)' = {}
      BY <2>2, NoRunFields DEF InWork
    <3> QED
      BY <2>2, <3>1, NoRunFields, FS_EmptySet
  <2> QED
    BY <1>8, <2>1, <2>2
<1>12. /\ job' \in [Job -> JobStatus]
       /\ task' \in [Job -> {"none", "queued", "discovery", "capturing"}]
       /\ used' \in [retries: Nat, faults: Nat, crashes: Nat]
       /\ \A k \in Job : \/ job'[k] = job[k] /\ task'[k] = task[k]
                         \/ run[r].live /\ k = run[r].job /\ job'[k] = "failed" /\ task'[k] = "none"
  <2>1. used' \in [retries: Nat, faults: Nat, crashes: Nat]
    BY <1>1 DEF IInv, TypeOK
  <2>2. CASE /\ run[r].live
             /\ job' = [job EXCEPT ![run[r].job] = "failed"]
             /\ task' = [task EXCEPT ![run[r].job] = "none"]
    BY <2>1, <2>2 DEF IInv, TypeOK, JobStatus
  <2>3. CASE ~run[r].live /\ UNCHANGED <<job, task>>
    BY <2>1, <2>3 DEF IInv, TypeOK, JobStatus
  <2> QED
    BY <1>1, <2>2, <2>3
<1>13. TypeOK'
  BY <1>1, <1>8, <1>12 DEF IInv, TypeOK, KeepsArchive
<1>14. WorksOnItems'
  <2> SUFFICES ASSUME NEW s \in Run, NEW e \in Event, Works(s, e)'
      PROVE  run'[s].job \in Job /\ item[run'[s].job][e] # NoItem
    BY <1>1 DEF WorksOnItems, Known
  <2>1. Works(s, e) /\ run'[s].job = run[s].job
    BY <1>8, <1>10 DEF Works
  <2> QED
    BY <2>1 DEF IInv, WorksOnItems, Known
<1>15. WorkersSuffice'
  <2> SUFFICES ASSUME NEW s \in Run, s # r PROVE Cardinality(InWork(s)') <= run'[s].workers
    BY <1>11 DEF WorkersSuffice
  <2>1. run'[s] = run[s]
    BY <1>8
  <2>2. InWork(s)' = InWork(s)
    BY <2>1 DEF InWork
  <2> QED
    BY <2>1, <2>2 DEF IInv, WorkersSuffice
<1>16. ASSUME NEW s \in Run, run'[s].live PROVE s # r /\ run[s].live /\ run'[s] = run[s]
  BY <1>8, <1>9, <1>16
<1>17. LiveCaptures'
  <2> SUFFICES ASSUME NEW s \in Run, run'[s].live
      PROVE  run'[s].job \in Job /\ task'[run'[s].job] = "capturing"
    BY DEF LiveCaptures
  <2>1. s # r /\ run[s].live /\ run'[s] = run[s]
    BY <1>16
  <2>2. ~run[r].live
    BY <2>1 DEF IInv, OneRunIsLive
  <2> QED
    BY <1>12, <2>1, <2>2 DEF IInv, LiveCaptures
<1>18. OneRunIsLive' /\ OneTaskRuns' /\ TasksAreActive'
  <2>1. OneRunIsLive'
    BY <1>16 DEF IInv, OneRunIsLive
  <2>2. OneTaskRuns' /\ TasksAreActive'
    BY <1>12 DEF IInv, OneTaskRuns, TasksAreActive
  <2> QED
    BY <2>1, <2>2
<1>19. CompletedMeansArchived'
  BY <1>1, <1>12 DEF IInv, CompletedMeansArchived, Known, KeepsArchive
<1>20. ArchivedNotFetchedAgain'
  BY <1>1, <1>16 DEF IInv, ArchivedNotFetchedAgain
<1>21. StaysArchived
  BY <1>1 DEF StaysArchived, Known
<1> QED
  BY <1>13, <1>14, <1>15, <1>17, <1>18, <1>19, <1>20, <1>21 DEF IInv

\* Workers that wait for a transaction that fails raise.
LEMMA ScheduleFailsStep ==
  ASSUME IInv, NEW r \in Run, NEW failed \in SUBSET Event, ScheduleFails(r, failed)
  PROVE  IInv' /\ StaysArchived
<1>1. failed \subseteq InWork(r)
  BY DEF ScheduleFails, InWork
<1>2. WorkersRaise(r, failed) /\ UNCHANGED <<item, match>>
  BY DEF ScheduleFails
<1> QED
  BY <1>1, <1>2, WorkersRaiseStep, NothingTouched DEF IInv

\* A worker whose own statement fails raises; what it stored of its match stays.
LEMMA WorkerFailsStep ==
  ASSUME IInv, NEW r \in Run, NEW e \in Event, WorkerFails(r, e)
  PROVE  IInv' /\ StaysArchived
<1>1. {e} \subseteq InWork(r)
  BY DEF WorkerFails, InWork
<1>2. WorkersRaise(r, {e}) /\ UNCHANGED item
  BY DEF WorkerFails
<1>3. KeepsArchive
  BY MatchGains, NothingTouched DEF WorkerFails, IInv
<1> QED
  BY <1>1, <1>2, <1>3, WorkersRaiseStep

\* The rows that the archive marks: an item counts as archived with its match, and none stops
\* being so.
LEMMA MarkedRows ==
  ASSUME NEW items \in ItemRows, NEW rows
  PROVE  /\ Marked(items, rows) \in ItemRows
         /\ \A e \in Event :
              /\ Marked(items, rows)[e] # NoItem <=> items[e] # NoItem
              /\ items[e] # NoItem =>
                   /\ items[e].archived => Marked(items, rows)[e].archived
                   /\ Marked(items, rows)[e].archived => items[e].archived \/ rows[e].archived
<1>1. ASSUME NEW e \in Event
      PROVE  /\ Marked(items, rows)[e] \in ItemRow \cup {NoItem}
             /\ Marked(items, rows)[e] # NoItem <=> items[e] # NoItem
             /\ items[e] # NoItem =>
                  /\ items[e].archived => Marked(items, rows)[e].archived
                  /\ Marked(items, rows)[e].archived => items[e].archived \/ rows[e].archived
  <2>1. CASE items[e] # NoItem /\ items[e].linked /\ rows[e].archived
    <3>1. PICK i \in ItemRow : i = items[e]
      BY <2>1 DEF ItemRows
    <3>2. Marked(items, rows)[e] = [i EXCEPT !.odds = "complete", !.archived = TRUE, !.state = "archived"]
      BY <2>1, <3>1 DEF Marked
    <3>3. /\ [i EXCEPT !.odds = "complete", !.archived = TRUE, !.state = "archived"] \in ItemRow
          /\ [i EXCEPT !.odds = "complete", !.archived = TRUE, !.state = "archived"].archived
      BY DEF ItemRow
    <3> QED
      BY <2>1, <3>2, <3>3, RowIsKnown
  <2>2. CASE ~(items[e] # NoItem /\ items[e].linked /\ rows[e].archived)
    <3>1. Marked(items, rows)[e] = items[e]
      BY <2>2 DEF Marked
    <3> QED
      BY <3>1 DEF ItemRows
  <2> QED
    BY <2>1, <2>2
<1>2. Marked(items, rows) \in ItemRows
  BY <1>1 DEF Marked, ItemRows
<1> QED
  BY <1>1, <1>2

\* What the end of a run, or a part of it, makes of the rows of its job: none is new, none stops
\* being archived, and one that starts to be has its match in the archive.
MarksRows(new, old) ==
  \A e \in Event :
    /\ new[e] # NoItem <=> old[e] # NoItem
    /\ old[e] # NoItem => /\ old[e].archived => new[e].archived
                          /\ new[e].archived => old[e].archived \/ match'[e].archived

\* Archiving matches keeps those that are in the archive.
LEMMA ArchivedRows ==
  ASSUME TypeOK, NEW part, match' = Archived(part)
  PROVE  KeepsArchive
<1>1. ASSUME NEW e \in Event
      PROVE  /\ Archived(part)[e] \in MatchRow
             /\ match[e].archived => Archived(part)[e].archived
  <2>1. match[e] \in MatchRow
    BY DEF TypeOK
  <2>2. /\ [match[e] EXCEPT !.archived = TRUE] \in MatchRow
        /\ [match[e] EXCEPT !.archived = TRUE].archived
    BY <2>1, MatchUpdates
  <2> QED
    BY <2>1, <2>2 DEF Archived
<1>2. Archived(part) \in [Event -> MatchRow]
  BY <1>1 DEF Archived
<1> QED
  BY <1>1, <1>2 DEF KeepsArchive

\* Rows that are marked, and perhaps closed, are rows of the same items.
LEMMA MarkedAndClosed ==
  ASSUME TypeOK, NEW j \in Job
  PROVE  /\ Marked(item[j], match') \in ItemRows
         /\ MarksRows(Marked(item[j], match'), item[j])
         /\ Closed(Marked(item[j], match')) \in ItemRows
         /\ MarksRows(Closed(Marked(item[j], match')), item[j])
<1>1. item[j] \in ItemRows
  BY DEF TypeOK, ItemRows
<1>2. PICK mid \in ItemRows :
        /\ mid = Marked(item[j], match')
        /\ \A e \in Event :
             /\ mid[e] # NoItem <=> item[j][e] # NoItem
             /\ item[j][e] # NoItem => /\ item[j][e].archived => mid[e].archived
                                       /\ mid[e].archived => item[j][e].archived \/ match'[e].archived
  BY <1>1, MarkedRows
<1>3. PICK new \in ItemRows : new = Closed(mid) /\ KeepsRows(new, mid)
  BY ClosedRows DEF KeepsRows
<1>4. MarksRows(mid, item[j])
  BY <1>2 DEF MarksRows
<1>5. MarksRows(new, item[j])
  BY <1>2, <1>3 DEF MarksRows, KeepsRows
<1> QED
  BY <1>2, <1>3, <1>4, <1>5

\* A run is gone, and its job, with these rows, has this status.
EndsWith(r, j, new, status) ==
  /\ item' = [item EXCEPT ![j] = new] /\ MarksRows(new, item[j])
  /\ job' = [job EXCEPT ![j] = status]
  /\ status = "completed" => \A e \in Event : new[e] # NoItem => new[e].archived
  /\ task' = [task EXCEPT ![j] = "none"]
  /\ run' = [run EXCEPT ![r] = NoRun]
  /\ used' \in [retries: Nat, faults: Nat, crashes: Nat]

\* A run whose job ends, with whatever it has archived and marked, is gone; no other run is
\* live, so nothing that is marked is worked on.
LEMMA RunOver ==
  ASSUME IInv, NEW r \in Run, run[r].live, NEW j \in Job, j = run[r].job, KeepsArchive,
         NEW new \in ItemRows, NEW status \in {"failed"} \cup Ended, EndsWith(r, j, new, status)
  PROVE  IInv' /\ StaysArchived
<1>1. task[j] = "capturing"
  BY OnlyLiveTask
<1>2. /\ \A s \in Run : s # r => ~run[s].live
      /\ \A k \in Job : k # j => task[k] \in {"none", "queued"}
  BY <1>1, OnlyLiveTask
<1>3. \A e \in Event : match[e].archived => match'[e].archived
  BY DEF KeepsArchive
<1>4. \A e \in Event :
        /\ new[e] # NoItem <=> item[j][e] # NoItem
        /\ item[j][e] # NoItem => /\ item[j][e].archived => new[e].archived
                                  /\ new[e].archived => item[j][e].archived \/ match'[e].archived
  BY DEF EndsWith, MarksRows
<1>5. /\ item' \in [Job -> ItemRows]
      /\ \A k \in Job : item'[k] = IF k = j THEN new ELSE item[k]
      /\ job' \in [Job -> JobStatus]
      /\ \A k \in Job : job'[k] = IF k = j THEN status ELSE job[k]
      /\ task' \in [Job -> {"none", "queued", "discovery", "capturing"}]
      /\ \A k \in Job : task'[k] = IF k = j THEN "none" ELSE task[k]
      /\ run' \in [Run -> RunRow]
      /\ \A s \in Run : run'[s] = IF s = r THEN NoRun ELSE run[s]
  <2>1. /\ item' \in [Job -> ItemRows]
        /\ \A k \in Job : item'[k] = IF k = j THEN new ELSE item[k]
    BY DEF EndsWith, IInv, TypeOK, ItemRows
  <2>2. /\ job' \in [Job -> JobStatus]
        /\ \A k \in Job : job'[k] = IF k = j THEN status ELSE job[k]
    BY DEF EndsWith, IInv, TypeOK, JobStatus
  <2>3. /\ task' \in [Job -> {"none", "queued", "discovery", "capturing"}]
        /\ \A k \in Job : task'[k] = IF k = j THEN "none" ELSE task[k]
    BY DEF EndsWith, IInv, TypeOK
  <2>4. /\ run' \in [Run -> RunRow]
        /\ \A s \in Run : run'[s] = IF s = r THEN NoRun ELSE run[s]
    BY NoRunFields DEF EndsWith, IInv, TypeOK
  <2> QED
    BY <2>1, <2>2, <2>3, <2>4
<1>6. TypeOK'
  BY <1>5 DEF EndsWith, TypeOK, ItemRows, KeepsArchive
<1>7. \A s \in Run : ~run'[s].live
  BY <1>2, <1>5, NoRunFields
<1>8. ASSUME NEW s \in Run, NEW e \in Event, Works(s, e)'
       PROVE  s # r /\ Works(s, e) /\ run'[s] = run[s]
  BY <1>5, <1>8, NoRunFields DEF Works
<1>9. WorksOnItems'
  <2> SUFFICES ASSUME NEW s \in Run, NEW e \in Event, Works(s, e)'
      PROVE  run'[s].job \in Job /\ item'[run'[s].job][e] # NoItem
    BY DEF WorksOnItems, Known
  <2>1. Works(s, e) /\ run'[s] = run[s]
    BY <1>8
  <2>2. run[s].job \in Job /\ item[run[s].job][e] # NoItem
    BY <2>1 DEF IInv, WorksOnItems, Known
  <2> QED
    BY <1>4, <1>5, <2>1, <2>2
<1>10. WorkersSuffice'
  <2> SUFFICES ASSUME NEW s \in Run PROVE Cardinality(InWork(s)') <= run'[s].workers
    BY DEF WorkersSuffice
  <2>1. CASE s = r
    <3>1. run'[s] = NoRun
      BY <1>5, <2>1
    <3>2. InWork(s)' = {}
      BY <3>1, NoRunFields DEF InWork
    <3> QED
      BY <3>1, <3>2, NoRunFields, FS_EmptySet
  <2>2. CASE s # r
    <3>1. run'[s] = run[s]
      BY <1>5, <2>2
    <3>2. InWork(s)' = InWork(s)
      BY <3>1 DEF InWork
    <3> QED
      BY <3>1, <3>2 DEF IInv, WorkersSuffice
  <2> QED
    BY <2>1, <2>2
<1>11. LiveCaptures' /\ OneRunIsLive' /\ ArchivedNotFetchedAgain'
  BY <1>7 DEF LiveCaptures, OneRunIsLive, ArchivedNotFetchedAgain
<1>12. OneTaskRuns' /\ TasksAreActive'
  BY <1>5 DEF IInv, OneTaskRuns, TasksAreActive
<1>13. CompletedMeansArchived'
  <2> SUFFICES ASSUME NEW k \in Job, NEW e \in Event, item'[k][e] # NoItem
      PROVE  /\ job'[k] = "completed" => item'[k][e].archived
             /\ item'[k][e].archived => match'[e].archived
    BY DEF CompletedMeansArchived, Known
  <2>1. CASE k = j
    <3>1. item'[k][e] = new[e] /\ job'[k] = status /\ item[j][e] # NoItem
      BY <1>4, <1>5, <2>1
    <3>2. item[j][e].archived => match[e].archived
      BY <3>1 DEF IInv, CompletedMeansArchived, Known
    <3> QED
      BY <1>3, <1>4, <3>1, <3>2 DEF EndsWith
  <2>2. CASE k # j
    BY <1>3, <1>5, <2>2 DEF IInv, CompletedMeansArchived, Known
  <2> QED
    BY <2>1, <2>2
<1>14. StaysArchived
  BY <1>4, <1>5 DEF StaysArchived, Known
<1> QED
  BY <1>6, <1>9, <1>10, <1>11, <1>12, <1>13, <1>14 DEF IInv

\* The run that ends puts the played matches into the archive, marks their items and says what
\* is left.
LEMMA FinishJobStep ==
  ASSUME IInv, NEW r \in Run, FinishJob(r)
  PROVE  IInv' /\ StaysArchived
<1>1. run[r].live /\ AllProcessed(r)
  BY DEF FinishJob, AllProcessed
<1>2. PICK j \in Job : j = run[r].job
  BY <1>1, OnlyLiveTask
<1>3. /\ match' = Archived(run[r].done)
      /\ item' = [item EXCEPT ![j] = Closed(Marked(item[j], match'))]
      /\ job' = [job EXCEPT ![j] = StatusOf(Closed(Marked(item[j], match')))]
      /\ task' = [task EXCEPT ![j] = "none"]
      /\ run' = [run EXCEPT ![r] = NoRun]
      /\ UNCHANGED used
  BY <1>2 DEF FinishJob
<1>4. KeepsArchive
  BY <1>3, ArchivedRows DEF IInv
<1>5. PICK new \in ItemRows :
        new = Closed(Marked(item[j], match')) /\ MarksRows(new, item[j])
  BY MarkedAndClosed DEF IInv
<1>6. PICK status \in Ended :
        /\ status = StatusOf(new)
        /\ status = "completed" => \A e \in Event : new[e] # NoItem => new[e].archived
  BY StatusRows
<1>7. used' \in [retries: Nat, faults: Nat, crashes: Nat]
  BY <1>3 DEF IInv, TypeOK
<1>8. /\ status \in {"failed"} \cup Ended
      /\ item' = [item EXCEPT ![j] = new] /\ job' = [job EXCEPT ![j] = status]
  BY <1>3, <1>5, <1>6
<1>9. EndsWith(r, j, new, status)
  BY <1>3, <1>5, <1>6, <1>7, <1>8 DEF EndsWith
<1> QED
  BY <1>1, <1>2, <1>4, <1>8, <1>9, RunOver

\* Where the end of a run stops half way, its rows and matches have changed as its statements say.
LEMMA HalfwayRows ==
  ASSUME IInv, NEW r \in Run, StopsHalfway(r)
  PROVE  /\ run[r].live /\ run[r].job \in Job /\ task[run[r].job] = "capturing"
         /\ KeepsArchive
         /\ \E new \in ItemRows : /\ MarksRows(new, item[run[r].job])
                                 /\ item' = [item EXCEPT ![run[r].job] = new]
<1>1. run[r].live
  BY DEF StopsHalfway, AllProcessed
<1>2. PICK j \in Job : j = run[r].job /\ task[j] = "capturing"
  BY <1>1, OnlyLiveTask
<1>3. CASE (\E part \in SUBSET run[r].done : match' = Archived(part)) /\ UNCHANGED item
  <2>1. KeepsArchive
    BY <1>3, ArchivedRows DEF IInv
  <2>2. item[j] \in ItemRows /\ item' = [item EXCEPT ![j] = item[j]]
    BY <1>3 DEF IInv, TypeOK, ItemRows
  <2>3. MarksRows(item[j], item[j])
    BY DEF MarksRows
  <2> QED
    BY <1>1, <1>2, <2>1, <2>2, <2>3
<1>4. CASE /\ match' = Archived(run[r].done)
           /\ \E items \in {Marked(item[j], match'), Closed(Marked(item[j], match'))} :
                item' = [item EXCEPT ![j] = items]
  <2>1. KeepsArchive
    BY <1>4, ArchivedRows DEF IInv
  <2>2. \E new \in ItemRows : MarksRows(new, item[j]) /\ item' = [item EXCEPT ![j] = new]
    BY <1>4, MarkedAndClosed DEF IInv
  <2> QED
    BY <1>1, <1>2, <2>1, <2>2
<1> QED
  BY <1>2, <1>3, <1>4 DEF StopsHalfway

\* A statement of the end that fails ends the job as failed, with what is archived and marked.
LEMMA FinishFailsStep ==
  ASSUME IInv, NEW r \in Run, FinishFails(r)
  PROVE  IInv' /\ StaysArchived
<1>1. StopsHalfway(r)
  BY DEF FinishFails
<1>2. PICK j \in Job : j = run[r].job
  BY <1>1, HalfwayRows
<1>3. run[r].live /\ KeepsArchive
  BY <1>1, HalfwayRows
<1>4. PICK new \in ItemRows : MarksRows(new, item[j]) /\ item' = [item EXCEPT ![j] = new]
  BY <1>1, <1>2, HalfwayRows
<1>5. /\ job' = [job EXCEPT ![j] = "failed"] /\ task' = [task EXCEPT ![j] = "none"]
      /\ run' = [run EXCEPT ![r] = NoRun]
      /\ used' \in [retries: Nat, faults: Nat, crashes: Nat]
  BY <1>2 DEF FinishFails, IInv, TypeOK
<1>6. PICK status \in {"failed"} \cup Ended : status = "failed"
  OBVIOUS
<1>7. status # "completed" /\ job' = [job EXCEPT ![j] = status]
  BY <1>5, <1>6
<1>8. EndsWith(r, j, new, status)
  BY <1>4, <1>5, <1>7 DEF EndsWith
<1> QED
  BY <1>2, <1>3, <1>8, RunOver

\* A restart leaves no run, and gives a task to every job that is not over.
LEMMA RestartRuns ==
  ASSUME IInv, Restart, KeepsArchive, item' \in [Job -> ItemRows]
  PROVE  /\ TypeOK' /\ WorksOnItems' /\ WorkersSuffice' /\ LiveCaptures' /\ OneTaskRuns'
         /\ OneRunIsLive' /\ TasksAreActive' /\ ArchivedNotFetchedAgain'
<1>1. /\ used' = [used EXCEPT !.crashes = @ + 1]
      /\ run' = [r \in Run |-> NoRun]
      /\ task' = [j \in Job |-> IF j \in Active THEN "queued" ELSE "none"]
      /\ UNCHANGED job
  BY DEF Restart, Resumable
<1>2. TypeOK'
  BY <1>1, NoRunFields DEF IInv, TypeOK, KeepsArchive, ItemRows
<1>3. \A r \in Run : run'[r] = NoRun
  BY <1>1
<1>4. WorksOnItems' /\ LiveCaptures' /\ OneRunIsLive' /\ ArchivedNotFetchedAgain'
  BY <1>3, NoRunFields DEF WorksOnItems, Works, LiveCaptures, OneRunIsLive, ArchivedNotFetchedAgain
<1>5. WorkersSuffice'
  <2> SUFFICES ASSUME NEW r \in Run PROVE Cardinality(InWork(r)') <= run'[r].workers
    BY DEF WorkersSuffice
  <2>1. run'[r] = NoRun
    BY <1>3
  <2>2. InWork(r)' = {}
    BY <2>1, NoRunFields DEF InWork
  <2> QED
    BY <2>1, <2>2, NoRunFields, FS_EmptySet
<1>6. OneTaskRuns' /\ TasksAreActive'
  BY <1>1 DEF OneTaskRuns, TasksAreActive, Active
<1> QED
  BY <1>2, <1>4, <1>5, <1>6

\* A restart between two steps leaves the rows as they are.
LEMMA CrashStep ==
  ASSUME IInv, Crash
  PROVE  IInv' /\ StaysArchived
<1>1. Restart /\ UNCHANGED <<job, item, match>>
  BY DEF Crash, Restart
<1>2. KeepsArchive /\ KeepsItems /\ item' \in [Job -> ItemRows]
  BY <1>1, NothingTouched DEF IInv, KeepsItems, ItemRows
<1>3. CompletedMeansArchived'
  BY <1>1 DEF IInv, CompletedMeansArchived, Known
<1> QED
  BY <1>1, <1>2, <1>3, RestartRuns, KeptArchived DEF IInv

\* A restart between two statements of the end of a run leaves what they stored; the job is not
\* over.
LEMMA CrashHalfwayStep ==
  ASSUME IInv, NEW r \in Run, CrashHalfway(r)
  PROVE  IInv' /\ StaysArchived
<1>1. StopsHalfway(r) /\ Restart /\ UNCHANGED job
  BY DEF CrashHalfway, Restart
<1>2. PICK j \in Job : j = run[r].job /\ task[j] = "capturing"
  BY <1>1, HalfwayRows
<1>3. KeepsArchive
  BY <1>1, HalfwayRows
<1>4. PICK new \in ItemRows : MarksRows(new, item[j]) /\ item' = [item EXCEPT ![j] = new]
  BY <1>1, <1>2, HalfwayRows
<1>5. /\ item' \in [Job -> ItemRows]
      /\ \A k \in Job : item'[k] = IF k = j THEN new ELSE item[k]
  BY <1>4 DEF IInv, TypeOK, ItemRows
<1>6. job[j] # "completed"
  BY <1>2 DEF IInv, TasksAreActive
<1>7. CompletedMeansArchived'
  <2> SUFFICES ASSUME NEW k \in Job, NEW e \in Event, item'[k][e] # NoItem
      PROVE  /\ job[k] = "completed" => item'[k][e].archived
             /\ item'[k][e].archived => match'[e].archived
    BY <1>1 DEF CompletedMeansArchived, Known
  <2>1. CASE k = j
    <3>1. item'[k][e] = new[e] /\ item[j][e] # NoItem
      BY <1>4, <1>5, <2>1 DEF MarksRows
    <3>2. item[j][e].archived => match[e].archived
      BY <3>1 DEF IInv, CompletedMeansArchived, Known
    <3> QED
      BY <1>3, <1>4, <1>6, <2>1, <3>1, <3>2 DEF MarksRows, KeepsArchive
  <2>2. CASE k # j
    BY <1>3, <1>5, <2>2 DEF IInv, CompletedMeansArchived, Known, KeepsArchive
  <2> QED
    BY <2>1, <2>2
<1>8. StaysArchived
  BY <1>4, <1>5 DEF StaysArchived, Known, MarksRows
<1> QED
  BY <1>1, <1>3, <1>5, <1>7, <1>8, RestartRuns DEF IInv

-----------------------------------------------------------------------------
(* The theorems.                                                           *)

\* At the start there are no jobs, no items and no runs.
LEMMA InitArchive == Init => IInv
<1> SUFFICES ASSUME Init PROVE IInv
  OBVIOUS
<1>1. TypeOK
  <2>1. [odds |-> {}, result |-> FALSE, archived |-> FALSE] \in MatchRow
    BY DEF MatchRow
  <2> QED
    BY <2>1, NoRunFields DEF Init, TypeOK, JobStatus
<1>2. \A r \in Run : run[r] = NoRun
  BY DEF Init
<1>3. WorksOnItems /\ LiveCaptures /\ OneRunIsLive /\ ArchivedNotFetchedAgain
  BY <1>2, NoRunFields DEF WorksOnItems, Works, LiveCaptures, OneRunIsLive, ArchivedNotFetchedAgain
<1>4. WorkersSuffice
  <2> SUFFICES ASSUME NEW r \in Run PROVE Cardinality(InWork(r)) <= run[r].workers
    BY DEF WorkersSuffice
  <2>1. InWork(r) = {} /\ run[r].workers = 0
    BY <1>2, NoRunFields DEF InWork
  <2> QED
    BY <2>1, FS_EmptySet
<1>5. OneTaskRuns /\ TasksAreActive /\ CompletedMeansArchived
  BY DEF Init, OneTaskRuns, TasksAreActive, CompletedMeansArchived, Known
<1> QED
  BY <1>1, <1>3, <1>4, <1>5 DEF IInv

\* Every action keeps the inductive invariant, and what is archived stays so.
LEMMA NextArchive == IInv /\ [Next]_vars => IInv' /\ StaysArchived
<1> SUFFICES ASSUME IInv, [Next]_vars PROVE IInv' /\ StaysArchived
  OBVIOUS
<1>1. CASE CreateJob
  BY <1>1, CreateStep
<1>2. ASSUME NEW j \in Job, RetryJob(j) PROVE IInv' /\ StaysArchived
  BY <1>2, RetryStep
<1>3. CASE RunStep
  <2>1. ASSUME NEW j \in Job, StartJob(j) \/ Discover(j) PROVE IInv' /\ StaysArchived
    BY <2>1, StartStep, DiscoverStep
  <2>2. ASSUME NEW r \in Run, FinishJob(r) PROVE IInv' /\ StaysArchived
    BY <2>2, FinishJobStep
  <2>3. ASSUME NEW r \in Run, NEW e \in Event, BeginEvent(r, e) \/ LinkEvent(r, e) PROVE IInv' /\ StaysArchived
    BY <2>3, BeginStep, LinkStep
  <2>4. ASSUME NEW r \in Run, NEW e \in Event,
               ScheduleStored(r, e) \/ SaveOdds(r, e) \/ CaptureOdds(r, e) \/ CaptureScore(r, e)
        PROVE  IInv' /\ StaysArchived
    BY <2>4, StoredStep, SaveStep, OddsStep, ScoreStep
  <2> QED
    BY <1>3, <2>1, <2>2, <2>3, <2>4 DEF RunStep
<1>4. ASSUME NEW j \in Job, DiscoveryFails(j) PROVE IInv' /\ StaysArchived
  BY <1>4, DiscoveryFailsStep
<1>5. ASSUME NEW r \in Run, NEW failed \in SUBSET Event, ScheduleFails(r, failed) PROVE IInv' /\ StaysArchived
  BY <1>5, ScheduleFailsStep
<1>6. ASSUME NEW r \in Run, NEW e \in Event, WorkerFails(r, e) PROVE IInv' /\ StaysArchived
  BY <1>6, WorkerFailsStep
<1>7. ASSUME NEW r \in Run, FinishFails(r) \/ CrashHalfway(r) PROVE IInv' /\ StaysArchived
  BY <1>7, FinishFailsStep, CrashHalfwayStep
<1>8. CASE Crash
  BY <1>8, CrashStep
<1>9. CASE UNCHANGED vars
  <2>1. UNCHANGED <<job, item, match, task, run, used>>
    BY <1>9 DEF vars
  <2>2. KeepsItems /\ KeepsArchive
    BY <2>1, NothingTouched DEF IInv
  <2>3. CompletedMeansArchived'
    BY <2>1, <2>2, CompletedKept
  <2>4. TypeOK' /\ LiveCaptures' /\ OneTaskRuns' /\ TasksAreActive'
    BY <2>1 DEF IInv, TypeOK, LiveCaptures, OneTaskRuns, TasksAreActive
  <2> QED
    BY <2>1, <2>2, <2>3, <2>4, RunsUntouched, KeptArchived DEF IInv
<1> QED
  BY <1>1, <1>2, <1>3, <1>4, <1>5, <1>6, <1>7, <1>8, <1>9 DEF Next

\* So it holds in every state.
LEMMA ArchiveInvariant == Spec => []IInv
  BY InitArchive, NextArchive, PTL DEF Spec

\* The rows, the tasks and the runs have their types: no run ever counts fewer workers than none.
THEOREM ArchiveTypes == Spec => []TypeOK
<1>1. IInv => TypeOK
  BY DEF IInv
<1> QED
  BY <1>1, ArchiveInvariant, PTL

\* Completed means archived: whatever is retried, fails, is left behind or restarts, a job that
\* is reported as completed lists only matches that are in the archive.
THEOREM CompletedIsArchived == Spec => []CompletedMeansArchived
<1>1. IInv => CompletedMeansArchived
  BY DEF IInv
<1> QED
  BY <1>1, ArchiveInvariant, PTL

\* What a job has archived it does not fetch again, in a run that has the lock.
THEOREM NotFetchedAgain == Spec => []ArchivedNotFetchedAgain
<1>1. IInv => ArchivedNotFetchedAgain
  BY DEF IInv
<1> QED
  BY <1>1, ArchiveInvariant, PTL

\* Neither a retry, nor a resumption, nor a second request, nor a failure ever takes back what an
\* item has archived.
THEOREM NeverUnarchived == Spec => ArchivedForever
<1> DEFINE Stays == \A j \in Job, e \in Event :
                      Known(j, e) /\ item[j][e].archived => Known(j, e)' /\ item'[j][e].archived
<1>1. IInv /\ [Next]_vars => [Stays]_vars
  BY NextArchive DEF StaysArchived
<1> QED
  BY <1>1, ArchiveInvariant, PTL DEF Spec, ArchivedForever

=============================================================================
