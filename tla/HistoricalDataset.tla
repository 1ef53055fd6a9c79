-------------------------- MODULE HistoricalDataset --------------------------
(***************************************************************************)
(* The historical records, the signals computed from them and the archive   *)
(* of played matches (database.py), and whoever changes them: the          *)
(* maintenance jobs (api.py), and three sources of new final odds and       *)
(* results, each of which refreshes signals and archive when it is done:    *)
(* the monitor cycle, an archive job and the repair of final odds.          *)
(*                                                                         *)
(* Every method of Database holds one lock from its start to its end, so a  *)
(* method is one step; but outside a transaction each statement is stored   *)
(* at once, and recompute_historical_signals, which is not in one, is many  *)
(* steps under the lock.  Readers use a connection and a lock of their own. *)
(***************************************************************************)
EXTENDS HistoricalParser

CONSTANTS
  Match,        \* the matches of the monitor
  Job,          \* the maintenance jobs that can be created
  Upload,       \* what can be imported
  Folder,       \* what the configured folder may hold, a subset of Upload
  Request,      \* the maintenance jobs that are asked for
  Files,        \* the DOCX files of each upload, by name
  OldRecords,   \* what an earlier version may have left without a batch row
  Offer,        \* what one capture finds: odds of each bookmaker, or none
  Final,        \* the final scores that are found
  None,
  MaxEvents     \* bound on what comes from outside: requests, changes, failures, restarts

Source == {"monitor", "archive", "repair"}
Actor == Job \cup Source

JobRow == [status : {"none", "pending", "running", "completed", "failed"},
           kind : {"import_zip", "import_folder", "recompute_signals"},
           upload : Upload \cup {None}, archive : BOOLEAN]

ASSUME DatasetAssumption ==
  /\ Job \cap Source = {}
  /\ None \notin Triple \cup Score \cup Upload \cup {"legacy"}
  /\ "legacy" \notin Upload
  /\ Offer \subseteq [Bookmaker -> Triple \cup {None}] /\ Final \subseteq Score
  /\ Folder \subseteq Upload
  /\ Request \subseteq JobRow
  /\ \A row \in Request : row.status = "pending" /\ (row.kind = "import_zip" => row.upload # None)
  /\ \A row \in Request : row.kind # "recompute_signals" => row.archive
  /\ MaxEvents \in Nat

ASSUME FilesAssumption == \A u \in Upload : \A n \in DOMAIN Files[u] : Files[u][n] \in File

VARIABLES
  final,     \* final_bookmaker_odds of the market 1x2, by match and bookmaker
  result,    \* matches: is a result captured, and the score shown
  played,    \* played_match_archive
  records,   \* historical_records
  active,    \* contents of the active import batches, in order of activation
  signals,   \* historical_signals
  job,       \* maintenance_jobs
  work,      \* where each job and source stands
  reader,    \* a request for the import status, on the connection of the readers
  missed,    \* history: matches whose signals or archive row nobody is going to bring up to date
  used       \* events from outside so far

vars == <<final, result, played, records, active, signals, job, work, reader, missed, used>>

-----------------------------------------------------------------------------
(* Derived data.                                                           *)

\* _dataset_fingerprint: uploads with the same files have the same content.
Content(u) == CHOOSE v \in Upload : Files[v] = Files[u]

Readable(u) == {n \in DOMAIN Files[u] : Files[u][n].readable}

RecordsOf == [u \in Upload |-> UNION {Records(n, Files[u][n]) : n \in Readable(u)}]

HasFinal(m) == \A b \in Bookmaker : final[m][b] # None

\* What recompute_historical_signals makes of a match.
Expected(m) == IF HasFinal(m) THEN Rows(m, final[m], records) ELSE {}

SignalsOf(m) == {s \in signals : s.match = m}

\* Defect: a captured result is taken to have a score.
PlayedRowAnyScore(m) ==
  IF result[m].captured /\ HasFinal(m)
  THEN [score |-> result[m].score, odds |-> final[m]] ELSE None

\* What archive_played_matches makes of a match.
PlayedRow(m) ==
  IF result[m].captured /\ result[m].score # None /\ HasFinal(m)
  THEN [score |-> result[m].score, odds |-> final[m]] ELSE None

StaleSignals == {m \in Match : SignalsOf(m) # Expected(m)}

StalePlayed == {m \in Match : PlayedRow(m) \notin {None, played[m]}}

\* The history after whoever was to refresh ms is gone.
Missed(ms) == [signals |-> missed.signals \cup (ms \cap StaleSignals),
               played  |-> missed.played \cup (ms \cap StalePlayed)]

\* active_historical_batch: records without an active batch get one.
WithLegacy == IF active = <<>> /\ records # {} THEN <<"legacy">> ELSE active

Current(batches) == IF batches = <<>> THEN None ELSE batches[Len(batches)]

-----------------------------------------------------------------------------
(* Types and the start.                                                    *)

NoJob == [status |-> "none", kind |-> "import_folder", upload |-> None, archive |-> TRUE]

\* upload: what import_roots has parsed; scope: the matches to refresh; found: those with a
\* new result; todo: the rows left to insert.
Idle == [pc |-> "idle", upload |-> None, scope |-> {}, found |-> {}, todo |-> {}]

TypeOK ==
  /\ final \in [Match -> [Bookmaker -> Triple \cup {None}]]
  /\ result \in [Match -> [captured : BOOLEAN, score : Score \cup {None}]]
  /\ \A m \in Match : played[m] # None => played[m].score \in Score /\ played[m].odds \in Odds
  /\ active \in Seq(Upload \cup {"legacy"})
  /\ \A s \in signals : s.match \in Match /\ s.from # {}
  /\ job \in [Job -> JobRow]
  /\ \A a \in Actor :
       /\ work[a].pc \in {"idle", "queued", "look", "activate", "capture", "archive",
                          "recompute", "insert", "finish"}
       /\ work[a].upload \in Upload \cup {None}
       /\ work[a].scope \subseteq Match /\ work[a].found \subseteq Match
       /\ work[a].pc # "insert" => work[a].todo = {}
  /\ reader \in {"idle", "empty"}
  /\ missed \in [signals : SUBSET Match, played : SUBSET Match]
  /\ used \in Nat

Init ==
  /\ final = [m \in Match |-> [b \in Bookmaker |-> None]]
  /\ result = [m \in Match |-> [captured |-> FALSE, score |-> None]]
  /\ played = [m \in Match |-> None]
  /\ records \in {{}, OldRecords}
  /\ active = <<>>
  /\ signals = {}
  /\ job = [j \in Job |-> NoJob]
  /\ work = [a \in Actor |-> Idle]
  /\ reader = "idle"
  /\ missed = [signals |-> {}, played |-> {}]
  /\ used = 0

-----------------------------------------------------------------------------
(* The lock and the event loop.                                            *)

\* Defect: a method of Database does not hold the lock to its end.
Unlocked == FALSE

Locked == \E a \in Actor : work[a].pc = "insert"

\* The monitor and an archive job refresh without giving the event loop away.
LoopBusy ==
  \E s \in {"monitor", "archive"} : work[s].pc \in {"archive", "recompute", "insert"}

\* A step of a coroutine that writes to the database.
LoopStep == ~Locked /\ ~LoopBusy

Goes(a, pc) == work' = [work EXCEPT ![a].pc = pc]

\* Something comes from outside.
Event == used < MaxEvents /\ used' = used + 1

-----------------------------------------------------------------------------
(* Maintenance jobs.                                                       *)

\* A job that can still be created.
Free == {j \in Job : job[j] = NoJob}

CreateJob(row) ==
  /\ LoopStep
  /\ Event
  /\ Free # {}
  /\ LET j == CHOOSE k \in Free : TRUE
     IN  job' = [job EXCEPT ![j] = row] /\ Goes(j, "queued")
  /\ UNCHANGED <<final, result, played, records, active, signals, reader, missed>>

\* An import reads its files; a recomputation may leave the archive out.
StartJob(j) ==
  /\ LoopStep
  /\ work[j].pc = "queued"
  /\ job' = [job EXCEPT ![j].status = "running"]
  /\ work' = [work EXCEPT ![j].scope = Match,
       ![j].pc = IF job[j].kind # "recompute_signals" THEN "look"
                 ELSE IF job[j].archive THEN "archive" ELSE "recompute"]
  /\ UNCHANGED <<final, result, played, records, active, signals, reader, missed, used>>

\* The first half of import_roots: nothing to do if the content is active, or no file opens.
\* What comes before it, the extraction of the ZIP, only touches files, or fails.
Look(j) ==
  /\ work[j].pc = "look"
  /\ ~Locked
  /\ active' = WithLegacy
  /\ \E u \in IF job[j].kind = "import_zip" THEN {job[j].upload} ELSE Folder :
       IF Current(active') = Content(u) \/ Readable(u) = {}
       THEN Goes(j, "archive")
       ELSE work' = [work EXCEPT ![j].pc = "activate", ![j].upload = u]
  /\ UNCHANGED <<final, result, played, records, signals, job, reader, missed, used>>

\* Defect: what the first look has found still holds.
FoundBefore(u) == FALSE

\* The second look.
ActiveByNow(u) == Current(WithLegacy) = Content(u)

\* replace_active_historical_dataset looks again, under the lock, and is one transaction.
Activate(j) ==
  /\ work[j].pc = "activate"
  /\ ~Locked
  /\ IF ActiveByNow(work[j].upload)
     THEN active' = WithLegacy /\ UNCHANGED <<records, signals>>
     ELSE /\ active' = <<Content(work[j].upload)>>
          /\ records' = RecordsOf[work[j].upload]
          /\ signals' = {}
  /\ work' = [work EXCEPT ![j].pc = "archive", ![j].upload = None]
  /\ UNCHANGED <<final, result, played, job, reader, missed, used>>

FinishJob(j) ==
  /\ LoopStep
  /\ work[j].pc = "finish"
  /\ work' = [work EXCEPT ![j] = Idle]
  /\ job' = [job EXCEPT ![j].status = "completed"]
  /\ UNCHANGED <<final, result, played, records, active, signals, reader, missed, used>>

-----------------------------------------------------------------------------
(* Archive and signals, for a job or a source.                             *)

\* A row that is in the archive is only ever replaced by another one.
Archived(ms) ==
  [m \in Match |-> IF m \in ms /\ PlayedRow(m) # None THEN PlayedRow(m) ELSE played[m]]

ArchivePlayed(a) ==
  /\ work[a].pc = "archive"
  /\ ~Locked
  /\ played' = Archived(work[a].scope)
  /\ missed' = [missed EXCEPT !.played = @ \ work[a].scope]
  /\ Goes(a, "recompute")
  /\ UNCHANGED <<final, result, records, active, signals, job, reader, used>>

\* Defect: the signals of a match that lost its odds stay.
KeptWithoutOdds(ms) == {s \in signals : s.match \notin {m \in ms : HasFinal(m)}}

\* The signals that are not deleted.
Kept(ms) == {s \in signals : s.match \notin ms}

BeginRecompute(a) ==
  /\ work[a].pc = "recompute"
  /\ ~Locked
  /\ signals' = Kept(work[a].scope)
  /\ work' = [work EXCEPT ![a].pc = "insert",
                          ![a].todo = UNION {Expected(m) : m \in work[a].scope}]
  /\ UNCHANGED <<final, result, played, records, active, job, reader, missed, used>>

\* One row at a time, in some order that the candidates and records fix.
InsertSignal(a) ==
  /\ work[a].pc = "insert" /\ work[a].todo # {}
  /\ LET s == CHOOSE x \in work[a].todo : TRUE
     IN  /\ signals' = signals \cup {s}
         /\ work' = [work EXCEPT ![a].todo = @ \ {s}]
  /\ UNCHANGED <<final, result, played, records, active, job, reader, missed, used>>

EndRecompute(a) ==
  /\ work[a].pc = "insert" /\ work[a].todo = {}
  /\ missed' = [missed EXCEPT !.signals = @ \ work[a].scope]
  /\ work' = [work EXCEPT ![a] = IF a \in Job THEN [Idle EXCEPT !.pc = "finish"] ELSE Idle]
  /\ UNCHANGED <<final, result, played, records, active, signals, job, reader, used>>

-----------------------------------------------------------------------------
(* The sources.  The archive job's scope is what it processed, the monitor's *)
(* what it captured odds of, the repair's is everything.                    *)

\* A batch of captures is committed: a bookmaker that is not offered keeps its odds.
Capture(s, m) ==
  /\ s # "repair"
  /\ work[s].pc \in {"idle", "capture"}
  /\ ~Locked
  /\ Event
  /\ \E offer \in Offer :
       final' = [final EXCEPT ![m] =
                   [b \in Bookmaker |-> IF offer[b] = None THEN @[b] ELSE offer[b]]]
  /\ work' = [work EXCEPT ![s].pc = "capture", ![s].scope = @ \cup {m}]
  /\ UNCHANGED <<result, played, records, active, signals, job, reader, missed>>

\* mark_result_captured: a captured result is final.
FindResult(s, m) ==
  /\ s # "repair"
  /\ work[s].pc \in {"idle", "capture"}
  /\ LoopStep
  /\ ~result[m].captured
  /\ Event
  /\ \E score \in Final : result' = [result EXCEPT ![m] = [captured |-> TRUE, score |-> score]]
  /\ work' = [work EXCEPT ![s].pc = "capture", ![s].found = @ \cup {m}]
  /\ UNCHANGED <<final, played, records, active, signals, job, reader, missed>>

\* upsert_match stores what a page lists for the match, also over a captured score.
Relist(m) ==
  /\ LoopStep
  /\ Event
  /\ \E score \in Final \cup {None} : result' = [result EXCEPT ![m].score = score]
  /\ missed' = [missed EXCEPT !.played = @ \cup {m}]
  /\ UNCHANGED <<final, played, records, active, signals, job, work, reader>>

\* repair_final_snapshots builds the final odds again, from any snapshots.
Repair ==
  /\ work["repair"].pc = "idle"
  /\ ~Locked
  /\ Event
  /\ \E m \in Match : \E offer \in Offer : final' = [final EXCEPT ![m] = offer]
  /\ work' = [work EXCEPT !["repair"] = [Idle EXCEPT !.pc = "archive", !.scope = Match]]
  /\ UNCHANGED <<result, played, records, active, signals, job, reader, missed>>

\* Defect: the scope of the monitor's refresh is lost.
RefreshNothing(s) == {}

\* An archive job refreshes all it processed, the monitor only what it captured odds of.
RefreshScope(s) == IF s = "monitor" THEN work[s].scope ELSE work[s].scope \cup work[s].found

\* The cycle or the archive job ends, and goes on to its refresh on the event loop.
EndCapture(s) ==
  /\ work[s].pc = "capture"
  /\ LoopStep
  /\ missed' = [missed EXCEPT !.played = @ \cup (work[s].found \ RefreshScope(s))]
  /\ work' = [work EXCEPT ![s].scope = RefreshScope(s), ![s].found = {},
                          ![s].pc = IF RefreshScope(s) = {} THEN "idle" ELSE "archive"]
  /\ UNCHANGED <<final, result, played, records, active, signals, job, reader, used>>

-----------------------------------------------------------------------------
(* Requests for the import status, failures and restarts.                   *)

\* The request finds no active batch ...
ReaderLooks ==
  /\ reader = "idle" /\ active = <<>>
  /\ Event
  /\ reader' = "empty"
  /\ UNCHANGED <<final, result, played, records, active, signals, job, work, missed>>

\* ... and then takes the records it finds for those of an earlier version.
ReaderInserts ==
  /\ reader = "empty"
  /\ reader' = "idle"
  /\ active' = IF records # {} THEN Append(active, "legacy") ELSE active
  /\ UNCHANGED <<final, result, played, records, signals, job, work, missed, used>>

\* An exception.  Rows that are stored stay stored.
Fail(a) ==
  /\ work[a].pc \notin {"idle", "queued", "finish"}
  /\ ~Locked \/ work[a].pc = "insert"
  /\ Event
  /\ \E part \in SUBSET work[a].scope :
       played' = IF work[a].pc = "archive" THEN Archived(part) ELSE played
  /\ work' = [work EXCEPT ![a] = Idle]
  /\ IF a \in Job
     THEN job' = [job EXCEPT ![a].status = "failed"] /\ missed' = Missed(Match)
     ELSE job' = job /\ missed' = Missed(work[a].scope \cup work[a].found)
  /\ UNCHANGED <<final, result, records, active, signals, reader>>

\* Defect: only jobs that were running go on after a restart.
ResumableRunning == {j \in Job : job[j].status = "running"}

\* resumable_maintenance_jobs
Resumable == {j \in Job : job[j].status \in {"pending", "running"}}

\* With no records, the start asks for an import of the folder, once more each time.
AutoImports == IF records = {} /\ Free # {} THEN {CHOOSE j \in Free : TRUE} ELSE {}

\* The process ends and starts again: the jobs that were not over are run from the start,
\* the refreshes of the sources are not.  A shutdown first makes the running jobs pending.
Restart ==
  /\ Event
  /\ \E a \in Actor : \E part \in SUBSET work[a].scope :
       played' = IF work[a].pc = "archive" THEN Archived(part) ELSE played
  /\ missed' = Missed(UNION {work[s].scope \cup work[s].found : s \in Source})
  /\ active' = WithLegacy
  /\ \E tidy \in {FALSE, ~Locked} :
       job' = [j \in Job |->
                 IF j \in AutoImports THEN [NoJob EXCEPT !.status = "pending"]
                 ELSE IF j \in Resumable /\ tidy THEN [job[j] EXCEPT !.status = "pending"]
                 ELSE job[j]]
  /\ work' = [a \in Actor |-> IF a \in Resumable \cup AutoImports
                              THEN [Idle EXCEPT !.pc = "queued"] ELSE Idle]
  /\ reader' = "idle"
  /\ UNCHANGED <<final, result, records, signals>>

WorkStep ==
  \/ \E j \in Job : StartJob(j) \/ Look(j) \/ Activate(j) \/ FinishJob(j)
  \/ \E a \in Actor : \/ ArchivePlayed(a) \/ BeginRecompute(a)
                      \/ InsertSignal(a) \/ EndRecompute(a)
  \/ \E s \in Source : EndCapture(s)

Next ==
  \/ \E row \in Request : CreateJob(row)
  \/ WorkStep
  \/ \E s \in Source, m \in Match : Capture(s, m) \/ FindResult(s, m)
  \/ \E m \in Match : Relist(m)
  \/ Repair
  \/ ReaderLooks \/ ReaderInserts
  \/ \E a \in Actor : Fail(a)
  \/ Restart

Spec == Init /\ [][Next]_vars

\* Threads and the event loop run on, and the lock is handed over.
FairSpec == Spec /\ WF_vars(WorkStep)

-----------------------------------------------------------------------------
(* Properties.                                                             *)

\* Whoever reads the signals, whenever: they are made from records of the data set that is
\* stored now (the plan's "matching sees exactly one imported database version"), although
\* imports and recomputations of several jobs overlap, fail and are cut off.
SignalsOfActiveData == \A s \in signals : s.from \subseteq records

RecomputeAhead(j) == job[j].status \in {"pending", "running"} /\ work[j].pc # "finish"

\* Signals that do not fit the odds and the records are going to be computed again, by a
\* source that has the match on its list or by a job that goes on after a restart; only a
\* failure, or a restart in the middle of a cycle, leaves a match behind.
SignalsAccounted ==
  \A m \in StaleSignals : \/ m \in missed.signals
                          \/ \E s \in Source : m \in work[s].scope
                          \/ \E j \in Job : RecomputeAhead(j)

ArchiveAhead(j) ==
  /\ job[j].status \in {"pending", "running"} /\ job[j].archive
  /\ work[j].pc \notin {"recompute", "insert", "finish"}

\* The archive has the row of every match that was played, unless someone is about to archive
\* it.  Left behind are the results the backfill finds alone (last_changed_match_ids names
\* only matches with new odds), scores that a listing overwrote, and what a failure cut off.
PlayedAccounted ==
  \A m \in StalePlayed : \/ m \in missed.played
                         \/ \E s \in Source : /\ m \in work[s].scope \cup work[s].found
                                              /\ work[s].pc \in {"capture", "archive"}
                         \/ \E j \in Job : ArchiveAhead(j)

\* A recomputation that comes to its end leaves exactly the signals of its matches.
RecomputeRestores ==
  [][\A a \in Actor : work[a].pc = "insert" /\ EndRecompute(a)
       => \A m \in work[a].scope : SignalsOf(m) = Expected(m)]_vars

\* The content of the current batch is not activated once more (the plan's "re-import of the
\* same content hash" is a no-op): outside of a recomputation signals only go away with the
\* data set they were made from.  A batch row that a reader put over it hides the content.
ImportIsIdempotent ==
  [][\/ signals \subseteq signals'
     \/ \E a \in Actor : work'[a].pc = "insert"
     \/ Current(active') # Current(active)]_vars

\* Every maintenance job comes to an end, also when it is resumed by a restart.
EveryMaintenanceJobEnds ==
  \A j \in Job : job[j].status \in {"pending", "running"} ~> job[j].status \in {"completed", "failed"}

\* The index finds for every match exactly the records the board promises.
MatchingIsExact ==
  \A m \in Match : HasFinal(m) =>
    LET index == Index(records)
    IN  /\ ExactRecords(final[m], index) = PromisedExact(final[m], records)
        /\ OneDrawRecords(final[m], index) = PromisedOneDraw(final[m], records)

\* The uploads all rows of which are accounted for.
Reported ==
  {u \in Upload :
     \A n \in Readable(u) : \A k \in DOMAIN Files[u][n].tables :
       LET t == Files[u][n].tables[k] IN \A i \in DOMAIN t : RowAccounted(t, i)}

\* No row of an imported file is dropped in silence or counted for two blocks.
RowsAccounted == \A i \in DOMAIN active : active[i] \in Reported \cup {"legacy"}

=============================================================================
