----------------------------- MODULE ArchiveJobs -----------------------------
(***************************************************************************)
(* The durable archive jobs of one past date: the job and item rows         *)
(* (database.py), the tasks that run them (api.py), and the workers of      *)
(* _archive_football_date_locked (capture.py), which capture the odds and   *)
(* the score of every match and then put the played matches into the        *)
(* archive.                                                                *)
(*                                                                         *)
(* A run is one execution of a job.  Its workers take events from one       *)
(* iterator; when one of them raises, the job fails, and gather leaves the  *)
(* others running: a run that is no longer live.                            *)
(***************************************************************************)
EXTENDS Naturals, FiniteSets

CONSTANTS
  MaxJobs,      \* bound on the jobs for the date, numbered in order of creation
  Event,        \* the matches of the date
  Bookmaker,    \* the bookmakers archive_played_matches asks for: Bwin and Unibet
  Run,          \* runs that can exist at once
  Concurrency,  \* historical_backfill_concurrency
  MaxTroubles   \* bound on retries, failures (of a discovery, a write, a statement) and restarts

ASSUME ArchiveAssumption ==
  /\ MaxJobs \in Nat /\ Concurrency \in Nat \ {0}
  /\ IsFiniteSet(Event) /\ Bookmaker # {}
  /\ MaxTroubles \in Nat

VARIABLES
  job,     \* the status of each archive job
  item,    \* the archive_job_items
  match,   \* per event: final_bookmaker_odds, result, played_match_archive
  task,    \* the tasks of archive_tasks
  run,     \* the runs
  used     \* the retries, faults and restarts so far, bounded by MaxTroubles

vars == <<job, item, match, task, run, used>>

-----------------------------------------------------------------------------
Job == 1 .. MaxJobs

Ended == {"completed", "completed_with_gaps", "completed_with_errors"}

JobStatus == {"none", "pending", "running", "failed"} \cup Ended

ItemRow == [state: {"discovered", "processing", "ready", "archived", "incomplete"},
            odds: {"pending", "complete", "partial", "unavailable", "failed"},
            score: {"pending", "complete", "failed"},
            linked: BOOLEAN, archived: BOOLEAN]   \* linked: match_id is set

NoItem == [state |-> "none"]

MatchRow == [odds: SUBSET Bookmaker, result: BOOLEAN, archived: BOOLEAN]

\* "saved": an attempt of the odds capture has stored a snapshot with odds.
Stage == {"none", "kickoff", "schedule", "odds", "saved", "score"}

\* The events left in the iterator, the workers alive, and where each event in work stands.
RunRow == [job: Job \cup {0}, live: BOOLEAN, todo: SUBSET Event, workers: 0 .. Concurrency,
           stage: [Event -> Stage], done: SUBSET Event]

NoRun == [job |-> 0, live |-> FALSE, todo |-> {}, workers |-> 0,
          stage |-> [e \in Event |-> "none"], done |-> {}]

TypeOK ==
  /\ job \in [Job -> JobStatus]
  /\ item \in [Job -> [Event -> ItemRow \cup {NoItem}]]
  /\ match \in [Event -> MatchRow]
  /\ task \in [Job -> {"none", "queued", "discovery", "capturing"}]
  /\ run \in [Run -> RunRow]
  /\ used \in [retries: Nat, faults: Nat, crashes: Nat]

Init ==
  /\ job = [j \in Job |-> "none"]
  /\ item = [j \in Job |-> [e \in Event |-> NoItem]]
  /\ match = [e \in Event |-> [odds |-> {}, result |-> FALSE, archived |-> FALSE]]
  /\ task = [j \in Job |-> "none"]
  /\ run = [r \in Run |-> NoRun]
  /\ used = [retries |-> 0, faults |-> 0, crashes |-> 0]

-----------------------------------------------------------------------------
(* The requests.                                                           *)

MoreTrouble == used.retries + used.faults + used.crashes < MaxTroubles

Known(j, e) == item[j][e] # NoItem
Open(j, e) == Known(j, e) /\ ~item[j][e].archived

Active == {j \in Job : job[j] \in {"pending", "running"}}

\* _schedule_archive_job: a task that is not done goes on.
Scheduled(j) == IF task[j] = "none" THEN [task EXCEPT ![j] = "queued"] ELSE task

\* create_archive_job returns the newest active job of the date, or makes one.
CreateJob ==
  /\ \/ /\ Active # {}
        /\ \E j \in Active : (\A k \in Active : k <= j) /\ task' = Scheduled(j)
        /\ UNCHANGED job
     \/ /\ Active = {}
        /\ \E j \in Job :
             /\ job[j] = "none" /\ \A k \in Job : k < j => job[k] # "none"
             /\ job' = [job EXCEPT ![j] = "pending"]
             /\ task' = Scheduled(j)
  /\ UNCHANGED <<item, match, run, used>>

\* Defect: a retry starts over with every item.
ResetAll(i) == [i EXCEPT !.state = "discovered", !.odds = "pending", !.score = "pending",
                         !.archived = FALSE]

Reset(i) ==
  IF i.archived THEN i
  ELSE [i EXCEPT !.state = "discovered",
                 !.odds = IF @ = "complete" THEN @ ELSE "pending",
                 !.score = IF @ = "complete" THEN @ ELSE "pending"]

\* retry_archive_job does not ask whether the job is running.
RetryJob(j) ==
  /\ job[j] # "none"
  /\ MoreTrouble
  /\ used' = [used EXCEPT !.retries = @ + 1]
  /\ item' = [item EXCEPT ![j] =
                [e \in Event |-> IF Known(j, e) THEN Reset(@[e]) ELSE NoItem]]
  /\ job' = [job EXCEPT ![j] = "pending"]
  /\ task' = Scheduled(j)
  /\ UNCHANGED <<match, run>>

-----------------------------------------------------------------------------
(* A run.                                                                  *)

\* The task gets _archive_lock.
StartJob(j) ==
  /\ task[j] = "queued"
  /\ \A k \in Job : task[k] \in {"none", "queued"}
  /\ task' = [task EXCEPT ![j] = "discovery"]
  /\ job' = [job EXCEPT ![j] = "running"]
  /\ UNCHANGED <<item, match, run, used>>

\* What finish_archive_job makes of the items when there is no error.
Closed(items) ==
  [e \in Event |-> IF items[e] # NoItem /\ ~items[e].archived
                   THEN [items[e] EXCEPT !.state = "incomplete"] ELSE items[e]]

\* Defect: a job is completed when nothing went wrong technically.
StatusIgnoringGaps(items) ==
  IF \E e \in Event : items[e] # NoItem /\ items[e].odds = "failed"
  THEN "completed_with_errors" ELSE "completed"

\* Defect: a status that resumption, polling and the user interface do not know.
StatusIncomplete(items) ==
  IF \E e \in Event : items[e] # NoItem /\ ~items[e].archived THEN "incomplete" ELSE "completed"

StatusOf(items) ==
  IF \E e \in Event : items[e] # NoItem /\ items[e].odds = "failed" THEN "completed_with_errors"
  ELSE IF \E e \in Event : items[e] # NoItem /\ ~items[e].archived THEN "completed_with_gaps"
  ELSE "completed"

\* An error without a message counts as none.
DiscoveryFails(j) ==
  /\ task[j] = "discovery"
  /\ MoreTrouble
  /\ used' = [used EXCEPT !.faults = @ + 1]
  /\ \/ /\ job' = [job EXCEPT ![j] = "failed"]
        /\ UNCHANGED item
     \/ /\ item' = [item EXCEPT ![j] = Closed(@)]
        /\ job' = [job EXCEPT ![j] = StatusOf(Closed(item[j]))]
  /\ task' = [task EXCEPT ![j] = "none"]
  /\ UNCHANGED <<match, run>>

NewItem == [state |-> "discovered", odds |-> "pending", score |-> "pending", linked |-> FALSE,
            archived |-> FALSE]

\* Defect: every event of the date is processed.
AllEvents(j, found) == found

\* pending_archive_job_events
PendingEvents(j, found) == {e \in found : ~Known(j, e) \/ Open(j, e)}

WorkerCount(todo) == IF Cardinality(todo) < Concurrency THEN Cardinality(todo) ELSE Concurrency

\* The date page lists some of the events; those that are not archived yet are processed.
Discover(j) ==
  /\ task[j] = "discovery"
  /\ \E found \in SUBSET Event : \E r \in Run :
       LET todo == PendingEvents(j, found)
       IN  /\ run[r] = NoRun
           /\ item' = [item EXCEPT ![j] =
                [e \in Event |-> IF e \in found /\ ~Known(j, e) THEN NewItem ELSE @[e]]]
           /\ run' = [run EXCEPT ![r] =
                [NoRun EXCEPT !.job = j, !.live = TRUE, !.todo = todo,
                              !.workers = WorkerCount(todo)]]
  /\ task' = [task EXCEPT ![j] = "capturing"]
  /\ UNCHANGED <<job, match, used>>

InWork(r) == {e \in Event : run[r].stage[e] # "none"}

BeginEvent(r, e) ==
  /\ e \in run[r].todo
  /\ Cardinality(InWork(r)) < run[r].workers
  /\ run' = [run EXCEPT ![r].todo = @ \ {e}, ![r].stage[e] = "kickoff"]
  /\ item' = [item EXCEPT ![run[r].job][e].state = "processing"]
  /\ UNCHANGED <<job, match, task, used>>

\* The kickoff time was looked up, or could not be: the match is stored and its schedule
\* write submitted.
LinkEvent(r, e) ==
  /\ run[r].stage[e] = "kickoff"
  /\ run' = [run EXCEPT ![r].stage[e] = "schedule", ![r].done = @ \cup {e}]
  /\ item' = [item EXCEPT ![run[r].job][e].state = "processing", ![run[r].job][e].linked = TRUE]
  /\ UNCHANGED <<job, match, task, used>>

ScheduleStored(r, e) ==
  /\ run[r].stage[e] = "schedule"
  /\ run' = [run EXCEPT ![r].stage[e] = "odds"]
  /\ UNCHANGED <<job, item, match, task, used>>

\* Nothing is left of a run whose task is gone once its last worker is.
Swept(rn) ==
  IF /\ ~rn.live
     /\ rn.workers = 0 \/ (rn.todo = {} /\ \A e \in Event : rn.stage[e] = "none")
  THEN NoRun ELSE rn

\* The workers of these events end with an exception, and with them the job; gather leaves the
\* other workers running.
WorkersRaise(r, failed) ==
  /\ MoreTrouble
  /\ used' = [used EXCEPT !.faults = @ + 1]
  /\ run' = [run EXCEPT ![r] =
       Swept([@ EXCEPT !.live = FALSE, !.workers = run[r].workers - Cardinality(failed),
                       !.stage = [e \in Event |->
                                    IF e \in failed THEN "none" ELSE run[r].stage[e]]])]
  /\ IF run[r].live
     THEN /\ job' = [job EXCEPT ![run[r].job] = "failed"]
          /\ task' = [task EXCEPT ![run[r].job] = "none"]
     ELSE UNCHANGED <<job, task>>

\* A transaction failed, and with it every worker that waits for it.
ScheduleFails(r, failed) ==
  /\ failed # {} /\ \A e \in failed : run[r].stage[e] = "schedule"
  /\ WorkersRaise(r, failed)
  /\ UNCHANGED <<item, match>>

\* A statement that a worker executes itself failed, a log entry or an update of its item; a
\* score it had stored before stays.
WorkerFails(r, e) ==
  /\ run[r].stage[e] \in {"kickoff", "odds", "saved", "score"}
  /\ WorkersRaise(r, {e})
  /\ \/ UNCHANGED match
     \/ /\ run[r].stage[e] = "score"
        /\ match' = [match EXCEPT ![e].result = TRUE]
  /\ UNCHANGED item

\* An attempt of capture_match_market stored a snapshot with odds, of these bookmakers or of
\* others; what is found now adds to what was found before.
SaveOdds(r, e) ==
  /\ run[r].stage[e] \in {"odds", "saved"}
  /\ \E found \in SUBSET Bookmaker : match' = [match EXCEPT ![e].odds = @ \cup found]
  /\ run' = [run EXCEPT ![r].stage[e] = "saved"]
  /\ UNCHANGED <<job, item, task, used>>

\* What capture_match_market returns.  A row with a home and a draw price makes a snapshot
\* complete, and is of no use to the archive without an away price.
OddsStatus(stage) ==
  IF stage = "saved" THEN {"complete", "partial"} ELSE {"unavailable", "failed"}

CaptureOdds(r, e) ==
  /\ run[r].stage[e] \in {"odds", "saved"}
  /\ \E status \in OddsStatus(run[r].stage[e]) :
       item' = [item EXCEPT ![run[r].job][e].odds = status]
  /\ run' = [run EXCEPT ![r].stage[e] = "score"]
  /\ UNCHANGED <<job, match, task, used>>

\* A score is found or not; a score that is stored stays.
CaptureScore(r, e) ==
  /\ run[r].stage[e] = "score"
  /\ \E scored \in BOOLEAN :
       /\ match' = [match EXCEPT ![e].result = @ \/ scored]
       /\ item' = [item EXCEPT ![run[r].job][e].state = "ready",
                               ![run[r].job][e].score = IF scored THEN "complete" ELSE "failed"]
  /\ run' = [run EXCEPT ![r] = Swept([@ EXCEPT !.stage[e] = "none"])]
  /\ UNCHANGED <<job, task, used>>

\* archive_played_matches, for the matches of this run.
Archived(done) ==
  [e \in Event |->
     IF e \in done /\ match[e].result /\ match[e].odds = Bookmaker
     THEN [match[e] EXCEPT !.archived = TRUE] ELSE match[e]]

\* mark_archive_job_archived_items
Marked(items, rows) ==
  [e \in Event |->
     IF items[e] # NoItem /\ items[e].linked /\ rows[e].archived
     THEN [items[e] EXCEPT !.odds = "complete", !.archived = TRUE, !.state = "archived"]
     ELSE items[e]]

AllProcessed(r) == run[r].live /\ run[r].todo = {} /\ InWork(r) = {}

FinishJob(r) ==
  /\ AllProcessed(r)
  /\ LET j     == run[r].job
         rows  == Archived(run[r].done)
         items == Closed(Marked(item[j], rows))
     IN  /\ match' = rows
         /\ item' = [item EXCEPT ![j] = items]
         /\ job' = [job EXCEPT ![j] = StatusOf(items)]
         /\ task' = [task EXCEPT ![j] = "none"]
  /\ run' = [run EXCEPT ![r] = NoRun]
  /\ UNCHANGED used

\* The statements of the end are committed one by one: when they stop half way, some matches
\* may be archived, or all of them with their items marked, or with the items closed as well.
StopsHalfway(r) ==
  /\ AllProcessed(r)
  /\ LET j      == run[r].job
         marked == Marked(item[j], Archived(run[r].done))
     IN  \/ /\ \E part \in SUBSET run[r].done : match' = Archived(part)
            /\ UNCHANGED item
         \/ /\ match' = Archived(run[r].done)
            /\ \E items \in {marked, Closed(marked)} : item' = [item EXCEPT ![j] = items]

\* One of them failed, or the recomputation of the signals did.
FinishFails(r) ==
  /\ StopsHalfway(r)
  /\ MoreTrouble
  /\ used' = [used EXCEPT !.faults = @ + 1]
  /\ job' = [job EXCEPT ![run[r].job] = "failed"]
  /\ task' = [task EXCEPT ![run[r].job] = "none"]
  /\ run' = [run EXCEPT ![r] = NoRun]

-----------------------------------------------------------------------------
\* Defect: only jobs that were running are found at the start.
ResumableRunning == {j \in Job : job[j] = "running"}

\* resumable_archive_jobs
Resumable == Active

\* The rows survive; the start of the API schedules the jobs that are not over.
Restart ==
  /\ MoreTrouble
  /\ used' = [used EXCEPT !.crashes = @ + 1]
  /\ run' = [r \in Run |-> NoRun]
  /\ task' = [j \in Job |-> IF j \in Resumable THEN "queued" ELSE "none"]
  /\ UNCHANGED job

\* The process may end between any two steps, and between two statements of the end of a run.
Crash == Restart /\ UNCHANGED <<item, match>>

CrashHalfway(r) == StopsHalfway(r) /\ Restart

RunStep ==
  \/ \E j \in Job : StartJob(j) \/ Discover(j)
  \/ \E r \in Run : \/ FinishJob(r)
                    \/ \E e \in Event : \/ BeginEvent(r, e) \/ LinkEvent(r, e)
                                        \/ ScheduleStored(r, e)
                                        \/ SaveOdds(r, e) \/ CaptureOdds(r, e)
                                        \/ CaptureScore(r, e)

Next ==
  \/ CreateJob
  \/ \E j \in Job : RetryJob(j)
  \/ RunStep
  \/ \E j \in Job : DiscoveryFails(j)
  \/ \E r \in Run : \/ \E failed \in SUBSET Event : ScheduleFails(r, failed)
                    \/ \E e \in Event : WorkerFails(r, e)
                    \/ FinishFails(r) \/ CrashHalfway(r)
  \/ Crash

Spec == Init /\ [][Next]_vars

\* Every fetch and every write ends, and the event loop runs what can run.
FairSpec == Spec /\ WF_vars(RunStep)

-----------------------------------------------------------------------------
(* Properties.                                                             *)

\* A job is reported as completed only if every item it lists is archived, and an item counts as
\* archived only if its match is in the archive, whichever retries, failures and restarts
\* its rows went through.
CompletedMeansArchived ==
  \A j \in Job, e \in Event :
    Known(j, e) => /\ job[j] = "completed" => item[j][e].archived
                   /\ item[j][e].archived => match[e].archived

\* The run that holds the archive lock never works on a match its job has archived already:
\* neither a resumed nor a retried job fetches what is done (the workers a failed run left
\* behind may).
ArchivedNotFetchedAgain ==
  \A r \in Run, e \in Event :
    run[r].live /\ (run[r].stage[e] # "none" \/ e \in run[r].todo)
      => ~item[run[r].job][e].archived

\* A retry, a resumption or a second request for the date never undoes what is archived.
ArchivedForever ==
  [][\A j \in Job, e \in Event :
       Known(j, e) /\ item[j][e].archived => Known(j, e)' /\ item'[j][e].archived]_vars

\* Every job that was created comes to an end, also when it is retried while it runs, when it
\* waits for another one and when the process restarts.
EveryJobEnds == \A j \in Job : job[j] \in {"pending", "running"} ~> job[j] \in Ended \cup {"failed"}

\* A match whose odds and score are complete is not processed again after a restart (the plan's
\* "Closing the page or restarting the application does not lose backfill progress").
ProgressSurvives ==
  [][\A j \in Job, e \in Event :
       (/\ Known(j, e) /\ item[j][e].state = "ready"
        /\ item[j][e].odds = "complete" /\ item[j][e].score = "complete")
         => item'[j][e].state # "processing"]_vars

=============================================================================
