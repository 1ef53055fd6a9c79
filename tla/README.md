# Formal models of the BetExplorer scraper

TLA+ modules, TLC configurations and TLAPS proofs about the Python service in
`apps/api/src/betexplorer_scraper` (file names below are relative to it). The
service watches football matches on BetExplorer, captures bookmaker odds until
the kickoff, stores scores, archives played matches, and compares odds with a
historical data set. What is hard about it is not the parsing. It is the number
of tasks that write the same rows: monitor cycles, capture workers, archive
jobs, maintenance jobs, threads of the persistence coordinator, and a process
that is restarted in between.

## 1. Inventory

| component | state | operations | what makes it correct |
|---|---|---|---|
| scheduling rules (`scheduler.py`, `timing.py`) | none | `classify_timing`, `Scheduler.plan` | a plan without a next time finalizes; captures lie inside the capture window, but for one recovery capture; nothing is put off until its window is over |
| monitor cycle (`capture.py`: `run_once`) | `matches` rows, `_run_lock`, `_last_discovery_at`, `_match_page_cache`, the workers of the cycle | discovery, enrichment, planning, result backfill, due scan, capture | no match is forgotten, reopened, finalized early or captured twice in a cycle |
| persistence coordinator (`persistence.py`, `Database.persist_capture_batch`) | one bounded queue, one worker, one transaction per batch | `submit_schedule`, `submit_capture`, `_run`, `close` | a batch is all or nothing; every waiter hears its outcome; later writes win, `finalized_at` is kept; what the queue has taken before `close` finds it empty is settled |
| ingest coordinator (`ingest.py`) | two priority queues, `_pending`, `_active`, `_adaptive_limit`, `_healthy`, `_cooldown_until`, worker tasks | `submit`, `_worker`, `_enter_slot`, `_leave_slot`, `_record_failure`, `_record_success`, `close` | one fetch per key, every caller answered, no slot and no key leaks, room for kickoff fetches |
| archive jobs (`capture.py`, `database.py`, `api.py`) | `archive_jobs`, `archive_job_items`, `archive_tasks`, `_archive_lock` | create, start, discover, process a match, finish, retry, resume | "completed" means archived; what is archived stays so and is not fetched again; every job ends |
| market capture (`capture.py`: `capture_match`, `capture_match_market`) | attempts, snapshots, payload files | up to three attempts per market, several markets at once | what is returned matches what is stored; rows stand in the order of the attempts; every attempt leaves one |
| final odds (`database.py`) | `odds_snapshots.is_final`, `final_bookmaker_odds` | promotion, rebuild, repair | at most one final snapshot per market; a poorer snapshot never replaces a richer one |
| maintenance jobs (`api.py`) | `maintenance_jobs`, `maintenance_tasks` | create, run, fail, cancel, resume | every job ends; what one leaves undone is known |
| historical data set (`historical.py`, `database.py`) | `historical_import_batches`, `historical_records`, `historical_signals`, `played_match_archive` | import with fingerprint, activation, recompute, archive of played matches | signals are made from the stored records, and are stale only while someone is to compute them again; importing the same content again changes nothing |
| signal matching (`database.py`, `historical.py`) | none | exact six odds, one-draw match, statistics | the index finds what a comparison of all prices finds |
| historical document parser (`historical_parser.py`) | none | blocks, odds rows, outcome rows | every row of a table is used once or reported |
| result backfill (`capture.py`, `database.py`) | `result_checked_at`, `result_captured_at` | candidates, check, mark | every finished match inside the lookback gets its score |
| HTTP API (`api.py`) | status snapshot, reader connection | endpoints, status loop, scheduler loop | endpoints that change state are operations of the components above |
| dashboard (`apps/desktop/web/app`) | filters, pages, selection | polling, paging, selection | the list shown belongs to the filters shown |
| exporter, parsers, transport, queries, settings, desktop shell, scripts | none that outlives a call | | |

**Interactions.** Every fetch of BetExplorer goes through the ingest
coordinator. Every schedule write and every capture attempt goes through the
persistence coordinator, whichever task it comes from; upserts, result marks
and archive item writes go to DuckDB directly, under one lock per call. The
monitor cycle and the archive job hold different locks (`_run_lock`,
`_archive_lock`) and write the same `matches` rows. `asyncio.gather` passes on
the first exception and leaves its siblings running: workers of a cycle or of
an archive job outlive it, after its lock was released. At the start of the API
`lifespan` schedules the archive and maintenance jobs that are not over.

**Hard behaviours.** Interleavings at every `await`; the thread of a
transaction beside the event loop; plans computed from rows that change before
they are written; batches that fail as a whole; restarts between a plan and its
capture; bounded queues; a limit that shrinks while fetches run; jobs retried
while they run; kickoff times that move, and pages cached from before. The list
with lines is in `PROJECT.json` under `hazards`.

## 2. Plan

Order of importance. A to J exist; K and L are left.

| | module | composes | states |
|---|---|---|---|
| A | `Scheduler` (+ `SchedulerProofs`) | | planning rules; lemmas for every input |
| B | `MonitorCycle` (+ `MonitorCycleProofs`) | extends A; contains schedule writes and an archive job | safety by an inductive invariant, liveness by TLC |
| C | `SingleFlight`, `Ingest` (+ `SingleFlightProofs`, `IngestProofs`) | `Ingest` implements `SingleFlight` | every safety property and the refinement proved |
| D | `WriteService` | abstract: a write that is taken is stored once or refused, and nobody is told of success without it | implemented by J |
| E | `FinalOdds` (+ `FinalOddsProofs`) | | promotion, rebuild, repair in chunks, cut off between statements; every property proved |
| F | `ArchiveJobs` (+ `ArchiveJobsProofs`) | | durable jobs; every safety property proved |
| G | `HistoricalDataset` (+ `HistoricalProofs`) | extends I; maintenance jobs beside the monitor, archive jobs and repairs | import, activation, archive, recompute; every safety property proved |
| H | `SignalMatching` (+ `HistoricalProofs`) | used by G | the index against a reference definition, proved |
| I | `HistoricalParser` | extends H | rows of a table against a count of their uses |
| J | `MarketCapture` (+ `MarketCaptureProofs`) | implements D | attempts, retries, failed writes, the bounded queue, shutdown |
| K | `ResultBackfill` | | retry time and limit: which finished matches get no score |
| L | `Dashboard` | | answers to list requests in any order; filters of the first render |

Every safety property of the runs that pass has a theorem (section 5). Worth
proving next: what holds of `FinalizedMeansWindowOver` and `OneCapturePerMatch`
without their preconditions, that is, which matches an archive job or a failed
cycle may finalize behind a running one.

## 3. Modules

### Scheduler

`ClassifyTiming` and `Plan` are the bodies of `classify_timing` and
`Scheduler.plan`, one operator per early return (`Over`, `UnknownKickoff`,
`AfterWindow`, `InsideWindow`). Times are integers in one unit; the intervals
and windows of `config.py` are constants, assumed to be natural numbers and
nothing else. `finalized_at` and `last_capture_at` are only compared with
`None`, so they are Booleans.

### MonitorCycle

An action is the code between two awaits.

| variable | code |
|---|---|
| `row` | the schedule columns of `matches`; `attempted`: the match has rows in `capture_attempts` |
| `cycle` | `_run_once_locked`: where it stands, its local `now`, the listings still to plan, the matches seen, its `planned_schedules` and `jobs` |
| `worker`, `orphans` | `capture_worker` tasks, and the iterator a failed cycle left to those still running |
| `wq` | the queue of the persistence coordinator; `by` is the task that waits for the write |
| `archive` | `process_match` of an archive job |
| `site` | what BetExplorer shows; `former` is what a cached page may still show |

`StartCycle` takes `_run_lock`. `Discover` finds any part of the matches,
because date pages that fail are swallowed, and knows the live status of any
part of them. `PlanMatch` upserts the row and plans with the kickoff of the
listing, or of the match page when it is near; whether it checks the result
page depends on a score of the listing that no row keeps, so it is a choice.
`ListResultCandidates`, `CheckResult` are the result backfill. `ScanDue` is the
empty-finalized query and the due scan, which run without an await, and the
submission of all plans. `Backfill` is that query with its cutoff and limit:
of the finalized matches without an attempt whose kickoff lies inside
`Lookback`, the newest `BackfillLimit`, in any order where kickoffs tie.
`TakeJob`, `SubmitAttempt`, `SubmitSchedule`, `FinishJob` are a capture worker.
`CommitBatch` is one transaction of `persist_capture_batch`: phase and next
time of the last write for a match, `finalized_at` and `last_capture_at`
coalesced. `FailBatch` rolls a batch back and wakes its waiters with the
exception: the cycle or the archive job that waits ends, the workers beside it
go on. `ArchiveScore` marks a result if a score was found, which the site may
show before the match is over, or not show at all. `Crash` keeps the rows only.

Left out: priorities of fetches, the retry time and limit of the result
backfill, several matches of an archive date at once; and, since `MarketCapture`
has them, several markets and attempts of one job (one attempt write stands for
all) and the capacity of the persistence queue.

### SingleFlight and Ingest

`SingleFlight` is what `submit` promises: callers that ask for one key share
one fetch, and the end of a fetch answers all of them and nobody else. `Ingest`
is the coordinator. A future is known by the sequence number of its item.
`Join` and `Submit` are the two branches of `submit`, `Put` is the wait for
room in a bounded queue, `Get` takes the head of a queue and goes into
`_enter_slot`, where a worker sleeps through a cooldown (`Wake`) or waits for
the condition (`Retry`); `Finish` is the end of a fetch, good or bad: slot,
limit, cooldown, future, `_pending`. `Expire` drops an item whose deadline has
passed; whether it has is a choice. `Close` cancels the workers and leaves what
is queued. The condition's lock is never held across an await and is not
modelled. Left out: callers that are cancelled, and metrics.

`Flight` is the refinement mapping: a caller asks for a key while it waits for a
future that is not resolved, and a key is open while it is in `_pending`.

### ArchiveJobs

The rows of jobs and items for one date, the tasks in `archive_tasks`, the
`_archive_lock` (one task past `queued`), and `run`: one execution, which keeps
its iterator and workers after its task is gone. `CreateJob` returns the active
job or makes a new one, `RetryJob` resets what is not complete and does not ask
whether the job is running. `BeginEvent`, `LinkEvent`, `ScheduleStored`,
`SaveOdds`, `CaptureOdds`, `CaptureScore` are `process_match` from await to
await: `SaveOdds` is one attempt of `capture_match_market` that stored odds,
and `CaptureOdds` what the call returns after its attempts (`OddsStatus`).
`ScheduleFails` is a batch that is rolled back under the workers that wait for
it; `WorkerFails` is a statement of one worker that fails: an update of its
item, the log entry of an attempt, the score. What was stored before it stays.
Either ends the job as failed and leaves the other workers running.

`FinishJob` archives the played matches, marks the items, computes the signals
and closes the job. These are statements of their own: `StopsHalfway` is all of
them that may have been committed when one fails (`FinishFails`, the job is
failed) or when the process ends (`CrashHalfway`, the job is resumed). In
between no other coroutine runs, so the end in one step loses nothing else.
An error whose message is empty counts as none in `finish_archive_job`, so
`DiscoveryFails` may close a job like one that went well.

Left out: the statement that closes a failed job failing itself, which leaves
a running job without a task until the next start; and a worker whose very
first update of its item fails, which is taken as failing right after it.

### FinalOdds

For each match and market (`Group`): its snapshots in the order in which they
are saved, the positions with `is_final`, and for each tracked bookmaker the
position its row of `final_bookmaker_odds` is from. A snapshot is what the code
asks of it: which bookmakers have a home and a draw price (`available`), which
have all three prices (`priced`), and which were required when it was taken.
`Save` is `_save_snapshot_unlocked` with promotion and rebuild, atomic because
the batch is one transaction under the lock of the database. The repair holds
that lock from its first query to its last but commits statement by statement:
`BeginRepair` (the ranking, and every flag cleared), `FlagChunk` (one `UPDATE`
of up to 500 ids, `ChunkSize`), `DeleteObservations`, `Rebuild` per group, and
`CutRepair`, an error or the end of the process in between. `Reconfigure` is a
restart with other `required_bookmakers`. `captured_at` is taken right before a
snapshot is handed to the queue of the persistence coordinator, and positions
stand for capture times. The model assumes that they agree: a `put` that waits
because the queue is full (`persistence.py:90`) may be overtaken by another
task with a snapshot of the same market, and equal times, which the code orders
by random ids, do not occur either.

### WriteService and MarketCapture

`WriteService` is what `PersistenceCoordinator` promises the tasks that submit
writes. `MarketCapture` is the coordinator together with the tasks that use it
most: the markets of a match, captured side by side. A task is a call of
`capture_match` and a market.

| variable | code |
|---|---|
| `call` | `capture_match`: running, what it returned, raised, cancelled |
| `task` | `capture_match_market`: where it stands, the attempt, the write it waits for, and what the loop keeps (`saved`, whether `unavailable_responses` and `technical_failures` are positive) |
| `queue`, `batch`, `worker` | `_queue`, the batch of `_run`, and whether its transaction is stored or refused |
| `answer` | the future of a write |
| `rows` | what is stored for a task, in order: a snapshot (complete, partial, unavailable, empty) or an error, with its attempt |
| `service` | up, closing (`lifespan` has cancelled the tasks it knows, `close` waits in `join`), joined (the queue was found empty, the worker is not yet cancelled), closed, ended (the event loop is gone) |

`BeginCall` picks the markets, `Enter` takes the semaphore, `Respond` and
`FetchFails` the end of a request up to the `put` of its write, `Put` the wait
for room, `Take`, `Collect`, `Flush`, `Commit`, `CommitFails`, `AnswerBatch` the
worker: one step per await and one for the thread of the transaction.
`SnapshotStored`, `SnapshotNotLogged`, `SnapshotRefused`, `ErrorHandled` and
`ErrorNotLogged` are what a task does with its answer; `TryAgain` is the end of
the sleep between attempts. `CallRaises` is `asyncio.gather` passing on an
exception while the markets beside it go on.

`Shutdown` cancels the tasks `lifespan` knows (scheduler, archive and
maintenance tasks) and with them some of the running calls, wherever these
wait, also those whose write is already queued. What it does not know goes on:
the markets left by a call that has raised, and the calls of workers a failed
`gather` left behind, which may even begin (`BeginCall`) until the loop ends.
Their fetches end with the ingest coordinator (`FetchCancelled`), but a page
they already have is still submitted, during `close` and after it. `close` is
three steps: `Join` (the count of `Queue.join`, `Unfinished`, includes the
batch in hand), `CancelWorker`, and its return. A write that is taken between
the two, or later by a worker that `submit` starts anew, may be dropped with
the worker (`DropWorker`), while the thread of its transaction is not stopped
and may still store it; the task that waits for it hears nothing (`stuck`) until
`Exit`, the end of the event loop.

`WriteOf` is the refinement mapping: a write is `asked` while it waits for
room, `accepted` in queue or batch, and `stored` or `refused` from the commit
on, before its task hears of it. `WriteService` is `open` until `Join`: what
was accepted by then is settled, and the worker settles every write while it is
open. What a left-over task submits after that is only promised to be stored at
most once (`Abandon`), and never to be reported as stored when it is not.

Left out: `metrics`, the cache of the market list, the removal of payload
files, the schedule writes that share the queue (see `MonitorCycle`), and the
one pass of the loop between the end of the cancelled worker and the last
statement of `close`: a left-over task may start a worker in it, which `close`
forgets, so that two workers may take from the queue until the loop ends.

### SignalMatching, HistoricalParser and HistoricalDataset

`SignalMatching` is `_build_complete_record_index` and what
`recompute_historical_signals` does with it: `Index` under exact and one-draw
keys, `ExactRecords` and `OneDrawRecords` (what a key finds, filtered by the
checks of the code), `Groups`, `Stats`, `Rows`. Prices are elements of `Price`,
and `Cents` says which of them are the same when they are rounded to cents.
`PromisedExact` and `PromisedOneDraw` say the same without an index: compare all
six prices.

`HistoricalParser` reads a table as rows of cells, each of a kind (`price`,
`score`, `date`, `text`, `blank`) with its value. `Blocks` are the rows with
odds, `Owner` says which block an outcome row belongs to, `Records` is what a
file gives, `Warnings` what the parser reports. `RowAccounted`: a row is used
once, or blank, or a heading, or reported.

`HistoricalDataset` has the tables and whoever changes them.

| variable | code |
|---|---|
| `final`, `result` | `final_bookmaker_odds` of 1x2, and score and `result_captured_at` of `matches` |
| `played`, `records`, `active`, `signals` | `played_match_archive`, `historical_records`, the batches that are active, `historical_signals` |
| `job` | rows of `maintenance_jobs` |
| `work` | where each job stands, and each of three sources of new odds and results: the monitor, an archive job, the repair of final odds |
| `reader` | a request for the import status, between its two queries |
| `missed` | history: the matches nobody is left to bring up to date |

A method of `Database` holds one lock and is one step, but for
`recompute_historical_signals`: it runs outside a transaction, so each of its
statements is stored at once (`BeginRecompute`, `InsertSignal`, `EndRecompute`)
and all others wait (`Locked`). The monitor and the archive job refresh on the
event loop, so no coroutine moves meanwhile (`LoopStep`); maintenance jobs and
the repair run in threads. `Look` and `Activate` are the two looks an import
takes at the active batch; the second, with the exchange of records and
signals, is one transaction. `Fail` and `Restart` stop a job or source
anywhere, also between two inserted rows or in the middle of archiving;
`Restart` queues the jobs that are pending or running and asks for an import if
there are no records. `ReaderLooks` and `ReaderInserts` are
`historical_import_status`, which runs on a connection with a lock of its own
and writes a batch row.

Left out: the extraction of ZIP files and the walk over folders (an upload is a
set of files with a content), the setting that switches the refresh off,
half-time scores, and `HistoricalSignalAutoRefresh`, which only its tests use.

## 4. Runs

| run | instance | what it shows |
|---|---|---|
| `monitor_faults` | 1 match whose kickoff may move or be unknown, 2 workers, 1 fault, 1 restart, 1 archive job, a lookback of 1 | `NoMatchForgotten`, `PendingWritesKeepTrack`, `PlansEndWithWindow`, `FinalizedForever` |
| `monitor_pair` | 2 matches that compete for 1 place of the backfill, 2 workers at once, 1 fault | `FinalizedMeansWindowOver`, `OneCapturePerMatch` |
| `monitor_liveness` | 1 match whose kickoff may move or be unknown, 1 worker, 1 each of move, fault, restart; a lookback of 2 | `EventuallyFinalized`, `EventuallyAttempted` under `FairSpec` |
| `archive_early` | 1 match, 1 archive job | violates `FinalizedMeansWindowOver` (section 7) |
| `ingest` | 3 callers, 2 keys, 2 + 1 workers, queues of 1, 3 requests, 1 failure, 1 close | four invariants, `ImplementsSingleFlight`, `EveryCallerIsAnswered` |
| `ingest_kickoff` | 4 callers and keys, 3 + 1 workers | violates `KickoffSlotReserved` |
| `archive_jobs` | 1 job, 2 matches, 2 bookmakers, 2 runs, 2 workers, 3 troubles | `CompletedMeansArchived`, `ArchivedNotFetchedAgain`, `ArchivedForever` |
| `archive_jobs_end` | 2 jobs, 1 match, 1 bookmaker, 2 runs, 3 troubles | `EveryJobEnds` under `FairSpec` |
| `archive_restart` | 1 job, 2 matches, 1 restart | violates `ProgressSurvives` |
| `historical` | 2 matches, 2 jobs, 4 uploads (two of the same content, one with a broken file, one unreadable), 2 offers, 1 score, 3 events from outside | `SignalsOfActiveData`, `SignalsAccounted`, `PlayedAccounted`, `MatchingIsExact`, `RowsAccounted`, `RecomputeRestores`, `ImportIsIdempotent`, `EveryMaintenanceJobEnds` under `FairSpec` |
| `market_capture` | 1 call, 3 markets that differ in what the site answers, 2 at a time, 2 attempts, a queue of 1, batches of 2, 1 fault, 1 shutdown that knows the call or does not | `ResultIsStored`, `RowsInOrder`, `AttemptsRecorded`, `ImplementsWriteService`, `EveryCallEnds` under `FairSpec` |
| `final_odds` | 2 matches, 3 snapshots, 2 bookmakers, chunks of 1, 2 repairs, 1 of them cut off, 1 change of settings | `AtMostOneFinal`, `FinalIsBest`, `ObservationsAreNewest`, `RepairRestores` |

**Bounds.** The rows of the matches are independent but for the batches and the
workers they share, so one match shows what happens to a row and two show what
the matches do to each other. Time runs from 0 to 3 with windows of length 1 and
kickoffs at 0, 1, 2 or unknown: before, at, inside and after the window are all
reached, and so is a cycle that is late by a whole window. The lookback is
shorter than that, so a finalized match may fall out of it before a cycle looks
for it; the limit of the backfill is 1, which matters where two matches compete
for it (`monitor_pair`). A batch may hold two writes, which is enough for two
writes of one match, of two matches, and of a cycle and an archive job. One
fault is enough for workers to be left behind and the next cycle to run beside
them; one restart for lost writes. In `archive_jobs` a trouble is a retry, a
failure or a restart: with three of them and two runs, the workers of a failed
run write under a retry of their own job, and one of these may fail or be
restarted in turn. One job waits for the lock of another in `archive_jobs_end`;
the theorems are about any number of jobs, runs and troubles. Three callers and
two keys give a caller that shares a fetch and one that is blocked by a full
queue; the limit of the coordinator never falls below 2, so with three workers
it can be halved and can recover. Three snapshots give a match one that is
promoted, one that is not and one that ties; chunks of one let a repair be cut
off between two matches. In `historical` an event is a job that is asked for, a
change of odds or result, a listing, a repair, a look of a reader, a failure or
a restart. Three are enough for a failure or restart in one job beside another,
for an import between the two looks of another, and for a change while a
recomputation runs; everything a job or source does on its own is not counted.
Records an earlier version left may be there at the start. Three prices of which
two are the same in cents give matches that are exact, differ in one draw price,
and differ elsewhere. In `market_capture` one market answers with anything (all
odds, some, none, none and a message, an error), one always with some odds and
one with all (`MCAnswers`); the queue of the code has room for 32 writes or
more, and one place is enough for a task to wait for room, with a full batch in
hand, when the shutdown comes. With one call the tasks that outlive the shutdown
are its own markets, left by a `gather` that raised, or all of them when the
shutdown does not know the call. Workers, and where they are alike matches,
callers, keys, runs and bookmakers, are symmetric sets in the runs that check no
liveness.

Deadlock is not checked: the clock and every count of requests, faults, jobs
and restarts is bounded, and a system that has used them up may stop.

**Fairness.** `MonitorCycle`: the event loop runs what can run and each fetch
ends (the HTTP client has a timeout of 30 seconds, the scheduler loop starts
cycles for ever), so the cycle, each worker and the archive job are weakly fair;
so are the persistence worker and the clock. Nothing is assumed of faults, of
the site or of a match being listed again. `Ingest`: the steps of each caller
and each worker, and the clock. `ArchiveJobs`: only the disjunction of all steps
of the runs, because whatever order the loop picks, each step brings a run
closer to its end. `HistoricalDataset`: the disjunction of all steps of jobs and
refreshes (`WorkStep`), since each brings its job closer to its end, threads are
not stopped, and the lock is handed over; nothing is assumed of requests,
failures and restarts. `MarketCapture`: the disjunction of all steps of tasks,
worker, calls and `close` (`Step`), for the same reason; requests end by the
timeout of the client. `EveryCallerIsAnswered` says nothing about what follows a
`close`, which leaves queued callers waiting until another request starts the
workers. `EventuallyFinalized` is about matches whose kickoff stays known: one
without a kickoff is looked at for ever, as the code intends.
`EventuallyAttempted` starts where a cycle finds the match in time
(`FoundInTime`): it was finalized without an attempt, a cycle with a discovery
comes to its empty-finalized query while the kickoff is inside the lookback, and
the limit has a place for it. A match whose recovery plan is stored just before
a long downtime falls out of the lookback and gets no attempt; the code promises
none, and the property does not. That the query takes what is found in time is
checked here for one match and proved for any limit (`FoundInTimeIsTaken`).
`ImplementsWriteService` promises nothing for writes that are submitted after
`close` has found the queue empty (section 3).

Each property has a mutant of a mapped definition under `mutants`, a plausible
bug (a dropped notification, an overwritten `finalized_at`, a retry that resets
everything, ...) under which TLC finds it violated. The mutated forms stand
before the definitions they change, marked `Defect`.

## 5. What is proved

For every value of the constants that meets the named assumptions:

- `SchedulerProofs`: `PlanKeepsTrack` (a plan without a next time finalizes),
  `PlanFinalizesLate` (who may finalize, and that an uncaptured match is then
  captured once more), `PlanCapturesInsideWindow`, and the lemma
  `PlanEndsWithWindow`: a next time that a moved kickoff left beyond the end of
  the window is not waited for. They use that the windows and
  intervals are natural numbers (`ConfigAssumption`) and that `Null` is no
  time. No relation between the windows is needed.
- `MonitorCycleProofs`: `TypeCorrect`, `NoMatchIsForgotten`, `WritesKeepTrack`
  and `FinalizedStaysFinalized`, for any set of matches and workers and any
  number of faults, restarts and archive jobs; `OneCapture`, with any number of
  restarts and for as long as there was neither a fault nor an archive job;
  `FinalizedLate`, with any number of faults and restarts, for sites that keep
  their kickoff times and without archive jobs (`MaxMoves = 0` and
  `MaxArchives = 0` are hypotheses of the theorem); `PlansStayInWindow`, with
  any number of moves, faults and restarts and for as long as there was no
  archive job; and `FoundInTimeIsTaken`, that the backfill of a cycle which finds
  a match in time takes it, with any limit and lookback. They use that there are
  finitely many matches, that a batch holds one write at least, and that workers
  are not named like the cycle or the archive job.
- `SingleFlightProofs`: `NoVainWait`, that no implementation of the single
  flight leaves a caller waiting for a fetch that does not exist.
- `IngestProofs`: `IngestTypes`, `PendingCarried`, `ActiveCounted`,
  `KeysFetchedOnce`, and `FlightImplemented`, that the coordinator is such an
  implementation, for any callers, keys, workers, priorities and bounds; with
  `NoVainWait` it gives `CallersWaitForAFetch`. They use that there are
  finitely many workers and at least one, that queues have room, and that the
  bounds of requests, failures and closes are natural numbers
  (`BoundAssumption`).
- `ArchiveJobsProofs`: `ArchiveTypes`, `CompletedIsArchived`, `NotFetchedAgain`
  and `NeverUnarchived`, for any jobs, matches, bookmakers, runs, workers and
  troubles. They use that a date has finitely many matches (`ArchiveAssumption`).
- `FinalOddsProofs`: `TypeCorrect`, `OneFinal`, `NewestObserved`,
  `SavingFindsBest` and `RepairRepairs`, the five properties of `final_odds`,
  for any number of matches, snapshots, repairs, faults and changes. They use
  that bookmakers are finitely many and that Bwin and Unibet are among those
  known (`BookmakerAssumption`).
- `MarketCaptureProofs`: `TypeCorrect`, `ResultStored`, `RowsStoredInOrder`,
  `AttemptsLeaveRows`, and `ServiceImplemented`, that every behaviour is one of
  `WriteService` (the safety half of `ImplementsWriteService`), for any calls,
  markets, answers, sizes, attempts and faults.
- `HistoricalProofs`: `MatchingExact`, `TypeCorrect`, `SignalsFromActive`,
  `AccountedSignals`, `AccountedPlayed`, `AccountedRows`, `RecomputeRestored` and
  `IdempotentImport`, for any matches, jobs, uploads, files, prices, records and
  number of events. They use `DatasetAssumption`: jobs are no sources, `None` is
  no value, and a job that is asked for starts as pending and has an upload if it
  imports one; and `FilesAssumption`: an upload holds files.

`NoMatchForgotten` is not inductive: it is about rows, and rows are written from
a queue. The inductive invariant `IInv` adds `PendingWritesKeepTrack`, which
says of everything on its way to a row (the plans a cycle holds, the jobs of
workers, the iterator a failed cycle left behind, the queue) that it brings a
next time or finalizes. Plans have that from `PlanKeepsTrack`, backfill jobs
and archive writes because they finalize. `CommittedIsSafe` is the heart of
it: since `finalized_at` is coalesced and phase and next time come from one
write, a committed row keeps track whichever writes the batch mixes, of which
tasks, in which order. Mixing the next time of one write with the overwritten
`finalized_at` of another would break it, and the mutant
`CommittedOverwriting` shows it for `FinalizedForever`.

`OneCapturePerMatch` and `FinalizedMeansWindowOver` have invariants of their own
beside `IInv`. The first holds because the three places where `run_once` finds
jobs exclude each other: a listed job is that of a match already in `seen` that
is not finalized, the due scan skips `seen`, and the backfill takes only matches
that are finalized (`JobsPlannedOnce`). Nobody may finalize a match in between,
and nobody can: whoever has a write in the queue waits for it
(`WritesAwaited`), so the queue is empty until the plans are made
(`QuietBeforeCapture`), and the cycle ends with no worker at work
(`WorkersShareJobs`). A rolled back batch breaks exactly this, by leaving workers
and writes behind. The second needs that every plan, job and write which
finalizes, wherever it waits and for however long, is one of a match that has
`Ended` (`PendingAreLate`). `Ended` only grows (`EndedGrows`): the clock goes
forward, no site takes `finished` back, and with kickoffs that stay the listing,
the match page and the row say the same (`KickoffsKept`, `ListingsTrue`). A plan
is made with the clock of the start of the cycle, which is early at worst.

`PlansStayInWindow` says of all plans of a cycle what `PlanEndsWithWindow` says of
one: it needs that a cycle lists a match once (`ListedOnce`), so that nothing
upserts the row behind its plan but an archive job. `FoundInTimeIsTaken` counts:
were the match left out, there would be `BackfillLimit` newer ones, which with
itself are more than `FoundInTime` allows (`QueryTakes`).

In `IngestProofs` the invariant says where a future can be. Every open future is
in the hands of one caller, one queue or one worker, whose item is found under
its key (`CarriedAreBooked`, `CarriedOnce`, `OpenAreCarried`, `PendingAreOpen`),
numbers not yet given out name no future (`Fresh`), and a caller that waits for
an open future waits for the one under its key (`WaitsAreBooked`). From that a
step of the coordinator is one of the single flight: a fetch that ends frees the
key of exactly the callers that share it, and all else is a stutter.

In `ArchiveJobsProofs` the word `completed` is not the difficulty, the workers of
a failed run are: they write items under a retry of their own job. The invariant
ties each run to items of its job (`WorksOnItems`), one task and one live run to
the lock (`OneTaskRuns`, `OneRunIsLive`, `LiveCaptures`), and work to workers
that are counted (`WorkersSuffice`); `TasksAreActive` is why a job that is over
cannot be finished once more. An end that stops half way only adds: matches to
the archive, then marks to items whose match is there (`MarksRows`), so that it
can only break `completed`, and a job that fails or is resumed is not
(`FinishFailsStep`, `RestartRuns`).

`SavingFindsBest` says that a comparison with the final snapshot alone, made
anew for each snapshot, finds what the ranking of the repair finds among all of
them. Its heart is `BestOfAppend`: the best of a list that grew is the new
snapshot, unless it scores less than the old best; `BestExists` says that there
is one, by `GreatestOf`. It needs that all snapshots were scored by one
requirement (`SameRequirement`), since `_should_promote_snapshot` scores the
stored side by the names stored with it; after a change of settings saving and
repairing may disagree, and `FinalIsBest` says nothing then. `FinalInv` adds
where the flags are in the middle of a repair, `ObservedInv` which matches are
still to be rebuilt; a repair that was cut off leaves the second disjunct of
`ObservedInv`, and the end of the next one removes it (`RepairRepairs`).

The invariant of `MarketCaptureProofs` says where a write can be. `QueueInv`: a
task has at most one write on its way, in the queue or in the batch, and it
waits for it, or was cancelled. A worker that is cancelled with a batch in hand
takes the writes of the batch with it, stored or not (`AbandonServed`), and by
then nothing that was accepted before `Join` is among them. `TaskInv` relates
the flags of a task to its stored rows, with one exception: between the commit
of a batch and the moment its task runs again, the row is there and the flag is
not. `RowGood` takes this as a parameter, so that the proof of every step says
which side of that moment it is on. `CallInv` carries it to what `capture_match`
returns. `OrderInv` adds what a queued write will become: rows of a task never
come after one of a later attempt, because a task hands in its next write only
when it has the answer to the last. `LostInv` counts: an attempt without a row
is one whose error was refused, and each transaction that fails loses one
attempt of a task at most, since a task has only one write on its way.

The heart of `HistoricalProofs` is that a lock held over many statements is
enough for some things and not for others. `InsertInv` says of a recomputation
under way that the rows it has stored and the rows it has left are together
those its matches need; it is kept because whoever changes odds or records
finds nobody inserting (`NobodyInserts`, and the mutant `Unlocked` drops that).
`FromInv` adds that what is left to insert comes from the stored records: a row
computed from a replaced data set would be inserted after the exchange.
`SignalsAccounted` needs `JobInv`, that a job which stands anywhere is pending or
running and has all matches before it, so a restart queues it again.
`AccountedPlayed` adds `FoundInv`, that results a source found by itself are
known to it only while it captures. `AccountedRows` is about the parser alone:
rows with odds are numbered by those above them (`Numbering`), so each is in one
pair or is the one left over and reported (`BlocksDisjoint`, `OddsRowsPaired`),
and a row of scores below a block has one owner (`ScoresOwned`). Matching
needs no invariant: `OneDrawMeets` says that two lists of odds which differ in
one draw price have a one-draw key in common, and `OneDrawIsOneDifference` that
the checks behind the index leave nothing else.

## 6. What is only model-checked, and what is not modelled

Only model-checked: liveness. `EventuallyFinalized`, `EventuallyAttempted`,
`EveryCallerIsAnswered`, `EveryJobEnds`, `EveryMaintenanceJobEnds`,
`EveryCallEnds`, and that `WriteService` settles every write (the fairness in
`ImplementsWriteService`), are temporal properties under fairness, which are out
of the prover's reach. The properties of the runs that expect a violation have
counterexamples instead.

`OneCapturePerMatch` and `FinalizedMeansWindowOver` carry
preconditions, stated at the definitions: archive jobs and plans left in the
queue by a failed cycle can finalize a match behind a running cycle, and a match
may then be captured twice; and a site that moves a kickoff back makes an
earlier finalization look early. `PlansEndWithWindow` is stated without archive
jobs, which may replace the kickoff behind a plan, and `EventuallyAttempted` for
matches that are found in time (section 4).

No property says that a job reported as completed listed anything: a discovery
that fails with an empty message closes the job without items, and `completed`
is then true of nothing. The model has this step (`DiscoveryFails`), and the
hazard is listed.

Not modelled: the failure of the statement that closes a failed archive job, and
a second persistence worker started in the last pass of `close` (section 3).
Not modelled yet: the retry time and limit of the result backfill, callers of
the ingest coordinator that are cancelled or starve, and the dashboard
(section 2). Not planned: the HTML and JSON parsers, exporter, queries,
settings, shell and scripts, which keep no state and whose results are inputs of
the models; the cleaning up of payload files; ZIP files and folders; and
`HistoricalSignalAutoRefresh`, which the program does not use.

## 7. Where the code and its documents disagree

- `archive_early`: `README.md:12` says of `FINALIZED` "capture window is over.".
  An archive job finalizes every match of its date (`capture.py:213-226`), and
  `POST /api/archive/date` takes any date: a match that has not been played is
  finalized, and by `FinalizedStaysFinalized` never monitored again.
- `ingest_kickoff`: the plan of 2026-07-18 (line 192) asks to "Reserve at least
  one fetch slot for kickoff-priority work so a large backfill cannot delay live
  final odds." A failure halves the limit while more fetches than that may be
  running (`ingest.py:170`), and a kickoff fetch waits for backfill fetches to
  end.
- `archive_restart`: the same plan (lines 229 and 235) says that each completed
  match is archived at once and that a restart loses no progress. Matches are
  archived when the whole date is done (`capture.py:309`); after a restart a
  match whose odds and score were complete is fetched again.

Seen while modelling, and part of the models rather than of a run of its own:

- `README.md:152` says that payloads are "saved once per cycle" and retries are
  for errors and empty payloads; `capture.py:744` also tries again after a
  payload with some of the bookmakers, and stores each. `RowsInOrder` says what
  holds instead.
- Results the backfill finds, without new odds, refresh nothing: the archive of
  played matches gets them with the next full refresh. `PlayedAccounted` counts
  them as missed, with scores that a later listing of the page overwrites.
- An import deletes all signals with the exchange of the records. When archiving
  or recomputing fails after it, there are none until the next refresh.
- The request for the import status may find no active batch, lose a race with an
  import, and put a batch row "Legacy" above the new one, which hides its
  fingerprint: the next import of the same content is then not recognized.
- A start without records asks for an import, once more each time.
