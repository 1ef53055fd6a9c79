---------------------------- MODULE MonitorCycle ----------------------------
(***************************************************************************)
(* CaptureService.run_once and everything that writes a row of the matches  *)
(* table beside it: the capture workers of the cycle, the workers a failed  *)
(* cycle leaves behind, the archive job, the persistence queue all of them  *)
(* write through, and a restart of the process.                             *)
(*                                                                         *)
(* The code runs on one event loop, so an action is the code between two    *)
(* awaits.  The persistence worker commits a batch in a thread of its own;  *)
(* the batch is one transaction.                                            *)
(***************************************************************************)
EXTENDS Scheduler, Sequences, FiniteSets

CONSTANTS
  Match,           \* the matches the site may list
  Worker,          \* capture worker tasks that can exist at once
  MaxConcurrent,   \* max_concurrent_captures
  BatchSize,       \* persistence_batch_size
  Lookback,        \* result_capture_lookback_hours
  BackfillLimit,   \* result_backfill_batch_size, of the empty-finalized query
  FinishGrace,     \* result_finish_grace_minutes
  EnrichmentMargin, \* the 180 minutes of _enrich_kickoff_from_match_page_if_needed
  Kickoffs,        \* kickoff times the site may show; may contain Null
  MaxTime,         \* bound on the clock
  MaxMoves,        \* bound on how often the site changes a kickoff time
  MaxFaults,       \* bound on failed fetches and failed transactions
  MaxCrashes,      \* bound on restarts of the process
  MaxArchives      \* bound on archive jobs for the date of a match

ASSUME WorkerAssumption == {"cycle", "archive", "none"} \cap Worker = {}
ASSUME MatchAssumption == IsFiniteSet(Match)
ASSUME SizeAssumption ==
  BatchSize \in Nat \ {0} /\ MaxConcurrent \in Nat \ {0} /\ BackfillLimit \in Nat
ASSUME KickoffAssumption == Kickoffs \subseteq Times

VARIABLES
  now,       \* the clock
  site,      \* what BetExplorer shows: kickoff, kickoff before the last change, status
  row,       \* the matches table (schedule columns) and whether it has attempts
  cycle,     \* the run that holds _run_lock
  worker,    \* the capture_worker tasks
  orphans,   \* jobs still in the iterator of a failed cycle
  wq,        \* the queue of the PersistenceCoordinator
  archive,   \* the archive job, at one match of its date
  lastDiscovery, \* _last_discovery_at
  used       \* how much of the bounds MaxMoves, MaxFaults, ... is used up

vars == <<now, site, row, cycle, worker, orphans, wq, archive, lastDiscovery, used>>

-----------------------------------------------------------------------------
Status == {"scheduled", "live", "finished"}

Site == [kickoff: Times, former: Times, status: Status]

Row == [stored: BOOLEAN, kickoff: Times, timing: Timing, phase: Phase, next: Times,
        finalized: BOOLEAN, captured: BOOLEAN, attempted: BOOLEAN, result: BOOLEAN]

NoRow == [stored |-> FALSE, kickoff |-> Null, timing |-> "UNKNOWN", phase |-> "DISCOVERED",
          next |-> Null, finalized |-> FALSE, captured |-> FALSE, attempted |-> FALSE,
          result |-> FALSE]

\* A match as the discovery parser returns it.
Listing == [match: Match, kickoff: Times, status: Status]

\* kind tells where run_once found the job: among the listed matches, in the due scan, or in
\* the empty-finalized backfill.
Job == [match: Match, next: Times, phase: Phase, finalized: BOOLEAN,
        kind: {"listed", "due", "backfill"}]

Actor == Worker \cup {"cycle", "archive", "none"}

\* A ScheduleWrite; captured tells whether captured_at is set.  An AttemptWrite
\* reaches the rows only as "the match now has attempts".
ScheduleItem == [kind: {"schedule"}, match: Match, phase: Phase, next: Times,
                 finalized: BOOLEAN, captured: BOOLEAN, by: Actor]
AttemptItem == [kind: {"attempt"}, match: Match, by: Actor]
Item == ScheduleItem \cup AttemptItem

ScheduleWrite(m, phase, next, finalized, captured, by) ==
  [kind |-> "schedule", match |-> m, phase |-> phase, next |-> next,
   finalized |-> finalized, captured |-> captured, by |-> by]
AttemptWrite(m, by) == [kind |-> "attempt", match |-> m, by |-> by]

CyclePc == {"idle", "discover", "plan", "results", "due", "persist", "capture"}

Cycle == [pc: CyclePc, now: Int, discover: BOOLEAN, todo: SUBSET Listing, seen: SUBSET Match,
          plans: Seq(ScheduleItem), jobs: SUBSET Job]

IdleCycle == [pc |-> "idle", now |-> 0, discover |-> FALSE, todo |-> {}, seen |-> {},
              plans |-> <<>>, jobs |-> {}]

WorkerState ==
       [st: {"idle"}, orphan: BOOLEAN]
  \cup [st: {"fetch", "attempt", "schedule"}, job: Job, orphan: BOOLEAN]

IdleWorker == [st |-> "idle", orphan |-> FALSE]

ArchiveState == [st: {"idle"}] \cup [st: {"schedule", "fetch", "attempt"}, match: Match]

IdleArchive == [st |-> "idle"]

Used == [moves: Nat, faults: Nat, crashes: Nat, archives: Nat]

TypeOK ==
  /\ now \in Int
  /\ site \in [Match -> Site]
  /\ row \in [Match -> Row]
  /\ cycle \in Cycle
  /\ worker \in [Worker -> WorkerState]
  /\ orphans \subseteq Job
  /\ wq \in Seq(Item)
  /\ archive \in ArchiveState
  /\ lastDiscovery \in Times
  /\ used \in Used

Init ==
  /\ now = 0
  /\ site \in [Match -> {[kickoff |-> k, former |-> k, status |-> "scheduled"] : k \in Kickoffs}]
  /\ row = [m \in Match |-> NoRow]
  /\ cycle = IdleCycle
  /\ worker = [w \in Worker |-> IdleWorker]
  /\ orphans = {}
  /\ wq = <<>>
  /\ archive = IdleArchive
  /\ lastDiscovery = Null
  /\ used = [moves |-> 0, faults |-> 0, crashes |-> 0, archives |-> 0]

-----------------------------------------------------------------------------
(* The site and the clock.                                                 *)

Tick ==
  /\ now < MaxTime
  /\ now' = now + 1
  /\ UNCHANGED <<site, row, cycle, worker, orphans, wq, archive, lastDiscovery, used>>

\* The site shows another kickoff time (or announces one).
Reschedule(m) ==
  /\ used.moves < MaxMoves
  /\ site[m].status = "scheduled"
  /\ \E k \in Kickoffs \ {site[m].kickoff, Null} :
        site' = [site EXCEPT ![m].kickoff = k, ![m].former = site[m].kickoff]
  /\ used' = [used EXCEPT !.moves = @ + 1]
  /\ UNCHANGED <<now, row, cycle, worker, orphans, wq, archive, lastDiscovery>>

Progress(m) ==
  /\ site[m].kickoff # Null
  /\ now >= site[m].kickoff
  /\ \/ site[m].status = "scheduled" /\ site' = [site EXCEPT ![m].status = "live"]
     \/ site[m].status = "live" /\ site' = [site EXCEPT ![m].status = "finished"]
  /\ UNCHANGED <<now, row, cycle, worker, orphans, wq, archive, lastDiscovery, used>>

-----------------------------------------------------------------------------
(* One cycle: discovery, planning, result backfill, due scan.              *)

DiscoveryDue == lastDiscovery = Null \/ now - lastDiscovery >= DiscoveryInterval

\* run_once takes _run_lock; a manual run forces the discovery.
StartCycle ==
  /\ cycle.pc = "idle"
  /\ \E discover \in BOOLEAN :
        /\ DiscoveryDue => discover
        /\ cycle' = [IdleCycle EXCEPT !.pc = IF discover THEN "discover" ELSE "due",
                                      !.now = now, !.discover = discover]
  /\ UNCHANGED <<now, site, row, worker, orphans, wq, archive, lastDiscovery, used>>

\* The homepage could not be fetched: the exception ends the cycle.
DiscoveryFails ==
  /\ cycle.pc = "discover"
  /\ used.faults < MaxFaults
  /\ used' = [used EXCEPT !.faults = @ + 1]
  /\ cycle' = IdleCycle
  /\ UNCHANGED <<now, site, row, worker, orphans, wq, archive, lastDiscovery>>

\* Date pages that fail and live results that fail are swallowed: any part of the
\* matches is found, and any part of those with a status that is not yet known.
Discover ==
  /\ cycle.pc = "discover"
  /\ \E found \in SUBSET Match : \E fresh \in SUBSET found :
        cycle' = [cycle EXCEPT
          !.pc = "plan",
          !.todo = {[match |-> m, kickoff |-> site[m].kickoff,
                     status |-> IF m \in fresh THEN site[m].status ELSE "scheduled"] : m \in found}]
  /\ lastDiscovery' = cycle.now
  /\ UNCHANGED <<now, site, row, worker, orphans, wq, archive, used>>

\* The kickoff on the match page; the cached page may be from before the last change.
PageKickoffs(m) == {site[m].kickoff, site[m].former} \ {Null}

Near(kickoff, at) ==
  LET distance == UpcomingWindow + EnrichmentMargin
  IN  -distance <= kickoff - at /\ kickoff - at <= distance

\* Near its kickoff, a listing is planned with the kickoff of the match page, if it is fetched.
EnrichedKickoffs(l, at) ==
  IF l.kickoff = Null \/ ~Near(l.kickoff, at) THEN {l.kickoff}
  ELSE {l.kickoff} \cup PageKickoffs(l.match)

\* _should_capture_result, of a listing that comes with a score.
ResultDue(kickoff, status, at, r) ==
  /\ ~r.result
  /\ status = "finished"
  /\ kickoff # Null
  /\ 0 <= at - kickoff /\ at - kickoff <= Lookback

\* schedule_match: the decision becomes a schedule write and, if due, a job.
PlanWrite(m, d) == ScheduleWrite(m, d.phase, d.next, d.finalized, FALSE, "cycle")
PlanJobs(m, d, kind) ==
  IF d.capture
  THEN {[match |-> m, next |-> d.next, phase |-> d.phase, finalized |-> d.finalized,
         kind |-> kind]}
  ELSE {}

\* upsert_match: the schedule columns of a known match are left alone.
Upserted(r, kickoff, timing) == [r EXCEPT !.stored = TRUE, !.kickoff = kickoff, !.timing = timing]

\* A listing may be finished and carry no score yet.
PlanMatch ==
  /\ cycle.pc = "plan"
  /\ \E l \in cycle.todo, scored \in BOOLEAN : \E k \in EnrichedKickoffs(l, cycle.now) :
       LET m      == l.match
           timing == ClassifyTiming(k, cycle.now, l.status = "live", l.status = "finished")
           old    == row[m]
           d      == Plan(k, timing, cycle.now, old.next, old.finalized, old.captured)
       IN  /\ row' = [row EXCEPT ![m] =
                [Upserted(old, k, timing) EXCEPT
                   !.result = @ \/ (scored /\ ResultDue(k, l.status, cycle.now, old))]]
           /\ cycle' = [cycle EXCEPT
                !.todo = @ \ {l}, !.seen = @ \cup {m},
                !.plans = Append(@, PlanWrite(m, d)), !.jobs = @ \cup PlanJobs(m, d, "listed")]
  /\ UNCHANGED <<now, site, worker, orphans, wq, archive, lastDiscovery, used>>

ResultCandidate(m) ==
  /\ row[m].stored /\ ~row[m].result /\ row[m].kickoff # Null
  /\ cycle.now - Lookback <= row[m].kickoff
  /\ row[m].kickoff <= cycle.now - FinishGrace
  /\ m \notin cycle.seen

\* The candidates of the result backfill are read once, before any page is fetched.
ListResultCandidates ==
  /\ cycle.pc = "plan" /\ cycle.todo = {}
  /\ cycle' = [cycle EXCEPT
       !.pc = "results",
       !.todo = {[match |-> m, kickoff |-> row[m].kickoff, status |-> "finished"] :
                    m \in {x \in Match : ResultCandidate(x)}}]
  /\ UNCHANGED <<now, site, row, worker, orphans, wq, archive, lastDiscovery, used>>

ResultMarked(r) == [r EXCEPT !.result = TRUE, !.timing = "FINISHED"]

\* mark_result_captured does nothing for a match that has a result.
CheckResult ==
  /\ cycle.pc = "results"
  /\ \E l \in cycle.todo :
       /\ \/ row' = [row EXCEPT ![l.match] =
                       IF site[l.match].status = "finished" /\ ~@.result
                       THEN ResultMarked(@) ELSE @]
          \/ row' = row                           \* the page could not be fetched
       /\ cycle' = [cycle EXCEPT !.todo = @ \ {l}]
  /\ UNCHANGED <<now, site, worker, orphans, wq, archive, lastDiscovery, used>>

ResultsDone ==
  /\ cycle.pc = "results" /\ cycle.todo = {}
  /\ cycle' = [cycle EXCEPT !.pc = "due"]
  /\ UNCHANGED <<now, site, row, worker, orphans, wq, archive, lastDiscovery, used>>

\* Finalized, inside the lookback, and nothing was ever attempted.
EmptyFinalized(m, at) ==
  /\ row[m].finalized /\ row[m].kickoff # Null /\ row[m].kickoff >= at - Lookback
  /\ ~row[m].attempted

BackfillJob(m) ==
  [match |-> m, next |-> Null, phase |-> "FINALIZING", finalized |-> TRUE, kind |-> "backfill"]

BackfillJobs(chosen) == {BackfillJob(m) : m \in chosen}

\* ORDER BY kickoff_time DESC LIMIT: nothing that is left out is newer, or would have had a place.
NewestOf(found, chosen) ==
  /\ chosen \subseteq found
  /\ Cardinality(chosen) <= BackfillLimit
  /\ found # chosen => Cardinality(chosen) = BackfillLimit
  /\ \A m \in found \ chosen, c \in chosen : row[m].kickoff <= row[c].kickoff

\* Defect: like the due scan, the backfill skips what the discovery has listed.
BackfillUnseen(chosen) ==
  LET found == {m \in Match : cycle.discover /\ EmptyFinalized(m, cycle.now) /\ m \notin cycle.seen}
  IN  NewestOf(found, chosen)

\* list_empty_finalized_odds_backfill_candidates
Backfill(chosen) ==
  LET found == {m \in Match : cycle.discover /\ EmptyFinalized(m, cycle.now)}
  IN  NewestOf(found, chosen)

DueRow(m) == ~row[m].finalized /\ row[m].next # Null /\ row[m].next <= cycle.now

StoredPlan(m) ==
  LET r      == row[m]
      timing == ClassifyTiming(r.kickoff, cycle.now, r.timing = "LIVE", r.timing = "FINISHED")
  IN  Plan(r.kickoff, timing, cycle.now, r.next, r.finalized, r.captured)

\* Defect: the due scan does not skip what the discovery has planned already.
DueUnseenAll == {m \in Match : DueRow(m)}

DueUnseen == {m \in Match : DueRow(m) /\ m \notin cycle.seen}

\* The backfill query and the due scan run without an await in between; then all plans
\* are submitted at once and the cycle waits for their transactions.
ScanDue ==
  /\ cycle.pc = "due"
  /\ \E order \in [1 .. Cardinality(DueUnseen) -> DueUnseen], chosen \in SUBSET Match :
       LET duePlans == [i \in DOMAIN order |-> PlanWrite(order[i], StoredPlan(order[i]))]
       IN  /\ \A m \in DueUnseen : \E i \in DOMAIN order : order[i] = m
           /\ Backfill(chosen)
           /\ cycle' = [cycle EXCEPT
                !.pc = "persist", !.todo = {}, !.seen = {}, !.plans = <<>>,
                !.jobs = @ \cup BackfillJobs(chosen)
                           \cup UNION {PlanJobs(m, StoredPlan(m), "due") : m \in DueUnseen}]
           /\ wq' = wq \o cycle.plans \o duePlans
  /\ UNCHANGED <<now, site, row, worker, orphans, archive, lastDiscovery, used>>

Waiting(actor) == \E i \in DOMAIN wq : wq[i].by = actor

PlansPersisted ==
  /\ cycle.pc = "persist"
  /\ ~Waiting("cycle")
  /\ cycle' = [cycle EXCEPT !.pc = "capture"]
  /\ UNCHANGED <<now, site, row, worker, orphans, wq, archive, lastDiscovery, used>>

-----------------------------------------------------------------------------
(* The capture workers.                                                    *)

Busy(w) == worker[w].st # "idle" \/ worker[w].orphan
LiveWorkers == {w \in Worker : Busy(w) /\ ~worker[w].orphan}

Fetching(j, orphan) == [st |-> "fetch", job |-> j, orphan |-> orphan]

TakeJob(w) ==
  /\ cycle.pc = "capture"
  /\ ~Busy(w)
  /\ Cardinality(LiveWorkers) < MaxConcurrent
  /\ \E j \in cycle.jobs :
       /\ worker' = [worker EXCEPT ![w] = Fetching(j, FALSE)]
       /\ cycle' = [cycle EXCEPT !.jobs = @ \ {j}]
  /\ UNCHANGED <<now, site, row, orphans, wq, archive, lastDiscovery, used>>

\* A worker of a failed cycle goes on with what is left in its iterator.
OrphanNext(w) ==
  /\ worker[w].st = "idle" /\ worker[w].orphan
  /\ \/ /\ orphans = {}
        /\ worker' = [worker EXCEPT ![w] = IdleWorker]
        /\ UNCHANGED orphans
     \/ \E j \in orphans :
          /\ worker' = [worker EXCEPT ![w] = Fetching(j, TRUE)]
          /\ orphans' = orphans \ {j}
  /\ UNCHANGED <<now, site, row, cycle, wq, archive, lastDiscovery, used>>

\* The odds are fetched, or the fetch fails: either way an attempt is submitted.
SubmitAttempt(w) ==
  /\ worker[w].st = "fetch"
  /\ worker' = [worker EXCEPT ![w].st = "attempt"]
  /\ wq' = Append(wq, AttemptWrite(worker[w].job.match, w))
  /\ UNCHANGED <<now, site, row, cycle, orphans, archive, lastDiscovery, used>>

\* An attempt that could not be stored is logged only: the job goes on.
SubmitSchedule(w) ==
  /\ worker[w].st = "attempt"
  /\ ~Waiting(w)
  /\ worker' = [worker EXCEPT ![w].st = "schedule"]
  /\ LET j == worker[w].job
     IN  wq' = Append(wq, ScheduleWrite(j.match, IF j.finalized THEN "FINALIZED" ELSE j.phase,
                                        j.next, j.finalized, TRUE, w))
  /\ UNCHANGED <<now, site, row, cycle, orphans, archive, lastDiscovery, used>>

FinishJob(w) ==
  /\ worker[w].st = "schedule"
  /\ ~Waiting(w)
  /\ worker' = [worker EXCEPT ![w] = [st |-> "idle", orphan |-> worker[w].orphan]]
  /\ UNCHANGED <<now, site, row, cycle, orphans, wq, archive, lastDiscovery, used>>

EndCycle ==
  /\ cycle.pc = "capture"
  /\ cycle.jobs = {} /\ LiveWorkers = {}
  /\ cycle' = IdleCycle
  /\ UNCHANGED <<now, site, row, worker, orphans, wq, archive, lastDiscovery, used>>

-----------------------------------------------------------------------------
(* The archive job of a past date, at one of its matches.                  *)

ArchiveMatch(m) ==
  /\ archive.st = "idle"
  /\ used.archives < MaxArchives
  /\ site[m].kickoff # Null
  /\ \E k \in PageKickoffs(m) : row' = [row EXCEPT ![m] = Upserted(@, k, "FINISHED")]
  /\ wq' = Append(wq, ScheduleWrite(m, "FINALIZED", Null, TRUE, FALSE, "archive"))
  /\ archive' = [st |-> "schedule", match |-> m]
  /\ used' = [used EXCEPT !.archives = @ + 1]
  /\ UNCHANGED <<now, site, cycle, worker, orphans, lastDiscovery>>

ArchiveFetch ==
  /\ archive.st = "schedule"
  /\ ~Waiting("archive")
  /\ archive' = [archive EXCEPT !.st = "fetch"]
  /\ UNCHANGED <<now, site, row, cycle, worker, orphans, wq, lastDiscovery, used>>

ArchiveAttempt ==
  /\ archive.st = "fetch"
  /\ archive' = [archive EXCEPT !.st = "attempt"]
  /\ wq' = Append(wq, AttemptWrite(archive.match, "archive"))
  /\ UNCHANGED <<now, site, row, cycle, worker, orphans, lastDiscovery, used>>

\* Any score will do, that of a listing or of the page and also one of a match that is not over;
\* there may be none, and a lookup that fails is logged only.
ArchiveScore ==
  /\ archive.st = "attempt"
  /\ ~Waiting("archive")
  /\ \/ row' = row
     \/ /\ site[archive.match].status # "scheduled" /\ ~row[archive.match].result
        /\ row' = [row EXCEPT ![archive.match] = ResultMarked(@)]
  /\ archive' = IdleArchive
  /\ UNCHANGED <<now, site, cycle, worker, orphans, wq, lastDiscovery, used>>

-----------------------------------------------------------------------------
(* The persistence worker, and restarts.                                   *)

Rest(n) == SubSeq(wq, n + 1, Len(wq))

BatchLengths == {n \in 1 .. BatchSize : n <= Len(wq)}

Attempts(m, n) == {k \in 1 .. n : wq[k].kind = "attempt" /\ wq[k].match = m}
Schedules(m, n) == {k \in 1 .. n : wq[k].kind = "schedule" /\ wq[k].match = m}

\* last is the position of the last schedule write for m, 0 if there is none.
LastSchedule(m, n, last) ==
  IF Schedules(m, n) = {} THEN last = 0
  ELSE last \in Schedules(m, n) /\ \A k \in Schedules(m, n) : k <= last

\* Defect: finalized_at is overwritten instead of coalesced.
CommittedOverwriting(m, n, last) ==
  [row[m] EXCEPT
     !.attempted = @ \/ Attempts(m, n) # {},
     !.captured = @ \/ \E k \in Schedules(m, n) : wq[k].captured,
     !.finalized = IF last = 0 THEN @ ELSE wq[last].finalized,
     !.phase = IF last = 0 THEN @ ELSE wq[last].phase,
     !.next = IF last = 0 THEN @ ELSE wq[last].next]

\* persist_capture_batch: phase and next time are those of the last write, finalized_at and
\* last_capture_at are kept when a write brings none.
Committed(m, n, last) ==
  [row[m] EXCEPT
     !.attempted = @ \/ Attempts(m, n) # {},
     !.captured = @ \/ \E k \in Schedules(m, n) : wq[k].captured,
     !.finalized = @ \/ \E k \in Schedules(m, n) : wq[k].finalized,
     !.phase = IF last = 0 THEN @ ELSE wq[last].phase,
     !.next = IF last = 0 THEN @ ELSE wq[last].next]

CommitBatch ==
  /\ \E n \in BatchLengths : \E last \in [Match -> 0 .. n] :
       /\ \A m \in Match : LastSchedule(m, n, last[m])
       /\ row' = [m \in Match |-> Committed(m, n, last[m])]
       /\ wq' = Rest(n)
  /\ UNCHANGED <<now, site, cycle, worker, orphans, archive, lastDiscovery, used>>

\* Writes whose waiter is gone stay in the queue.
Disowned(q, actor) ==
  [i \in DOMAIN q |-> IF q[i].by = actor THEN [q[i] EXCEPT !.by = "none"] ELSE q[i]]

\* The transaction fails: every item of the batch is rolled back and its waiter gets the
\* exception.  A capture attempt swallows it.  A schedule write ends the cycle or the archive
\* job it belongs to; gather leaves the other workers of the cycle running.
FailBatch ==
  /\ used.faults < MaxFaults
  /\ \E n \in BatchLengths :
       LET raised    == {wq[i].by : i \in {k \in 1 .. n : wq[k].kind = "schedule"}}
           cycleFails == \/ "cycle" \in raised
                         \/ \E w \in LiveWorkers : w \in raised
           left      == LiveWorkers \ raised
       IN  /\ worker' = [w \in Worker |->
                CASE w \in raised -> IdleWorker
                  [] w \notin raised /\ cycleFails /\ w \in left -> [worker[w] EXCEPT !.orphan = TRUE]
                  [] OTHER -> worker[w]]
           /\ orphans' = IF cycleFails /\ left # {} THEN orphans \cup cycle.jobs ELSE orphans
           /\ cycle' = IF cycleFails THEN IdleCycle ELSE cycle
           /\ wq' = IF cycleFails THEN Disowned(Rest(n), "cycle") ELSE Rest(n)
           /\ archive' = IF "archive" \in raised THEN IdleArchive ELSE archive
  /\ used' = [used EXCEPT !.faults = @ + 1]
  /\ UNCHANGED <<now, site, row, lastDiscovery>>

\* Only the database survives.
Crash ==
  /\ used.crashes < MaxCrashes
  /\ used' = [used EXCEPT !.crashes = @ + 1]
  /\ cycle' = IdleCycle
  /\ worker' = [w \in Worker |-> IdleWorker]
  /\ orphans' = {}
  /\ wq' = <<>>
  /\ archive' = IdleArchive
  /\ lastDiscovery' = Null
  /\ UNCHANGED <<now, site, row>>

-----------------------------------------------------------------------------
CycleStep ==
  \/ StartCycle \/ Discover \/ PlanMatch \/ ListResultCandidates \/ CheckResult \/ ResultsDone
  \/ ScanDue \/ PlansPersisted \/ EndCycle

WorkerStep(w) ==
  TakeJob(w) \/ OrphanNext(w) \/ SubmitAttempt(w) \/ SubmitSchedule(w) \/ FinishJob(w)

ArchiveStep == ArchiveFetch \/ ArchiveAttempt \/ ArchiveScore

Next ==
  \/ Tick
  \/ \E m \in Match : Reschedule(m) \/ Progress(m) \/ ArchiveMatch(m)
  \/ CycleStep
  \/ DiscoveryFails
  \/ \E w \in Worker : WorkerStep(w)
  \/ ArchiveStep
  \/ CommitBatch
  \/ FailBatch
  \/ Crash

Spec == Init /\ [][Next]_vars

\* The event loop and the persistence thread keep running, and time passes.
Fairness ==
  /\ WF_vars(Tick)
  /\ WF_vars(CycleStep)
  /\ WF_vars(CommitBatch)
  /\ WF_vars(ArchiveStep)
  /\ \A w \in Worker : WF_vars(WorkerStep(w))

FairSpec == Spec /\ Fairness

-----------------------------------------------------------------------------
(* The inductive invariant.                                                *)

\* A write or a job that gives a match no next time finalizes it.
KeepsTrack(r) == r.next = Null => r.finalized
SafeItem == AttemptItem \cup {i \in ScheduleItem : KeepsTrack(i)}
SafeJob == {j \in Job : KeepsTrack(j)}

PendingWritesKeepTrack ==
  /\ wq \in Seq(SafeItem)
  /\ cycle.plans \in Seq({i \in ScheduleItem : KeepsTrack(i)})
  /\ cycle.jobs \subseteq SafeJob
  /\ orphans \subseteq SafeJob
  /\ \A w \in Worker : worker[w].st # "idle" => worker[w].job \in SafeJob

-----------------------------------------------------------------------------
(* Properties.                                                             *)

\* A match the scheduler has planned once and not finalized always has a next time: the due
\* scan of every later cycle finds it again, whatever cycle, archive job, left-over worker
\* or restart wrote its row last (list_due_scheduled_matches skips rows without one).
NoMatchForgotten ==
  \A m \in Match :
    row[m].phase # "DISCOVERED" /\ ~row[m].finalized => row[m].next # Null

\* No write of a stale plan, of a left-over worker or of a rediscovery reopens a match.
FinalizedForever ==
  [][\A m \in Match : row[m].finalized => row'[m].finalized]_vars

\* A match is finalized only when its capture window is over or the site calls it finished.
\* Stated for sites that keep their kickoff times and without archive jobs.
FinalizedMeansWindowOver ==
  \A m \in Match :
    row[m].finalized => \/ site[m].status = "finished"
                        \/ row[m].kickoff # Null /\ now > FinalEnd(row[m].kickoff)

\* What a cycle has planned for an open match lies inside its capture window, although the next
\* time it read from the row may belong to a kickoff the site has since moved: no plan puts off
\* a match until its window is over.  An archive job may replace the kickoff behind the plan.
PlansEndWithWindow ==
  used.archives = 0 =>
  \A i \in DOMAIN cycle.plans :
    LET plan == cycle.plans[i]
    IN  ~plan.finalized /\ row[plan.match].kickoff # Null
          => plan.next <= FinalEnd(row[plan.match].kickoff)

\* The workers of one cycle never capture the same match twice: not both as a planned job and
\* as an empty-finalized backfill, not from the discovery and again from the due scan.
\* Archive jobs, and plans a failed cycle left in the queue, finalize a match behind the back
\* of a running cycle, and then it can happen: the property is about the time before either.
OneCapturePerMatch ==
  used.faults = 0 /\ used.archives = 0 =>
  /\ \A v, w \in LiveWorkers :
       v # w /\ worker[v].st # "idle" /\ worker[w].st # "idle"
         => worker[v].job.match # worker[w].job.match
  /\ \A w \in LiveWorkers : \A j \in cycle.jobs :
       worker[w].st # "idle" => worker[w].job.match # j.match
  /\ \A i, j \in cycle.jobs : i # j => i.match # j.match

\* A planned match whose kickoff stays known is not monitored forever, even if no discovery
\* ever lists it again.
EventuallyFinalized ==
  \A m \in Match :
    <>[](row[m].phase # "DISCOVERED" /\ row[m].kickoff # Null) => <>row[m].finalized

\* A cycle with a discovery comes to its empty-finalized query in time: nothing of the match was
\* ever captured, its kickoff is inside the lookback, and the limit leaves it a place whatever
\* else is finalized before the query.
FoundInTime(m) ==
  /\ cycle.pc = "due" /\ cycle.discover
  /\ EmptyFinalized(m, cycle.now)
  /\ Cardinality({x \in Match : ~row[x].attempted /\ row[x].kickoff # Null
                                  /\ row[x].kickoff >= row[m].kickoff}) <= BackfillLimit

\* A finalized match whose recovery capture was lost with a failed transaction or a restart gets
\* its attempt, if one cycle finds it in time and is not lost in the same way.  A match that
\* falls out of the lookback first, after a long downtime, gets none.
EventuallyAttempted ==
  \A m \in Match : \A n \in 0 .. MaxFaults + MaxCrashes :
    FoundInTime(m) /\ used.faults + used.crashes = n
      ~> row[m].attempted \/ used.faults + used.crashes > n

===========================================================================
