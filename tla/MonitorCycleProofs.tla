------------------------- MODULE MonitorCycleProofs -------------------------
(* For any matches, workers, window lengths and bounds: no match is         *)
(* forgotten, a finalized match stays finalized, the workers of a cycle     *)
(* share no match, no match is finalized before its window is over, and no  *)
(* plan or limit puts a match off for good.                                 *)
EXTENDS MonitorCycle, SchedulerProofs, FiniteSetTheorems, SequenceTheorems

IInv == TypeOK /\ NoMatchForgotten /\ PendingWritesKeepTrack

SafePlan == {i \in ScheduleItem : KeepsTrack(i)}

-----------------------------------------------------------------------------
(* Queues.                                                                 *)

LEMMA RestOfQueue ==
  ASSUME NEW S, NEW q \in Seq(S), NEW n \in 1 .. Len(q)
  PROVE  /\ SubSeq(q, n + 1, Len(q)) \in Seq(S)
         /\ DOMAIN SubSeq(q, n + 1, Len(q)) = 1 .. (Len(q) - n)
<1>1. Len(q) \in Nat
  BY LenProperties
<1>2. \A i \in 1 .. (Len(q) - n) : q[n + i] \in S
  BY <1>1, ElementOfSeq
<1>3. SubSeq(q, n + 1, Len(q)) = [i \in 1 .. (Len(q) - n) |-> q[n + i]]
  BY <1>1
<1>4. Len(q) - n \in Nat
  BY <1>1
<1> QED
  BY <1>2, <1>3, <1>4

LEMMA DisownedType ==
  ASSUME NEW q \in Seq(SafeItem), NEW actor \in Actor
  PROVE  Disowned(q, actor) \in Seq(SafeItem)
<1>1. \A i \in DOMAIN q : q[i] \in SafeItem
  BY ElementOfSeq, LenProperties
<1>2. ASSUME NEW x \in SafeItem
      PROVE  [x EXCEPT !.by = "none"] \in SafeItem
  BY DEF SafeItem, AttemptItem, ScheduleItem, KeepsTrack, Actor
<1>3. \A i \in DOMAIN q : Disowned(q, actor)[i] \in SafeItem
  BY <1>1, <1>2 DEF Disowned
<1>4. DOMAIN q = 1 .. Len(q) /\ Len(q) \in Nat
  BY LenProperties
<1>5. Disowned(q, actor) = [i \in 1 .. Len(q) |-> Disowned(q, actor)[i]]
  BY <1>4 DEF Disowned
<1> QED
  BY <1>3, <1>4, <1>5

-----------------------------------------------------------------------------
(* What a plan leads to.                                                   *)

LEMMA PlanIsSafe ==
  ASSUME NEW m \in Match, NEW kickoff \in Times, NEW timing \in Timing, NEW at \in Int,
         NEW r \in Row, NEW kind \in {"listed", "due"}
  PROVE  LET d == Plan(kickoff, timing, at, r.next, r.finalized, r.captured)
         IN  /\ PlanWrite(m, d) \in SafePlan
             /\ PlanJobs(m, d, kind) \subseteq SafeJob
<1> DEFINE d == Plan(kickoff, timing, at, r.next, r.finalized, r.captured)
<1>1. r.next \in Times /\ r.finalized \in BOOLEAN /\ r.captured \in BOOLEAN
  BY DEF Row
<1>2. d \in [phase: PlannedPhase, capture: BOOLEAN, next: Times, finalized: BOOLEAN]
  BY <1>1, PlanType
<1>3. d.next = Null => d.finalized
  BY <1>1, PlanKeepsTrack
<1> HIDE DEF d
<1>4. PlanWrite(m, d) \in SafePlan
  BY <1>2, <1>3 DEF PlanWrite, ScheduleWrite, SafePlan, ScheduleItem, KeepsTrack, Phase, Actor
<1>5. PlanJobs(m, d, kind) \subseteq SafeJob
  BY <1>2, <1>3 DEF PlanJobs, SafeJob, Job, KeepsTrack, Phase
<1> QED
  BY <1>4, <1>5 DEF d

LEMMA StoredPlanIsSafe ==
  ASSUME TypeOK, NEW m \in Match
  PROVE  /\ PlanWrite(m, StoredPlan(m)) \in SafePlan
         /\ PlanJobs(m, StoredPlan(m), "due") \subseteq SafeJob
<1>1. row[m] \in Row /\ cycle.now \in Int
  BY DEF TypeOK, Cycle
<1>2. row[m].kickoff \in Times
  BY <1>1 DEF Row
<1> DEFINE t == ClassifyTiming(row[m].kickoff, cycle.now, row[m].timing = "LIVE",
                               row[m].timing = "FINISHED")
<1>3. t \in Timing
  BY <1>1, <1>2, TimingType
<1> HIDE DEF t
<1>4. StoredPlan(m) = Plan(row[m].kickoff, t, cycle.now, row[m].next, row[m].finalized,
                           row[m].captured)
  BY DEF StoredPlan, t
<1> QED
  BY <1>1, <1>2, <1>3, <1>4, PlanIsSafe

-----------------------------------------------------------------------------
(* The actions that only move control: the rows stay as they are.          *)

LEMMA IdleCycleType == IdleCycle \in Cycle
<1>1. <<>> \in Seq(ScheduleItem)
  BY EmptySeq
<1> QED
  BY <1>1 DEF IdleCycle, Cycle, CyclePc

LEMMA InitInv == Init => IInv
<1> SUFFICES ASSUME Init PROVE IInv
  OBVIOUS
<1> USE DEF Init
<1>1. now \in Int /\ lastDiscovery \in Times /\ orphans \subseteq Job /\ wq \in Seq(Item)
  BY EmptySeq DEF Times
<1>2. site \in [Match -> Site]
  BY KickoffAssumption DEF Site, Status
<1>3. row \in [Match -> Row]
  BY DEF NoRow, Row, Times, Timing, Phase
<1>4. worker \in [Worker -> WorkerState] /\ archive \in ArchiveState /\ used \in Used
  BY DEF IdleWorker, WorkerState, IdleArchive, ArchiveState, Used
<1>5. TypeOK
  BY <1>1, <1>2, <1>3, <1>4, IdleCycleType DEF TypeOK
<1>6. NoMatchForgotten
  BY DEF NoMatchForgotten, NoRow
<1>7. PendingWritesKeepTrack
  BY EmptySeq DEF PendingWritesKeepTrack, IdleCycle, IdleWorker
<1> QED
  BY <1>5, <1>6, <1>7 DEF IInv

LEMMA SiteSteps ==
  ASSUME IInv, NEW m \in Match, Tick \/ Reschedule(m) \/ Progress(m)
  PROVE  IInv'
<1>1. now' \in Int
  BY DEF IInv, TypeOK, Tick, Reschedule, Progress
<1>2. site' \in [Match -> Site]
  <2>1. CASE Tick
    BY <2>1 DEF IInv, TypeOK, Tick
  <2>2. CASE Reschedule(m)
    BY <2>2, KickoffAssumption DEF IInv, TypeOK, Reschedule, Site
  <2>3. CASE Progress(m)
    BY <2>3 DEF IInv, TypeOK, Progress, Site, Status
  <2> QED
    BY <2>1, <2>2, <2>3
<1>3. used' \in Used
  BY DEF IInv, TypeOK, Tick, Reschedule, Progress, Used
<1>4. UNCHANGED <<row, cycle, worker, orphans, wq, archive, lastDiscovery>>
  BY DEF Tick, Reschedule, Progress
<1> QED
  BY <1>1, <1>2, <1>3, <1>4 DEF IInv, TypeOK, NoMatchForgotten, PendingWritesKeepTrack

\* The cycle moves on and its plans and jobs are kept or dropped.
LEMMA CycleMoves ==
  ASSUME IInv, cycle' \in Cycle,
         cycle'.plans \in {cycle.plans, <<>>}, cycle'.jobs \subseteq cycle.jobs,
         lastDiscovery' \in Times, used' \in Used,
         UNCHANGED <<now, site, row, worker, orphans, wq, archive>>
  PROVE  IInv'
<1>1. cycle'.plans \in Seq(SafePlan)
  BY EmptySeq DEF IInv, PendingWritesKeepTrack, SafePlan
<1> QED
  BY <1>1 DEF IInv, TypeOK, NoMatchForgotten, PendingWritesKeepTrack, SafePlan

LEMMA CycleControlSteps ==
  ASSUME IInv,
         \/ StartCycle \/ DiscoveryFails \/ Discover \/ ListResultCandidates \/ ResultsDone
         \/ PlansPersisted \/ EndCycle
  PROVE  IInv'
<1> USE DEF IInv, TypeOK
<1>1. CASE StartCycle
  <2>1. PICK discover \in BOOLEAN :
          cycle' = [IdleCycle EXCEPT !.pc = IF discover THEN "discover" ELSE "due",
                                     !.now = now, !.discover = discover]
    BY <1>1 DEF StartCycle
  <2>2. cycle' \in Cycle /\ cycle'.plans = <<>> /\ cycle'.jobs = {}
    BY <2>1, IdleCycleType DEF IdleCycle, Cycle, CyclePc
  <2> QED
    BY <1>1, <2>2, CycleMoves DEF StartCycle
<1>2. CASE DiscoveryFails
  <2>1. used' \in Used
    BY <1>2 DEF DiscoveryFails, Used
  <2> QED
    BY <1>2, <2>1, CycleMoves, IdleCycleType DEF DiscoveryFails, IdleCycle
<1>3. CASE Discover
  <2>1. PICK found \in SUBSET Match : \E fresh \in SUBSET found :
          cycle' = [cycle EXCEPT
            !.pc = "plan",
            !.todo = {[match |-> m, kickoff |-> site[m].kickoff,
                       status |-> IF m \in fresh THEN site[m].status ELSE "scheduled"] :
                         m \in found}]
    BY <1>3 DEF Discover
  <2>2. PICK fresh \in SUBSET found :
          cycle' = [cycle EXCEPT
            !.pc = "plan",
            !.todo = {[match |-> m, kickoff |-> site[m].kickoff,
                       status |-> IF m \in fresh THEN site[m].status ELSE "scheduled"] :
                         m \in found}]
    BY <2>1
  <2>3. \A m \in found : [match |-> m, kickoff |-> site[m].kickoff,
           status |-> IF m \in fresh THEN site[m].status ELSE "scheduled"] \in Listing
    BY DEF Site, Listing, Status
  <2> DEFINE T == {[match |-> m, kickoff |-> site[m].kickoff,
                    status |-> IF m \in fresh THEN site[m].status ELSE "scheduled"] : m \in found}
  <2>3a. T \subseteq Listing /\ cycle' = [cycle EXCEPT !.pc = "plan", !.todo = T]
    BY <2>2, <2>3
  <2> HIDE DEF T
  <2>4. cycle' \in Cycle /\ cycle'.plans = cycle.plans /\ cycle'.jobs = cycle.jobs
    BY <2>3a DEF Cycle, CyclePc
  <2>5. lastDiscovery' \in Times
    BY <1>3 DEF Discover, Cycle, Times
  <2> QED
    BY <1>3, <2>4, <2>5, CycleMoves DEF Discover
<1>4. CASE ListResultCandidates
  <2>1. \A m \in Match : [match |-> m, kickoff |-> row[m].kickoff, status |-> "finished"] \in Listing
    BY DEF Row, Listing, Status
  <2> DEFINE T == {[match |-> m, kickoff |-> row[m].kickoff, status |-> "finished"] :
                     m \in {x \in Match : ResultCandidate(x)}}
  <2>3a. T \subseteq Listing /\ cycle' = [cycle EXCEPT !.pc = "results", !.todo = T]
    BY <1>4, <2>1 DEF ListResultCandidates
  <2> HIDE DEF T
  <2>2. cycle' \in Cycle /\ cycle'.plans = cycle.plans /\ cycle'.jobs = cycle.jobs
    BY <2>3a DEF Cycle, CyclePc
  <2> QED
    BY <1>4, <2>2, CycleMoves DEF ListResultCandidates
<1>5. CASE ResultsDone
  <2>1. cycle' \in Cycle /\ cycle'.plans = cycle.plans /\ cycle'.jobs = cycle.jobs
    BY <1>5 DEF ResultsDone, Cycle, CyclePc
  <2> QED
    BY <1>5, <2>1, CycleMoves DEF ResultsDone
<1>6. CASE PlansPersisted
  <2>1. cycle' \in Cycle /\ cycle'.plans = cycle.plans /\ cycle'.jobs = cycle.jobs
    BY <1>6 DEF PlansPersisted, Cycle, CyclePc
  <2> QED
    BY <1>6, <2>1, CycleMoves DEF PlansPersisted
<1>7. CASE EndCycle
  BY <1>7, CycleMoves, IdleCycleType DEF EndCycle, IdleCycle
<1> QED
  BY <1>1, <1>2, <1>3, <1>4, <1>5, <1>6, <1>7

-----------------------------------------------------------------------------
(* The actions that write rows, plans or the queue.                        *)

LEMMA PlanMatchStep ==
  ASSUME IInv, PlanMatch
  PROVE  IInv' /\ \A x \in Match : row'[x].finalized = row[x].finalized
<1> USE DEF IInv, TypeOK
<1>1. PICK l \in cycle.todo, scored \in BOOLEAN : \E k \in EnrichedKickoffs(l, cycle.now) :
        LET m      == l.match
            timing == ClassifyTiming(k, cycle.now, l.status = "live", l.status = "finished")
            old    == row[m]
            d      == Plan(k, timing, cycle.now, old.next, old.finalized, old.captured)
        IN  /\ row' = [row EXCEPT ![m] =
                 [Upserted(old, k, timing) EXCEPT
                    !.result = @ \/ (scored /\ ResultDue(k, l.status, cycle.now, old))]]
            /\ cycle' = [cycle EXCEPT
                 !.todo = @ \ {l}, !.seen = @ \cup {m},
                 !.plans = Append(@, PlanWrite(m, d)), !.jobs = @ \cup PlanJobs(m, d, "listed")]
  BY DEF PlanMatch
<1>1a. PICK k \in EnrichedKickoffs(l, cycle.now) :
        LET m      == l.match
            timing == ClassifyTiming(k, cycle.now, l.status = "live", l.status = "finished")
            old    == row[m]
            d      == Plan(k, timing, cycle.now, old.next, old.finalized, old.captured)
        IN  /\ row' = [row EXCEPT ![m] =
                 [Upserted(old, k, timing) EXCEPT
                    !.result = @ \/ (scored /\ ResultDue(k, l.status, cycle.now, old))]]
            /\ cycle' = [cycle EXCEPT
                 !.todo = @ \ {l}, !.seen = @ \cup {m},
                 !.plans = Append(@, PlanWrite(m, d)), !.jobs = @ \cup PlanJobs(m, d, "listed")]
  BY <1>1
<1> DEFINE m == l.match
           timing == ClassifyTiming(k, cycle.now, l.status = "live", l.status = "finished")
           d == Plan(k, timing, cycle.now, row[m].next, row[m].finalized, row[m].captured)
<1>2. l \in Listing /\ m \in Match /\ row[m] \in Row /\ cycle.now \in Int
  BY DEF Cycle, Listing
<1>3. k \in Times
  BY <1>2 DEF EnrichedKickoffs, PageKickoffs, Listing, Site, Times
<1>4. timing \in Timing
  BY <1>2, <1>3, TimingType
<1>5. PlanWrite(m, d) \in SafePlan /\ PlanJobs(m, d, "listed") \subseteq SafeJob
  BY <1>2, <1>3, <1>4, PlanIsSafe
<1> DEFINE r == [Upserted(row[m], k, timing) EXCEPT
                   !.result = @ \/ (scored /\ ResultDue(k, l.status, cycle.now, row[m]))]
<1>6. /\ row' = [row EXCEPT ![m] = r]
      /\ cycle' = [cycle EXCEPT
           !.todo = @ \ {l}, !.seen = @ \cup {m},
           !.plans = Append(@, PlanWrite(m, d)), !.jobs = @ \cup PlanJobs(m, d, "listed")]
  BY <1>1a
<1>7. ResultDue(k, l.status, cycle.now, row[m]) \in BOOLEAN
  BY DEF ResultDue
<1> HIDE DEF d, timing
<1>8. /\ r \in Row
      /\ r.phase = row[m].phase /\ r.next = row[m].next /\ r.finalized = row[m].finalized
  BY <1>2, <1>3, <1>4, <1>7 DEF Upserted, Row
<1> HIDE DEF r, m
<1>9. /\ row' \in [Match -> Row] /\ NoMatchForgotten'
      /\ \A x \in Match : row'[x].finalized = row[x].finalized
  BY <1>2, <1>6, <1>8 DEF NoMatchForgotten
<1>10. /\ cycle.plans \in Seq(SafePlan) /\ cycle.plans \in Seq(ScheduleItem)
       /\ PlanWrite(m, d) \in ScheduleItem /\ PlanJobs(m, d, "listed") \subseteq Job
  BY <1>5 DEF PendingWritesKeepTrack, SafePlan, SafeJob, Cycle
<1>11. /\ cycle' \in Cycle
       /\ cycle'.plans = Append(cycle.plans, PlanWrite(m, d))
       /\ cycle'.jobs = cycle.jobs \cup PlanJobs(m, d, "listed")
  BY <1>2, <1>6, <1>10, AppendProperties DEF Cycle
<1>12. cycle'.plans \in Seq(SafePlan) /\ cycle'.jobs \subseteq SafeJob
  BY <1>5, <1>10, <1>11, AppendProperties DEF PendingWritesKeepTrack
<1>13. UNCHANGED <<now, site, worker, orphans, wq, archive, lastDiscovery, used>>
  BY DEF PlanMatch
<1> QED
  BY <1>9, <1>11, <1>12, <1>13 DEF PendingWritesKeepTrack, SafePlan

LEMMA CheckResultStep ==
  ASSUME IInv, CheckResult
  PROVE  IInv'
<1> USE DEF IInv, TypeOK
<1>1. PICK l \in cycle.todo :
        /\ \/ row' = [row EXCEPT ![l.match] =
                        IF site[l.match].status = "finished" /\ ~@.result
                        THEN ResultMarked(@) ELSE @]
           \/ row' = row
        /\ cycle' = [cycle EXCEPT !.todo = @ \ {l}]
  BY DEF CheckResult
<1>2. l.match \in Match
  BY DEF Cycle, Listing
<1>3. ASSUME NEW r \in Row
      PROVE  /\ ResultMarked(r) \in Row
             /\ ResultMarked(r).phase = r.phase /\ ResultMarked(r).next = r.next
             /\ ResultMarked(r).finalized = r.finalized
  BY DEF ResultMarked, Row, Timing
<1>4. row' \in [Match -> Row] /\ NoMatchForgotten'
  BY <1>1, <1>2, <1>3 DEF NoMatchForgotten
<1>5. cycle' \in Cycle /\ cycle'.plans = cycle.plans /\ cycle'.jobs = cycle.jobs
  BY <1>1 DEF Cycle
<1>6. UNCHANGED <<now, site, worker, orphans, wq, archive, lastDiscovery, used>>
  BY DEF CheckResult
<1> QED
  BY <1>4, <1>5, <1>6 DEF PendingWritesKeepTrack

LEMMA SafeItemType == SafePlan \subseteq SafeItem /\ SafeItem \subseteq Item
BY DEF SafePlan, SafeItem, Item

LEMMA ScanDueStep ==
  ASSUME IInv, ScanDue
  PROVE  IInv'
<1> USE DEF IInv, TypeOK
<1>1. PICK order \in [1 .. Cardinality(DueUnseen) -> DueUnseen], chosen \in SUBSET Match :
        /\ Backfill(chosen)
        /\ cycle' = [cycle EXCEPT
             !.pc = "persist", !.todo = {}, !.seen = {}, !.plans = <<>>,
             !.jobs = @ \cup BackfillJobs(chosen)
                        \cup UNION {PlanJobs(m, StoredPlan(m), "due") : m \in DueUnseen}]
        /\ wq' = wq \o cycle.plans
                    \o [i \in DOMAIN order |-> PlanWrite(order[i], StoredPlan(order[i]))]
  BY DEF ScanDue
<1> DEFINE duePlans == [i \in DOMAIN order |-> PlanWrite(order[i], StoredPlan(order[i]))]
           dueJobs == UNION {PlanJobs(m, StoredPlan(m), "due") : m \in DueUnseen}
<1>2. DueUnseen \subseteq Match
  BY DEF DueUnseen
<1>3. Cardinality(DueUnseen) \in Nat
  BY <1>2, MatchAssumption, FS_Subset, FS_CardinalityType
<1>4. \A i \in DOMAIN order : PlanWrite(order[i], StoredPlan(order[i])) \in SafePlan
  BY <1>2, StoredPlanIsSafe
<1>5. duePlans \in Seq(SafePlan)
  BY <1>3, <1>4
<1>6. dueJobs \subseteq SafeJob
  BY <1>2, StoredPlanIsSafe
<1>7. BackfillJobs(chosen) \subseteq SafeJob
  <2>1. \A m \in Match : BackfillJob(m) \in SafeJob
    BY DEF BackfillJob, SafeJob, Job, KeepsTrack, Times, Phase, PlannedPhase
  <2> QED
    BY <2>1 DEF BackfillJobs
<1>8. wq' \in Seq(SafeItem)
  <2>1. wq \in Seq(SafeItem) /\ cycle.plans \in Seq(SafeItem) /\ duePlans \in Seq(SafeItem)
    BY <1>5, SafeItemType DEF PendingWritesKeepTrack, SafePlan
  <2> HIDE DEF duePlans
  <2>2. wq \o cycle.plans \in Seq(SafeItem)
    BY <2>1, ConcatProperties
  <2>3. wq' = (wq \o cycle.plans) \o duePlans
    BY <1>1 DEF duePlans
  <2> QED
    BY <2>1, <2>2, <2>3, ConcatProperties
<1>9. wq' \in Seq(Item)
  BY <1>8, SafeItemType
<1> DEFINE newJobs == cycle.jobs \cup BackfillJobs(chosen) \cup dueJobs
<1>10. cycle' = [cycle EXCEPT !.pc = "persist", !.todo = {}, !.seen = {}, !.plans = <<>>,
                              !.jobs = newJobs]
  BY <1>1
<1>11. newJobs \subseteq SafeJob /\ newJobs \subseteq Job
  BY <1>6, <1>7 DEF PendingWritesKeepTrack, SafeJob
<1> HIDE DEF newJobs
<1>12. cycle' \in Cycle /\ cycle'.plans = <<>> /\ cycle'.jobs = newJobs
  BY <1>10, <1>11, EmptySeq DEF Cycle, CyclePc
<1>13. cycle'.plans \in Seq(SafePlan)
  BY <1>12, EmptySeq
<1>14. UNCHANGED <<now, site, row, worker, orphans, archive, lastDiscovery, used>>
  BY DEF ScanDue
<1> QED
  BY <1>8, <1>9, <1>11, <1>12, <1>13, <1>14 DEF PendingWritesKeepTrack, NoMatchForgotten, SafePlan

-----------------------------------------------------------------------------
(* The workers and the archive job.                                        *)

\* A write is put into the queue.
LEMMA Submitted ==
  ASSUME IInv, NEW i \in SafeItem, wq' = Append(wq, i)
  PROVE  wq' \in Seq(SafeItem) /\ wq' \in Seq(Item)
<1>1. wq \in Seq(SafeItem)
  BY DEF IInv, PendingWritesKeepTrack
<1>2. wq' \in Seq(SafeItem)
  BY <1>1, AppendProperties
<1> QED
  BY <1>2, SafeItemType

\* A worker changes its state; its job, if it has one, is a safe one.
LEMMA WorkerMoves ==
  ASSUME IInv, NEW w \in Worker, NEW s \in WorkerState,
         worker' = [worker EXCEPT ![w] = s], s.st # "idle" => s.job \in SafeJob
  PROVE  /\ worker' \in [Worker -> WorkerState]
         /\ \A v \in Worker : worker'[v].st # "idle" => worker'[v].job \in SafeJob
<1>1. worker \in [Worker -> WorkerState]
  BY DEF IInv, TypeOK
<1>2. \A v \in Worker : worker[v].st # "idle" => worker[v].job \in SafeJob
  BY DEF IInv, PendingWritesKeepTrack
<1>3. \A v \in Worker : worker'[v] = IF v = w THEN s ELSE worker[v]
  BY <1>1
<1> QED
  BY <1>1, <1>2, <1>3

LEMMA FetchingType ==
  ASSUME NEW j \in SafeJob, NEW orphan \in BOOLEAN
  PROVE  /\ Fetching(j, orphan) \in WorkerState
         /\ Fetching(j, orphan).job \in SafeJob
BY DEF Fetching, WorkerState, SafeJob

LEMMA WorkerSteps ==
  ASSUME IInv, NEW w \in Worker, WorkerStep(w)
  PROVE  IInv'
<1> USE DEF IInv, TypeOK
<1>0. worker[w] \in WorkerState
  OBVIOUS
<1>1. CASE TakeJob(w)
  <2>1. PICK j \in cycle.jobs :
          /\ worker' = [worker EXCEPT ![w] = Fetching(j, FALSE)]
          /\ cycle' = [cycle EXCEPT !.jobs = @ \ {j}]
    BY <1>1 DEF TakeJob
  <2>2. Fetching(j, FALSE) \in WorkerState /\ Fetching(j, FALSE).job \in SafeJob
    BY FetchingType DEF PendingWritesKeepTrack
  <2>3. /\ worker' \in [Worker -> WorkerState]
        /\ \A v \in Worker : worker'[v].st # "idle" => worker'[v].job \in SafeJob
    BY <2>1, <2>2, WorkerMoves
  <2>4. cycle' \in Cycle /\ cycle'.plans = cycle.plans /\ cycle'.jobs \subseteq cycle.jobs
    BY <2>1 DEF Cycle
  <2> QED
    BY <1>1, <2>3, <2>4 DEF TakeJob, PendingWritesKeepTrack, NoMatchForgotten
<1>2. CASE OrphanNext(w)
  <2>1. CASE orphans = {} /\ worker' = [worker EXCEPT ![w] = IdleWorker] /\ UNCHANGED orphans
    <3>1. IdleWorker \in WorkerState /\ IdleWorker.st = "idle"
      BY DEF IdleWorker, WorkerState
    <3>2. /\ worker' \in [Worker -> WorkerState]
          /\ \A v \in Worker : worker'[v].st # "idle" => worker'[v].job \in SafeJob
      BY <2>1, <3>1, WorkerMoves
    <3> QED
      BY <1>2, <2>1, <3>2 DEF OrphanNext, PendingWritesKeepTrack, NoMatchForgotten
  <2>2. ASSUME NEW j \in orphans, worker' = [worker EXCEPT ![w] = Fetching(j, TRUE)],
               orphans' = orphans \ {j}
        PROVE  IInv'
    <3>1. Fetching(j, TRUE) \in WorkerState /\ Fetching(j, TRUE).job \in SafeJob
      BY FetchingType DEF PendingWritesKeepTrack
    <3>2. /\ worker' \in [Worker -> WorkerState]
          /\ \A v \in Worker : worker'[v].st # "idle" => worker'[v].job \in SafeJob
      BY <2>2, <3>1, WorkerMoves
    <3> QED
      BY <1>2, <2>2, <3>2 DEF OrphanNext, PendingWritesKeepTrack, NoMatchForgotten
  <2> QED
    BY <1>2, <2>1, <2>2 DEF OrphanNext
<1>3. CASE SubmitAttempt(w)
  <2>1. worker[w].job \in SafeJob /\ worker[w].orphan \in BOOLEAN
    BY <1>3 DEF SubmitAttempt, PendingWritesKeepTrack, WorkerState
  <2>2. worker[w].job.match \in Match
    BY <2>1 DEF SafeJob, Job
  <2>3. AttemptWrite(worker[w].job.match, w) \in SafeItem
    BY <2>2 DEF AttemptWrite, SafeItem, AttemptItem, Actor
  <2>4. wq' \in Seq(SafeItem) /\ wq' \in Seq(Item)
    BY <1>3, <2>3, Submitted DEF SubmitAttempt
  <2>5. [worker[w] EXCEPT !.st = "attempt"] \in WorkerState
    BY <1>3, <2>1 DEF SubmitAttempt, WorkerState, SafeJob
  <2>5a. [worker[w] EXCEPT !.st = "attempt"].job \in SafeJob
    BY <1>3, <2>1 DEF SubmitAttempt, WorkerState
  <2>6. worker' = [worker EXCEPT ![w] = [worker[w] EXCEPT !.st = "attempt"]]
    BY <1>3 DEF SubmitAttempt
  <2>7. /\ worker' \in [Worker -> WorkerState]
        /\ \A v \in Worker : worker'[v].st # "idle" => worker'[v].job \in SafeJob
    BY <2>5, <2>5a, <2>6, WorkerMoves
  <2> QED
    BY <1>3, <2>4, <2>7 DEF SubmitAttempt, PendingWritesKeepTrack, NoMatchForgotten
<1>4. CASE SubmitSchedule(w)
  <2> DEFINE j == worker[w].job
             i == ScheduleWrite(j.match, IF j.finalized THEN "FINALIZED" ELSE j.phase,
                                j.next, j.finalized, TRUE, w)
  <2>1. j \in SafeJob /\ worker[w].orphan \in BOOLEAN
    BY <1>4 DEF SubmitSchedule, PendingWritesKeepTrack, WorkerState
  <2>2. i \in SafeItem
    BY <2>1 DEF ScheduleWrite, SafeItem, ScheduleItem, SafeJob, Job, KeepsTrack, Phase,
                PlannedPhase, Actor
  <2>3. wq' = Append(wq, i)
    BY <1>4 DEF SubmitSchedule
  <2>4. wq' \in Seq(SafeItem) /\ wq' \in Seq(Item)
    BY <2>2, <2>3, Submitted
  <2>5. [worker[w] EXCEPT !.st = "schedule"] \in WorkerState
    BY <1>4, <2>1 DEF SubmitSchedule, WorkerState, SafeJob
  <2>5a. [worker[w] EXCEPT !.st = "schedule"].job \in SafeJob
    BY <1>4, <2>1 DEF SubmitSchedule, WorkerState
  <2>6. worker' = [worker EXCEPT ![w] = [worker[w] EXCEPT !.st = "schedule"]]
    BY <1>4 DEF SubmitSchedule
  <2>7. /\ worker' \in [Worker -> WorkerState]
        /\ \A v \in Worker : worker'[v].st # "idle" => worker'[v].job \in SafeJob
    BY <2>5, <2>5a, <2>6, WorkerMoves
  <2> QED
    BY <1>4, <2>4, <2>7 DEF SubmitSchedule, PendingWritesKeepTrack, NoMatchForgotten
<1>5. CASE FinishJob(w)
  <2> DEFINE s == [st |-> "idle", orphan |-> worker[w].orphan]
  <2>1. s \in WorkerState /\ s.st = "idle"
    BY <1>0 DEF WorkerState
  <2>2. worker' = [worker EXCEPT ![w] = s]
    BY <1>5 DEF FinishJob
  <2> HIDE DEF s
  <2>3. /\ worker' \in [Worker -> WorkerState]
        /\ \A v \in Worker : worker'[v].st # "idle" => worker'[v].job \in SafeJob
    BY <2>1, <2>2, WorkerMoves
  <2> QED
    BY <1>5, <2>3 DEF FinishJob, PendingWritesKeepTrack, NoMatchForgotten
<1> QED
  BY <1>1, <1>2, <1>3, <1>4, <1>5 DEF WorkerStep

LEMMA ArchiveMatchStep ==
  ASSUME IInv, NEW m \in Match, ArchiveMatch(m)
  PROVE  IInv'
<1> USE DEF IInv, TypeOK
<1>0. PICK k \in PageKickoffs(m) : row' = [row EXCEPT ![m] = Upserted(@, k, "FINISHED")]
  BY DEF ArchiveMatch
<1> DEFINE r == Upserted(row[m], k, "FINISHED")
<1>1. /\ r \in Row
      /\ r.phase = row[m].phase /\ r.next = row[m].next /\ r.finalized = row[m].finalized
  BY DEF PageKickoffs, Upserted, Row, Site, Timing
<1>2. row' = [row EXCEPT ![m] = r]
  BY <1>0
<1> HIDE DEF r
<1>3. row' \in [Match -> Row] /\ NoMatchForgotten'
  BY <1>1, <1>2 DEF NoMatchForgotten
<1>4. ScheduleWrite(m, "FINALIZED", Null, TRUE, FALSE, "archive") \in SafeItem
  BY DEF ScheduleWrite, SafeItem, ScheduleItem, KeepsTrack, Phase, PlannedPhase, Times, Actor
<1>5. wq' \in Seq(SafeItem) /\ wq' \in Seq(Item)
  BY <1>4, Submitted DEF ArchiveMatch
<1>6. archive' \in ArchiveState /\ used' \in Used
  BY DEF ArchiveMatch, ArchiveState, Used
<1>7. UNCHANGED <<now, site, cycle, worker, orphans, lastDiscovery>>
  BY DEF ArchiveMatch
<1> QED
  BY <1>3, <1>5, <1>6, <1>7 DEF PendingWritesKeepTrack

LEMMA ArchiveSteps ==
  ASSUME IInv, ArchiveStep
  PROVE  IInv'
<1> USE DEF IInv, TypeOK
<1>1. CASE ArchiveFetch
  <2>1. archive' \in ArchiveState
    BY <1>1 DEF ArchiveFetch, ArchiveState
  <2> QED
    BY <1>1, <2>1 DEF ArchiveFetch, PendingWritesKeepTrack, NoMatchForgotten
<1>2. CASE ArchiveAttempt
  <2>1. archive' \in ArchiveState /\ archive.match \in Match
    BY <1>2 DEF ArchiveAttempt, ArchiveState
  <2>2. AttemptWrite(archive.match, "archive") \in SafeItem
    BY <2>1 DEF AttemptWrite, SafeItem, AttemptItem, Actor
  <2>3. wq' \in Seq(SafeItem) /\ wq' \in Seq(Item)
    BY <1>2, <2>2, Submitted DEF ArchiveAttempt
  <2> QED
    BY <1>2, <2>1, <2>3 DEF ArchiveAttempt, PendingWritesKeepTrack, NoMatchForgotten
<1>3. CASE ArchiveScore
  <2>1. archive.match \in Match
    BY <1>3 DEF ArchiveScore, ArchiveState
  <2>2. ASSUME NEW r \in Row
        PROVE  /\ ResultMarked(r) \in Row
               /\ ResultMarked(r).phase = r.phase /\ ResultMarked(r).next = r.next
               /\ ResultMarked(r).finalized = r.finalized
    BY DEF ResultMarked, Row, Timing
  <2>3. row' \in [Match -> Row] /\ NoMatchForgotten'
    BY <1>3, <2>1, <2>2 DEF ArchiveScore, NoMatchForgotten
  <2>4. archive' \in ArchiveState
    BY <1>3 DEF ArchiveScore, IdleArchive, ArchiveState
  <2> QED
    BY <1>3, <2>3, <2>4 DEF ArchiveScore, PendingWritesKeepTrack
<1> QED
  BY <1>1, <1>2, <1>3 DEF ArchiveStep

-----------------------------------------------------------------------------
(* The persistence worker, and restarts.                                   *)

\* A committed schedule write leaves the match finalized or with a next time.
LEMMA CommittedIsSafe ==
  ASSUME IInv, NEW m \in Match, NEW n \in BatchLengths, NEW last \in 0 .. n,
         LastSchedule(m, n, last)
  PROVE  /\ Committed(m, n, last) \in Row
         /\ Committed(m, n, last).phase # "DISCOVERED" /\ ~Committed(m, n, last).finalized
              => Committed(m, n, last).next # Null
         /\ row[m].finalized => Committed(m, n, last).finalized
<1> DEFINE c == Committed(m, n, last)
<1>1. row[m] \in Row /\ wq \in Seq(SafeItem)
  BY DEF IInv, TypeOK, PendingWritesKeepTrack
<1>2. n \in Nat /\ n <= Len(wq) /\ DOMAIN wq = 1 .. Len(wq) /\ Len(wq) \in Nat
  BY <1>1, SizeAssumption, LenProperties DEF BatchLengths
<1>3. \A k \in 1 .. n : wq[k] \in SafeItem
  BY <1>1, <1>2, ElementOfSeq
<1>4. \A k \in Schedules(m, n) : wq[k] \in SafePlan
  BY <1>3 DEF Schedules, SafeItem, SafePlan, AttemptItem
<1> DEFINE attempted == row[m].attempted \/ Attempts(m, n) # {}
           captured == row[m].captured \/ \E k \in Schedules(m, n) : wq[k].captured
           finalized == row[m].finalized \/ \E k \in Schedules(m, n) : wq[k].finalized
           phase == IF last = 0 THEN row[m].phase ELSE wq[last].phase
           next == IF last = 0 THEN row[m].next ELSE wq[last].next
<1>5. c = [row[m] EXCEPT !.attempted = attempted, !.captured = captured,
                         !.finalized = finalized, !.phase = phase, !.next = next]
  BY DEF Committed
<1>6. attempted \in BOOLEAN /\ captured \in BOOLEAN /\ finalized \in BOOLEAN
  BY <1>1 DEF Row
<1>7. phase \in Phase /\ next \in Times
  <2>1. CASE last = 0
    BY <1>1, <2>1 DEF Row
  <2>2. CASE last # 0
    <3>1. wq[last] \in SafePlan
      BY <1>4, <2>2 DEF LastSchedule
    <3> QED
      BY <2>2, <3>1 DEF SafePlan, ScheduleItem
  <2> QED
    BY <2>1, <2>2
<1>8. next = Null => finalized \/ (last = 0 /\ row[m].next = Null)
  <2>1. CASE last # 0
    <3>1. last \in Schedules(m, n) /\ wq[last] \in SafePlan
      BY <1>4, <2>1 DEF LastSchedule
    <3>2. wq[last].next = Null => wq[last].finalized
      BY <3>1 DEF SafePlan, KeepsTrack
    <3> QED
      BY <2>1, <3>1, <3>2
  <2> QED
    BY <2>1
<1>9. row[m].phase # "DISCOVERED" /\ ~row[m].finalized => row[m].next # Null
  BY DEF IInv, NoMatchForgotten
<1>10. phase # "DISCOVERED" /\ ~finalized => next # Null
  BY <1>8, <1>9
<1>11. row[m].finalized => finalized
  OBVIOUS
<1> HIDE DEF attempted, captured, finalized, phase, next
<1>12. c \in Row
  BY <1>1, <1>5, <1>6, <1>7 DEF Row
<1>13. c.phase = phase /\ c.next = next /\ c.finalized = finalized
  BY <1>1, <1>5 DEF Row
<1> QED
  BY <1>10, <1>11, <1>12, <1>13

LEMMA RestIsSafe ==
  ASSUME IInv, NEW n \in BatchLengths
  PROVE  Rest(n) \in Seq(SafeItem)
<1>1. wq \in Seq(SafeItem) /\ Len(wq) \in Nat
  BY LenProperties DEF IInv, PendingWritesKeepTrack
<1>2. n \in 1 .. Len(wq)
  BY <1>1, SizeAssumption DEF BatchLengths
<1> QED
  BY <1>1, <1>2, RestOfQueue DEF Rest

LEMMA CommitBatchStep ==
  ASSUME IInv, CommitBatch
  PROVE  IInv' /\ \A m \in Match : row[m].finalized => row'[m].finalized
<1>1. PICK n \in BatchLengths : \E last \in [Match -> 0 .. n] :
        /\ \A m \in Match : LastSchedule(m, n, last[m])
        /\ row' = [m \in Match |-> Committed(m, n, last[m])]
        /\ wq' = Rest(n)
  BY DEF CommitBatch
<1>2. PICK last \in [Match -> 0 .. n] :
        /\ \A m \in Match : LastSchedule(m, n, last[m])
        /\ row' = [m \in Match |-> Committed(m, n, last[m])]
        /\ wq' = Rest(n)
  BY <1>1
<1>3. \A m \in Match :
        /\ Committed(m, n, last[m]) \in Row
        /\ Committed(m, n, last[m]).phase # "DISCOVERED" /\ ~Committed(m, n, last[m]).finalized
             => Committed(m, n, last[m]).next # Null
        /\ row[m].finalized => Committed(m, n, last[m]).finalized
  BY <1>2, CommittedIsSafe
<1>4. row' \in [Match -> Row] /\ NoMatchForgotten'
  BY <1>2, <1>3 DEF NoMatchForgotten
<1>5. wq' \in Seq(SafeItem) /\ wq' \in Seq(Item)
  BY <1>2, RestIsSafe, SafeItemType
<1>6. UNCHANGED <<now, site, cycle, worker, orphans, archive, lastDiscovery, used>>
  BY DEF CommitBatch
<1>7. IInv'
  BY <1>4, <1>5, <1>6 DEF IInv, TypeOK, PendingWritesKeepTrack
<1> QED
  BY <1>2, <1>3, <1>7

LEMMA FailBatchStep ==
  ASSUME IInv, FailBatch
  PROVE  IInv'
<1> USE DEF IInv, TypeOK
<1>1. PICK n \in BatchLengths :
        LET raised    == {wq[i].by : i \in {k \in 1 .. n : wq[k].kind = "schedule"}}
            cycleFails == \/ "cycle" \in raised
                          \/ \E w \in LiveWorkers : w \in raised
            left      == LiveWorkers \ raised
        IN  /\ worker' = [w \in Worker |->
                 CASE w \in raised -> IdleWorker
                   [] w \notin raised /\ cycleFails /\ w \in left
                        -> [worker[w] EXCEPT !.orphan = TRUE]
                   [] OTHER -> worker[w]]
            /\ orphans' = IF cycleFails /\ left # {} THEN orphans \cup cycle.jobs ELSE orphans
            /\ cycle' = IF cycleFails THEN IdleCycle ELSE cycle
            /\ wq' = IF cycleFails THEN Disowned(Rest(n), "cycle") ELSE Rest(n)
            /\ archive' = IF "archive" \in raised THEN IdleArchive ELSE archive
  BY DEF FailBatch
<1>2. \A w \in Worker : \/ worker'[w] = IdleWorker
                        \/ worker'[w] = [worker[w] EXCEPT !.orphan = TRUE]
                        \/ worker'[w] = worker[w]
  BY <1>1
<1>3. DOMAIN worker' = Worker /\ worker' = [w \in Worker |-> worker'[w]]
  BY <1>1
<1>4. ASSUME NEW w \in Worker
      PROVE  /\ worker'[w] \in WorkerState
             /\ worker'[w].st # "idle" => worker'[w].job \in SafeJob
  <2>1. worker[w] \in WorkerState /\ (worker[w].st # "idle" => worker[w].job \in SafeJob)
    BY DEF PendingWritesKeepTrack
  <2>2. IdleWorker \in WorkerState /\ IdleWorker.st = "idle"
    BY DEF IdleWorker, WorkerState
  <2>3. /\ [worker[w] EXCEPT !.orphan = TRUE] \in WorkerState
        /\ [worker[w] EXCEPT !.orphan = TRUE].st = worker[w].st
        /\ worker[w].st # "idle" => [worker[w] EXCEPT !.orphan = TRUE].job = worker[w].job
    BY <2>1 DEF WorkerState
  <2> QED
    BY <1>2, <2>1, <2>2, <2>3
<1>5. worker' \in [Worker -> WorkerState]
  BY <1>3, <1>4
<1>6. orphans' \subseteq SafeJob /\ orphans' \subseteq Job
  BY <1>1 DEF PendingWritesKeepTrack, SafeJob
<1>7. cycle' = IdleCycle \/ cycle' = cycle
  BY <1>1
<1>8. /\ cycle' \in Cycle
      /\ cycle'.plans \in Seq(SafePlan) /\ cycle'.jobs \subseteq SafeJob
  <2>1. IdleCycle.plans = <<>> /\ IdleCycle.jobs = {} /\ <<>> \in Seq(SafePlan)
    BY EmptySeq DEF IdleCycle
  <2>2. cycle.plans \in Seq(SafePlan) /\ cycle.jobs \subseteq SafeJob
    BY DEF PendingWritesKeepTrack, SafePlan
  <2>3. CASE cycle' = IdleCycle
    BY <2>1, <2>3, IdleCycleType
  <2>4. CASE cycle' = cycle
    BY <2>2, <2>4
  <2> QED
    BY <1>7, <2>3, <2>4
<1>9. wq' = Disowned(Rest(n), "cycle") \/ wq' = Rest(n)
  BY <1>1
<1>10. Rest(n) \in Seq(SafeItem) /\ "cycle" \in Actor
  BY RestIsSafe DEF Actor
<1>11. wq' \in Seq(SafeItem) /\ wq' \in Seq(Item)
  BY <1>9, <1>10, DisownedType, SafeItemType
<1>12. archive' \in ArchiveState
  BY <1>1 DEF IdleArchive, ArchiveState
<1>13. used' \in Used /\ UNCHANGED <<now, site, row, lastDiscovery>>
  BY DEF FailBatch, Used
<1> QED
  BY <1>4, <1>5, <1>6, <1>8, <1>11, <1>12, <1>13
     DEF PendingWritesKeepTrack, NoMatchForgotten, SafePlan

LEMMA CrashStep ==
  ASSUME IInv, Crash
  PROVE  IInv'
<1> USE DEF IInv, TypeOK, Crash
<1>1. cycle' \in Cycle /\ cycle'.plans = <<>> /\ cycle'.jobs = {}
  BY IdleCycleType DEF IdleCycle
<1>2. /\ worker' \in [Worker -> WorkerState]
      /\ \A w \in Worker : worker'[w].st = "idle"
  BY DEF IdleWorker, WorkerState
<1>3. archive' \in ArchiveState /\ used' \in Used /\ lastDiscovery' \in Times
  BY DEF IdleArchive, ArchiveState, Used, Times
<1>4. wq' \in Seq(SafeItem) /\ wq' \in Seq(Item) /\ cycle'.plans \in Seq(SafePlan)
  BY <1>1, EmptySeq
<1> QED
  BY <1>1, <1>2, <1>3, <1>4 DEF PendingWritesKeepTrack, NoMatchForgotten, SafePlan

-----------------------------------------------------------------------------
(* The theorems.                                                           *)

LEMMA NextInv ==
  ASSUME IInv, [Next]_vars
  PROVE  IInv'
<1>1. ASSUME NEW m \in Match, Reschedule(m) \/ Progress(m) \/ ArchiveMatch(m)
      PROVE  IInv'
  BY <1>1, SiteSteps, ArchiveMatchStep
<1>2. CASE Tick
  <2>1. ASSUME NEW m \in Match PROVE IInv'
    BY <1>2, SiteSteps
  <2>2. CASE Match = {}
    BY <1>2, <2>2 DEF Tick, IInv, TypeOK, NoMatchForgotten, PendingWritesKeepTrack
  <2> QED
    BY <2>1, <2>2
<1>3. CASE CycleStep
  BY <1>3, CycleControlSteps, PlanMatchStep, CheckResultStep, ScanDueStep DEF CycleStep
<1>4. CASE DiscoveryFails
  BY <1>4, CycleControlSteps
<1>5. ASSUME NEW w \in Worker, WorkerStep(w)
      PROVE  IInv'
  BY <1>5, WorkerSteps
<1>6. CASE ArchiveStep
  BY <1>6, ArchiveSteps
<1>7. CASE CommitBatch
  BY <1>7, CommitBatchStep
<1>8. CASE FailBatch
  BY <1>8, FailBatchStep
<1>9. CASE Crash
  BY <1>9, CrashStep
<1>10. CASE UNCHANGED vars
  BY <1>10 DEF vars, IInv, TypeOK, NoMatchForgotten, PendingWritesKeepTrack
<1> QED
  BY <1>1, <1>2, <1>3, <1>4, <1>5, <1>6, <1>7, <1>8, <1>9, <1>10 DEF Next

LEMMA Inductive == Spec => []IInv
<1>1. Init => IInv
  BY InitInv
<1>2. IInv /\ [Next]_vars => IInv'
  BY NextInv
<1> QED
  BY <1>1, <1>2, PTL DEF Spec

\* Every value a cycle, a worker, the archive job or the queue hands to another, and every row
\* of the matches table, has its type, whatever fails and whenever the process restarts.
THEOREM TypeCorrect == Spec => []TypeOK
<1>1. IInv => TypeOK
  BY DEF IInv
<1> QED
  BY <1>1, Inductive, PTL

\* list_due_scheduled_matches never loses a match: a row that was planned (capture.py) and is
\* not finalized has a next time, for any number of matches, workers, faults and restarts.
THEOREM NoMatchIsForgotten == Spec => []NoMatchForgotten
<1>1. IInv => NoMatchForgotten
  BY DEF IInv
<1> QED
  BY <1>1, Inductive, PTL

\* The reason: no plan, job or queued write, not even of a failed cycle, takes the next time
\* away without finalizing the match.
THEOREM WritesKeepTrack == Spec => []PendingWritesKeepTrack
<1>1. IInv => PendingWritesKeepTrack
  BY DEF IInv
<1> QED
  BY <1>1, Inductive, PTL

\* No step but the commit of a batch writes finalized_at at all.
LEMMA OtherStepsKeepFinalized ==
  ASSUME IInv, [Next]_vars, ~CommitBatch, NEW m \in Match
  PROVE  row[m].finalized => row'[m].finalized
<1> USE DEF IInv, TypeOK
<1>1. ASSUME NEW r \in Row, NEW kickoff, NEW timing
      PROVE  Upserted(r, kickoff, timing).finalized = r.finalized
  BY DEF Upserted, Row
<1>2. ASSUME NEW r \in Row
      PROVE  ResultMarked(r).finalized = r.finalized
  BY DEF ResultMarked, Row
<1>3. CASE PlanMatch
  BY <1>3, PlanMatchStep
<1>4. CASE CheckResult
  BY <1>2, <1>4 DEF CheckResult
<1>5. CASE ArchiveScore
  BY <1>2, <1>5 DEF ArchiveScore
<1>6. ASSUME NEW x \in Match, ArchiveMatch(x)
      PROVE  row[m].finalized => row'[m].finalized
  BY <1>1, <1>6 DEF ArchiveMatch
<1>7. CASE UNCHANGED row
  BY <1>7
<1>8. \/ PlanMatch \/ CheckResult \/ ArchiveScore \/ (\E x \in Match : ArchiveMatch(x))
      \/ UNCHANGED row
  BY DEF Next, CycleStep, WorkerStep, ArchiveStep, vars, Tick, Reschedule, Progress, StartCycle,
         DiscoveryFails, Discover, ListResultCandidates, ResultsDone, ScanDue, PlansPersisted,
         EndCycle, TakeJob, OrphanNext, SubmitAttempt, SubmitSchedule, FinishJob, ArchiveFetch,
         ArchiveAttempt, FailBatch, Crash
<1> QED
  BY <1>3, <1>4, <1>5, <1>6, <1>7, <1>8

\* finalized_at is never taken back: upsert_match leaves it, update_match_schedule and
\* mark_match_captured coalesce it, so neither a rediscovered match, a stale plan nor a
\* worker of a failed cycle reopens a match.
THEOREM FinalizedStaysFinalized == Spec => FinalizedForever
<1>1. IInv /\ [Next]_vars
        => [\A m \in Match : row[m].finalized => row'[m].finalized]_vars
  BY CommitBatchStep, OtherStepsKeepFinalized
<1> QED
  BY <1>1, Inductive, PTL DEF Spec, FinalizedForever

-----------------------------------------------------------------------------
(* One capture per match: what the workers of an undisturbed cycle share.   *)

\* No transaction or homepage failed yet, and no archive job ran.
Undisturbed == used.faults = 0 /\ used.archives = 0

\* A job of the cycle is that of a match which is planned already and not finalized; a match
\* that is still to be planned has none.  The due scan adds those of the other two kinds.
JobsPlannedOnce ==
  /\ cycle.pc \in {"idle", "discover"} => cycle.jobs = {} /\ cycle.seen = {}
  /\ cycle.pc = "plan" => \A l \in cycle.todo :
        /\ l.match \notin cycle.seen
        /\ \A other \in cycle.todo : other.match = l.match => other = l
  /\ cycle.pc \in {"plan", "results", "due"} =>
        \A j \in cycle.jobs : j.match \in cycle.seen /\ ~row[j.match].finalized
  /\ \A i, j \in cycle.jobs : i.match = j.match => i = j

\* A worker belongs to the cycle that captures, and took its job out of the list.
WorkersShareJobs ==
  \A w \in Worker :
    /\ ~worker[w].orphan
    /\ worker[w].st # "idle" =>
         /\ cycle.pc = "capture"
         /\ \A j \in cycle.jobs : j.match # worker[w].job.match
         /\ \A v \in Worker : v # w /\ worker[v].st # "idle"
                                => worker[v].job.match # worker[w].job.match

\* Whoever has a write in the queue is waiting for it.
Waiters == {w \in Worker : worker[w].st \in {"attempt", "schedule"}}
           \cup {a \in {"cycle"} : cycle.pc = "persist"}

CycleWrites == {i \in ScheduleItem : i.by = "cycle"}

WritesAwaited ==
  /\ archive.st = "idle"
  /\ cycle.plans \in Seq(CycleWrites)
  /\ \A i \in DOMAIN wq : wq[i].by \in Waiters

Shared == JobsPlannedOnce /\ WorkersShareJobs /\ WritesAwaited

\* A fault and an archive job are counted, and counters are not reset.
LEMMA UndisturbedBefore ==
  ASSUME IInv, [Next]_vars, Undisturbed'
  PROVE  /\ Undisturbed
         /\ ~DiscoveryFails /\ ~FailBatch
         /\ \A m \in Match : ~ArchiveMatch(m)
<1>1. used \in Used
  BY DEF IInv, TypeOK
<1>2. /\ used.faults \in Nat /\ used.archives \in Nat
  BY <1>1 DEF Used
<1>3. used' = [used EXCEPT !.faults = @ + 1] => used'.faults = used.faults + 1
  BY <1>1 DEF Used
<1>4. used' = [used EXCEPT !.archives = @ + 1] => used'.archives = used.archives + 1
  BY <1>1 DEF Used
<1>5. \/ used' = used
      \/ used' = [used EXCEPT !.moves = @ + 1]
      \/ used' = [used EXCEPT !.crashes = @ + 1]
      => used'.faults = used.faults /\ used'.archives = used.archives
  BY <1>1 DEF Used
<1>6. DiscoveryFails \/ FailBatch => used'.faults = used.faults + 1
  BY <1>3 DEF DiscoveryFails, FailBatch
<1>7. ASSUME NEW m \in Match, ArchiveMatch(m)
      PROVE  used'.archives = used.archives + 1
  BY <1>4, <1>7 DEF ArchiveMatch
<1>8. \/ used' = used \/ used' = [used EXCEPT !.faults = @ + 1]
      \/ used' = [used EXCEPT !.archives = @ + 1] \/ used' = [used EXCEPT !.moves = @ + 1]
      \/ used' = [used EXCEPT !.crashes = @ + 1]
  BY DEF Next, CycleStep, WorkerStep, ArchiveStep, vars, Tick, Reschedule, Progress, StartCycle,
         DiscoveryFails, Discover, PlanMatch, ListResultCandidates, CheckResult, ResultsDone,
         ScanDue, PlansPersisted, EndCycle, TakeJob, OrphanNext, SubmitAttempt, SubmitSchedule,
         FinishJob, ArchiveMatch, ArchiveFetch, ArchiveAttempt, ArchiveScore, CommitBatch,
         FailBatch, Crash
<1>9. used'.faults = 0 /\ used'.archives = 0
  BY DEF Undisturbed
<1>10. ~DiscoveryFails /\ ~FailBatch
  BY <1>2, <1>6, <1>9
<1>11. \A m \in Match : ~ArchiveMatch(m)
  BY <1>2, <1>7, <1>9
<1>12. Undisturbed
  BY <1>2, <1>3, <1>4, <1>5, <1>8, <1>9 DEF Undisturbed
<1> QED
  BY <1>10, <1>11, <1>12

\* Only control of the cycle moves on, without losing or gaining a job.
LEMMA SharedControl ==
  ASSUME IInv, Shared, UNCHANGED <<worker, wq, archive>>,
         cycle'.plans \in {cycle.plans, <<>>},
         \A m \in Match : row'[m].finalized = row[m].finalized,
         cycle'.pc = "persist" <=> cycle.pc = "persist",
         cycle'.pc = "capture" <=> cycle.pc = "capture",
         cycle'.jobs = cycle.jobs,
         JobsPlannedOnce'
  PROVE  Shared'
<1>1. WorkersShareJobs'
  BY DEF Shared, WorkersShareJobs
<1>2. WritesAwaited'
  BY EmptySeq DEF Shared, WritesAwaited, Waiters
<1> QED
  BY <1>1, <1>2 DEF Shared

\* The steps of the site, the clock and the tables.
LEMMA SharedStays ==
  ASSUME IInv, Shared, UNCHANGED <<cycle, worker, wq, archive>>,
         \A m \in Match : row'[m].finalized = row[m].finalized
  PROVE  Shared'
<1>1. \A j \in cycle.jobs : j.match \in Match
  BY DEF IInv, TypeOK, Cycle, Job
<1> QED
  BY <1>1 DEF Shared, JobsPlannedOnce, WorkersShareJobs, WritesAwaited, Waiters

\* Before the plans are persisted no worker has a job and the queue is empty.
LEMMA QuietBeforeCapture ==
  ASSUME IInv, Shared, cycle.pc \notin {"persist", "capture"}
  PROVE  /\ \A w \in Worker : worker[w].st = "idle"
         /\ wq = <<>>
<1>1. \A w \in Worker : worker[w].st = "idle"
  BY DEF Shared, WorkersShareJobs
<1>2. Waiters = {}
  BY <1>1 DEF Waiters
<1>3. wq \in Seq(Item) /\ Len(wq) \in Nat /\ DOMAIN wq = 1 .. Len(wq)
  BY LenProperties DEF IInv, TypeOK
<1>4. Len(wq) = 0
  <2>1. ~(1 \in DOMAIN wq)
    BY <1>2 DEF Shared, WritesAwaited
  <2> QED
    BY <1>3, <2>1
<1>5. wq = <<>>
  BY <1>3, <1>4, EmptySeq
<1> QED
  BY <1>1, <1>5

LEMMA SharedStart ==
  ASSUME IInv, Shared, StartCycle
  PROVE  Shared'
<1>1. PICK discover \in BOOLEAN :
        cycle' = [IdleCycle EXCEPT !.pc = IF discover THEN "discover" ELSE "due",
                                   !.now = now, !.discover = discover]
  BY DEF StartCycle
<1>2. /\ cycle'.pc \in {"discover", "due"} /\ cycle'.jobs = {} /\ cycle'.seen = {}
      /\ cycle'.plans = <<>>
  BY <1>1 DEF IdleCycle
<1>3. cycle.pc = "idle" /\ cycle.jobs = {} /\ UNCHANGED <<row, worker, wq, archive>>
  BY DEF StartCycle, Shared, JobsPlannedOnce
<1>4. JobsPlannedOnce'
  BY <1>2 DEF JobsPlannedOnce
<1> QED
  BY <1>2, <1>3, <1>4, SharedControl

LEMMA SharedDiscover ==
  ASSUME IInv, Shared, Discover
  PROVE  Shared'
<1>1. PICK found \in SUBSET Match : \E fresh \in SUBSET found :
        cycle' = [cycle EXCEPT
          !.pc = "plan",
          !.todo = {[match |-> m, kickoff |-> site[m].kickoff,
                     status |-> IF m \in fresh THEN site[m].status ELSE "scheduled"] :
                       m \in found}]
  BY DEF Discover
<1>2. PICK fresh \in SUBSET found :
        cycle' = [cycle EXCEPT
          !.pc = "plan",
          !.todo = {[match |-> m, kickoff |-> site[m].kickoff,
                     status |-> IF m \in fresh THEN site[m].status ELSE "scheduled"] :
                       m \in found}]
  BY <1>1
<1> DEFINE L(m) == [match |-> m, kickoff |-> site[m].kickoff,
                    status |-> IF m \in fresh THEN site[m].status ELSE "scheduled"]
           T == {L(m) : m \in found}
<1>3. \A l, other \in T : other.match = l.match => other = l
  OBVIOUS
<1>4. cycle' = [cycle EXCEPT !.pc = "plan", !.todo = T]
  BY <1>2
<1> HIDE DEF T
<1>5. cycle \in Cycle /\ cycle.pc = "discover" /\ UNCHANGED <<row, worker, wq, archive>>
  BY DEF Discover, IInv, TypeOK
<1>6. /\ cycle'.pc = "plan" /\ cycle'.todo = T /\ cycle'.jobs = cycle.jobs
      /\ cycle'.seen = cycle.seen /\ cycle'.plans = cycle.plans
  BY <1>4, <1>5 DEF Cycle
<1>7. cycle.jobs = {} /\ cycle.seen = {}
  BY <1>5 DEF Shared, JobsPlannedOnce
<1>8. JobsPlannedOnce'
  BY <1>3, <1>6, <1>7 DEF JobsPlannedOnce
<1> QED
  BY <1>5, <1>6, <1>8, SharedControl

LEMMA SharedControlSteps ==
  ASSUME IInv, Shared, ListResultCandidates \/ CheckResult \/ ResultsDone
  PROVE  Shared'
<1>1. cycle \in Cycle /\ row \in [Match -> Row] /\ UNCHANGED <<worker, wq, archive>>
  BY DEF IInv, TypeOK, ListResultCandidates, CheckResult, ResultsDone
<1>2. /\ cycle.pc \in {"plan", "results"} /\ cycle'.pc \in {"results", "due"}
      /\ cycle'.jobs = cycle.jobs /\ cycle'.seen = cycle.seen /\ cycle'.plans = cycle.plans
  BY <1>1 DEF ListResultCandidates, CheckResult, ResultsDone, Cycle
<1>3. \A m \in Match : row'[m].finalized = row[m].finalized
  <2>1. ASSUME NEW r \in Row
        PROVE  ResultMarked(r).finalized = r.finalized
    BY DEF ResultMarked, Row
  <2> QED
    BY <1>1, <2>1 DEF ListResultCandidates, CheckResult, ResultsDone
<1>4. \A j \in cycle.jobs : j.match \in Match
  BY <1>1 DEF Cycle, Job
<1>5. JobsPlannedOnce'
  BY <1>2, <1>3, <1>4 DEF Shared, JobsPlannedOnce
<1> QED
  BY <1>1, <1>2, <1>3, <1>5, SharedControl

LEMMA PlanCapturesOpen ==
  ASSUME NEW kickoff \in Times, NEW timing \in Timing, NEW at \in Int, NEW r \in Row,
         Plan(kickoff, timing, at, r.next, r.finalized, r.captured).capture
  PROVE  ~r.finalized
BY DEF Plan, Over, Decision

LEMMA PlanGivesOneJob ==
  ASSUME NEW m \in Match, NEW d, NEW kind
  PROVE  /\ \A j \in PlanJobs(m, d, kind) : j.match = m /\ d.capture
         /\ \A i, j \in PlanJobs(m, d, kind) : i = j
         /\ PlanWrite(m, d).by = "cycle"
<1>1. CASE d.capture
  BY <1>1 DEF PlanJobs, PlanWrite, ScheduleWrite
<1>2. CASE ~d.capture
  BY <1>2 DEF PlanJobs, PlanWrite, ScheduleWrite
<1> QED
  BY <1>1, <1>2

LEMMA SharedPlan ==
  ASSUME IInv, Shared, PlanMatch
  PROVE  Shared'
<1> USE DEF IInv, TypeOK
<1>1. PICK l \in cycle.todo : \E k \in EnrichedKickoffs(l, cycle.now) :
        LET m      == l.match
            timing == ClassifyTiming(k, cycle.now, l.status = "live", l.status = "finished")
            old    == row[m]
            d      == Plan(k, timing, cycle.now, old.next, old.finalized, old.captured)
        IN  cycle' = [cycle EXCEPT
                 !.todo = @ \ {l}, !.seen = @ \cup {m},
                 !.plans = Append(@, PlanWrite(m, d)), !.jobs = @ \cup PlanJobs(m, d, "listed")]
  BY DEF PlanMatch
<1>2. PICK k \in EnrichedKickoffs(l, cycle.now) :
        LET m      == l.match
            timing == ClassifyTiming(k, cycle.now, l.status = "live", l.status = "finished")
            old    == row[m]
            d      == Plan(k, timing, cycle.now, old.next, old.finalized, old.captured)
        IN  cycle' = [cycle EXCEPT
                 !.todo = @ \ {l}, !.seen = @ \cup {m},
                 !.plans = Append(@, PlanWrite(m, d)), !.jobs = @ \cup PlanJobs(m, d, "listed")]
  BY <1>1
<1> DEFINE m == l.match
           timing == ClassifyTiming(k, cycle.now, l.status = "live", l.status = "finished")
           d == Plan(k, timing, cycle.now, row[m].next, row[m].finalized, row[m].captured)
<1>3. l \in Listing /\ m \in Match /\ row[m] \in Row /\ cycle.now \in Int
  BY DEF Cycle, Listing
<1>4. k \in Times
  BY <1>3 DEF EnrichedKickoffs, PageKickoffs, Listing, Site, Times
<1>5. timing \in Timing
  BY <1>3, <1>4, TimingType
<1>6. PlanWrite(m, d) \in SafePlan /\ PlanJobs(m, d, "listed") \subseteq SafeJob
  BY <1>3, <1>4, <1>5, PlanIsSafe
<1>7. /\ \A j \in PlanJobs(m, d, "listed") : j.match = m /\ ~row[m].finalized
      /\ \A i, j \in PlanJobs(m, d, "listed") : i = j
      /\ PlanWrite(m, d).by = "cycle"
  <2>1. d.capture => ~row[m].finalized
    BY <1>3, <1>4, <1>5, PlanCapturesOpen
  <2> HIDE DEF d, m
  <2>2. /\ \A j \in PlanJobs(m, d, "listed") : j.match = m /\ d.capture
        /\ \A i, j \in PlanJobs(m, d, "listed") : i = j
        /\ PlanWrite(m, d).by = "cycle"
    BY <1>3, PlanGivesOneJob
  <2> QED
    BY <2>1, <2>2
<1>8. cycle' = [cycle EXCEPT
           !.todo = @ \ {l}, !.seen = @ \cup {m},
           !.plans = Append(@, PlanWrite(m, d)), !.jobs = @ \cup PlanJobs(m, d, "listed")]
  BY <1>2
<1> HIDE DEF m, d
<1> DEFINE jobs == PlanJobs(m, d, "listed")
<1>9. /\ cycle'.pc = "plan" /\ cycle.pc = "plan"
      /\ cycle'.todo = cycle.todo \ {l} /\ cycle'.seen = cycle.seen \cup {m}
      /\ cycle'.plans = Append(cycle.plans, PlanWrite(m, d))
      /\ cycle'.jobs = cycle.jobs \cup jobs
  BY <1>8 DEF PlanMatch, Cycle
<1> HIDE DEF jobs
<1>10. \A x \in Match : row'[x].finalized = row[x].finalized
  BY PlanMatchStep
<1>11. \A j \in cycle.jobs : j.match \in Match
  BY DEF Cycle, Job
<1>12. JobsPlannedOnce'
  <2>1. /\ m \notin cycle.seen
        /\ \A other \in cycle.todo : other.match = m => other = l
        /\ \A x, y \in cycle.todo : x.match = y.match => x = y
        /\ \A x \in cycle.todo : x.match \notin cycle.seen
    BY <1>9 DEF Shared, JobsPlannedOnce, m
  <2>2. \A x \in cycle'.todo : /\ x.match \notin cycle'.seen
                              /\ \A y \in cycle'.todo : y.match = x.match => y = x
    BY <1>9, <2>1 DEF m
  <2>3. /\ \A j \in cycle.jobs : j.match \in cycle.seen /\ ~row[j.match].finalized
        /\ \A i, j \in cycle.jobs : i.match = j.match => i = j
    BY <1>9 DEF Shared, JobsPlannedOnce
  <2>4. /\ \A j \in jobs : j.match = m /\ ~row[m].finalized
        /\ \A i, j \in jobs : i = j
    BY <1>7 DEF jobs
  <2>5. \A j \in cycle'.jobs : j.match \in cycle'.seen /\ ~row'[j.match].finalized
    BY <1>3, <1>9, <1>10, <1>11, <2>3, <2>4
  <2>6. \A i, j \in cycle'.jobs : i.match = j.match => i = j
    <3>1. \A i, j \in cycle.jobs \cup jobs : i.match = j.match => i = j
      BY <2>1, <2>3, <2>4
    <3> QED
      BY <1>9, <3>1
  <2> QED
    BY <1>9, <2>2, <2>5, <2>6 DEF JobsPlannedOnce
<1>13. WorkersShareJobs'
  <2>1. \A w \in Worker : worker[w].st = "idle" /\ ~worker[w].orphan
    BY <1>9, QuietBeforeCapture DEF Shared, WorkersShareJobs
  <2> QED
    BY <2>1 DEF PlanMatch, WorkersShareJobs
<1>14. WritesAwaited'
  <2>1. PlanWrite(m, d) \in CycleWrites
    BY <1>6, <1>7 DEF CycleWrites, SafePlan, m, d
  <2>2. cycle'.plans \in Seq(CycleWrites)
    BY <1>9, <2>1, AppendProperties DEF Shared, WritesAwaited
  <2> QED
    BY <1>9, <2>2 DEF PlanMatch, Shared, WritesAwaited, Waiters
<1> QED
  BY <1>12, <1>13, <1>14 DEF Shared

LEMMA SharedScan ==
  ASSUME IInv, Shared, ScanDue
  PROVE  Shared'
<1> USE DEF IInv, TypeOK
<1>1. PICK order \in [1 .. Cardinality(DueUnseen) -> DueUnseen], chosen \in SUBSET Match :
        /\ Backfill(chosen)
        /\ cycle' = [cycle EXCEPT
             !.pc = "persist", !.todo = {}, !.seen = {}, !.plans = <<>>,
             !.jobs = @ \cup BackfillJobs(chosen)
                        \cup UNION {PlanJobs(m, StoredPlan(m), "due") : m \in DueUnseen}]
        /\ wq' = wq \o cycle.plans
                    \o [i \in DOMAIN order |-> PlanWrite(order[i], StoredPlan(order[i]))]
  BY DEF ScanDue
<1> DEFINE duePlans == [i \in DOMAIN order |-> PlanWrite(order[i], StoredPlan(order[i]))]
           dueJobs == UNION {PlanJobs(m, StoredPlan(m), "due") : m \in DueUnseen}
<1>2. cycle.pc = "due" /\ DueUnseen \subseteq Match
  BY DEF ScanDue, DueUnseen
<1>3. \A w \in Worker : worker[w].st = "idle" /\ ~worker[w].orphan
  BY <1>2, QuietBeforeCapture DEF Shared, WorkersShareJobs
<1>4. wq = <<>>
  BY <1>2, QuietBeforeCapture
<1>5. ASSUME NEW m \in DueUnseen
      PROVE  /\ \A j \in PlanJobs(m, StoredPlan(m), "due") : j.match = m /\ ~row[m].finalized
             /\ \A i, j \in PlanJobs(m, StoredPlan(m), "due") : i = j
             /\ PlanWrite(m, StoredPlan(m)) \in CycleWrites
  <2>1. m \in Match /\ row[m] \in Row
    BY <1>2
  <2>2. PlanWrite(m, StoredPlan(m)) \in SafePlan
    BY <2>1, StoredPlanIsSafe
  <2> DEFINE t == ClassifyTiming(row[m].kickoff, cycle.now, row[m].timing = "LIVE",
                                 row[m].timing = "FINISHED")
  <2>4. row[m].kickoff \in Times /\ cycle.now \in Int
    BY <2>1 DEF Row, Cycle
  <2>5. t \in Timing
    BY <2>4, TimingType
  <2> HIDE DEF t
  <2>6. StoredPlan(m) = Plan(row[m].kickoff, t, cycle.now, row[m].next, row[m].finalized,
                             row[m].captured)
    BY DEF StoredPlan, t
  <2>3. /\ \A j \in PlanJobs(m, StoredPlan(m), "due") : j.match = m /\ ~row[m].finalized
        /\ \A i, j \in PlanJobs(m, StoredPlan(m), "due") : i = j
        /\ PlanWrite(m, StoredPlan(m)).by = "cycle"
    <3>1. StoredPlan(m).capture => ~row[m].finalized
      BY <2>1, <2>4, <2>5, <2>6, PlanCapturesOpen
    <3>2. /\ \A j \in PlanJobs(m, StoredPlan(m), "due") : j.match = m /\ StoredPlan(m).capture
          /\ \A i, j \in PlanJobs(m, StoredPlan(m), "due") : i = j
          /\ PlanWrite(m, StoredPlan(m)).by = "cycle"
      BY <2>1, PlanGivesOneJob
    <3> QED
      BY <3>1, <3>2
  <2> QED
    BY <2>2, <2>3 DEF CycleWrites, SafePlan
<1>6. /\ \A j \in dueJobs : j.match \in DueUnseen
      /\ \A i, j \in dueJobs : i.match = j.match => i = j
  <2>1. \A j \in dueJobs : \E m \in DueUnseen : j \in PlanJobs(m, StoredPlan(m), "due")
    OBVIOUS
  <2> QED
    BY <1>5, <2>1
<1>7. /\ \A m \in DueUnseen : m \notin cycle.seen /\ ~row[m].finalized
  BY DEF DueUnseen, DueRow
<1>8. /\ \A j \in BackfillJobs(chosen) : row[j.match].finalized
      /\ \A i, j \in BackfillJobs(chosen) : i.match = j.match => i = j
  <2>1. \A j \in BackfillJobs(chosen) : \E m \in Match : j = BackfillJob(m) /\ EmptyFinalized(m, cycle.now)
    BY <1>1 DEF BackfillJobs, Backfill, NewestOf
  <2>2. \A m \in Match : BackfillJob(m).match = m
    BY DEF BackfillJob
  <2> QED
    BY <2>1, <2>2 DEF EmptyFinalized
<1>9. /\ \A j \in cycle.jobs : j.match \in cycle.seen /\ ~row[j.match].finalized
      /\ \A i, j \in cycle.jobs : i.match = j.match => i = j
  BY <1>2 DEF Shared, JobsPlannedOnce
<1> DEFINE newJobs == cycle.jobs \cup BackfillJobs(chosen) \cup dueJobs
<1>10. cycle' = [cycle EXCEPT !.pc = "persist", !.todo = {}, !.seen = {}, !.plans = <<>>,
                              !.jobs = newJobs]
  BY <1>1
<1>11. wq' = wq \o cycle.plans \o duePlans
  BY <1>1
<1>12. duePlans \in Seq(CycleWrites)
  <2>1. Cardinality(DueUnseen) \in Nat
    BY <1>2, MatchAssumption, FS_Subset, FS_CardinalityType
  <2>2. \A i \in 1 .. Cardinality(DueUnseen) :
          PlanWrite(order[i], StoredPlan(order[i])) \in CycleWrites
    BY <1>5
  <2> QED
    BY <2>1, <2>2
<1> HIDE DEF dueJobs, duePlans
<1>13. \A i, j \in newJobs : i.match = j.match => i = j
  BY <1>6, <1>7, <1>8, <1>9
<1> HIDE DEF newJobs
<1>14. cycle'.pc = "persist" /\ cycle'.jobs = newJobs /\ cycle'.plans = <<>>
  BY <1>10 DEF Cycle
<1>15. JobsPlannedOnce'
  BY <1>13, <1>14 DEF JobsPlannedOnce
<1>16. WorkersShareJobs'
  BY <1>3 DEF ScanDue, WorkersShareJobs
<1>17. wq' \in Seq(CycleWrites)
  <2>1. wq \in Seq(CycleWrites) /\ cycle.plans \in Seq(CycleWrites)
    BY <1>4, EmptySeq DEF Shared, WritesAwaited
  <2>2. wq \o cycle.plans \in Seq(CycleWrites)
    BY <2>1, ConcatProperties
  <2> QED
    BY <1>11, <1>12, <2>2, ConcatProperties
<1>18. WritesAwaited'
  <2>1. "cycle" \in Waiters'
    BY <1>14 DEF Waiters
  <2>2. \A i \in DOMAIN wq' : wq'[i].by = "cycle"
    BY <1>17, ElementOfSeq, LenProperties DEF CycleWrites
  <2>3. cycle'.plans \in Seq(CycleWrites)
    BY <1>14, EmptySeq
  <2> QED
    BY <2>1, <2>2, <2>3 DEF ScanDue, Shared, WritesAwaited
<1> QED
  BY <1>15, <1>16, <1>18 DEF Shared

LEMMA SharedPersisted ==
  ASSUME IInv, Shared, PlansPersisted
  PROVE  Shared'
<1>1. /\ cycle.pc = "persist" /\ cycle'.pc = "capture"
      /\ cycle'.jobs = cycle.jobs /\ cycle'.plans = cycle.plans
      /\ UNCHANGED <<row, worker, wq, archive>>
  BY DEF PlansPersisted, IInv, TypeOK, Cycle
<1>2. \A w \in Worker : worker[w].st = "idle" /\ ~worker[w].orphan
  BY <1>1 DEF Shared, WorkersShareJobs
<1>3. JobsPlannedOnce'
  BY <1>1 DEF Shared, JobsPlannedOnce
<1>4. WorkersShareJobs'
  BY <1>1, <1>2 DEF WorkersShareJobs
<1>5. \A i \in DOMAIN wq : wq[i].by # "cycle"
  BY DEF PlansPersisted, Waiting
<1>6. WritesAwaited'
  BY <1>1, <1>5 DEF Shared, WritesAwaited, Waiters
<1> QED
  BY <1>3, <1>4, <1>6 DEF Shared

\* No worker is left behind: those that are not busy have no job and wait for nothing.
LEMMA SharedEnd ==
  ASSUME IInv, Shared, EndCycle
  PROVE  Shared'
<1>1. \A w \in Worker : worker[w].st = "idle" /\ ~worker[w].orphan
  BY DEF EndCycle, LiveWorkers, Busy, Shared, WorkersShareJobs
<1>2. /\ cycle.pc = "capture" /\ cycle'.pc = "idle" /\ cycle'.jobs = {} /\ cycle'.seen = {}
      /\ cycle'.plans = <<>> /\ UNCHANGED <<row, worker, wq, archive>>
  BY DEF EndCycle, IdleCycle
<1>3. JobsPlannedOnce'
  BY <1>2 DEF JobsPlannedOnce
<1>4. WorkersShareJobs'
  BY <1>1, <1>2 DEF WorkersShareJobs
<1>5. WritesAwaited'
  BY <1>1, <1>2, EmptySeq DEF Shared, WritesAwaited, Waiters
<1> QED
  BY <1>3, <1>4, <1>5 DEF Shared

LEMMA SharedTake ==
  ASSUME IInv, Shared, NEW w \in Worker, TakeJob(w)
  PROVE  Shared'
<1> USE DEF IInv, TypeOK
<1>1. PICK j \in cycle.jobs :
        /\ worker' = [worker EXCEPT ![w] = Fetching(j, FALSE)]
        /\ cycle' = [cycle EXCEPT !.jobs = @ \ {j}]
  BY DEF TakeJob
<1>2. /\ cycle.pc = "capture" /\ cycle'.pc = "capture" /\ cycle'.jobs = cycle.jobs \ {j}
      /\ cycle'.plans = cycle.plans /\ UNCHANGED <<row, wq, archive>>
  BY <1>1 DEF TakeJob, Cycle
<1>3. worker[w].st = "idle"
  BY DEF TakeJob, Busy
<1>4. /\ worker'[w].st = "fetch" /\ ~worker'[w].orphan /\ worker'[w].job = j
      /\ \A v \in Worker \ {w} : worker'[v] = worker[v]
  BY <1>1 DEF Fetching
<1>5. JobsPlannedOnce'
  BY <1>2 DEF Shared, JobsPlannedOnce
<1>6. \A i \in cycle.jobs : i # j => i.match # j.match
  BY DEF Shared, JobsPlannedOnce
<1>7. \A v \in Worker : worker[v].st # "idle" => worker[v].job.match # j.match
  BY DEF Shared, WorkersShareJobs
<1>8. WorkersShareJobs'
  BY <1>2, <1>3, <1>4, <1>6, <1>7 DEF Shared, WorkersShareJobs
<1>9. Waiters' = Waiters
  BY <1>2, <1>3, <1>4 DEF Waiters
<1>10. WritesAwaited'
  BY <1>2, <1>9 DEF Shared, WritesAwaited
<1> QED
  BY <1>5, <1>8, <1>10 DEF Shared

\* A worker goes on with its job, or is through with it and waits for nothing any more.
LEMMA SharedWorker ==
  ASSUME IInv, Shared, NEW w \in Worker,
         worker[w].st # "idle",
         \A v \in Worker \ {w} : worker'[v] = worker[v],
         worker'[w].orphan = worker[w].orphan,
         worker'[w].st # "idle" => worker'[w].job = worker[w].job,
         UNCHANGED <<row, cycle, archive>>,
         \A i \in DOMAIN wq' : wq'[i].by \in Waiters'
  PROVE  Shared'
<1>1. JobsPlannedOnce'
  BY DEF Shared, JobsPlannedOnce
<1>2. WorkersShareJobs'
  BY DEF Shared, WorkersShareJobs
<1>3. WritesAwaited'
  BY DEF Shared, WritesAwaited
<1> QED
  BY <1>1, <1>2, <1>3 DEF Shared

LEMMA SharedWorkerSteps ==
  ASSUME IInv, Shared, NEW w \in Worker,
         SubmitAttempt(w) \/ SubmitSchedule(w) \/ FinishJob(w)
  PROVE  Shared'
<1> USE DEF IInv, TypeOK
<1>1. worker[w] \in WorkerState /\ UNCHANGED <<row, cycle, archive>>
  BY DEF SubmitAttempt, SubmitSchedule, FinishJob
<1>2. /\ wq \in Seq(Item) /\ DOMAIN wq = 1 .. Len(wq) /\ Len(wq) \in Nat
      /\ \A i \in DOMAIN wq : wq[i].by \in Waiters
  BY LenProperties DEF Shared, WritesAwaited
<1>3. ASSUME NEW x \in Item, wq' = Append(wq, x), x.by = w, Waiters' = Waiters \cup {w}
      PROVE  \A i \in DOMAIN wq' : wq'[i].by \in Waiters'
  <2>1. /\ Len(wq') = Len(wq) + 1 /\ wq' \in Seq(Item) /\ wq'[Len(wq) + 1] = x
        /\ \A i \in 1 .. Len(wq) : wq'[i] = wq[i]
    BY <1>2, <1>3, AppendProperties
  <2>2. DOMAIN wq' = 1 .. (Len(wq) + 1)
    BY <2>1, LenProperties
  <2>3. \A i \in 1 .. (Len(wq) + 1) : i \in 1 .. Len(wq) \/ i = Len(wq) + 1
    BY <1>2
  <2> QED
    BY <1>2, <1>3, <2>1, <2>2, <2>3
<1>4. CASE SubmitAttempt(w)
  <2>1. /\ worker'[w].st = "attempt" /\ worker'[w].orphan = worker[w].orphan
        /\ worker'[w].job = worker[w].job /\ worker[w].st = "fetch"
        /\ \A v \in Worker \ {w} : worker'[v] = worker[v]
    BY <1>1, <1>4 DEF SubmitAttempt, WorkerState
  <2>2. AttemptWrite(worker[w].job.match, w) \in Item
    <3>1. worker[w].job \in Job
      BY <1>1, <2>1 DEF WorkerState
    <3> QED
      BY <3>1 DEF AttemptWrite, Item, AttemptItem, Job, Actor
  <2>3. Waiters' = Waiters \cup {w}
    BY <1>1, <2>1 DEF Waiters
  <2>4. \A i \in DOMAIN wq' : wq'[i].by \in Waiters'
    BY <1>3, <1>4, <2>2, <2>3 DEF SubmitAttempt, AttemptWrite
  <2> QED
    BY <1>1, <2>1, <2>4, SharedWorker
<1>5. CASE SubmitSchedule(w)
  <2>1. /\ worker'[w].st = "schedule" /\ worker'[w].orphan = worker[w].orphan
        /\ worker'[w].job = worker[w].job /\ worker[w].st = "attempt"
        /\ \A v \in Worker \ {w} : worker'[v] = worker[v]
    BY <1>1, <1>5 DEF SubmitSchedule, WorkerState
  <2> DEFINE j == worker[w].job
             i == ScheduleWrite(j.match, IF j.finalized THEN "FINALIZED" ELSE j.phase,
                                j.next, j.finalized, TRUE, w)
  <2>2. i \in Item /\ i.by = w
    <3>1. worker[w].job \in Job
      BY <1>1, <2>1 DEF WorkerState
    <3> QED
      BY <3>1 DEF ScheduleWrite, Item, ScheduleItem, Job, Actor, Phase, PlannedPhase
  <2>3. Waiters' = Waiters \cup {w}
    BY <1>1, <2>1 DEF Waiters
  <2>4. wq' = Append(wq, i)
    BY <1>5 DEF SubmitSchedule
  <2> HIDE DEF i
  <2>5. \A n \in DOMAIN wq' : wq'[n].by \in Waiters'
    BY <1>3, <2>2, <2>3, <2>4
  <2> QED
    BY <1>1, <2>1, <2>5, SharedWorker
<1>6. CASE FinishJob(w)
  <2>1. /\ worker'[w].st = "idle" /\ worker'[w].orphan = worker[w].orphan
        /\ worker[w].st = "schedule" /\ wq' = wq
        /\ \A v \in Worker \ {w} : worker'[v] = worker[v]
    BY <1>1, <1>6 DEF FinishJob
  <2>2. \A i \in DOMAIN wq : wq[i].by # w
    BY <1>6 DEF FinishJob, Waiting
  <2>3. Waiters \ {w} \subseteq Waiters'
    BY <1>1, <2>1 DEF Waiters
  <2>4. \A i \in DOMAIN wq' : wq'[i].by \in Waiters'
    BY <1>2, <2>1, <2>2, <2>3
  <2> QED
    BY <1>1, <2>1, <2>4, SharedWorker
<1> QED
  BY <1>4, <1>5, <1>6

\* A commit writes finalized_at behind the back of no planned job: the queue is filled only
\* when the plans are made.
LEMMA SharedCommit ==
  ASSUME IInv, Shared, CommitBatch
  PROVE  Shared'
<1>1. PICK n \in BatchLengths : wq' = Rest(n)
  BY DEF CommitBatch
<1>2. /\ wq \in Seq(Item) /\ Len(wq) \in Nat /\ DOMAIN wq = 1 .. Len(wq)
      /\ n \in 1 .. Len(wq)
  BY SizeAssumption, LenProperties DEF IInv, TypeOK, BatchLengths
<1>3. UNCHANGED <<cycle, worker, archive>>
  BY DEF CommitBatch
<1>4. cycle.pc \in {"persist", "capture"}
  <2>1. wq # <<>>
    BY <1>2
  <2> QED
    BY <2>1, QuietBeforeCapture
<1>5. \A i \in DOMAIN wq' : wq'[i].by \in Waiters
  <2>1. DOMAIN wq' = 1 .. (Len(wq) - n) /\ \A i \in 1 .. (Len(wq) - n) : wq'[i] = wq[n + i]
    BY <1>1, <1>2, RestOfQueue DEF Rest
  <2>2. \A i \in 1 .. (Len(wq) - n) : n + i \in DOMAIN wq
    BY <1>2
  <2> QED
    BY <2>1, <2>2 DEF Shared, WritesAwaited
<1>6. JobsPlannedOnce'
  BY <1>3, <1>4 DEF Shared, JobsPlannedOnce
<1>7. WorkersShareJobs'
  BY <1>3 DEF Shared, WorkersShareJobs
<1>8. WritesAwaited'
  BY <1>3, <1>5 DEF Shared, WritesAwaited, Waiters
<1> QED
  BY <1>6, <1>7, <1>8 DEF Shared

LEMMA SharedInit ==
  ASSUME cycle = IdleCycle, worker = [w \in Worker |-> IdleWorker], wq = <<>>,
         archive = IdleArchive
  PROVE  Shared
<1>1. cycle.pc = "idle" /\ cycle.jobs = {} /\ cycle.seen = {} /\ cycle.plans = <<>>
  BY DEF IdleCycle
<1>2. \A w \in Worker : worker[w].st = "idle" /\ ~worker[w].orphan
  BY DEF IdleWorker
<1>3. JobsPlannedOnce
  BY <1>1 DEF JobsPlannedOnce
<1>4. WorkersShareJobs
  BY <1>2 DEF WorkersShareJobs
<1>5. WritesAwaited
  BY <1>1, EmptySeq DEF WritesAwaited, IdleArchive
<1> QED
  BY <1>3, <1>4, <1>5 DEF Shared

LEMMA SharedCrash ==
  ASSUME Crash
  PROVE  Shared'
<1>1. /\ cycle' = IdleCycle /\ worker' = [w \in Worker |-> IdleWorker] /\ wq' = <<>>
      /\ archive' = IdleArchive
  BY DEF Crash
<1>2. cycle'.pc = "idle" /\ cycle'.jobs = {} /\ cycle'.seen = {} /\ cycle'.plans = <<>>
  BY <1>1 DEF IdleCycle
<1>3. \A w \in Worker : worker'[w].st = "idle" /\ ~worker'[w].orphan
  BY <1>1 DEF IdleWorker
<1>4. JobsPlannedOnce'
  BY <1>2 DEF JobsPlannedOnce
<1>5. WorkersShareJobs'
  BY <1>3 DEF WorkersShareJobs
<1>6. WritesAwaited'
  BY <1>1, <1>2, EmptySeq DEF WritesAwaited, IdleArchive
<1> QED
  BY <1>4, <1>5, <1>6 DEF Shared

LEMMA SharedNext ==
  ASSUME IInv, [Next]_vars, Undisturbed => Shared
  PROVE  (Undisturbed => Shared)'
<1> SUFFICES ASSUME Undisturbed' PROVE Shared'
  OBVIOUS
<1>1. /\ Shared /\ ~DiscoveryFails /\ ~FailBatch /\ \A m \in Match : ~ArchiveMatch(m)
  BY UndisturbedBefore
<1>2. ASSUME NEW m \in Match, Reschedule(m) \/ Progress(m)
      PROVE  Shared'
  BY <1>1, <1>2, SharedStays DEF Reschedule, Progress
<1>3. CASE Tick
  BY <1>1, <1>3, SharedStays DEF Tick
<1>4. CASE CycleStep
  BY <1>1, <1>4, SharedStart, SharedDiscover, SharedPlan, SharedControlSteps, SharedScan,
     SharedPersisted, SharedEnd DEF CycleStep
<1>5. ASSUME NEW w \in Worker, WorkerStep(w)
      PROVE  Shared'
  <2>1. ~OrphanNext(w)
    BY <1>1 DEF OrphanNext, Shared, WorkersShareJobs
  <2> QED
    BY <1>1, <1>5, <2>1, SharedTake, SharedWorkerSteps DEF WorkerStep
<1>6. ~ArchiveStep
  BY <1>1 DEF ArchiveStep, ArchiveFetch, ArchiveAttempt, ArchiveScore, Shared, WritesAwaited
<1>7. CASE CommitBatch
  BY <1>1, <1>7, SharedCommit
<1>8. CASE Crash
  BY <1>8, SharedCrash
<1>9. CASE UNCHANGED vars
  BY <1>1, <1>9, SharedStays DEF vars
<1> QED
  BY <1>1, <1>2, <1>3, <1>4, <1>5, <1>6, <1>7, <1>8, <1>9 DEF Next

\* run_once builds its list of jobs from three queries (the listed matches, the due scan and
\* the empty-finalized backfill) and hands it to max_concurrent_captures workers: as long as no
\* transaction failed and no archive job ran, none of them fetches a match another one has.
THEOREM OneCapture == Spec => []OneCapturePerMatch
<1>1. Init => (Undisturbed => Shared)
  BY SharedInit DEF Init
<1>2. IInv /\ [Next]_vars /\ (Undisturbed => Shared) => (Undisturbed => Shared)'
  BY SharedNext
<1>3. (Undisturbed => Shared) => OneCapturePerMatch
  <2> SUFFICES ASSUME Undisturbed => Shared, used.faults = 0, used.archives = 0
               PROVE  OneCapturePerMatch
    BY DEF OneCapturePerMatch
  <2>1. Shared
    BY DEF Undisturbed
  <2> QED
    BY <2>1 DEF Shared, JobsPlannedOnce, WorkersShareJobs, OneCapturePerMatch, LiveWorkers
<1> QED
  BY <1>1, <1>2, <1>3, Inductive, PTL DEF Spec

-----------------------------------------------------------------------------
(* A match is finalized late: what every pending write knows of the site.   *)

\* The matches that may be finalized.
Ended == {m \in Match : \/ site[m].status = "finished"
                        \/ row[m].kickoff # Null /\ now > FinalEnd(row[m].kickoff)}

\* Records that finalize none but those matches.
Late(S, ended) == {r \in S : r.finalized => r.match \in ended}
LateItem(ended) == AttemptItem \cup Late(ScheduleItem, ended)

KickoffsKept ==
  \A m \in Match :
    /\ site[m].former = site[m].kickoff
    /\ row[m].kickoff \in {Null, site[m].kickoff}
    /\ row[m].timing = "FINISHED" => site[m].status = "finished"

ListingsTrue ==
  cycle.pc = "plan" => \A l \in cycle.todo :
    /\ l.kickoff = site[l.match].kickoff
    /\ l.status = "finished" => site[l.match].status = "finished"

ClockForward == 0 <= now /\ cycle.now <= now

PendingAreLate ==
  /\ wq \in Seq(LateItem(Ended))
  /\ cycle.plans \in Seq(Late(ScheduleItem, Ended))
  /\ cycle.jobs \subseteq Late(Job, Ended)
  /\ orphans \subseteq Late(Job, Ended)
  /\ \A w \in Worker : worker[w].st # "idle" => worker[w].job \in Late(Job, Ended)

LateInv ==
  /\ KickoffsKept /\ ListingsTrue /\ ClockForward /\ PendingAreLate
  /\ archive.st = "idle"
  /\ FinalizedMeansWindowOver

LEMMA LateGrows ==
  ASSUME NEW ended, NEW later, ended \subseteq later
  PROVE  /\ LateItem(ended) \subseteq LateItem(later)
         /\ Late(ScheduleItem, ended) \subseteq Late(ScheduleItem, later)
         /\ Late(Job, ended) \subseteq Late(Job, later)
BY DEF LateItem, Late

LEMMA SeqGrows ==
  ASSUME NEW S, NEW T, S \subseteq T, NEW q \in Seq(S)
  PROVE  q \in Seq(T)
<1>1. /\ Len(q) \in Nat /\ \A i \in 1 .. Len(q) : q[i] \in T
      /\ q = [i \in 1 .. Len(q) |-> q[i]]
  BY ElementOfSeq, LenProperties
<1> QED
  BY <1>1

\* The sites keep their kickoff times and there is no archive job.
LEMMA NoMoves ==
  ASSUME IInv, MaxMoves = 0, MaxArchives = 0, NEW m \in Match
  PROVE  ~Reschedule(m) /\ ~ArchiveMatch(m)
<1>1. used.moves \in Nat /\ used.archives \in Nat
  BY DEF IInv, TypeOK, Used
<1>2. ~(used.moves < MaxMoves) /\ ~(used.archives < MaxArchives)
  BY <1>1
<1>3. Reschedule(m) => used.moves < MaxMoves
  BY DEF Reschedule
<1>4. ArchiveMatch(m) => used.archives < MaxArchives
  BY DEF ArchiveMatch
<1> QED
  BY <1>2, <1>3, <1>4

\* What the site and the clock say stays true.
LEMMA EndedGrows ==
  ASSUME IInv, IInv', ClockForward, now <= now',
         \A m \in Match : site[m].status = "finished" => site'[m].status = "finished",
         \A m \in Match : row[m].kickoff # Null => row'[m].kickoff = row[m].kickoff
  PROVE  Ended \subseteq Ended'
<1>1. ASSUME NEW m \in Match, row[m].kickoff # Null, now > FinalEnd(row[m].kickoff)
      PROVE  row'[m].kickoff # Null /\ now' > FinalEnd(row'[m].kickoff)
  <2>1. row[m].kickoff \in Int /\ row'[m].kickoff = row[m].kickoff /\ now \in Int /\ now' \in Int
    BY <1>1 DEF IInv, TypeOK, Row, Times
  <2> QED
    BY <1>1, <2>1, ConfigAssumption DEF FinalEnd
<1> QED
  BY <1>1 DEF Ended

LEMMA EndedWhenFinalized ==
  ASSUME NEW m \in Match
  PROVE  m \in Ended <=> \/ site[m].status = "finished"
                         \/ row[m].kickoff # Null /\ now > FinalEnd(row[m].kickoff)
BY DEF Ended

\* Nothing but the site, the clock or a table moves, and no write is added.
LEMMA LateStays ==
  ASSUME PendingAreLate, Ended \subseteq Ended', UNCHANGED <<orphans, wq, worker>>,
         cycle'.plans \in {cycle.plans, <<>>}, cycle'.jobs \subseteq cycle.jobs
  PROVE  PendingAreLate'
<1> USE DEF PendingAreLate
<1>1. /\ LateItem(Ended) \subseteq LateItem(Ended')
      /\ Late(ScheduleItem, Ended) \subseteq Late(ScheduleItem, Ended')
      /\ Late(Job, Ended) \subseteq Late(Job, Ended')
  BY LateGrows
<1>2. wq' \in Seq(LateItem(Ended'))
  BY <1>1, SeqGrows
<1>3. cycle'.plans \in Seq(Late(ScheduleItem, Ended'))
  BY <1>1, SeqGrows, EmptySeq
<1>4. /\ cycle'.jobs \subseteq Late(Job, Ended')
      /\ orphans' \subseteq Late(Job, Ended')
      /\ \A w \in Worker : worker'[w].st # "idle" => worker'[w].job \in Late(Job, Ended')
  BY <1>1
<1> QED
  BY <1>2, <1>3, <1>4

LEMMA InitLate ==
  ASSUME Init
  PROVE  LateInv
<1> USE DEF Init
<1>1. KickoffsKept
  BY DEF KickoffsKept, NoRow
<1>2. ListingsTrue
  BY DEF ListingsTrue, IdleCycle
<1>3. ClockForward
  BY DEF ClockForward, IdleCycle
<1>4. PendingAreLate
  BY EmptySeq DEF PendingAreLate, IdleCycle, IdleWorker
<1>5. archive.st = "idle" /\ FinalizedMeansWindowOver
  BY DEF IdleArchive, FinalizedMeansWindowOver, NoRow
<1> QED
  BY <1>1, <1>2, <1>3, <1>4, <1>5 DEF LateInv

LEMMA LateSite ==
  ASSUME IInv, IInv', LateInv, Tick \/ \E m \in Match : Progress(m)
  PROVE  LateInv'
<1> USE DEF LateInv
<1>1. /\ now \in Int /\ now' \in Int /\ now <= now'
      /\ UNCHANGED <<row, cycle, worker, orphans, wq, archive>>
  BY DEF IInv, TypeOK, Tick, Progress
<1>2. \A m \in Match : /\ site'[m].kickoff = site[m].kickoff
                       /\ site'[m].former = site[m].former
                       /\ site[m].status = "finished" => site'[m].status = "finished"
  <2>1. CASE Tick
    BY <2>1 DEF Tick
  <2>2. ASSUME NEW m \in Match, Progress(m)
        PROVE  \A x \in Match : /\ site'[x].kickoff = site[x].kickoff
                                /\ site'[x].former = site[x].former
                                /\ site[x].status = "finished" => site'[x].status = "finished"
    <3>1. site \in [Match -> Site]
      BY DEF IInv, TypeOK
    <3>2. PICK s \in {"live", "finished"} :
            site' = [site EXCEPT ![m].status = s] /\ site[m].status # "finished"
      BY <2>2 DEF Progress
    <3>3. \A x \in Match : site'[x] = IF x = m THEN [site[m] EXCEPT !.status = s] ELSE site[x]
      BY <3>1, <3>2
    <3>4. site[m] \in Site
      BY <3>1
    <3>5. /\ [site[m] EXCEPT !.status = s].kickoff = site[m].kickoff
          /\ [site[m] EXCEPT !.status = s].former = site[m].former
      BY <3>4 DEF Site
    <3> QED
      BY <3>2, <3>3, <3>5
  <2> QED
    BY <2>1, <2>2
<1>3. Ended \subseteq Ended'
  BY <1>1, <1>2, EndedGrows
<1>4. PendingAreLate'
  BY <1>1, <1>3, LateStays
<1>5. KickoffsKept'
  BY <1>1, <1>2 DEF KickoffsKept
<1>6. ListingsTrue'
  <2>1. \A l \in cycle.todo : l.match \in Match
    BY DEF IInv, TypeOK, Cycle, Listing
  <2> QED
    BY <1>1, <1>2, <2>1 DEF ListingsTrue
<1>7. ClockForward'
  <2>1. cycle.now \in Int
    BY DEF IInv, TypeOK, Cycle
  <2> QED
    BY <1>1, <2>1 DEF ClockForward
<1>8. FinalizedMeansWindowOver'
  BY <1>1, <1>3 DEF FinalizedMeansWindowOver, Ended
<1> QED
  BY <1>1, <1>4, <1>5, <1>6, <1>7, <1>8

\* A step that writes no kickoff, no status and no finalized_at.
LEMMA LateTables ==
  ASSUME IInv, LateInv, UNCHANGED <<now, site>>,
         \A m \in Match : /\ row'[m].kickoff = row[m].kickoff
                          /\ row'[m].finalized = row[m].finalized
                          /\ \/ row'[m].timing = row[m].timing
                             \/ site[m].status = "finished"
  PROVE  /\ KickoffsKept' /\ FinalizedMeansWindowOver'
         /\ Ended' = Ended
<1>1. KickoffsKept'
  BY DEF LateInv, KickoffsKept
<1>2. FinalizedMeansWindowOver'
  BY DEF LateInv, FinalizedMeansWindowOver
<1>3. Ended' = Ended
  BY DEF Ended
<1> QED
  BY <1>1, <1>2, <1>3

LEMMA LateControl ==
  ASSUME IInv, IInv', LateInv,
         \/ StartCycle \/ DiscoveryFails \/ ListResultCandidates \/ ResultsDone
         \/ PlansPersisted \/ EndCycle
  PROVE  LateInv'
<1> USE DEF LateInv
<1>1. UNCHANGED <<now, site, row, worker, orphans, wq, archive>>
  BY DEF StartCycle, DiscoveryFails, ListResultCandidates, ResultsDone, PlansPersisted, EndCycle
<1>2. cycle \in Cycle /\ now \in Int
  BY DEF IInv, TypeOK
<1>3. /\ cycle'.pc # "plan" /\ cycle'.now \in {cycle.now, now, 0}
      /\ cycle'.plans \in {cycle.plans, <<>>} /\ cycle'.jobs \subseteq cycle.jobs
  <2>1. CASE StartCycle
    BY <2>1 DEF StartCycle, IdleCycle
  <2>2. CASE DiscoveryFails \/ EndCycle
    BY <2>2 DEF DiscoveryFails, EndCycle, IdleCycle
  <2>3. CASE ListResultCandidates \/ ResultsDone \/ PlansPersisted
    BY <1>2, <2>3 DEF ListResultCandidates, ResultsDone, PlansPersisted, Cycle
  <2> QED
    BY <2>1, <2>2, <2>3
<1>4. KickoffsKept' /\ FinalizedMeansWindowOver' /\ Ended' = Ended
  BY <1>1, LateTables
<1>5. PendingAreLate'
  BY <1>1, <1>3, <1>4, LateStays
<1>6. ListingsTrue' /\ ClockForward'
  BY <1>1, <1>2, <1>3 DEF ListingsTrue, ClockForward
<1> QED
  BY <1>1, <1>4, <1>5, <1>6

LEMMA LateDiscover ==
  ASSUME IInv, IInv', LateInv, Discover
  PROVE  LateInv'
<1> USE DEF LateInv
<1>1. PICK found \in SUBSET Match : \E fresh \in SUBSET found :
        cycle' = [cycle EXCEPT
          !.pc = "plan",
          !.todo = {[match |-> m, kickoff |-> site[m].kickoff,
                     status |-> IF m \in fresh THEN site[m].status ELSE "scheduled"] :
                       m \in found}]
  BY DEF Discover
<1>2. PICK fresh \in SUBSET found :
        cycle' = [cycle EXCEPT
          !.pc = "plan",
          !.todo = {[match |-> m, kickoff |-> site[m].kickoff,
                     status |-> IF m \in fresh THEN site[m].status ELSE "scheduled"] :
                       m \in found}]
  BY <1>1
<1> DEFINE T == {[match |-> m, kickoff |-> site[m].kickoff,
                  status |-> IF m \in fresh THEN site[m].status ELSE "scheduled"] : m \in found}
<1>3. \A l \in T : /\ l.kickoff = site[l.match].kickoff
                   /\ l.status = "finished" => site[l.match].status = "finished"
  OBVIOUS
<1>4. cycle' = [cycle EXCEPT !.pc = "plan", !.todo = T]
  BY <1>2
<1> HIDE DEF T
<1>5. UNCHANGED <<now, site, row, worker, orphans, wq, archive>> /\ cycle \in Cycle
  BY DEF Discover, IInv, TypeOK
<1>6. /\ cycle'.todo = T /\ cycle'.now = cycle.now
      /\ cycle'.plans = cycle.plans /\ cycle'.jobs = cycle.jobs
  BY <1>4, <1>5 DEF Cycle
<1>7. KickoffsKept' /\ FinalizedMeansWindowOver' /\ Ended' = Ended
  BY <1>5, LateTables
<1>8. PendingAreLate'
  BY <1>5, <1>6, <1>7, LateStays
<1>9. ListingsTrue' /\ ClockForward'
  BY <1>3, <1>5, <1>6 DEF ListingsTrue, ClockForward
<1> QED
  BY <1>5, <1>7, <1>8, <1>9

LEMMA LateCheck ==
  ASSUME IInv, IInv', LateInv, CheckResult
  PROVE  LateInv'
<1> USE DEF LateInv
<1>1. PICK l \in cycle.todo :
        /\ \/ row' = [row EXCEPT ![l.match] =
                        IF site[l.match].status = "finished" /\ ~@.result
                        THEN ResultMarked(@) ELSE @]
           \/ row' = row
        /\ cycle' = [cycle EXCEPT !.todo = @ \ {l}]
  BY DEF CheckResult
<1>2. /\ UNCHANGED <<now, site, worker, orphans, wq, archive>>
      /\ cycle \in Cycle /\ cycle.pc = "results" /\ row \in [Match -> Row]
  BY DEF CheckResult, IInv, TypeOK
<1>3. l.match \in Match
  BY <1>2 DEF Cycle, Listing
<1>4. ASSUME NEW r \in Row
      PROVE  ResultMarked(r).kickoff = r.kickoff /\ ResultMarked(r).finalized = r.finalized
  BY DEF ResultMarked, Row
<1>5. \A m \in Match : /\ row'[m].kickoff = row[m].kickoff
                       /\ row'[m].finalized = row[m].finalized
                       /\ row'[m].timing = row[m].timing \/ site[m].status = "finished"
  BY <1>1, <1>2, <1>3, <1>4
<1>6. /\ cycle'.pc = "results" /\ cycle'.now = cycle.now
      /\ cycle'.plans = cycle.plans /\ cycle'.jobs = cycle.jobs
  BY <1>1, <1>2 DEF Cycle
<1>7. KickoffsKept' /\ FinalizedMeansWindowOver' /\ Ended' = Ended
  BY <1>2, <1>5, LateTables
<1>8. PendingAreLate'
  BY <1>2, <1>6, <1>7, LateStays
<1>9. ListingsTrue' /\ ClockForward'
  BY <1>2, <1>6 DEF ListingsTrue, ClockForward
<1> QED
  BY <1>2, <1>7, <1>8, <1>9

\* Only the site's word makes a timing FINISHED.
LEMMA TimingFinished ==
  ASSUME NEW kickoff \in Times, NEW at \in Int, NEW isLive \in BOOLEAN,
         NEW isFinished \in BOOLEAN,
         ClassifyTiming(kickoff, at, isLive, isFinished) = "FINISHED"
  PROVE  isFinished
<1> SUFFICES ASSUME ~isFinished PROVE FALSE
  OBVIOUS
<1>1. CASE isLive
  BY <1>1 DEF ClassifyTiming
<1>2. CASE ~isLive
  BY <1>2, NullAssumption, ConfigAssumption DEF ClassifyTiming, Times
<1> QED
  BY <1>1, <1>2

LEMMA LatePlan ==
  ASSUME NEW m \in Match, NEW ended, NEW d, NEW kind,
         PlanWrite(m, d) \in ScheduleItem, PlanJobs(m, d, kind) \subseteq Job,
         d.finalized => m \in ended
  PROVE  /\ PlanWrite(m, d) \in Late(ScheduleItem, ended)
         /\ PlanJobs(m, d, kind) \subseteq Late(Job, ended)
<1>1. PlanWrite(m, d) \in Late(ScheduleItem, ended)
  BY DEF PlanWrite, ScheduleWrite, Late
<1>2. CASE d.capture
  <2>1. \A j \in PlanJobs(m, d, kind) : j.match = m /\ j.finalized = d.finalized
    BY <1>2 DEF PlanJobs
  <2> QED
    BY <1>1, <2>1 DEF Late
<1>3. CASE ~d.capture
  BY <1>1, <1>3 DEF PlanJobs
<1> QED
  BY <1>1, <1>2, <1>3

LEMMA LatePlanMatch ==
  ASSUME IInv, IInv', LateInv, PlanMatch
  PROVE  LateInv'
<1> USE DEF LateInv
<1>0. /\ cycle \in Cycle /\ row \in [Match -> Row] /\ site \in [Match -> Site] /\ now \in Int
      /\ cycle.pc = "plan" /\ UNCHANGED <<now, site, worker, orphans, wq, archive>>
  BY DEF IInv, TypeOK, PlanMatch
<1>1. PICK l \in cycle.todo, scored \in BOOLEAN : \E k \in EnrichedKickoffs(l, cycle.now) :
        LET m      == l.match
            timing == ClassifyTiming(k, cycle.now, l.status = "live", l.status = "finished")
            old    == row[m]
            d      == Plan(k, timing, cycle.now, old.next, old.finalized, old.captured)
        IN  /\ row' = [row EXCEPT ![m] =
                 [Upserted(old, k, timing) EXCEPT
                    !.result = @ \/ (scored /\ ResultDue(k, l.status, cycle.now, old))]]
            /\ cycle' = [cycle EXCEPT
                 !.todo = @ \ {l}, !.seen = @ \cup {m},
                 !.plans = Append(@, PlanWrite(m, d)), !.jobs = @ \cup PlanJobs(m, d, "listed")]
  BY DEF PlanMatch
<1>2. PICK k \in EnrichedKickoffs(l, cycle.now) :
        LET m      == l.match
            timing == ClassifyTiming(k, cycle.now, l.status = "live", l.status = "finished")
            old    == row[m]
            d      == Plan(k, timing, cycle.now, old.next, old.finalized, old.captured)
        IN  /\ row' = [row EXCEPT ![m] =
                 [Upserted(old, k, timing) EXCEPT
                    !.result = @ \/ (scored /\ ResultDue(k, l.status, cycle.now, old))]]
            /\ cycle' = [cycle EXCEPT
                 !.todo = @ \ {l}, !.seen = @ \cup {m},
                 !.plans = Append(@, PlanWrite(m, d)), !.jobs = @ \cup PlanJobs(m, d, "listed")]
  BY <1>1
<1> DEFINE m == l.match
           timing == ClassifyTiming(k, cycle.now, l.status = "live", l.status = "finished")
           d == Plan(k, timing, cycle.now, row[m].next, row[m].finalized, row[m].captured)
           r == [Upserted(row[m], k, timing) EXCEPT
                   !.result = @ \/ (scored /\ ResultDue(k, l.status, cycle.now, row[m]))]
<1>3. /\ row' = [row EXCEPT ![m] = r]
      /\ cycle' = [cycle EXCEPT
           !.todo = @ \ {l}, !.seen = @ \cup {m},
           !.plans = Append(@, PlanWrite(m, d)), !.jobs = @ \cup PlanJobs(m, d, "listed")]
  BY <1>2
<1>4. l \in Listing /\ m \in Match /\ row[m] \in Row /\ cycle.now \in Int
  BY <1>0 DEF Cycle, Listing
\* The listing, the match page and the row show the same kickoff time.
<1>5. k = site[m].kickoff /\ k \in Times
  BY <1>0, <1>4 DEF EnrichedKickoffs, PageKickoffs, KickoffsKept, ListingsTrue, Site
<1>6. timing \in Timing
  BY <1>4, <1>5, TimingType
<1>7. PlanWrite(m, d) \in ScheduleItem /\ PlanJobs(m, d, "listed") \subseteq Job
  BY <1>4, <1>5, <1>6, PlanIsSafe DEF SafePlan, SafeJob
<1>8. timing = "FINISHED" => site[m].status = "finished"
  <2>1. timing = "FINISHED" => l.status = "finished"
    BY <1>4, <1>5, TimingFinished
  <2> QED
    BY <1>0, <2>1 DEF ListingsTrue
<1>9. d.finalized => \/ row[m].finalized
                     \/ timing = "FINISHED"
                     \/ k # Null /\ cycle.now > FinalEnd(k)
  <2>1. row[m].next \in Times /\ row[m].finalized \in BOOLEAN /\ row[m].captured \in BOOLEAN
    BY <1>4 DEF Row
  <2> QED
    BY <1>4, <1>5, <1>6, <2>1, PlanFinalizesLate
<1>10. /\ r.kickoff = k /\ r.timing = timing /\ r.finalized = row[m].finalized
  BY <1>4 DEF Upserted, Row
<1> HIDE DEF m, d, timing, r
<1>11. \A x \in Match : row'[x] = IF x = m THEN r ELSE row[x]
  BY <1>0, <1>3
<1>12. KickoffsKept'
  BY <1>0, <1>5, <1>8, <1>10, <1>11 DEF KickoffsKept
<1>13. Ended \subseteq Ended'
  <2>1. \A x \in Match : row[x].kickoff # Null => row'[x].kickoff = row[x].kickoff
    BY <1>5, <1>10, <1>11 DEF KickoffsKept
  <2>2. now <= now'
    BY <1>0
  <2> QED
    BY <1>0, <2>1, <2>2, EndedGrows
<1>14. FinalizedMeansWindowOver'
  <2>1. \A x \in Match : row'[x].finalized => x \in Ended
    BY <1>10, <1>11 DEF FinalizedMeansWindowOver, Ended
  <2> QED
    BY <1>13, <2>1 DEF FinalizedMeansWindowOver, Ended
<1>15. d.finalized => m \in Ended'
  <2>1. CASE row[m].finalized
    BY <1>4, <1>13, <2>1 DEF m, FinalizedMeansWindowOver, Ended
  <2>2. CASE timing = "FINISHED"
    BY <1>0, <1>4, <1>8, <2>2 DEF m, Ended
  <2>3. CASE k # Null /\ cycle.now > FinalEnd(k)
    <3>1. now > FinalEnd(k)
      <4>1. cycle.now \in Int /\ now \in Int /\ cycle.now <= now /\ FinalEnd(k) \in Int
        BY <1>0, <1>4, <1>5, <2>3, ConfigAssumption DEF ClockForward, FinalEnd, Times
      <4> QED
        BY <2>3, <4>1
    <3>2. row'[m].kickoff = k /\ m \in Match
      BY <1>4, <1>10, <1>11 DEF m
    <3> QED
      BY <1>0, <2>3, <3>1, <3>2 DEF Ended
  <2> QED
    BY <1>9, <2>1, <2>2, <2>3
<1>16. /\ PlanWrite(m, d) \in Late(ScheduleItem, Ended')
       /\ PlanJobs(m, d, "listed") \subseteq Late(Job, Ended')
  BY <1>4, <1>7, <1>15, LatePlan DEF m
<1>17. /\ cycle'.pc = "plan" /\ cycle'.now = cycle.now
       /\ cycle'.todo = cycle.todo \ {l}
       /\ cycle'.plans = Append(cycle.plans, PlanWrite(m, d))
       /\ cycle'.jobs = cycle.jobs \cup PlanJobs(m, d, "listed")
  BY <1>0, <1>3 DEF Cycle
<1>18. ListingsTrue' /\ ClockForward'
  BY <1>0, <1>17 DEF ListingsTrue, ClockForward
<1>19. PendingAreLate'
  <2>1. /\ LateItem(Ended) \subseteq LateItem(Ended')
        /\ Late(ScheduleItem, Ended) \subseteq Late(ScheduleItem, Ended')
        /\ Late(Job, Ended) \subseteq Late(Job, Ended')
    BY <1>13, LateGrows
  <2>2. wq' \in Seq(LateItem(Ended'))
    BY <1>0, <2>1, SeqGrows DEF PendingAreLate
  <2>3. cycle.plans \in Seq(Late(ScheduleItem, Ended'))
    BY <2>1, SeqGrows DEF PendingAreLate
  <2>4. cycle'.plans \in Seq(Late(ScheduleItem, Ended'))
    BY <1>16, <1>17, <2>3, AppendProperties
  <2>5. /\ cycle'.jobs \subseteq Late(Job, Ended')
        /\ orphans' \subseteq Late(Job, Ended')
        /\ \A w \in Worker : worker'[w].st # "idle" => worker'[w].job \in Late(Job, Ended')
    BY <1>0, <1>16, <1>17, <2>1 DEF PendingAreLate
  <2> QED
    BY <2>2, <2>4, <2>5 DEF PendingAreLate
<1> QED
  BY <1>0, <1>12, <1>14, <1>18, <1>19

LEMMA LateScan ==
  ASSUME IInv, IInv', LateInv, ScanDue
  PROVE  LateInv'
<1> USE DEF LateInv
<1>0. /\ cycle \in Cycle /\ row \in [Match -> Row] /\ now \in Int
      /\ UNCHANGED <<now, site, row, worker, orphans, archive>>
  BY DEF IInv, TypeOK, ScanDue
<1>1. PICK order \in [1 .. Cardinality(DueUnseen) -> DueUnseen], chosen \in SUBSET Match :
        /\ Backfill(chosen)
        /\ cycle' = [cycle EXCEPT
             !.pc = "persist", !.todo = {}, !.seen = {}, !.plans = <<>>,
             !.jobs = @ \cup BackfillJobs(chosen)
                        \cup UNION {PlanJobs(m, StoredPlan(m), "due") : m \in DueUnseen}]
        /\ wq' = wq \o cycle.plans
                    \o [i \in DOMAIN order |-> PlanWrite(order[i], StoredPlan(order[i]))]
  BY DEF ScanDue
<1> DEFINE duePlans == [i \in DOMAIN order |-> PlanWrite(order[i], StoredPlan(order[i]))]
           dueJobs == UNION {PlanJobs(m, StoredPlan(m), "due") : m \in DueUnseen}
           newJobs == cycle.jobs \cup BackfillJobs(chosen) \cup dueJobs
<1>2. DueUnseen \subseteq Match
  BY DEF DueUnseen
<1>3. ASSUME NEW m \in Match
      PROVE  /\ PlanWrite(m, StoredPlan(m)) \in Late(ScheduleItem, Ended)
             /\ PlanJobs(m, StoredPlan(m), "due") \subseteq Late(Job, Ended)
  <2> DEFINE t == ClassifyTiming(row[m].kickoff, cycle.now, row[m].timing = "LIVE",
                                 row[m].timing = "FINISHED")
  <2>1. /\ row[m].kickoff \in Times /\ cycle.now \in Int /\ row[m].next \in Times
        /\ row[m].finalized \in BOOLEAN /\ row[m].captured \in BOOLEAN
    BY <1>0 DEF Row, Cycle
  <2>2. t \in Timing
    BY <2>1, TimingType
  <2>3. t = "FINISHED" => site[m].status = "finished"
    BY <2>1, TimingFinished DEF KickoffsKept
  <2> HIDE DEF t
  <2>4. StoredPlan(m) = Plan(row[m].kickoff, t, cycle.now, row[m].next, row[m].finalized,
                             row[m].captured)
    BY DEF StoredPlan, t
  <2>5. StoredPlan(m).finalized => \/ row[m].finalized
                                   \/ t = "FINISHED"
                                   \/ /\ row[m].kickoff # Null
                                      /\ cycle.now > FinalEnd(row[m].kickoff)
    BY <2>1, <2>2, <2>4, PlanFinalizesLate
  <2>6. cycle.now > FinalEnd(row[m].kickoff) /\ row[m].kickoff # Null
          => now > FinalEnd(row[m].kickoff)
    <3>1. row[m].kickoff # Null => FinalEnd(row[m].kickoff) \in Int
      BY <2>1, ConfigAssumption DEF FinalEnd, Times
    <3> QED
      BY <1>0, <2>1, <3>1 DEF ClockForward
  <2>7. StoredPlan(m).finalized => m \in Ended
    BY <2>3, <2>5, <2>6 DEF Ended, FinalizedMeansWindowOver
  <2>8. PlanWrite(m, StoredPlan(m)) \in ScheduleItem /\ PlanJobs(m, StoredPlan(m), "due") \subseteq Job
    BY StoredPlanIsSafe DEF IInv, SafePlan, SafeJob
  <2> QED
    BY <2>7, <2>8, LatePlan
<1>4. duePlans \in Seq(Late(ScheduleItem, Ended))
  <2>1. Cardinality(DueUnseen) \in Nat
    BY <1>2, MatchAssumption, FS_Subset, FS_CardinalityType
  <2>2. \A i \in 1 .. Cardinality(DueUnseen) :
          PlanWrite(order[i], StoredPlan(order[i])) \in Late(ScheduleItem, Ended)
    BY <1>2, <1>3
  <2> QED
    BY <2>1, <2>2
<1>5. dueJobs \subseteq Late(Job, Ended)
  BY <1>2, <1>3
<1>6. BackfillJobs(chosen) \subseteq Late(Job, Ended)
  <2>1. \A j \in BackfillJobs(chosen) : \E m \in Match : j = BackfillJob(m) /\ EmptyFinalized(m, cycle.now)
    BY <1>1 DEF BackfillJobs, Backfill, NewestOf
  <2>2. \A m \in Match : BackfillJob(m).match = m /\ BackfillJob(m) \in Job
    BY DEF BackfillJob, Job, Times, Phase, PlannedPhase
  <2>3. \A m \in Match : EmptyFinalized(m, cycle.now) => m \in Ended
    BY DEF EmptyFinalized, Ended, FinalizedMeansWindowOver
  <2> QED
    BY <2>1, <2>2, <2>3 DEF Late
<1>7. newJobs \subseteq Late(Job, Ended)
  BY <1>5, <1>6 DEF PendingAreLate
<1>8. /\ cycle' = [cycle EXCEPT !.pc = "persist", !.todo = {}, !.seen = {}, !.plans = <<>>,
                               !.jobs = newJobs]
      /\ wq' = wq \o cycle.plans \o duePlans
  BY <1>1
<1> HIDE DEF duePlans, newJobs
<1>9. /\ cycle'.pc = "persist" /\ cycle'.now = cycle.now /\ cycle'.plans = <<>>
      /\ cycle'.jobs = newJobs
  BY <1>0, <1>8 DEF Cycle
<1>10. KickoffsKept' /\ FinalizedMeansWindowOver' /\ Ended' = Ended
  BY <1>0, LateTables
<1>11. ListingsTrue' /\ ClockForward'
  BY <1>0, <1>9 DEF ListingsTrue, ClockForward
<1>12. wq' \in Seq(LateItem(Ended))
  <2>1. Late(ScheduleItem, Ended) \subseteq LateItem(Ended)
    BY DEF LateItem
  <2>2. /\ wq \in Seq(LateItem(Ended)) /\ cycle.plans \in Seq(LateItem(Ended))
        /\ duePlans \in Seq(LateItem(Ended))
    BY <1>4, <2>1, SeqGrows DEF PendingAreLate
  <2>3. wq \o cycle.plans \in Seq(LateItem(Ended))
    BY <2>2, ConcatProperties
  <2> QED
    BY <1>8, <2>2, <2>3, ConcatProperties
<1>13. PendingAreLate'
  BY <1>0, <1>7, <1>9, <1>10, <1>12, EmptySeq DEF PendingAreLate
<1> QED
  BY <1>0, <1>10, <1>11, <1>13

\* A worker, and the queue behind it, moves on.
LEMMA LateActors ==
  ASSUME IInv, LateInv, UNCHANGED <<now, site, row, archive>>,
         cycle' = cycle \/ (cycle'.pc # "plan" /\ cycle'.now = cycle.now /\ cycle'.plans = cycle.plans),
         cycle'.jobs \subseteq cycle.jobs,
         orphans' \subseteq orphans,
         wq' \in Seq(LateItem(Ended)),
         \A w \in Worker : worker'[w].st # "idle" => worker'[w].job \in Late(Job, Ended)
  PROVE  LateInv'
<1>1. KickoffsKept' /\ FinalizedMeansWindowOver' /\ Ended' = Ended
  BY LateTables
<1>2. ListingsTrue' /\ ClockForward'
  BY DEF LateInv, ListingsTrue, ClockForward
<1>3. PendingAreLate'
  BY <1>1 DEF LateInv, PendingAreLate
<1> QED
  BY <1>1, <1>2, <1>3 DEF LateInv

LEMMA LateWorkerSteps ==
  ASSUME IInv, LateInv, NEW w \in Worker, WorkerStep(w)
  PROVE  LateInv'
<1>1. /\ UNCHANGED <<now, site, row, archive>> /\ cycle \in Cycle
      /\ worker[w] \in WorkerState /\ worker \in [Worker -> WorkerState]
  BY DEF IInv, TypeOK, WorkerStep, TakeJob, OrphanNext, SubmitAttempt, SubmitSchedule, FinishJob
<1>2. /\ wq \in Seq(LateItem(Ended)) /\ cycle.jobs \subseteq Late(Job, Ended)
      /\ orphans \subseteq Late(Job, Ended)
      /\ \A v \in Worker : worker[v].st # "idle" => worker[v].job \in Late(Job, Ended)
  BY DEF LateInv, PendingAreLate
<1>3. CASE TakeJob(w)
  <2>1. PICK j \in cycle.jobs :
          /\ worker' = [worker EXCEPT ![w] = Fetching(j, FALSE)]
          /\ cycle' = [cycle EXCEPT !.jobs = @ \ {j}]
    BY <1>3 DEF TakeJob
  <2>2. /\ cycle'.pc = "capture" /\ cycle'.now = cycle.now /\ cycle'.plans = cycle.plans
        /\ cycle'.jobs \subseteq cycle.jobs
    BY <1>1, <1>3, <2>1 DEF TakeJob, Cycle
  <2>3. \A v \in Worker : worker'[v].st # "idle" => worker'[v].job \in Late(Job, Ended)
    BY <1>1, <1>2, <2>1 DEF Fetching
  <2> QED
    BY <1>1, <1>2, <1>3, <2>2, <2>3, LateActors DEF TakeJob
<1>4. CASE OrphanNext(w)
  <2>1. \A v \in Worker : worker'[v].st # "idle" => worker'[v].job \in Late(Job, Ended)
    <3>1. CASE worker' = [worker EXCEPT ![w] = IdleWorker]
      BY <1>1, <1>2, <3>1 DEF IdleWorker
    <3>2. ASSUME NEW j \in orphans, worker' = [worker EXCEPT ![w] = Fetching(j, TRUE)]
          PROVE  \A v \in Worker : worker'[v].st # "idle" => worker'[v].job \in Late(Job, Ended)
      BY <1>1, <1>2, <3>2 DEF Fetching
    <3> QED
      BY <1>4, <3>1, <3>2 DEF OrphanNext
  <2>2. orphans' \subseteq orphans /\ UNCHANGED <<cycle, wq>>
    BY <1>4 DEF OrphanNext
  <2> QED
    BY <1>1, <1>2, <2>1, <2>2, LateActors
<1>5. CASE SubmitAttempt(w)
  <2>1. worker[w].st = "fetch" /\ worker[w].job \in Job
    BY <1>1, <1>5 DEF SubmitAttempt, WorkerState
  <2>2. AttemptWrite(worker[w].job.match, w) \in LateItem(Ended)
    BY <2>1 DEF AttemptWrite, LateItem, AttemptItem, Job, Actor
  <2>3. wq' \in Seq(LateItem(Ended))
    BY <1>2, <1>5, <2>2, AppendProperties DEF SubmitAttempt
  <2>4. /\ worker'[w].job = worker[w].job
        /\ \A v \in Worker \ {w} : worker'[v] = worker[v]
    BY <1>1, <1>5, <2>1 DEF SubmitAttempt, WorkerState
  <2>5. \A v \in Worker : worker'[v].st # "idle" => worker'[v].job \in Late(Job, Ended)
    BY <1>2, <2>1, <2>4
  <2> QED
    BY <1>1, <1>5, <2>3, <2>5, LateActors DEF SubmitAttempt
<1>6. CASE SubmitSchedule(w)
  <2> DEFINE j == worker[w].job
             i == ScheduleWrite(j.match, IF j.finalized THEN "FINALIZED" ELSE j.phase,
                                j.next, j.finalized, TRUE, w)
  <2>1. worker[w].st = "attempt" /\ j \in Job /\ j \in Late(Job, Ended)
    BY <1>1, <1>2, <1>6 DEF SubmitSchedule, WorkerState
  <2>2. i \in ScheduleItem
    BY <2>1 DEF ScheduleWrite, ScheduleItem, Job, Actor, Phase, PlannedPhase
  <2>3. i.finalized => i.match \in Ended
    BY <2>1 DEF ScheduleWrite, Late
  <2>4. wq' = Append(wq, i)
    BY <1>6 DEF SubmitSchedule
  <2>5. /\ worker'[w].job = worker[w].job
        /\ \A v \in Worker \ {w} : worker'[v] = worker[v]
    BY <1>1, <1>6, <2>1 DEF SubmitSchedule, WorkerState
  <2> HIDE DEF i
  <2>6. wq' \in Seq(LateItem(Ended))
    BY <1>2, <2>2, <2>3, <2>4, AppendProperties DEF LateItem, Late
  <2>7. \A v \in Worker : worker'[v].st # "idle" => worker'[v].job \in Late(Job, Ended)
    BY <1>2, <2>1, <2>5
  <2> QED
    BY <1>1, <1>6, <2>6, <2>7, LateActors DEF SubmitSchedule
<1>7. CASE FinishJob(w)
  <2>1. \A v \in Worker : worker'[v].st # "idle" => worker'[v].job \in Late(Job, Ended)
    BY <1>1, <1>2, <1>7 DEF FinishJob
  <2> QED
    BY <1>1, <1>2, <1>7, <2>1, LateActors DEF FinishJob
<1> QED
  BY <1>3, <1>4, <1>5, <1>6, <1>7 DEF WorkerStep

LEMMA LateRest ==
  ASSUME IInv, LateInv, NEW n \in BatchLengths
  PROVE  /\ Rest(n) \in Seq(LateItem(Ended))
         /\ \A k \in 1 .. n : wq[k] \in LateItem(Ended)
<1>1. wq \in Seq(LateItem(Ended)) /\ Len(wq) \in Nat
  BY LenProperties DEF LateInv, PendingAreLate
<1>2. n \in 1 .. Len(wq)
  BY <1>1, SizeAssumption DEF BatchLengths
<1>3. Rest(n) \in Seq(LateItem(Ended))
  BY <1>1, <1>2, RestOfQueue DEF Rest
<1>4. \A k \in 1 .. n : wq[k] \in LateItem(Ended)
  BY <1>1, <1>2, ElementOfSeq
<1> QED
  BY <1>3, <1>4

LEMMA LateCommit ==
  ASSUME IInv, LateInv, CommitBatch
  PROVE  LateInv'
<1>1. PICK n \in BatchLengths : \E last \in [Match -> 0 .. n] :
        /\ row' = [m \in Match |-> Committed(m, n, last[m])]
        /\ wq' = Rest(n)
  BY DEF CommitBatch
<1>2. PICK last \in [Match -> 0 .. n] :
        /\ row' = [m \in Match |-> Committed(m, n, last[m])]
        /\ wq' = Rest(n)
  BY <1>1
<1>3. /\ UNCHANGED <<now, site, cycle, worker, orphans, archive>> /\ row \in [Match -> Row]
  BY DEF CommitBatch, IInv, TypeOK
<1>4. ASSUME NEW m \in Match
      PROVE  /\ row'[m].kickoff = row[m].kickoff /\ row'[m].timing = row[m].timing
             /\ row'[m].finalized => m \in Ended
  <2>1. row[m] \in Row /\ row'[m] = Committed(m, n, last[m])
    BY <1>2, <1>3
  <2> DEFINE f == row[m].finalized \/ \E k \in Schedules(m, n) : wq[k].finalized
  <2>2. /\ row'[m].kickoff = row[m].kickoff /\ row'[m].timing = row[m].timing
        /\ row'[m].finalized = f
    BY <2>1 DEF Committed, Row
  <2>3. ASSUME NEW k \in Schedules(m, n), wq[k].finalized
        PROVE  m \in Ended
    <3>1. wq[k] \in LateItem(Ended) /\ wq[k].kind = "schedule" /\ wq[k].match = m
      BY LateRest DEF Schedules
    <3>2. wq[k] \in Late(ScheduleItem, Ended)
      BY <3>1 DEF LateItem, AttemptItem
    <3> QED
      BY <2>3, <3>1, <3>2 DEF Late
  <2>4. row[m].finalized => m \in Ended
    BY DEF LateInv, FinalizedMeansWindowOver, Ended
  <2> QED
    BY <2>2, <2>3, <2>4
<1>5. Ended' = Ended
  BY <1>3, <1>4 DEF Ended
<1>6. KickoffsKept' /\ ListingsTrue' /\ ClockForward'
  BY <1>3, <1>4 DEF LateInv, KickoffsKept, ListingsTrue, ClockForward
<1>7. FinalizedMeansWindowOver'
  BY <1>4, <1>5 DEF FinalizedMeansWindowOver, Ended
<1>8. PendingAreLate'
  BY <1>2, <1>3, <1>5, LateRest DEF LateInv, PendingAreLate
<1> QED
  BY <1>3, <1>6, <1>7, <1>8 DEF LateInv

LEMMA LateDisowned ==
  ASSUME NEW ended, NEW q \in Seq(LateItem(ended)), NEW actor \in Actor
  PROVE  Disowned(q, actor) \in Seq(LateItem(ended))
<1>1. \A i \in DOMAIN q : q[i] \in LateItem(ended)
  BY ElementOfSeq, LenProperties
<1>2. ASSUME NEW x \in LateItem(ended)
      PROVE  [x EXCEPT !.by = "none"] \in LateItem(ended)
  BY DEF LateItem, AttemptItem, Late, ScheduleItem, Actor
<1>3. \A i \in DOMAIN q : Disowned(q, actor)[i] \in LateItem(ended)
  BY <1>1, <1>2 DEF Disowned
<1>4. DOMAIN q = 1 .. Len(q) /\ Len(q) \in Nat
  BY LenProperties
<1>5. Disowned(q, actor) = [i \in 1 .. Len(q) |-> Disowned(q, actor)[i]]
  BY <1>4 DEF Disowned
<1> QED
  BY <1>3, <1>4, <1>5

\* What a failed cycle leaves behind are the jobs and writes it had.
LEMMA LateFail ==
  ASSUME IInv, LateInv, FailBatch
  PROVE  LateInv'
<1>1. PICK n \in BatchLengths :
        /\ \A w \in Worker : \/ worker'[w] = IdleWorker
                              \/ worker'[w] = [worker[w] EXCEPT !.orphan = TRUE]
                              \/ worker'[w] = worker[w]
        /\ orphans' \in {orphans, orphans \cup cycle.jobs}
        /\ cycle' \in {cycle, IdleCycle}
        /\ wq' \in {Rest(n), Disowned(Rest(n), "cycle")}
        /\ archive' \in {archive, IdleArchive}
  <2>1. PICK n \in BatchLengths :
          LET raised    == {wq[i].by : i \in {k \in 1 .. n : wq[k].kind = "schedule"}}
              cycleFails == \/ "cycle" \in raised
                            \/ \E w \in LiveWorkers : w \in raised
              left      == LiveWorkers \ raised
          IN  /\ worker' = [w \in Worker |->
                   CASE w \in raised -> IdleWorker
                     [] w \notin raised /\ cycleFails /\ w \in left -> [worker[w] EXCEPT !.orphan = TRUE]
                     [] OTHER -> worker[w]]
              /\ orphans' = IF cycleFails /\ left # {} THEN orphans \cup cycle.jobs ELSE orphans
              /\ cycle' = IF cycleFails THEN IdleCycle ELSE cycle
              /\ wq' = IF cycleFails THEN Disowned(Rest(n), "cycle") ELSE Rest(n)
              /\ archive' = IF "archive" \in raised THEN IdleArchive ELSE archive
    BY DEF FailBatch
  <2> QED
    BY <2>1
<1>2. UNCHANGED <<now, site, row>> /\ now \in Int
  BY DEF FailBatch, IInv, TypeOK
<1>3. KickoffsKept' /\ FinalizedMeansWindowOver' /\ Ended' = Ended
  BY <1>2, LateTables
<1>4. ListingsTrue' /\ ClockForward' /\ archive'.st = "idle"
  BY <1>1, <1>2 DEF LateInv, ListingsTrue, ClockForward, IdleCycle, IdleArchive
<1>5. wq' \in Seq(LateItem(Ended))
  BY <1>1, LateRest, LateDisowned DEF Actor
<1>6. ASSUME NEW w \in Worker, worker'[w].st # "idle"
      PROVE  worker'[w].job \in Late(Job, Ended)
  <2>1. worker[w] \in WorkerState /\ (worker[w].st # "idle" => worker[w].job \in Late(Job, Ended))
    BY DEF IInv, TypeOK, LateInv, PendingAreLate
  <2>2. IdleWorker.st = "idle"
    BY DEF IdleWorker
  <2>3. /\ [worker[w] EXCEPT !.orphan = TRUE].st = worker[w].st
        /\ worker[w].st # "idle" => [worker[w] EXCEPT !.orphan = TRUE].job = worker[w].job
    BY <2>1 DEF WorkerState
  <2> QED
    BY <1>1, <1>6, <2>1, <2>2, <2>3
<1>7. /\ cycle'.plans \in Seq(Late(ScheduleItem, Ended)) /\ cycle'.jobs \subseteq Late(Job, Ended)
      /\ orphans' \subseteq Late(Job, Ended)
  <2>1. IdleCycle.plans = <<>> /\ IdleCycle.jobs = {}
    BY DEF IdleCycle
  <2> QED
    BY <1>1, <2>1, EmptySeq DEF LateInv, PendingAreLate
<1>8. PendingAreLate'
  BY <1>3, <1>5, <1>6, <1>7 DEF PendingAreLate
<1> QED
  BY <1>3, <1>4, <1>8 DEF LateInv

LEMMA LateCrash ==
  ASSUME IInv, LateInv, Crash
  PROVE  LateInv'
<1>1. /\ UNCHANGED <<now, site, row>> /\ cycle' = IdleCycle /\ orphans' = {} /\ wq' = <<>>
      /\ worker' = [w \in Worker |-> IdleWorker] /\ archive' = IdleArchive
  BY DEF Crash
<1>2. KickoffsKept' /\ FinalizedMeansWindowOver' /\ Ended' = Ended
  BY <1>1, LateTables
<1>3. ListingsTrue' /\ ClockForward' /\ archive'.st = "idle"
  BY <1>1 DEF LateInv, ListingsTrue, ClockForward, IdleCycle, IdleArchive
<1>4. PendingAreLate'
  BY <1>1, EmptySeq DEF PendingAreLate, IdleCycle, IdleWorker
<1> QED
  BY <1>2, <1>3, <1>4 DEF LateInv

LEMMA LateNext ==
  ASSUME MaxMoves = 0, MaxArchives = 0, IInv, IInv', LateInv, [Next]_vars
  PROVE  LateInv'
<1>1. \A m \in Match : ~Reschedule(m) /\ ~ArchiveMatch(m)
  BY NoMoves
<1>2. CASE Tick \/ \E m \in Match : Progress(m)
  BY <1>2, LateSite
<1>3. CASE CycleStep
  BY <1>3, LateControl, LateDiscover, LatePlanMatch, LateCheck, LateScan DEF CycleStep
<1>4. CASE DiscoveryFails
  BY <1>4, LateControl
<1>5. ASSUME NEW w \in Worker, WorkerStep(w)
      PROVE  LateInv'
  BY <1>5, LateWorkerSteps
<1>6. ~ArchiveStep
  BY DEF ArchiveStep, ArchiveFetch, ArchiveAttempt, ArchiveScore, LateInv
<1>7. CASE CommitBatch
  BY <1>7, LateCommit
<1>8. CASE FailBatch
  BY <1>8, LateFail
<1>9. CASE Crash
  BY <1>9, LateCrash
<1>10. CASE UNCHANGED vars
  <2>1. /\ UNCHANGED <<now, site, row, cycle, worker, orphans, wq, archive>>
    BY <1>10 DEF vars
  <2>2. KickoffsKept' /\ FinalizedMeansWindowOver' /\ Ended' = Ended
    BY <2>1, LateTables
  <2>3. ListingsTrue' /\ ClockForward' /\ PendingAreLate' /\ archive'.st = "idle"
    BY <2>1, <2>2 DEF LateInv, ListingsTrue, ClockForward, PendingAreLate
  <2> QED
    BY <2>2, <2>3 DEF LateInv
<1> QED
  BY <1>1, <1>2, <1>3, <1>4, <1>5, <1>6, <1>7, <1>8, <1>9, <1>10 DEF Next

\* While the site keeps its kickoff times and no archive job runs, finalized_at is set only when
\* finalize_after_kickoff_minutes have passed since the kickoff of the row or the site calls the
\* match finished, whatever plan, job, left-over worker or queued write sets it and when.
THEOREM FinalizedLate ==
  ASSUME MaxMoves = 0, MaxArchives = 0
  PROVE  Spec => []FinalizedMeansWindowOver
<1>1. Init => LateInv
  BY InitLate
<1>2. IInv /\ IInv' /\ [Next]_vars /\ LateInv => LateInv'
  BY LateNext
<1>3. LateInv => FinalizedMeansWindowOver
  BY DEF LateInv
<1> QED
  BY <1>1, <1>2, <1>3, Inductive, PTL DEF Spec

-----------------------------------------------------------------------------
(* Plans and the capture window of the kickoff they were made for.          *)

\* A listing that is still to be planned has no plan yet, and every plan is that of a match which
\* the cycle has listed: no later plan of the cycle changes the kickoff an earlier one was made for.
ListedOnce ==
  /\ cycle.pc \in {"idle", "discover"} => cycle.seen = {}
  /\ cycle.pc = "plan" => \A l \in cycle.todo :
        /\ l.match \notin cycle.seen
        /\ \A other \in cycle.todo : other.match = l.match => other = l
  /\ \A i \in DOMAIN cycle.plans : cycle.plans[i].match \in cycle.seen

InWindow == ListedOnce /\ PlansEndWithWindow

LEMMA InWindowCleared ==
  ASSUME cycle'.plans = <<>>, cycle'.pc # "plan",
         cycle'.pc \in {"idle", "discover"} => cycle'.seen = {}
  PROVE  InWindow'
<1>1. DOMAIN cycle'.plans = {}
  BY EmptySeq
<1> QED
  BY <1>1 DEF InWindow, ListedOnce, PlansEndWithWindow

\* Nothing but PlanMatch and ArchiveMatch changes a kickoff.
LEMMA InWindowKept ==
  ASSUME IInv, InWindow, cycle'.plans = cycle.plans, cycle'.seen = cycle.seen,
         \/ cycle'.pc = cycle.pc /\ cycle'.todo = cycle.todo
         \/ cycle'.pc \notin {"idle", "discover", "plan"},
         used'.archives = 0 => used.archives = 0,
         \A m \in Match : row'[m].kickoff = row[m].kickoff
  PROVE  InWindow'
<1>1. ListedOnce'
  BY DEF InWindow, ListedOnce
<1>2. ASSUME NEW i \in DOMAIN cycle.plans
      PROVE  cycle.plans[i].match \in Match
  <2>1. cycle.plans \in Seq(ScheduleItem)
    BY DEF IInv, TypeOK, Cycle
  <2>2. cycle.plans[i] \in ScheduleItem
    BY <2>1, ElementOfSeq, LenProperties
  <2> QED
    BY <2>2 DEF ScheduleItem
<1>3. ASSUME used.archives = 0, NEW i \in DOMAIN cycle.plans, ~cycle.plans[i].finalized,
             row[cycle.plans[i].match].kickoff # Null
      PROVE  cycle.plans[i].next <= FinalEnd(row[cycle.plans[i].match].kickoff)
  BY <1>3 DEF InWindow, PlansEndWithWindow
<1> QED
  BY <1>1, <1>2, <1>3 DEF InWindow, PlansEndWithWindow

LEMMA InWindowPlan ==
  ASSUME IInv, InWindow, PlanMatch
  PROVE  InWindow'
<1> USE DEF IInv, TypeOK
<1>1. PICK l \in cycle.todo, scored \in BOOLEAN : \E k \in EnrichedKickoffs(l, cycle.now) :
        LET m      == l.match
            timing == ClassifyTiming(k, cycle.now, l.status = "live", l.status = "finished")
            old    == row[m]
            d      == Plan(k, timing, cycle.now, old.next, old.finalized, old.captured)
        IN  /\ row' = [row EXCEPT ![m] =
                 [Upserted(old, k, timing) EXCEPT
                    !.result = @ \/ (scored /\ ResultDue(k, l.status, cycle.now, old))]]
            /\ cycle' = [cycle EXCEPT
                 !.todo = @ \ {l}, !.seen = @ \cup {m},
                 !.plans = Append(@, PlanWrite(m, d)), !.jobs = @ \cup PlanJobs(m, d, "listed")]
  BY DEF PlanMatch
<1>2. PICK k \in EnrichedKickoffs(l, cycle.now) :
        LET m      == l.match
            timing == ClassifyTiming(k, cycle.now, l.status = "live", l.status = "finished")
            old    == row[m]
            d      == Plan(k, timing, cycle.now, old.next, old.finalized, old.captured)
        IN  /\ row' = [row EXCEPT ![m] =
                 [Upserted(old, k, timing) EXCEPT
                    !.result = @ \/ (scored /\ ResultDue(k, l.status, cycle.now, old))]]
            /\ cycle' = [cycle EXCEPT
                 !.todo = @ \ {l}, !.seen = @ \cup {m},
                 !.plans = Append(@, PlanWrite(m, d)), !.jobs = @ \cup PlanJobs(m, d, "listed")]
  BY <1>1
<1> DEFINE m == l.match
           timing == ClassifyTiming(k, cycle.now, l.status = "live", l.status = "finished")
           d == Plan(k, timing, cycle.now, row[m].next, row[m].finalized, row[m].captured)
           r == [Upserted(row[m], k, timing) EXCEPT
                   !.result = @ \/ (scored /\ ResultDue(k, l.status, cycle.now, row[m]))]
<1>3. /\ row' = [row EXCEPT ![m] = r]
      /\ cycle' = [cycle EXCEPT
           !.todo = @ \ {l}, !.seen = @ \cup {m},
           !.plans = Append(@, PlanWrite(m, d)), !.jobs = @ \cup PlanJobs(m, d, "listed")]
  BY <1>2
<1>4. l \in Listing /\ m \in Match /\ row[m] \in Row /\ cycle.now \in Int
  BY DEF Cycle, Listing
<1>5. k \in Times
  BY <1>4 DEF EnrichedKickoffs, PageKickoffs, Listing, Site, Times
<1>6. timing \in Timing
  BY <1>4, <1>5, TimingType
<1>7. ~d.finalized /\ k # Null => d.next <= FinalEnd(k)
  <2>1. row[m].next \in Times /\ row[m].finalized \in BOOLEAN /\ row[m].captured \in BOOLEAN
    BY <1>4 DEF Row
  <2>2. k # Null => k \in Int
    BY <1>5 DEF Times
  <2> QED
    BY <1>4, <1>6, <2>1, <2>2, PlanEndsWithWindow
<1>8. /\ PlanWrite(m, d).match = m /\ PlanWrite(m, d).next = d.next
      /\ PlanWrite(m, d).finalized = d.finalized
  BY DEF PlanWrite, ScheduleWrite
<1>9. PlanWrite(m, d) \in ScheduleItem
  BY <1>4, <1>5, <1>6, PlanIsSafe DEF SafePlan
<1>10. r.kickoff = k
  BY <1>4 DEF Upserted, Row
<1> DEFINE plan == PlanWrite(m, d)
<1>11. /\ cycle.pc = "plan" /\ cycle'.pc = "plan" /\ used' = used
       /\ cycle'.todo = cycle.todo \ {l} /\ cycle'.seen = cycle.seen \cup {m}
       /\ cycle'.plans = Append(cycle.plans, plan)
  BY <1>3 DEF PlanMatch, Cycle
<1> HIDE DEF d, timing, r, plan, m
<1>12. \A x \in Match : row'[x].kickoff = IF x = m THEN k ELSE row[x].kickoff
  BY <1>3, <1>4, <1>10
<1>13. /\ m \notin cycle.seen
       /\ \A other \in cycle.todo : other.match = m => other = l
       /\ \A x, y \in cycle.todo : x.match = y.match => x = y
       /\ \A x \in cycle.todo : x.match \notin cycle.seen
  BY <1>11 DEF InWindow, ListedOnce, m
<1>14. cycle.plans \in Seq(ScheduleItem) /\ plan \in ScheduleItem /\ Len(cycle.plans) \in Nat
  BY <1>9, LenProperties DEF Cycle, plan
<1>15. /\ DOMAIN cycle.plans = 1 .. Len(cycle.plans)
       /\ DOMAIN cycle'.plans = 1 .. (Len(cycle.plans) + 1)
       /\ \A i \in DOMAIN cycle.plans : cycle'.plans[i] = cycle.plans[i]
       /\ cycle'.plans[Len(cycle.plans) + 1] = plan
  BY <1>11, <1>14, AppendProperties, LenProperties
<1>16. ASSUME NEW i \in DOMAIN cycle'.plans
       PROVE  \/ i \in DOMAIN cycle.plans /\ cycle'.plans[i] = cycle.plans[i]
              \/ cycle'.plans[i] = plan
  BY <1>14, <1>15
<1>17. plan.match = m /\ plan.next = d.next /\ plan.finalized = d.finalized
  BY <1>8 DEF plan
<1>18. \A i \in DOMAIN cycle.plans : cycle.plans[i].match \in cycle.seen
  BY DEF InWindow, ListedOnce
<1>19. ListedOnce'
  <2>1. \A x \in cycle'.todo : /\ x.match \notin cycle'.seen
                              /\ \A y \in cycle'.todo : y.match = x.match => y = x
    BY <1>11, <1>13
  <2>2. \A i \in DOMAIN cycle'.plans : cycle'.plans[i].match \in cycle'.seen
    BY <1>11, <1>16, <1>17, <1>18
  <2> QED
    BY <1>11, <2>1, <2>2 DEF ListedOnce
<1>20. ASSUME used.archives = 0, NEW i \in DOMAIN cycle'.plans, ~cycle'.plans[i].finalized,
              row'[cycle'.plans[i].match].kickoff # Null
       PROVE  cycle'.plans[i].next <= FinalEnd(row'[cycle'.plans[i].match].kickoff)
  <2>1. CASE cycle'.plans[i] = plan
    <3>1. row'[m].kickoff = k
      BY <1>4, <1>12 DEF m
    <3> QED
      BY <1>7, <1>17, <1>20, <2>1, <3>1
  <2>2. CASE i \in DOMAIN cycle.plans /\ cycle'.plans[i] = cycle.plans[i]
    <3>0. cycle.plans[i] \in ScheduleItem
      BY <1>14, <1>15, <2>2, ElementOfSeq
    <3>1. cycle.plans[i].match \in Match /\ cycle.plans[i].match # m
      BY <1>13, <1>18, <2>2, <3>0 DEF ScheduleItem
    <3>2. row'[cycle.plans[i].match].kickoff = row[cycle.plans[i].match].kickoff
      BY <1>12, <3>1
    <3>3. ~cycle.plans[i].finalized /\ row[cycle.plans[i].match].kickoff # Null
      BY <1>20, <2>2, <3>2
    <3>4. cycle.plans[i].next <= FinalEnd(row[cycle.plans[i].match].kickoff)
      BY <1>20, <2>2, <3>3 DEF InWindow, PlansEndWithWindow
    <3> QED
      BY <2>2, <3>2, <3>4
  <2> QED
    BY <1>16, <2>1, <2>2
<1> QED
  BY <1>11, <1>19, <1>20 DEF InWindow, PlansEndWithWindow

LEMMA InWindowDiscover ==
  ASSUME IInv, InWindow, Discover
  PROVE  InWindow'
<1>0. PICK found \in SUBSET Match : \E fresh \in SUBSET found :
        cycle' = [cycle EXCEPT
          !.pc = "plan",
          !.todo = {[match |-> m, kickoff |-> site[m].kickoff,
                     status |-> IF m \in fresh THEN site[m].status ELSE "scheduled"] : m \in found}]
  BY DEF Discover
<1>1. PICK fresh \in SUBSET found :
        cycle' = [cycle EXCEPT
          !.pc = "plan",
          !.todo = {[match |-> m, kickoff |-> site[m].kickoff,
                     status |-> IF m \in fresh THEN site[m].status ELSE "scheduled"] : m \in found}]
  BY <1>0
<1> DEFINE T == {[match |-> m, kickoff |-> site[m].kickoff,
                  status |-> IF m \in fresh THEN site[m].status ELSE "scheduled"] : m \in found}
<1>2. \A x, y \in T : x.match = y.match => x = y
  OBVIOUS
<1>3. cycle' = [cycle EXCEPT !.pc = "plan", !.todo = T]
  BY <1>1
<1> HIDE DEF T
<1>4. /\ cycle'.pc = "plan" /\ cycle'.todo = T
      /\ cycle'.seen = cycle.seen /\ cycle'.plans = cycle.plans
  BY <1>3 DEF IInv, TypeOK, Cycle
<1>5. cycle.seen = {}
  BY DEF Discover, InWindow, ListedOnce
<1>6. ListedOnce'
  BY <1>2, <1>4, <1>5 DEF InWindow, ListedOnce
<1>7. DOMAIN cycle.plans = {}
  BY <1>5 DEF InWindow, ListedOnce
<1> QED
  BY <1>4, <1>6, <1>7 DEF InWindow, PlansEndWithWindow

\* A cycle that begins or ends, by itself or with an exception, has no plans.
LEMMA InWindowEnds ==
  ASSUME IInv, InWindow, StartCycle \/ DiscoveryFails \/ EndCycle \/ ScanDue \/ Crash
  PROVE  InWindow'
<1>1. CASE StartCycle
  <2>1. PICK discover \in BOOLEAN :
          cycle' = [IdleCycle EXCEPT !.pc = IF discover THEN "discover" ELSE "due",
                                     !.now = now, !.discover = discover]
    BY <1>1 DEF StartCycle
  <2>2. cycle'.pc \in {"discover", "due"} /\ cycle'.plans = <<>> /\ cycle'.seen = {}
    BY <2>1 DEF IdleCycle
  <2> QED
    BY <2>2, InWindowCleared
<1>2. CASE DiscoveryFails \/ EndCycle \/ Crash
  <2>1. cycle'.pc = "idle" /\ cycle'.plans = <<>> /\ cycle'.seen = {}
    BY <1>2 DEF DiscoveryFails, EndCycle, Crash, IdleCycle
  <2> QED
    BY <2>1, InWindowCleared
<1>3. CASE ScanDue
  <2>1. cycle'.pc = "persist" /\ cycle'.plans = <<>>
    BY <1>3 DEF ScanDue, IInv, TypeOK, Cycle
  <2> QED
    BY <2>1, InWindowCleared
<1> QED
  BY <1>1, <1>2, <1>3

LEMMA InWindowFail ==
  ASSUME IInv, InWindow, FailBatch
  PROVE  InWindow'
<1>1. /\ cycle' = cycle \/ cycle' = IdleCycle
      /\ row' = row /\ used'.archives = used.archives
  BY DEF FailBatch, IInv, TypeOK, Used
<1>2. CASE cycle' = cycle
  BY <1>1, <1>2, InWindowKept
<1>3. CASE cycle' = IdleCycle
  <2>1. cycle'.pc = "idle" /\ cycle'.plans = <<>> /\ cycle'.seen = {}
    BY <1>3 DEF IdleCycle
  <2> QED
    BY <2>1, InWindowCleared
<1> QED
  BY <1>1, <1>2, <1>3

\* The other steps of a cycle, of its workers, of the archive job and of the queue.
LEMMA InWindowOthers ==
  ASSUME IInv, InWindow,
         \/ ListResultCandidates \/ CheckResult \/ ResultsDone \/ PlansPersisted
         \/ \E w \in Worker : WorkerStep(w)
         \/ ArchiveStep \/ CommitBatch \/ Tick
         \/ \E m \in Match : Reschedule(m) \/ Progress(m)
         \/ UNCHANGED vars
  PROVE  InWindow'
<1>1. /\ cycle'.plans = cycle.plans /\ cycle'.seen = cycle.seen
      /\ \/ cycle'.pc = cycle.pc /\ cycle'.todo = cycle.todo
         \/ cycle'.pc \notin {"idle", "discover", "plan"}
  BY DEF IInv, TypeOK, Cycle, ListResultCandidates, CheckResult, ResultsDone, PlansPersisted,
         WorkerStep, TakeJob, OrphanNext, SubmitAttempt, SubmitSchedule, FinishJob, ArchiveStep,
         ArchiveFetch, ArchiveAttempt, ArchiveScore, CommitBatch, Tick, Reschedule, Progress, vars
<1>2. used'.archives = used.archives
  BY DEF IInv, TypeOK, Used, ListResultCandidates, CheckResult, ResultsDone, PlansPersisted,
         WorkerStep, TakeJob, OrphanNext, SubmitAttempt, SubmitSchedule, FinishJob, ArchiveStep,
         ArchiveFetch, ArchiveAttempt, ArchiveScore, CommitBatch, Tick, Reschedule, Progress, vars
<1>3. \A m \in Match : row'[m].kickoff = row[m].kickoff
  <2>1. CASE CheckResult \/ ArchiveScore
    <3>1. \A r \in Row : ResultMarked(r).kickoff = r.kickoff
      BY DEF ResultMarked, Row
    <3> QED
      BY <2>1, <3>1 DEF IInv, TypeOK, CheckResult, ArchiveScore
  <2>2. CASE CommitBatch
    <3>1. ASSUME NEW m \in Match, NEW n, NEW last
          PROVE  Committed(m, n, last).kickoff = row[m].kickoff
      BY DEF Committed, IInv, TypeOK, Row
    <3> QED
      BY <2>2, <3>1 DEF CommitBatch
  <2>3. CASE ~CheckResult /\ ~ArchiveScore /\ ~CommitBatch
    BY <2>3 DEF ListResultCandidates, ResultsDone, PlansPersisted, WorkerStep, TakeJob, OrphanNext,
                SubmitAttempt, SubmitSchedule, FinishJob, ArchiveStep, ArchiveFetch, ArchiveAttempt,
                Tick, Reschedule, Progress, vars
  <2> QED
    BY <2>1, <2>2, <2>3
<1> QED
  BY <1>1, <1>2, <1>3, InWindowKept

LEMMA InWindowArchive ==
  ASSUME IInv, InWindow, NEW m \in Match, ArchiveMatch(m)
  PROVE  InWindow'
<1>1. cycle' = cycle /\ used'.archives # 0
  BY DEF ArchiveMatch, IInv, TypeOK, Used
<1> QED
  BY <1>1 DEF InWindow, ListedOnce, PlansEndWithWindow

\* Scheduler.plan does not wait for a next time that a kickoff since moved has left behind: what
\* a cycle plans for a match it has not finalized lies inside the window of the kickoff it planned
\* with, for every length of the windows and however often the site moves the match.
THEOREM PlansStayInWindow == Spec => []PlansEndWithWindow
<1>1. Init => InWindow
  <2>1. Init => DOMAIN cycle.plans = {} /\ cycle.seen = {} /\ cycle.pc = "idle"
    BY EmptySeq DEF Init, IdleCycle
  <2> QED
    BY <2>1 DEF InWindow, ListedOnce, PlansEndWithWindow
<1>2. IInv /\ [Next]_vars /\ InWindow => InWindow'
  BY InWindowPlan, InWindowDiscover, InWindowEnds, InWindowFail, InWindowOthers, InWindowArchive
     DEF Next, CycleStep
<1>3. InWindow => PlansEndWithWindow
  BY DEF InWindow
<1> QED
  BY <1>1, <1>2, <1>3, Inductive, PTL DEF Spec

-----------------------------------------------------------------------------
(* The empty-finalized query and its limit.                                 *)

LEMMA QueryTakes ==
  ASSUME IInv, NEW m \in Match, FoundInTime(m), ScanDue
  PROVE  BackfillJob(m) \in cycle'.jobs
<1> DEFINE found == {x \in Match : cycle.discover /\ EmptyFinalized(x, cycle.now)}
           rivals == {x \in Match : ~row[x].attempted /\ row[x].kickoff # Null
                                      /\ row[x].kickoff >= row[m].kickoff}
<1>0. PICK order \in [1 .. Cardinality(DueUnseen) -> DueUnseen], chosen \in SUBSET Match :
        /\ Backfill(chosen)
        /\ cycle' = [cycle EXCEPT
             !.pc = "persist", !.todo = {}, !.seen = {}, !.plans = <<>>,
             !.jobs = @ \cup BackfillJobs(chosen)
                        \cup UNION {PlanJobs(x, StoredPlan(x), "due") : x \in DueUnseen}]
  BY DEF ScanDue
<1>1. NewestOf(found, chosen) /\ BackfillJobs(chosen) \subseteq cycle'.jobs
  BY <1>0 DEF Backfill, IInv, TypeOK, Cycle
<1>2. m \in found /\ m \in rivals /\ Cardinality(rivals) <= BackfillLimit
  <2>1. row[m].kickoff \in Int
    BY DEF FoundInTime, EmptyFinalized, IInv, TypeOK, Row, Times
  <2> QED
    BY <2>1 DEF FoundInTime, EmptyFinalized
<1>3. m \in chosen
  <2>1. SUFFICES ASSUME m \notin chosen PROVE FALSE
    OBVIOUS
  <2>2. Cardinality(chosen) = BackfillLimit /\ \A c \in chosen : row[m].kickoff <= row[c].kickoff
    BY <1>1, <1>2, <2>1 DEF NewestOf
  <2>3. chosen \subseteq found
    BY <1>1 DEF NewestOf
  <2>4. chosen \cup {m} \subseteq rivals
    <3>1. ASSUME NEW c \in chosen PROVE c \in rivals
      <4>1. c \in Match /\ ~row[c].attempted /\ row[c].kickoff # Null
        BY <2>3 DEF EmptyFinalized
      <4>2. row[c].kickoff \in Int /\ row[m].kickoff \in Int
        BY <1>2, <4>1 DEF IInv, TypeOK, Row, Times
      <4> QED
        BY <2>2, <4>1, <4>2
    <3> QED
      BY <1>2, <3>1
  <2>5. IsFiniteSet(rivals) /\ IsFiniteSet(chosen) /\ IsFiniteSet(chosen \cup {m})
    BY MatchAssumption, FS_Subset
  <2>6. Cardinality(chosen \cup {m}) = Cardinality(chosen) + 1
    BY <2>1, <2>5, FS_AddElement
  <2>7. Cardinality(chosen \cup {m}) <= Cardinality(rivals)
    BY <2>4, <2>5, FS_Subset
  <2>8. Cardinality(rivals) \in Nat /\ Cardinality(chosen) \in Nat
    BY <2>5, FS_CardinalityType
  <2> QED
    BY <1>2, <2>2, <2>6, <2>7, <2>8, SizeAssumption
<1> QED
  BY <1>1, <1>3 DEF BackfillJobs

\* The query of a cycle that comes in time takes the match: ORDER BY and LIMIT leave out only what
\* is preceded by as many newer matches without an attempt as the limit allows.
THEOREM FoundInTimeIsTaken ==
  Spec => [][\A m \in Match : FoundInTime(m) /\ ScanDue => BackfillJob(m) \in cycle'.jobs]_vars
<1>1. IInv => (\A m \in Match : FoundInTime(m) /\ ScanDue => BackfillJob(m) \in cycle'.jobs)
  BY QueryTakes
<1> QED
  BY <1>1, Inductive, PTL DEF Spec

=============================================================================
