------------------------------- MODULE Ingest -------------------------------
(***************************************************************************)
(* IngestCoordinator (ingest.py): the two priority queues every fetch of    *)
(* BetExplorer goes through, their workers, the adaptive limit on fetches   *)
(* that run at once and its cooldown, the single-flight table of pending    *)
(* requests, and close.                                                    *)
(*                                                                         *)
(* Everything runs on one event loop.  The condition's lock is never held   *)
(* across an await, so taking it does not suspend: the code from one real   *)
(* await to the next is one action, whatever "async with" it contains.      *)
(*                                                                         *)
(* A future is known by the sequence number of the item that carries it.    *)
(***************************************************************************)
EXTENDS Integers, FiniteSets

CONSTANTS
  Caller,         \* tasks that submit requests
  Key,            \* dedupe keys: request kind, event and market
  NoKey,
  Worker,         \* workers of the general queue
  KickoffWorker,  \* the one worker of the kickoff queue
  Priority,       \* the priorities that are used; KICKOFF is the smallest
  QueueSize,      \* capacity of the general queue
  KickoffSize,    \* capacity of the kickoff queue
  HealthyTarget,  \* healthy fetches in a row that raise the limit
  Cooldown,       \* length of the cooldown after a failure
  MaxRequests,    \* bound on the requests
  MaxFailures,    \* bound on the failures
  MaxCloses       \* bound on calls of close

KICKOFF == 0

ASSUME WorkerAssumption == KickoffWorker \notin Worker /\ IsFiniteSet(Worker) /\ Worker # {}
ASSUME SizeAssumption ==
  {QueueSize, KickoffSize, HealthyTarget} \subseteq Nat \ {0} /\ Cooldown \in Nat
ASSUME BoundAssumption == {MaxRequests, MaxFailures, MaxCloses} \subseteq Nat
ASSUME PriorityAssumption == KICKOFF \in Priority /\ Priority \subseteq Nat
ASSUME IngestKeyAssumption == NoKey \notin Key

VARIABLES
  requests,  \* number of requests that were queued: _sequence
  queue,     \* the items of both queues
  pending,   \* _pending: the sequence number under each key, 0 if there is none
  future,    \* how each future was resolved
  caller,    \* what each caller is doing
  worker,    \* what each worker is doing
  running,   \* the worker tasks exist
  active,    \* _active
  limit,     \* _adaptive_limit
  healthy,   \* _healthy
  cooling,   \* how long _cooldown_until is still ahead
  failures,  \* failures so far
  closes     \* calls of close so far

vars == <<requests, queue, pending, future, caller, worker, running, active, limit, healthy,
          cooling, failures, closes>>

-----------------------------------------------------------------------------
AllWorkers == Worker \cup {KickoffWorker}

MaxConcurrency == Cardinality(AllWorkers)

Seqs == 1 .. MaxRequests

Item == [seq: Seqs, key: Key, priority: Priority, deadline: BOOLEAN]

\* A caller is idle, blocked in put because the queue is full, or waits for a future.
CallerState == [st: {"idle"}] \cup [st: {"put"}, item: Item] \cup [st: {"wait"}, key: Key, seq: Seqs]

\* A worker waits for an item, sleeps until the cooldown it saw is over, waits for the
\* condition, was notified, or fetches.
WorkerState ==
       [st: {"get"}]
  \cup [st: {"sleep"}, item: Item, left: 0 .. Cooldown]
  \cup [st: {"blocked", "notified", "fetch"}, item: Item]

Idle == [st |-> "get"]

TypeOK ==
  /\ requests \in 0 .. MaxRequests
  /\ queue \subseteq Item
  /\ pending \in [Key -> 0 .. MaxRequests]
  /\ future \in [Seqs -> {"none", "open", "result", "error", "cancelled"}]
  /\ caller \in [Caller -> CallerState]
  /\ worker \in [AllWorkers -> WorkerState]
  /\ running \in BOOLEAN
  /\ active \in 0 .. MaxConcurrency
  /\ limit \in 2 .. MaxConcurrency
  /\ healthy \in 0 .. HealthyTarget
  /\ cooling \in 0 .. Cooldown
  /\ failures \in 0 .. MaxFailures
  /\ closes \in 0 .. MaxCloses

Init ==
  /\ requests = 0
  /\ queue = {}
  /\ pending = [k \in Key |-> 0]
  /\ future = [s \in Seqs |-> "none"]
  /\ caller = [c \in Caller |-> [st |-> "idle"]]
  /\ worker = [w \in AllWorkers |-> Idle]
  /\ running = FALSE
  /\ active = 0
  /\ limit = MaxConcurrency
  /\ healthy = 0
  /\ cooling = 0
  /\ failures = 0
  /\ closes = 0

-----------------------------------------------------------------------------
(* The callers.                                                            *)

InQueueOf(priority) == {i \in queue : (i.priority = KICKOFF) <=> (priority = KICKOFF)}

Full(priority) ==
  Cardinality(InQueueOf(priority)) >= IF priority = KICKOFF THEN KickoffSize ELSE QueueSize

Waits(k, s) == [st |-> "wait", key |-> k, seq |-> s]

\* The key is pending: the caller shares that future, whatever priority it was queued with.
Join(c, k) ==
  /\ caller[c].st = "idle"
  /\ pending[k] # 0
  /\ caller' = [caller EXCEPT ![c] = Waits(k, pending[k])]
  /\ running' = TRUE
  /\ UNCHANGED <<requests, queue, pending, future, worker, active, limit, healthy, cooling,
                 failures, closes>>

\* Defect: requests are not registered.
Unregistered(k, s) == pending

Registered(k, s) == [pending EXCEPT ![k] = s]

\* The key is registered before the item is in the queue: put waits while that is full.
Submit(c, k, priority, deadline) ==
  /\ caller[c].st = "idle"
  /\ pending[k] = 0
  /\ requests < MaxRequests
  /\ deadline => priority = KICKOFF
  /\ LET s    == requests + 1
         item == [seq |-> s, key |-> k, priority |-> priority, deadline |-> deadline]
     IN  /\ requests' = s
         /\ pending' = Registered(k, s)
         /\ future' = [future EXCEPT ![s] = "open"]
         /\ \/ /\ Full(priority)
               /\ caller' = [caller EXCEPT ![c] = [st |-> "put", item |-> item]]
               /\ UNCHANGED queue
            \/ /\ ~Full(priority)
               /\ caller' = [caller EXCEPT ![c] = Waits(k, s)]
               /\ queue' = queue \cup {item}
  /\ running' = TRUE
  /\ UNCHANGED <<worker, active, limit, healthy, cooling, failures, closes>>

Put(c) ==
  /\ caller[c].st = "put"
  /\ ~Full(caller[c].item.priority)
  /\ queue' = queue \cup {caller[c].item}
  /\ caller' = [caller EXCEPT ![c] = Waits(caller[c].item.key, caller[c].item.seq)]
  /\ UNCHANGED <<requests, pending, future, worker, running, active, limit, healthy, cooling,
                 failures, closes>>

Resolved(s) == future[s] \notin {"none", "open"}

Answer(c) ==
  /\ caller[c].st = "wait"
  /\ Resolved(caller[c].seq)
  /\ caller' = [caller EXCEPT ![c] = [st |-> "idle"]]
  /\ UNCHANGED <<requests, queue, pending, future, worker, running, active, limit, healthy,
                 cooling, failures, closes>>

-----------------------------------------------------------------------------
(* The workers.                                                            *)

\* The items a worker of this queue would get: the first of the lowest priority.
Head(w) ==
  {i \in queue :
     /\ (i.priority = KICKOFF) <=> (w = KickoffWorker)
     /\ \A j \in queue : (j.priority = KICKOFF) <=> (w = KickoffWorker)
          => i.priority < j.priority \/ (i.priority = j.priority /\ i.seq <= j.seq)}

\* _enter_slot: all but kickoff fetches leave a slot free.
Allowed(priority) ==
  LET reserve == IF priority = KICKOFF THEN 0 ELSE 1
  IN  IF limit - reserve >= 1 THEN limit - reserve ELSE 1

\* Past the delay: the cooldown is not looked at again.
TakeSlot(w, item) ==
  IF active < Allowed(item.priority)
  THEN /\ worker' = [worker EXCEPT ![w] = [st |-> "fetch", item |-> item]]
       /\ active' = active + 1
  ELSE /\ worker' = [worker EXCEPT ![w] = [st |-> "blocked", item |-> item]]
       /\ UNCHANGED active

EnterSlot(w, item) ==
  IF cooling > 0
  THEN /\ worker' = [worker EXCEPT ![w] = [st |-> "sleep", item |-> item, left |-> cooling]]
       /\ UNCHANGED active
  ELSE TakeSlot(w, item)

\* Defect: whoever waits for a slot is not told that one became free.
NotifyNobody(ws) == ws

\* notify_all
Notified(ws) ==
  [v \in AllWorkers |-> IF ws[v].st = "blocked" THEN [ws[v] EXCEPT !.st = "notified"] ELSE ws[v]]

\* Defect: the limit is allowed to sink until nobody may fetch.
HalvedToNothing == limit \div 2

Halved == IF limit \div 2 >= 2 THEN limit \div 2 ELSE 2

RecordFailure ==
  /\ limit' = Halved
  /\ healthy' = 0
  /\ cooling' = Cooldown
  /\ failures' = failures + 1

\* _healthy goes on counting while the limit is at its maximum; only >= 20 is asked.
RecordSuccess ==
  LET n == IF healthy < HealthyTarget THEN healthy + 1 ELSE healthy
  IN  IF n = HealthyTarget /\ limit < MaxConcurrency
      THEN limit' = limit + 1 /\ healthy' = 0
      ELSE limit' = limit /\ healthy' = n

\* Defect: a request that failed stays in the single-flight table.
DoneUnlessFailed(item, outcome) ==
  /\ future' = [future EXCEPT ![item.seq] = outcome]
  /\ pending' = IF outcome = "error" THEN pending ELSE [pending EXCEPT ![item.key] = 0]

\* Defect: the key is popped, but nobody is told.
DoneSilently(item, outcome) ==
  /\ future' = future
  /\ pending' = [pending EXCEPT ![item.key] = 0]

\* The finally of _worker: the future is resolved and the key popped.
Done(item, outcome) ==
  /\ future' = [future EXCEPT ![item.seq] = outcome]
  /\ pending' = [pending EXCEPT ![item.key] = 0]

\* The deadline had passed when the worker got the item: TimeoutError, counted as a failure.
Expire(w) ==
  /\ running
  /\ worker[w].st = "get"
  /\ failures < MaxFailures
  /\ \E item \in Head(w) :
        /\ item.deadline
        /\ queue' = queue \ {item}
        /\ Done(item, "error")
  /\ RecordFailure
  /\ worker' = Notified(worker)
  /\ UNCHANGED <<requests, caller, running, active, closes>>

Get(w) ==
  /\ running
  /\ worker[w].st = "get"
  /\ \E item \in Head(w) : queue' = queue \ {item} /\ EnterSlot(w, item)
  /\ UNCHANGED <<requests, pending, future, caller, running, limit, healthy, cooling, failures,
                 closes>>

Wake(w) ==
  /\ worker[w].st = "sleep"
  /\ worker[w].left = 0
  /\ TakeSlot(w, worker[w].item)
  /\ UNCHANGED <<requests, queue, pending, future, caller, running, limit, healthy, cooling,
                 failures, closes>>

\* Back at the top of the loop of _enter_slot.
Retry(w) ==
  /\ worker[w].st = "notified"
  /\ EnterSlot(w, worker[w].item)
  /\ UNCHANGED <<requests, queue, pending, future, caller, running, limit, healthy, cooling,
                 failures, closes>>

\* Defect: _leave_slot is skipped.
KeptSlot == active

\* _leave_slot
FreedSlot == active - 1

\* The fetch ends: with a page, with a 429 or 5xx (a page for the caller, a failure for the
\* limit), or with an exception.
Finish(w) ==
  /\ worker[w].st = "fetch"
  /\ \E outcome \in {"result", "error"} :
       /\ Done(worker[w].item, outcome)
       /\ active' = FreedSlot
       /\ \/ outcome = "result" /\ RecordSuccess /\ UNCHANGED <<cooling, failures>>
          \/ failures < MaxFailures /\ RecordFailure
  /\ worker' = Notified([worker EXCEPT ![w] = Idle])
  /\ UNCHANGED <<requests, queue, caller, running, closes>>

-----------------------------------------------------------------------------
\* Every worker is cancelled, and with it the future of the item it holds; what is queued
\* stays queued.  The next submit starts new workers.
Close ==
  /\ running
  /\ closes < MaxCloses
  /\ closes' = closes + 1
  /\ running' = FALSE
  /\ LET held == {worker[w].item : w \in {v \in AllWorkers : worker[v].st # "get"}}
     IN  /\ future' = [s \in Seqs |-> IF \E i \in held : i.seq = s THEN "cancelled" ELSE future[s]]
         /\ pending' = [k \in Key |-> IF \E i \in held : i.key = k THEN 0 ELSE pending[k]]
  /\ active' = active - Cardinality({w \in AllWorkers : worker[w].st = "fetch"})
  /\ worker' = [w \in AllWorkers |-> Idle]
  /\ UNCHANGED <<requests, queue, caller, limit, healthy, cooling, failures>>

Tick ==
  /\ cooling > 0 \/ \E w \in AllWorkers : worker[w].st = "sleep" /\ worker[w].left > 0
  /\ cooling' = IF cooling > 0 THEN cooling - 1 ELSE 0
  /\ worker' = [w \in AllWorkers |->
                  IF worker[w].st = "sleep" /\ worker[w].left > 0
                  THEN [worker[w] EXCEPT !.left = @ - 1] ELSE worker[w]]
  /\ UNCHANGED <<requests, queue, pending, future, caller, running, active, limit, healthy,
                 failures, closes>>

-----------------------------------------------------------------------------
CallerStep(c) == Put(c) \/ Answer(c)

WorkerStep(w) == Expire(w) \/ Get(w) \/ Wake(w) \/ Retry(w) \/ Finish(w)

Next ==
  \/ \E c \in Caller, k \in Key : Join(c, k)
  \/ \E c \in Caller, k \in Key, p \in Priority, d \in BOOLEAN : Submit(c, k, p, d)
  \/ \E c \in Caller : CallerStep(c)
  \/ \E w \in AllWorkers : WorkerStep(w)
  \/ Close
  \/ Tick

Spec == Init /\ [][Next]_vars

\* Fetches end (the HTTP client has a timeout), the loop runs every task that can run, and
\* time passes.
Fairness ==
  /\ \A c \in Caller : WF_vars(CallerStep(c))
  /\ \A w \in AllWorkers : WF_vars(WorkerStep(w))
  /\ WF_vars(Tick)

FairSpec == Spec /\ Fairness

-----------------------------------------------------------------------------
(* Properties.                                                             *)

\* Who carries a future to its result: a caller in put, the queue or a worker.
Carriers(s) ==
       {c \in Caller : caller[c].st = "put" /\ caller[c].item.seq = s}
  \cup {i \in queue : i.seq = s}
  \cup {w \in AllWorkers : worker[w].st # "get" /\ worker[w].item.seq = s}

\* Every future that is not resolved is under its key in the single-flight table and is carried
\* by exactly one task or queue, and no resolved one is left behind: a key that stayed in
\* _pending without a carrier would block every later request for that page for ever.
PendingIsCarried ==
  /\ \A k \in Key : pending[k] # 0 => future[pending[k]] = "open"
  /\ \A s \in Seqs : future[s] = "open" => /\ Cardinality(Carriers(s)) = 1
                                           /\ \E k \in Key : pending[k] = s
  /\ \A s \in Seqs : future[s] # "open" => Carriers(s) = {}

\* _active counts the fetches that run, through failures, notifications and close: a slot that
\* leaked would never come back.
ActiveCountsFetches == active = Cardinality({w \in AllWorkers : worker[w].st = "fetch"})

\* Two fetches for one key never run at once.
OneFetchPerKey ==
  \A v, w \in AllWorkers :
    v # w /\ worker[v].st = "fetch" /\ worker[w].st = "fetch"
      => worker[v].item.key # worker[w].item.key

\* Unless the coordinator is closed, every caller gets an answer.
EveryCallerIsAnswered ==
  \A c \in Caller : caller[c].st # "idle" ~> caller[c].st = "idle" \/ closes > 0

\* A kickoff fetch that the kickoff worker holds never waits for other fetches to end: a slot
\* is reserved for it (the plan's "Reserve at least one fetch slot for kickoff-priority work so
\* a large backfill cannot delay live final odds").
KickoffSlotReserved ==
  worker[KickoffWorker].st \in {"blocked", "notified"} => active < Allowed(KICKOFF)

Asks(c) ==
  CASE caller[c].st = "put" -> caller[c].item.key
    [] caller[c].st = "wait" /\ ~Resolved(caller[c].seq) -> caller[c].key
    [] OTHER -> NoKey

\* The coordinator implements the abstract single flight; a caller whose future is resolved has
\* its answer.
Flight == INSTANCE SingleFlight WITH
  asks <- [c \in Caller |-> Asks(c)],
  open <- {k \in Key : pending[k] # 0}

ImplementsSingleFlight == Flight!Spec

=============================================================================
