---------------------------- MODULE IngestProofs ----------------------------
(* Proofs about the ingest coordinator: every future that is open is under  *)
(* its key and carried by exactly one task or queue, the count of active    *)
(* fetches is right, and the coordinator implements the single flight.      *)
EXTENDS Ingest, FiniteSetTheorems, TLAPS

-----------------------------------------------------------------------------
(* The inductive invariant.                                                *)

Puts(c) == caller[c].st = "put"
Waiting(c) == caller[c].st = "wait"
Holds(w) == worker[w].st # "get"

Fetching == {w \in AllWorkers : worker[w].st = "fetch"}

Fresh == \A s \in Seqs : s > requests => future[s] = "none"

\* An item on its way to a result: its future is open, and found under its key.
Booked(i) == future[i.seq] = "open" /\ pending[i.key] = i.seq

CarriedAreBooked ==
  /\ \A c \in Caller : Puts(c) => Booked(caller[c].item)
  /\ \A i \in queue : Booked(i)
  /\ \A w \in AllWorkers : Holds(w) => Booked(worker[w].item)

\* No two of the callers, the queues and the workers carry one future.
CarriedOnce ==
  /\ \A c, d \in Caller : Puts(c) /\ Puts(d) /\ c # d => caller[c].item.seq # caller[d].item.seq
  /\ \A i, j \in queue : i # j => i.seq # j.seq
  /\ \A v, w \in AllWorkers :
       Holds(v) /\ Holds(w) /\ v # w => worker[v].item.seq # worker[w].item.seq
  /\ \A c \in Caller, i \in queue : Puts(c) => caller[c].item.seq # i.seq
  /\ \A c \in Caller, w \in AllWorkers :
       Puts(c) /\ Holds(w) => caller[c].item.seq # worker[w].item.seq
  /\ \A i \in queue, w \in AllWorkers : Holds(w) => worker[w].item.seq # i.seq

IsCarried(s) ==
  \/ \E c \in Caller : Puts(c) /\ caller[c].item.seq = s
  \/ \E i \in queue : i.seq = s
  \/ \E w \in AllWorkers : Holds(w) /\ worker[w].item.seq = s

OpenAreCarried == \A s \in Seqs : future[s] = "open" => IsCarried(s)

PendingAreOpen ==
  /\ \A k \in Key : pending[k] # 0 => future[pending[k]] = "open"
  /\ \A k, l \in Key : pending[k] # 0 /\ pending[k] = pending[l] => k = l

\* A caller that waits for an open future waits for the one under its key.
WaitsAreBooked ==
  \A c \in Caller :
    Waiting(c) => /\ future[caller[c].seq] # "none"
                  /\ future[caller[c].seq] = "open" => pending[caller[c].key] = caller[c].seq

Carrying == Fresh /\ CarriedAreBooked /\ CarriedOnce /\ OpenAreCarried /\ PendingAreOpen

IInv ==
  /\ TypeOK
  /\ Carrying
  /\ WaitsAreBooked
  /\ ActiveCountsFetches

-----------------------------------------------------------------------------
(* The workers, and the shapes of the state's values.                      *)

\* There is a general worker besides the kickoff worker, and there are finitely many of them:
\* two fetches at once are always within the maximum.
LEMMA SeveralWorkers ==
  /\ IsFiniteSet(AllWorkers)
  /\ MaxConcurrency \in Nat
  /\ MaxConcurrency >= 2
<1>1. IsFiniteSet(Worker) /\ Cardinality(Worker) \in Nat
  BY WorkerAssumption, FS_CardinalityType
<1>2. Cardinality(Worker) # 0
  BY <1>1, WorkerAssumption, FS_EmptySet
<1>3. IsFiniteSet(AllWorkers) /\ Cardinality(AllWorkers) = Cardinality(Worker) + 1
  BY <1>1, WorkerAssumption, FS_AddElement DEF AllWorkers
<1> QED
  BY <1>1, <1>2, <1>3 DEF MaxConcurrency

\* The workers that fetch are finitely many, and no more than there are workers.
LEMMA FetchingIsFinite ==
  /\ IsFiniteSet(Fetching)
  /\ Cardinality(Fetching) \in Nat
  /\ Cardinality(Fetching) <= MaxConcurrency
<1>1. Fetching \subseteq AllWorkers
  BY DEF Fetching
<1> QED
  BY <1>1, SeveralWorkers, FS_Subset, FS_CardinalityType DEF MaxConcurrency

\* What a caller in put or in a wait, and a worker with an item, look like.
LEMMA Shapes ==
  ASSUME TypeOK
  PROVE  /\ \A c \in Caller : Puts(c) => caller[c].item \in Item
         /\ \A c \in Caller : Waiting(c) => caller[c].key \in Key /\ caller[c].seq \in Seqs
         /\ \A c \in Caller : caller[c].st \in {"idle", "put", "wait"}
         /\ \A w \in AllWorkers : Holds(w) => worker[w].item \in Item
         /\ \A w \in AllWorkers : worker[w].st \in {"get", "sleep", "blocked", "notified", "fetch"}
         /\ \A w \in AllWorkers : worker[w].st = "sleep" => worker[w].left \in 0 .. Cooldown
<1>1. \A c \in Caller : caller[c] \in CallerState
  BY DEF TypeOK
<1>2. \A w \in AllWorkers : worker[w] \in WorkerState
  BY DEF TypeOK
<1> QED
  BY <1>1, <1>2 DEF CallerState, WorkerState, Puts, Waiting, Holds

\* An item consists of a sequence number, a key, a priority and whether there is a deadline.
LEMMA ItemFields ==
  ASSUME NEW i \in Item
  PROVE  i.seq \in Seqs /\ i.seq \in Nat \ {0} /\ i.key \in Key /\ i.priority \in Priority
  BY DEF Item, Seqs

-----------------------------------------------------------------------------
(* The slots: what a worker that asks for one does to the workers.         *)

\* A worker that goes past the cooldown fetches, and is counted, or waits for a slot; either way
\* it carries the item, and no other worker is touched.
LEMMA SlotTaken ==
  ASSUME TypeOK, NEW w \in AllWorkers, NEW item \in Item, TakeSlot(w, item),
         worker[w].st # "fetch", ActiveCountsFetches
  PROVE  /\ worker' \in [AllWorkers -> WorkerState]
         /\ worker'[w].st # "get" /\ worker'[w].item = item
         /\ \A v \in AllWorkers : v # w => worker'[v] = worker[v]
         /\ active' = Cardinality(Fetching')
         /\ active' \in 0 .. MaxConcurrency
<1>1. CASE active < Allowed(item.priority)
  <2>1. worker' = [worker EXCEPT ![w] = [st |-> "fetch", item |-> item]] /\ active' = active + 1
    BY <1>1 DEF TakeSlot
  <2>2. [st |-> "fetch", item |-> item] \in WorkerState
    BY DEF WorkerState
  <2>3. /\ worker' \in [AllWorkers -> WorkerState]
        /\ worker'[w].st = "fetch" /\ worker'[w].item = item
        /\ \A v \in AllWorkers : v # w => worker'[v] = worker[v]
    BY <2>1, <2>2 DEF TypeOK
  <2>4. Fetching' = Fetching \cup {w} /\ w \notin Fetching
    BY <2>3 DEF Fetching
  <2>5. Cardinality(Fetching') = Cardinality(Fetching) + 1
    BY <2>4, FetchingIsFinite, FS_AddElement
  <2>6. Fetching' \subseteq AllWorkers
    BY DEF Fetching
  <2>7. Cardinality(Fetching') <= MaxConcurrency
    BY <2>6, SeveralWorkers, FS_Subset DEF MaxConcurrency
  <2>8. active' = Cardinality(Fetching')
    BY <2>1, <2>5 DEF ActiveCountsFetches, Fetching
  <2> QED
    BY <2>1, <2>3, <2>7, <2>8, SeveralWorkers DEF TypeOK
<1>2. CASE ~(active < Allowed(item.priority))
  <2>1. worker' = [worker EXCEPT ![w] = [st |-> "blocked", item |-> item]] /\ active' = active
    BY <1>2 DEF TakeSlot
  <2>2. [st |-> "blocked", item |-> item] \in WorkerState
    BY DEF WorkerState
  <2>3. /\ worker' \in [AllWorkers -> WorkerState]
        /\ worker'[w].st = "blocked" /\ worker'[w].item = item
        /\ \A v \in AllWorkers : v # w => worker'[v] = worker[v]
    BY <2>1, <2>2 DEF TypeOK
  <2>4. Fetching' = Fetching
    BY <2>3 DEF Fetching
  <2> QED
    BY <2>1, <2>3, <2>4 DEF ActiveCountsFetches, Fetching, TypeOK
<1> QED
  BY <1>1, <1>2

\* The same for a worker that looks at the cooldown first.
LEMMA SlotEntered ==
  ASSUME TypeOK, NEW w \in AllWorkers, NEW item \in Item, EnterSlot(w, item),
         worker[w].st # "fetch", ActiveCountsFetches
  PROVE  /\ worker' \in [AllWorkers -> WorkerState]
         /\ worker'[w].st # "get" /\ worker'[w].item = item
         /\ \A v \in AllWorkers : v # w => worker'[v] = worker[v]
         /\ active' = Cardinality(Fetching')
         /\ active' \in 0 .. MaxConcurrency
<1>1. CASE cooling > 0
  <2>1. /\ worker' = [worker EXCEPT ![w] = [st |-> "sleep", item |-> item, left |-> cooling]]
        /\ active' = active
    BY <1>1 DEF EnterSlot
  <2>2. [st |-> "sleep", item |-> item, left |-> cooling] \in WorkerState
    BY DEF WorkerState, TypeOK
  <2>3. /\ worker' \in [AllWorkers -> WorkerState]
        /\ worker'[w].st = "sleep" /\ worker'[w].item = item
        /\ \A v \in AllWorkers : v # w => worker'[v] = worker[v]
    BY <2>1, <2>2 DEF TypeOK
  <2>4. Fetching' = Fetching
    BY <2>3 DEF Fetching
  <2> QED
    BY <2>1, <2>3, <2>4 DEF ActiveCountsFetches, Fetching, TypeOK
<1>2. CASE ~(cooling > 0)
  BY <1>2, SlotTaken DEF EnterSlot
<1> QED
  BY <1>1, <1>2

\* notify_all only turns blocked workers into notified ones: each keeps its item, and none
\* starts or ends a fetch.
LEMMA NotifiedKeeps ==
  ASSUME NEW ws \in [AllWorkers -> WorkerState]
  PROVE  /\ Notified(ws) \in [AllWorkers -> WorkerState]
         /\ \A v \in AllWorkers :
              /\ (Notified(ws)[v].st = "get") <=> (ws[v].st = "get")
              /\ (Notified(ws)[v].st = "fetch") <=> (ws[v].st = "fetch")
              /\ ws[v].st # "get" => Notified(ws)[v].item = ws[v].item
<1> SUFFICES ASSUME NEW v \in AllWorkers
    PROVE  /\ Notified(ws)[v] \in WorkerState
           /\ (Notified(ws)[v].st = "get") <=> (ws[v].st = "get")
           /\ (Notified(ws)[v].st = "fetch") <=> (ws[v].st = "fetch")
           /\ ws[v].st # "get" => Notified(ws)[v].item = ws[v].item
  BY DEF Notified
<1>1. ws[v] \in WorkerState
  OBVIOUS
<1>2. CASE ws[v].st = "blocked"
  <2>1. ws[v] \in [st: {"blocked", "notified", "fetch"}, item: Item]
    BY <1>1, <1>2 DEF WorkerState
  <2>2. Notified(ws)[v] = [ws[v] EXCEPT !.st = "notified"]
    BY <1>2 DEF Notified
  <2>3. /\ [ws[v] EXCEPT !.st = "notified"] \in [st: {"blocked", "notified", "fetch"}, item: Item]
        /\ [ws[v] EXCEPT !.st = "notified"].st = "notified"
        /\ [ws[v] EXCEPT !.st = "notified"].item = ws[v].item
    BY <2>1
  <2> QED
    BY <1>2, <2>2, <2>3 DEF WorkerState
<1>3. CASE ws[v].st # "blocked"
  BY <1>1, <1>3 DEF Notified
<1> QED
  BY <1>2, <1>3

\* The limit stays between two and the maximum when a failure halves it.
LEMMA HalvedInRange ==
  ASSUME limit \in 2 .. MaxConcurrency
  PROVE  Halved \in 2 .. MaxConcurrency
  BY SeveralWorkers DEF Halved

\* What a failure records is of the right types.
LEMMA FailureRecorded ==
  ASSUME TypeOK, RecordFailure, failures < MaxFailures
  PROVE  /\ limit' \in 2 .. MaxConcurrency
         /\ healthy' \in 0 .. HealthyTarget
         /\ cooling' \in 0 .. Cooldown
         /\ failures' \in 0 .. MaxFailures
  BY HalvedInRange, SizeAssumption, BoundAssumption DEF TypeOK, RecordFailure

\* And what a success records.
LEMMA SuccessRecorded ==
  ASSUME TypeOK, RecordSuccess
  PROVE  limit' \in 2 .. MaxConcurrency /\ healthy' \in 0 .. HealthyTarget
  BY SeveralWorkers, SizeAssumption DEF TypeOK, RecordSuccess

-----------------------------------------------------------------------------
(* The three ways a step treats the futures and their carriers.            *)

\* Nothing changes hands.
KeepsCarriers ==
  /\ UNCHANGED <<requests, queue, pending, future>>
  /\ \A c \in Caller : Puts(c)' <=> Puts(c)
  /\ \A c \in Caller : Puts(c) => caller'[c].item = caller[c].item
  /\ \A w \in AllWorkers : Holds(w)' <=> Holds(w)
  /\ \A w \in AllWorkers : Holds(w) => worker'[w].item = worker[w].item

\* The futures of ended are resolved; their keys and their carriers go with them.
EndsFutures(ended) ==
  /\ ended \subseteq Seqs
  /\ \A s \in ended : future[s] = "open" /\ future'[s] \in {"result", "error", "cancelled"}
  /\ \A s \in Seqs \ ended : future'[s] = future[s]
  /\ \A k \in Key : pending'[k] = IF pending[k] \in ended THEN 0 ELSE pending[k]
  /\ queue' = {i \in queue : i.seq \notin ended}
  /\ \A c \in Caller : Puts(c) => caller[c].item.seq \notin ended
  /\ \A w \in AllWorkers : Holds(w)' <=> Holds(w) /\ worker[w].item.seq \notin ended
  /\ \A w \in AllWorkers : Holds(w)' => worker'[w].item = worker[w].item
  /\ UNCHANGED <<requests, caller>>

\* A step in which nothing changes hands keeps every future with its carrier.
LEMMA KeptCarriers ==
  ASSUME TypeOK, Carrying, KeepsCarriers
  PROVE  Carrying'
<1>1. Fresh' /\ PendingAreOpen'
  BY DEF Carrying, Fresh, PendingAreOpen, KeepsCarriers
<1>2. CarriedAreBooked'
  BY DEF Carrying, CarriedAreBooked, KeepsCarriers, Booked
<1>3. CarriedOnce'
  BY DEF Carrying, CarriedOnce, KeepsCarriers
<1>4. OpenAreCarried'
  BY DEF Carrying, OpenAreCarried, IsCarried, KeepsCarriers
<1> QED
  BY <1>1, <1>2, <1>3, <1>4 DEF Carrying

\* Resolving some futures together with their keys and carriers leaves the others as they were:
\* the ones who wait find their answer, and no key is left behind.
LEMMA EndedFutures ==
  ASSUME TypeOK, Carrying, WaitsAreBooked, NEW ended, EndsFutures(ended)
  PROVE  Carrying' /\ WaitsAreBooked'
<1> USE DEF EndsFutures
<1>0. 0 \notin ended /\ \A k \in Key : pending[k] # 0 => pending[k] \in Seqs
  BY DEF TypeOK, Seqs
<1>1. Fresh'
  BY DEF Carrying, Fresh
<1>2. CarriedAreBooked'
  <2>1. ASSUME NEW i \in Item, Booked(i), i.seq \notin ended PROVE Booked(i)'
    BY <2>1, ItemFields DEF Booked
  <2>2. ASSUME NEW c \in Caller, Puts(c)' PROVE Booked(caller[c].item)'
    <3>1. Puts(c) /\ caller'[c] = caller[c]
      BY <2>2 DEF Puts
    <3>2. caller[c].item \in Item /\ Booked(caller[c].item) /\ caller[c].item.seq \notin ended
      BY <3>1, Shapes DEF Carrying, CarriedAreBooked
    <3> QED
      BY <3>1, <3>2, <2>1 DEF Booked
  <2>3. ASSUME NEW i \in queue' PROVE Booked(i)'
    BY <2>1 DEF TypeOK, Carrying, CarriedAreBooked
  <2>4. ASSUME NEW w \in AllWorkers, Holds(w)' PROVE Booked(worker[w].item)'
    <3>1. Holds(w) /\ worker'[w].item = worker[w].item /\ worker[w].item.seq \notin ended
      BY <2>4
    <3>2. worker[w].item \in Item /\ Booked(worker[w].item)
      BY <3>1, Shapes DEF Carrying, CarriedAreBooked
    <3> QED
      BY <3>1, <3>2, <2>1 DEF Booked
  <2> QED
    BY <2>2, <2>3, <2>4 DEF CarriedAreBooked
<1>3. CarriedOnce'
  BY DEF Carrying, CarriedOnce, Puts
<1>4. OpenAreCarried'
  <2> SUFFICES ASSUME NEW s \in Seqs, future'[s] = "open" PROVE IsCarried(s)'
    BY DEF OpenAreCarried
  <2>1. s \notin ended /\ future[s] = "open"
    OBVIOUS
  <2>2. IsCarried(s)
    BY <2>1 DEF Carrying, OpenAreCarried
  <2> QED
    BY <2>1, <2>2 DEF IsCarried, Puts
<1>5. PendingAreOpen'
  BY <1>0 DEF Carrying, PendingAreOpen
<1>6. WaitsAreBooked'
  <2> SUFFICES ASSUME NEW c \in Caller, Waiting(c)
      PROVE  /\ future'[caller[c].seq] # "none"
             /\ future'[caller[c].seq] = "open" => pending'[caller[c].key] = caller[c].seq
    BY DEF WaitsAreBooked, Waiting
  <2>1. caller[c].key \in Key /\ caller[c].seq \in Seqs
    BY Shapes
  <2> QED
    BY <2>1 DEF WaitsAreBooked
<1> QED
  BY <1>1, <1>2, <1>3, <1>4, <1>5, <1>6 DEF Carrying

-----------------------------------------------------------------------------
(* What each action does to them.                                          *)

\* The bounds on requests, failures and closes are numbers.
LEMMA Bounds == MaxRequests \in Nat /\ MaxFailures \in Nat /\ MaxCloses \in Nat
  BY BoundAssumption

\* A wait for a key and a sequence number is a caller's state.
LEMMA WaitsIsState ==
  ASSUME NEW k \in Key, NEW s \in Seqs
  PROVE  /\ Waits(k, s) \in CallerState
         /\ Waits(k, s).st = "wait" /\ Waits(k, s).key = k /\ Waits(k, s).seq = s
  BY DEF Waits, CallerState

\* Joining a pending request adds a caller that waits for the future under its key.
LEMMA JoinStep ==
  ASSUME IInv, NEW c \in Caller, NEW k \in Key, Join(c, k)
  PROVE  IInv'
<1>1. pending[k] \in Seqs /\ future[pending[k]] = "open"
  BY DEF Join, IInv, TypeOK, Seqs, Carrying, PendingAreOpen
<1>2. /\ Waits(k, pending[k]) \in CallerState
      /\ Waits(k, pending[k]).st = "wait"
      /\ Waits(k, pending[k]).key = k /\ Waits(k, pending[k]).seq = pending[k]
  BY <1>1, WaitsIsState
<1>3. TypeOK'
  BY <1>2 DEF Join, IInv, TypeOK
<1>4. caller'[c] = Waits(k, pending[k]) /\ \A d \in Caller : d # c => caller'[d] = caller[d]
  BY DEF Join, IInv, TypeOK
<1>5. KeepsCarriers
  BY <1>2, <1>4 DEF Join, KeepsCarriers, Puts, Holds
<1>6. WaitsAreBooked'
  BY <1>1, <1>2, <1>4 DEF Join, IInv, WaitsAreBooked, Waiting
<1>7. ActiveCountsFetches'
  BY DEF Join, IInv, ActiveCountsFetches
<1> QED
  BY <1>3, <1>5, <1>6, <1>7, KeptCarriers DEF IInv

\* A caller that has its answer carried nothing.
LEMMA AnswerStep ==
  ASSUME IInv, NEW c \in Caller, Answer(c)
  PROVE  IInv'
<1>1. [st |-> "idle"] \in CallerState
  BY DEF CallerState
<1>2. TypeOK'
  BY <1>1 DEF Answer, IInv, TypeOK
<1>3. caller'[c] = [st |-> "idle"] /\ \A d \in Caller : d # c => caller'[d] = caller[d]
  BY DEF Answer, IInv, TypeOK
<1>4. KeepsCarriers
  BY <1>3 DEF Answer, KeepsCarriers, Puts, Holds
<1>5. WaitsAreBooked'
  BY <1>3 DEF Answer, IInv, WaitsAreBooked, Waiting
<1>6. ActiveCountsFetches'
  BY DEF Answer, IInv, ActiveCountsFetches
<1> QED
  BY <1>2, <1>4, <1>5, <1>6, KeptCarriers DEF IInv

\* A new request gets a sequence number no future has used, is put under its key, and is carried
\* by its caller or by the queue.
LEMMA SubmitStep ==
  ASSUME IInv, NEW c \in Caller, NEW k \in Key, NEW priority \in Priority,
         NEW deadline \in BOOLEAN, Submit(c, k, priority, deadline)
  PROVE  IInv'
<1>1. PICK s \in Seqs, item \in Item :
        /\ s = requests + 1 /\ item.seq = s /\ item.key = k
        /\ \/ caller' = [caller EXCEPT ![c] = [st |-> "put", item |-> item]] /\ queue' = queue
           \/ caller' = [caller EXCEPT ![c] = Waits(k, s)] /\ queue' = queue \cup {item}
        /\ requests' = s /\ pending' = [pending EXCEPT ![k] = s]
        /\ future' = [future EXCEPT ![s] = "open"]
  <2> DEFINE n  == requests + 1
             it == [seq |-> n, key |-> k, priority |-> priority, deadline |-> deadline]
  <2>1. n \in Seqs
    BY BoundAssumption DEF Submit, IInv, TypeOK, Seqs
  <2>2. it \in Item /\ it.seq = n /\ it.key = k
    BY <2>1 DEF Item
  <2>3. /\ \/ caller' = [caller EXCEPT ![c] = [st |-> "put", item |-> it]] /\ queue' = queue
           \/ caller' = [caller EXCEPT ![c] = Waits(k, n)] /\ queue' = queue \cup {it}
        /\ requests' = n /\ pending' = [pending EXCEPT ![k] = n]
        /\ future' = [future EXCEPT ![n] = "open"]
    BY DEF Submit, Registered
  <2> HIDE DEF n, it
  <2> QED
    BY <2>1, <2>2, <2>3 DEF n
<1>2. requests \in Nat /\ s \in Nat \ {0}
  BY DEF IInv, TypeOK, Seqs
<1>3. future[s] = "none"
  BY <1>1, <1>2 DEF IInv, Carrying, Fresh
<1>4. /\ requests' = s /\ pending' = [pending EXCEPT ![k] = s]
      /\ future' = [future EXCEPT ![s] = "open"]
      /\ caller[c].st = "idle" /\ pending[k] = 0
      /\ UNCHANGED <<worker, active, limit, healthy, cooling, failures, closes>>
      /\ running' = TRUE
  BY <1>1 DEF Submit
<1>5. \/ caller' = [caller EXCEPT ![c] = [st |-> "put", item |-> item]] /\ queue' = queue
      \/ caller' = [caller EXCEPT ![c] = Waits(k, s)] /\ queue' = queue \cup {item}
  BY <1>1
<1>6. /\ Waits(k, s) \in CallerState
      /\ Waits(k, s).st = "wait" /\ Waits(k, s).key = k /\ Waits(k, s).seq = s
  BY <1>1, WaitsIsState
<1>7. [st |-> "put", item |-> item] \in CallerState
  BY DEF CallerState
<1>8. /\ \/ caller'[c].st = "put" /\ caller'[c].item = item /\ queue' = queue
         \/ /\ caller'[c].st = "wait" /\ caller'[c].key = k /\ caller'[c].seq = s
            /\ queue' = queue \cup {item}
      /\ \A d \in Caller : d # c => caller'[d] = caller[d]
  BY <1>5, <1>6, <1>7 DEF IInv, TypeOK
<1>9. TypeOK'
  <2>1. caller' \in [Caller -> CallerState] /\ queue' \subseteq Item
    BY <1>5, <1>6, <1>7 DEF IInv, TypeOK
  <2>2. pending' \in [Key -> 0 .. MaxRequests] /\ requests' \in 0 .. MaxRequests
    BY <1>1, <1>4 DEF IInv, TypeOK, Seqs
  <2>3. future' \in [Seqs -> {"none", "open", "result", "error", "cancelled"}]
    BY <1>1, <1>4 DEF IInv, TypeOK
  <2> QED
    BY <1>4, <2>1, <2>2, <2>3 DEF IInv, TypeOK
<1>10. /\ \A t \in Seqs : future'[t] = IF t = s THEN "open" ELSE future[t]
       /\ \A l \in Key : pending'[l] = IF l = k THEN s ELSE pending[l]
  BY <1>4 DEF IInv, TypeOK
\* Every carrier of before carries an open future, so an older one than s, under another key.
<1>11. ASSUME NEW i \in Item, Booked(i) PROVE i.seq # s /\ i.key # k /\ Booked(i)'
  <2>1. i.seq # s
    BY <1>3, <1>11 DEF Booked
  <2>2. i.key # k
    BY <1>4, <1>11, ItemFields DEF Booked
  <2> QED
    BY <1>10, <1>11, <2>1, <2>2, ItemFields DEF Booked
<1>12. Booked(item)'
  BY <1>1, <1>10 DEF Booked
<1>13. /\ \A d \in Caller : d # c => /\ Puts(d)' <=> Puts(d)
                                     /\ caller'[d].item = caller[d].item
       /\ ~Puts(c)
       /\ \A w \in AllWorkers : (Holds(w)' <=> Holds(w)) /\ worker'[w] = worker[w]
  BY <1>4, <1>8 DEF Puts, Holds
<1>14. /\ \A d \in Caller : Puts(d) => Booked(caller[d].item) /\ caller[d].item \in Item
       /\ \A i \in queue : Booked(i) /\ i \in Item
       /\ \A w \in AllWorkers : Holds(w) => Booked(worker[w].item) /\ worker[w].item \in Item
  BY Shapes DEF IInv, Carrying, CarriedAreBooked, TypeOK
<1>15. /\ \A d \in Caller : Puts(d) => caller[d].item.seq # s
       /\ \A i \in queue : i.seq # s
       /\ \A w \in AllWorkers : Holds(w) => worker[w].item.seq # s
  BY <1>11, <1>14
<1>16. Fresh'
  BY <1>1, <1>2, <1>4, <1>10 DEF IInv, Carrying, Fresh, Seqs
<1>17. CarriedAreBooked'
  <2>1. ASSUME NEW d \in Caller, Puts(d)' PROVE Booked(caller[d].item)'
    <3>1. CASE d = c
      BY <1>8, <1>12, <2>1, <3>1 DEF Puts, Booked
    <3>2. CASE d # c
      <4>1. Puts(d) /\ caller'[d].item = caller[d].item
        BY <1>13, <2>1, <3>2
      <4>2. caller[d].item \in Item /\ Booked(caller[d].item)
        BY <1>14, <4>1
      <4> QED
        BY <1>11, <4>1, <4>2 DEF Booked
    <3> QED
      BY <3>1, <3>2
  <2>2. ASSUME NEW i \in queue' PROVE Booked(i)'
    <3>1. CASE i = item
      BY <1>12, <3>1 DEF Booked
    <3>2. CASE i \in queue
      BY <1>11, <1>14, <3>2
    <3> QED
      BY <1>8, <3>1, <3>2
  <2>3. ASSUME NEW w \in AllWorkers, Holds(w)' PROVE Booked(worker[w].item)'
    <3>1. Holds(w) /\ worker'[w] = worker[w]
      BY <1>13, <2>3
    <3>2. worker[w].item \in Item /\ Booked(worker[w].item)
      BY <1>14, <3>1
    <3> QED
      BY <1>11, <3>1, <3>2 DEF Booked
  <2> QED
    BY <2>1, <2>2, <2>3 DEF CarriedAreBooked
<1>18. CarriedOnce'
  <2>1. CASE caller'[c].st = "put" /\ caller'[c].item = item /\ queue' = queue
    BY <1>1, <1>13, <1>15, <2>1 DEF IInv, Carrying, CarriedOnce
  <2>2. CASE caller'[c].st = "wait" /\ queue' = queue \cup {item}
    <3>1. ~Puts(c)'
      BY <2>2 DEF Puts
    <3> QED
      BY <1>1, <1>13, <1>15, <2>2, <3>1 DEF IInv, Carrying, CarriedOnce
  <2> QED
    BY <1>8, <2>1, <2>2
<1>19. OpenAreCarried'
  <2> SUFFICES ASSUME NEW t \in Seqs, future'[t] = "open" PROVE IsCarried(t)'
    BY DEF OpenAreCarried
  <2>1. CASE t = s
    BY <1>1, <1>8, <2>1 DEF IsCarried, Puts
  <2>2. CASE t # s
    <3>1. IsCarried(t)
      BY <1>10, <2>2 DEF IInv, Carrying, OpenAreCarried
    <3> QED
      BY <1>8, <1>13, <3>1 DEF IsCarried
  <2> QED
    BY <2>1, <2>2
<1>20. PendingAreOpen'
  <2>1. \A l \in Key : pending[l] # 0 => pending[l] \in Seqs /\ pending[l] # s
    BY <1>3 DEF IInv, TypeOK, Seqs, Carrying, PendingAreOpen
  <2> QED
    BY <1>1, <1>10, <2>1 DEF IInv, Carrying, PendingAreOpen
<1>21. WaitsAreBooked'
  <2> SUFFICES ASSUME NEW d \in Caller, Waiting(d)'
      PROVE  /\ future'[caller'[d].seq] # "none"
             /\ future'[caller'[d].seq] = "open" => pending'[caller'[d].key] = caller'[d].seq
    BY DEF WaitsAreBooked
  <2>1. CASE d = c
    BY <1>1, <1>8, <1>10, <2>1 DEF Waiting
  <2>2. CASE d # c
    <3>1. caller'[d] = caller[d] /\ Waiting(d)
      BY <1>8, <2>2 DEF Waiting
    <3>2. caller[d].key \in Key /\ caller[d].seq \in Seqs /\ caller[d].seq # s
      BY <1>3, <3>1, Shapes DEF IInv, WaitsAreBooked
    <3>3. future[caller[d].seq] = "open" => caller[d].key # k
      BY <1>4, <3>1, <3>2 DEF IInv, WaitsAreBooked, Seqs
    <3> QED
      BY <1>10, <3>1, <3>2, <3>3 DEF IInv, WaitsAreBooked
  <2> QED
    BY <2>1, <2>2
<1>22. ActiveCountsFetches'
  BY <1>4 DEF IInv, ActiveCountsFetches
<1> QED
  BY <1>9, <1>16, <1>17, <1>18, <1>19, <1>20, <1>21, <1>22 DEF IInv, Carrying

\* The item a caller could not put goes into the queue when there is room: it changes hands, and
\* nothing else does.
LEMMA PutStep ==
  ASSUME IInv, NEW c \in Caller, Put(c)
  PROVE  IInv'
<1>1. PICK item \in Item : item = caller[c].item
  BY Shapes DEF Put, IInv, Puts
<1>2. Booked(item) /\ item.seq \in Seqs /\ item.key \in Key
  BY <1>1, ItemFields DEF Put, IInv, Carrying, CarriedAreBooked, Puts
<1>3. /\ Waits(item.key, item.seq) \in CallerState
      /\ Waits(item.key, item.seq).st = "wait"
      /\ Waits(item.key, item.seq).key = item.key /\ Waits(item.key, item.seq).seq = item.seq
  BY <1>2, WaitsIsState
<1>4. /\ caller' = [caller EXCEPT ![c] = Waits(item.key, item.seq)] /\ queue' = queue \cup {item}
      /\ UNCHANGED <<requests, pending, future, worker, running, active, limit, healthy, cooling,
                     failures, closes>>
      /\ Puts(c)
  BY <1>1 DEF Put, Puts
<1>5. TypeOK'
  BY <1>3, <1>4 DEF IInv, TypeOK
<1>6. /\ caller'[c].st = "wait" /\ caller'[c].key = item.key /\ caller'[c].seq = item.seq
      /\ \A d \in Caller : d # c => caller'[d] = caller[d]
  BY <1>3, <1>4 DEF IInv, TypeOK
<1>7. /\ ~Puts(c)'
      /\ \A d \in Caller : d # c => (Puts(d)' <=> Puts(d)) /\ caller'[d] = caller[d]
      /\ \A w \in AllWorkers : (Holds(w)' <=> Holds(w)) /\ worker'[w] = worker[w]
  BY <1>4, <1>6 DEF Puts, Holds
<1>8. Fresh' /\ PendingAreOpen'
  BY <1>4 DEF IInv, Carrying, Fresh, PendingAreOpen
<1>9. CarriedAreBooked'
  BY <1>2, <1>4, <1>7 DEF IInv, Carrying, CarriedAreBooked, Booked
<1>10. CarriedOnce'
  BY <1>1, <1>4, <1>7 DEF IInv, Carrying, CarriedOnce
<1>11. OpenAreCarried'
  <2> SUFFICES ASSUME NEW t \in Seqs, future[t] = "open" PROVE IsCarried(t)'
    BY <1>4 DEF OpenAreCarried
  <2>1. IsCarried(t)
    BY DEF IInv, Carrying, OpenAreCarried
  <2> QED
    BY <1>1, <1>4, <1>7, <2>1 DEF IsCarried
<1>12. WaitsAreBooked'
  BY <1>2, <1>4, <1>6 DEF IInv, WaitsAreBooked, Waiting, Booked
<1>13. ActiveCountsFetches'
  BY <1>4 DEF IInv, ActiveCountsFetches
<1> QED
  BY <1>5, <1>8, <1>9, <1>10, <1>11, <1>12, <1>13 DEF IInv, Carrying

\* The item a worker gets goes from the queue to the worker.
LEMMA GetStep ==
  ASSUME IInv, NEW w \in AllWorkers, Get(w)
  PROVE  IInv'
<1>1. PICK item \in Head(w) : queue' = queue \ {item} /\ EnterSlot(w, item)
  BY DEF Get
<1>2. /\ UNCHANGED <<requests, pending, future, caller, running, limit, healthy, cooling,
                     failures, closes>>
      /\ worker[w].st = "get" /\ ~Holds(w)
  BY DEF Get, Holds
<1>3. item \in queue /\ item \in Item /\ Booked(item)
  BY DEF Head, IInv, TypeOK, Carrying, CarriedAreBooked
<1>4. /\ worker' \in [AllWorkers -> WorkerState]
      /\ worker'[w].st # "get" /\ worker'[w].item = item
      /\ \A v \in AllWorkers : v # w => worker'[v] = worker[v]
      /\ active' = Cardinality(Fetching')
      /\ active' \in 0 .. MaxConcurrency
  BY <1>1, <1>2, <1>3, SlotEntered DEF IInv
<1>5. TypeOK'
  BY <1>1, <1>2, <1>4 DEF IInv, TypeOK
<1>6. /\ Holds(w)' /\ worker'[w].item = item
      /\ \A v \in AllWorkers : v # w => (Holds(v)' <=> Holds(v)) /\ worker'[v] = worker[v]
      /\ \A c \in Caller : (Puts(c)' <=> Puts(c)) /\ caller'[c] = caller[c]
  BY <1>2, <1>4 DEF Holds, Puts
<1>7. Fresh' /\ PendingAreOpen' /\ WaitsAreBooked'
  BY <1>2 DEF IInv, Carrying, Fresh, PendingAreOpen, WaitsAreBooked, Waiting
<1>8. CarriedAreBooked'
  BY <1>1, <1>2, <1>3, <1>6 DEF IInv, Carrying, CarriedAreBooked, Booked
<1>9. CarriedOnce'
  BY <1>1, <1>3, <1>6 DEF IInv, Carrying, CarriedOnce
<1>10. OpenAreCarried'
  <2> SUFFICES ASSUME NEW t \in Seqs, future[t] = "open" PROVE IsCarried(t)'
    BY <1>2 DEF OpenAreCarried
  <2>1. IsCarried(t)
    BY DEF IInv, Carrying, OpenAreCarried
  <2> QED
    BY <1>1, <1>2, <1>6, <2>1 DEF IsCarried
<1>11. ActiveCountsFetches'
  BY <1>4 DEF ActiveCountsFetches, Fetching
<1> QED
  BY <1>5, <1>7, <1>8, <1>9, <1>10, <1>11 DEF IInv, Carrying

\* A worker that asks for its slot again holds the same item.
LEMMA SlotStep ==
  ASSUME IInv, NEW w \in AllWorkers, Wake(w) \/ Retry(w)
  PROVE  IInv'
<1>1. /\ UNCHANGED <<requests, queue, pending, future, caller, running, limit, healthy, cooling,
                     failures, closes>>
      /\ worker[w].st # "fetch" /\ Holds(w)
  BY DEF Wake, Retry, Holds
<1>2. worker[w].item \in Item
  BY <1>1, Shapes DEF IInv
<1>3. /\ worker' \in [AllWorkers -> WorkerState]
      /\ worker'[w].st # "get" /\ worker'[w].item = worker[w].item
      /\ \A v \in AllWorkers : v # w => worker'[v] = worker[v]
      /\ active' = Cardinality(Fetching')
      /\ active' \in 0 .. MaxConcurrency
  <2>1. CASE Wake(w)
    BY <1>1, <1>2, <2>1, SlotTaken DEF Wake, IInv
  <2>2. CASE Retry(w)
    BY <1>1, <1>2, <2>2, SlotEntered DEF Retry, IInv
  <2> QED
    BY <2>1, <2>2
<1>4. TypeOK'
  BY <1>1, <1>3 DEF IInv, TypeOK
<1>5. KeepsCarriers
  BY <1>1, <1>3 DEF KeepsCarriers, Puts, Holds
<1>6. WaitsAreBooked'
  BY <1>1 DEF IInv, WaitsAreBooked, Waiting
<1>7. ActiveCountsFetches'
  BY <1>3 DEF ActiveCountsFetches, Fetching
<1> QED
  BY <1>4, <1>5, <1>6, <1>7, KeptCarriers DEF IInv

\* Time that passes shortens the cooldown and the sleeps.
LEMMA TickStep ==
  ASSUME IInv, Tick
  PROVE  IInv'
<1>1. UNCHANGED <<requests, queue, pending, future, caller, running, active, limit, healthy,
                  failures, closes>>
  BY DEF Tick
<1>2. cooling' \in 0 .. Cooldown
  BY SizeAssumption DEF Tick, IInv, TypeOK
<1>3. ASSUME NEW w \in AllWorkers
      PROVE  /\ worker'[w] \in WorkerState
             /\ worker'[w].st = worker[w].st
             /\ Holds(w) => worker'[w].item = worker[w].item
  <2>1. worker[w] \in WorkerState
    BY DEF IInv, TypeOK
  <2>2. CASE worker[w].st = "sleep" /\ worker[w].left > 0
    <3>1. worker'[w] = [worker[w] EXCEPT !.left = @ - 1]
      BY <2>2 DEF Tick
    <3>2. worker[w] \in [st: {"sleep"}, item: Item, left: 0 .. Cooldown]
      BY <2>1, <2>2 DEF WorkerState
    <3>3. worker[w].left - 1 \in 0 .. Cooldown
      BY <2>2, <3>2, SizeAssumption
    <3>4. /\ worker'[w] \in [st: {"sleep"}, item: Item, left: 0 .. Cooldown]
          /\ worker'[w].st = worker[w].st /\ worker'[w].item = worker[w].item
      BY <3>1, <3>2, <3>3
    <3> QED
      BY <3>4 DEF WorkerState
  <2>3. CASE ~(worker[w].st = "sleep" /\ worker[w].left > 0)
    BY <2>1, <2>3 DEF Tick
  <2> QED
    BY <2>2, <2>3
<1>4. worker' \in [AllWorkers -> WorkerState]
  BY <1>3 DEF Tick
<1>5. TypeOK'
  BY <1>1, <1>2, <1>4 DEF IInv, TypeOK
<1>6. KeepsCarriers
  BY <1>1, <1>3 DEF KeepsCarriers, Puts, Holds
<1>7. WaitsAreBooked'
  BY <1>1 DEF IInv, WaitsAreBooked, Waiting
<1>8. Fetching' = Fetching
  BY <1>3 DEF Fetching
<1>9. ActiveCountsFetches'
  BY <1>1, <1>8 DEF IInv, ActiveCountsFetches, Fetching
<1> QED
  BY <1>5, <1>6, <1>7, <1>9, KeptCarriers DEF IInv

-----------------------------------------------------------------------------
(* The actions that resolve futures.                                       *)

\* An item whose deadline has passed ends with its future, its key and its place in the queue.
LEMMA ExpireEnds ==
  ASSUME IInv, NEW w \in AllWorkers, Expire(w)
  PROVE  \E ended : EndsFutures(ended)
<1>1. PICK item \in Head(w) : queue' = queue \ {item} /\ Done(item, "error")
  BY DEF Expire
<1>2. item \in queue /\ item \in Item /\ Booked(item)
  BY DEF Head, IInv, TypeOK, Carrying, CarriedAreBooked
<1>3. worker' = Notified(worker) /\ UNCHANGED <<requests, caller>>
  BY DEF Expire
<1>4. \A v \in AllWorkers : /\ Holds(v)' <=> Holds(v)
                            /\ Holds(v) => worker'[v].item = worker[v].item
  BY <1>3, NotifiedKeeps DEF IInv, TypeOK, Holds
<1>5. item.seq \in Seqs /\ item.key \in Key /\ item.seq # 0
  BY <1>2, ItemFields
<1>6. /\ \A s \in Seqs : future'[s] = IF s = item.seq THEN "error" ELSE future[s]
      /\ \A k \in Key : pending'[k] = IF k = item.key THEN 0 ELSE pending[k]
  BY <1>1, <1>5 DEF Done, IInv, TypeOK
<1>7. \A k \in Key : pending[k] = item.seq <=> k = item.key
  BY <1>2, <1>5 DEF IInv, Carrying, PendingAreOpen, Booked
<1>8. /\ \A i \in queue : i # item => i.seq # item.seq
      /\ \A c \in Caller : Puts(c) => caller[c].item.seq # item.seq
      /\ \A v \in AllWorkers : Holds(v) => worker[v].item.seq # item.seq
  BY <1>2 DEF IInv, Carrying, CarriedOnce
<1>9. queue' = {i \in queue : i.seq \notin {item.seq}}
  BY <1>1, <1>8
<1>10. EndsFutures({item.seq})
  BY <1>2, <1>3, <1>4, <1>5, <1>6, <1>7, <1>8, <1>9 DEF EndsFutures, Booked
<1> QED
  BY <1>10

\* A fetch that ends resolves the future of its item, frees the key and the worker.
LEMMA FinishEnds ==
  ASSUME IInv, NEW w \in AllWorkers, Finish(w)
  PROVE  \E ended : EndsFutures(ended)
<1>1. PICK item \in Item, outcome \in {"result", "error"} :
        item = worker[w].item /\ Done(item, outcome)
  BY Shapes DEF Finish, IInv, Holds
<1>2. Holds(w) /\ Booked(item)
  BY <1>1 DEF Finish, Holds, IInv, Carrying, CarriedAreBooked
<1>3. /\ worker' = Notified([worker EXCEPT ![w] = Idle])
      /\ UNCHANGED <<requests, queue, caller>>
  BY DEF Finish
<1>4. /\ [worker EXCEPT ![w] = Idle] \in [AllWorkers -> WorkerState]
      /\ [worker EXCEPT ![w] = Idle][w].st = "get"
      /\ \A v \in AllWorkers : v # w => [worker EXCEPT ![w] = Idle][v] = worker[v]
  BY DEF IInv, TypeOK, Idle, WorkerState
<1>5. /\ ~Holds(w)'
      /\ \A v \in AllWorkers : v # w => /\ Holds(v)' <=> Holds(v)
                                        /\ Holds(v) => worker'[v].item = worker[v].item
  BY <1>3, <1>4, NotifiedKeeps DEF Holds
<1>6. item.seq \in Seqs /\ item.key \in Key /\ item.seq # 0
  BY ItemFields
<1>7. /\ \A s \in Seqs : future'[s] = IF s = item.seq THEN outcome ELSE future[s]
      /\ \A k \in Key : pending'[k] = IF k = item.key THEN 0 ELSE pending[k]
  BY <1>1, <1>6 DEF Done, IInv, TypeOK
<1>8. \A k \in Key : pending[k] = item.seq <=> k = item.key
  BY <1>2, <1>6 DEF IInv, Carrying, PendingAreOpen, Booked
<1>9. /\ \A i \in queue : i.seq # item.seq
      /\ \A c \in Caller : Puts(c) => caller[c].item.seq # item.seq
      /\ \A v \in AllWorkers : Holds(v) /\ v # w => worker[v].item.seq # item.seq
  BY <1>1, <1>2 DEF IInv, Carrying, CarriedOnce
<1>10. EndsFutures({item.seq})
  BY <1>1, <1>2, <1>3, <1>5, <1>6, <1>7, <1>8, <1>9 DEF EndsFutures, Booked
<1> QED
  BY <1>10

\* close ends what the workers hold, all of it and nothing else.
LEMMA CloseEnds ==
  ASSUME IInv, Close
  PROVE  \E ended : EndsFutures(ended)
<1> DEFINE Held  == {worker[w].item : w \in {v \in AllWorkers : worker[v].st # "get"}}
           ended == {worker[w].item.seq : w \in {v \in AllWorkers : Holds(v)}}
<1>1. /\ future' = [s \in Seqs |-> IF \E i \in Held : i.seq = s THEN "cancelled" ELSE future[s]]
      /\ pending' = [k \in Key |-> IF \E i \in Held : i.key = k THEN 0 ELSE pending[k]]
      /\ worker' = [w \in AllWorkers |-> Idle]
      /\ UNCHANGED <<requests, queue, caller>>
  BY DEF Close
<1>2. \A i \in Held : i \in Item /\ Booked(i) /\ i.seq \in ended
  BY Shapes DEF IInv, Carrying, CarriedAreBooked, Holds
<1>3. \A s \in ended : \E i \in Held : i.seq = s
  BY DEF Holds
<1>4. \A w \in AllWorkers : ~Holds(w)'
  BY <1>1 DEF Holds, Idle
<1>5. \A w \in AllWorkers : Holds(w) => worker[w].item.seq \in ended
  OBVIOUS
<1>6. /\ \A i \in queue : i.seq \notin ended
      /\ \A c \in Caller : Puts(c) => caller[c].item.seq \notin ended
  BY DEF IInv, Carrying, CarriedOnce
<1> HIDE DEF Held, ended
<1>7. ended \subseteq Seqs
  BY <1>2, <1>3, ItemFields
<1>8. \A s \in Seqs : future'[s] = IF s \in ended THEN "cancelled" ELSE future[s]
  BY <1>1, <1>2, <1>3
<1>9. \A k \in Key : pending'[k] = IF pending[k] \in ended THEN 0 ELSE pending[k]
  <2> SUFFICES ASSUME NEW k \in Key PROVE (\E i \in Held : i.key = k) <=> pending[k] \in ended
    BY <1>1
  <2>1. ASSUME NEW i \in Held, i.key = k PROVE pending[k] \in ended
    BY <1>2, <2>1 DEF Booked
  <2>2. ASSUME pending[k] \in ended PROVE \E i \in Held : i.key = k
    <3>1. PICK i \in Held : i.seq = pending[k]
      BY <1>3, <2>2
    <3>2. i \in Item /\ Booked(i) /\ i.seq # 0 /\ i.key \in Key
      BY <1>2, ItemFields
    <3> QED
      BY <3>1, <3>2 DEF IInv, Carrying, PendingAreOpen, Booked
  <2> QED
    BY <2>1, <2>2
<1>10. \A s \in ended : future[s] = "open"
  BY <1>2, <1>3 DEF Booked
<1>11. EndsFutures(ended)
  BY <1>1, <1>4, <1>5, <1>6, <1>7, <1>8, <1>9, <1>10 DEF EndsFutures
<1> QED
  BY <1>11

\* What the end of a request writes to its future and its key is of the right types.
LEMMA DoneTypes ==
  ASSUME TypeOK, NEW item \in Item, NEW outcome \in {"result", "error"}, Done(item, outcome)
  PROVE  /\ future' \in [Seqs -> {"none", "open", "result", "error", "cancelled"}]
         /\ pending' \in [Key -> 0 .. MaxRequests]
<1>1. outcome \in {"none", "open", "result", "error", "cancelled"} /\ 0 \in 0 .. MaxRequests
  BY Bounds
<1> QED
  BY <1>1 DEF Done, TypeOK

\* An expired deadline touches no slot.
LEMMA ExpireStep ==
  ASSUME IInv, NEW w \in AllWorkers, Expire(w)
  PROVE  IInv'
<1>1. Carrying' /\ WaitsAreBooked'
  BY ExpireEnds, EndedFutures DEF IInv
<1>2. /\ \A v \in AllWorkers : worker'[v].st = "fetch" <=> worker[v].st = "fetch"
      /\ worker' \in [AllWorkers -> WorkerState]
  BY NotifiedKeeps DEF Expire, IInv, TypeOK
<1>3. Fetching' = Fetching
  BY <1>2 DEF Fetching
<1>4. ActiveCountsFetches'
  BY <1>3 DEF Expire, IInv, ActiveCountsFetches, Fetching
<1>5. PICK item \in Head(w) : queue' = queue \ {item} /\ Done(item, "error")
  BY DEF Expire
<1>6. item \in Item
  BY DEF Head, IInv, TypeOK
<1>7. TypeOK'
  <2>1. /\ limit' \in 2 .. MaxConcurrency /\ healthy' \in 0 .. HealthyTarget
        /\ cooling' \in 0 .. Cooldown /\ failures' \in 0 .. MaxFailures
    BY FailureRecorded DEF Expire, IInv
  <2>2. /\ future' \in [Seqs -> {"none", "open", "result", "error", "cancelled"}]
        /\ pending' \in [Key -> 0 .. MaxRequests]
    BY <1>5, <1>6, DoneTypes DEF IInv
  <2>3. queue' \subseteq Item /\ UNCHANGED <<requests, caller, running, active, closes>>
    BY <1>5 DEF Expire, IInv, TypeOK
  <2> QED
    BY <1>2, <2>1, <2>2, <2>3 DEF IInv, TypeOK
<1> QED
  BY <1>1, <1>4, <1>7 DEF IInv

\* A fetch that ends gives back exactly its slot, however it ends.
LEMMA FinishStep ==
  ASSUME IInv, NEW w \in AllWorkers, Finish(w)
  PROVE  IInv'
<1>1. Carrying' /\ WaitsAreBooked'
  BY FinishEnds, EndedFutures DEF IInv
<1>2. /\ [worker EXCEPT ![w] = Idle] \in [AllWorkers -> WorkerState]
      /\ [worker EXCEPT ![w] = Idle][w].st = "get"
      /\ \A v \in AllWorkers : v # w => [worker EXCEPT ![w] = Idle][v] = worker[v]
  BY DEF IInv, TypeOK, Idle, WorkerState
<1>3. /\ worker' \in [AllWorkers -> WorkerState]
      /\ worker'[w].st # "fetch"
      /\ \A v \in AllWorkers : v # w => (worker'[v].st = "fetch" <=> worker[v].st = "fetch")
  <2>1. PICK ws \in [AllWorkers -> WorkerState] : ws = [worker EXCEPT ![w] = Idle]
    BY <1>2
  <2>2. worker' = Notified(ws)
    BY <2>1 DEF Finish
  <2>3. ws[w].st = "get" /\ \A v \in AllWorkers : v # w => ws[v] = worker[v]
    BY <1>2, <2>1
  <2>4. /\ worker' \in [AllWorkers -> WorkerState]
        /\ \A v \in AllWorkers : worker'[v].st = "fetch" <=> ws[v].st = "fetch"
    BY <2>2, NotifiedKeeps
  <2> QED
    BY <2>3, <2>4
<1>4. Fetching' = Fetching \ {w} /\ w \in Fetching
  BY <1>3 DEF Fetching, Finish
<1>5. Cardinality(Fetching') = Cardinality(Fetching) - 1
  BY <1>4, FetchingIsFinite, FS_RemoveElement
<1>6. active' = active - 1 /\ UNCHANGED <<requests, queue, caller, running, closes>>
  BY DEF Finish, FreedSlot
<1>7. active' = Cardinality(Fetching') /\ active' \in 0 .. MaxConcurrency
  <2>1. Fetching' \subseteq Fetching
    BY <1>4
  <2>2. Cardinality(Fetching') \in Nat
    BY <2>1, FetchingIsFinite, FS_Subset, FS_CardinalityType
  <2> QED
    BY <1>5, <1>6, <2>2, FetchingIsFinite, SeveralWorkers DEF IInv, ActiveCountsFetches, Fetching
<1>8. TypeOK'
  <2>1. PICK outcome \in {"result", "error"} :
          /\ Done(worker[w].item, outcome)
          /\ \/ outcome = "result" /\ RecordSuccess /\ UNCHANGED <<cooling, failures>>
             \/ failures < MaxFailures /\ RecordFailure
    BY DEF Finish
  <2>2. /\ limit' \in 2 .. MaxConcurrency /\ healthy' \in 0 .. HealthyTarget
        /\ cooling' \in 0 .. Cooldown /\ failures' \in 0 .. MaxFailures
    BY <2>1, FailureRecorded, SuccessRecorded DEF IInv, TypeOK
  <2>3. worker[w].item \in Item
    BY Shapes DEF Finish, IInv, Holds
  <2>4. /\ future' \in [Seqs -> {"none", "open", "result", "error", "cancelled"}]
        /\ pending' \in [Key -> 0 .. MaxRequests]
    BY <2>1, <2>3, DoneTypes DEF IInv
  <2> QED
    BY <1>3, <1>6, <1>7, <2>2, <2>4 DEF IInv, TypeOK
<1>9. ActiveCountsFetches'
  BY <1>7 DEF ActiveCountsFetches, Fetching
<1> QED
  BY <1>1, <1>8, <1>9 DEF IInv

\* close gives back the slot of every fetch it cancels: none is left.
LEMMA CloseStep ==
  ASSUME IInv, Close
  PROVE  IInv'
<1>1. Carrying' /\ WaitsAreBooked'
  BY CloseEnds, EndedFutures DEF IInv
<1>2. worker' = [w \in AllWorkers |-> Idle] /\ Idle.st = "get" /\ Idle \in WorkerState
  BY DEF Close, Idle, WorkerState
<1>3. Fetching' = {}
  BY <1>2 DEF Fetching
<1>4. active' = active - Cardinality(Fetching)
  BY DEF Close, Fetching
<1>5. active' = 0
  BY <1>4, FetchingIsFinite DEF IInv, ActiveCountsFetches, Fetching
<1>6. ActiveCountsFetches'
  BY <1>3, <1>5, FS_EmptySet DEF ActiveCountsFetches, Fetching
<1>7. TypeOK'
  <2>1. future' \in [Seqs -> {"none", "open", "result", "error", "cancelled"}]
    BY DEF Close, IInv, TypeOK
  <2>2. pending' \in [Key -> 0 .. MaxRequests]
    BY Bounds DEF Close, IInv, TypeOK
  <2>3. closes' \in 0 .. MaxCloses /\ running' \in BOOLEAN
    <3>1. closes < MaxCloses /\ closes' = closes + 1 /\ running' = FALSE
      BY DEF Close
    <3>2. closes \in 0 .. MaxCloses
      BY DEF IInv, TypeOK
    <3>3. closes' \in 0 .. MaxCloses
      BY <3>1, <3>2, Bounds
    <3> QED
      BY <3>1, <3>3
  <2>4. UNCHANGED <<requests, queue, caller, limit, healthy, cooling, failures>>
    BY DEF Close
  <2> QED
    BY <1>2, <1>5, <2>1, <2>2, <2>3, <2>4, SeveralWorkers DEF IInv, TypeOK
<1> QED
  BY <1>1, <1>6, <1>7 DEF IInv

-----------------------------------------------------------------------------
(* The invariants.                                                         *)

\* At the start nothing is carried and nothing is pending.
LEMMA InitIngest == Init => IInv
<1> SUFFICES ASSUME Init PROVE IInv
  OBVIOUS
<1>1. TypeOK
  <2>1. [st |-> "idle"] \in CallerState /\ Idle \in WorkerState
    BY DEF CallerState, WorkerState, Idle
  <2>2. /\ caller \in [Caller -> CallerState]
        /\ worker \in [AllWorkers -> WorkerState]
        /\ queue \subseteq Item
        /\ future \in [Seqs -> {"none", "open", "result", "error", "cancelled"}]
        /\ running \in BOOLEAN
    BY <2>1 DEF Init
  <2>3. requests \in 0 .. MaxRequests /\ pending \in [Key -> 0 .. MaxRequests]
    BY Bounds DEF Init
  <2>4. active \in 0 .. MaxConcurrency /\ limit \in 2 .. MaxConcurrency
    BY SeveralWorkers DEF Init
  <2>5. healthy \in 0 .. HealthyTarget /\ cooling \in 0 .. Cooldown
    BY SizeAssumption DEF Init
  <2>6. failures \in 0 .. MaxFailures /\ closes \in 0 .. MaxCloses
    BY Bounds DEF Init
  <2> QED
    BY <2>2, <2>3, <2>4, <2>5, <2>6 DEF TypeOK
<1>2. Fetching = {}
  BY DEF Init, Fetching, Idle
<1>3. ActiveCountsFetches
  BY <1>2, FS_EmptySet DEF Init, ActiveCountsFetches, Fetching
<1>4. /\ \A c \in Caller : ~Puts(c) /\ ~Waiting(c)
      /\ \A w \in AllWorkers : ~Holds(w)
  BY DEF Init, Puts, Waiting, Holds, Idle
<1> QED
  BY <1>1, <1>3, <1>4
     DEF Init, IInv, Carrying, Fresh, CarriedAreBooked, CarriedOnce, OpenAreCarried, PendingAreOpen,
         WaitsAreBooked

\* Every action keeps the inductive invariant.
LEMMA NextIngest == IInv /\ [Next]_vars => IInv'
<1> SUFFICES ASSUME IInv, [Next]_vars PROVE IInv'
  OBVIOUS
<1>1. ASSUME NEW c \in Caller, NEW k \in Key, Join(c, k) PROVE IInv'
  BY <1>1, JoinStep
<1>2. ASSUME NEW c \in Caller, NEW k \in Key, NEW p \in Priority, NEW d \in BOOLEAN,
             Submit(c, k, p, d)
      PROVE  IInv'
  BY <1>2, SubmitStep
<1>3. ASSUME NEW c \in Caller, CallerStep(c) PROVE IInv'
  BY <1>3, PutStep, AnswerStep DEF CallerStep
<1>4. ASSUME NEW w \in AllWorkers, WorkerStep(w) PROVE IInv'
  BY <1>4, ExpireStep, GetStep, SlotStep, FinishStep DEF WorkerStep
<1>5. CASE Close
  BY <1>5, CloseStep
<1>6. CASE Tick
  BY <1>6, TickStep
<1>7. CASE UNCHANGED vars
  <2>1. UNCHANGED <<requests, queue, pending, future, caller, worker, running, active, limit,
                    healthy, cooling, failures, closes>>
    BY <1>7 DEF vars
  <2>2. KeepsCarriers
    BY <2>1 DEF KeepsCarriers, Puts, Holds
  <2>3. TypeOK' /\ WaitsAreBooked' /\ ActiveCountsFetches'
    BY <2>1 DEF IInv, TypeOK, WaitsAreBooked, Waiting, ActiveCountsFetches
  <2> QED
    BY <2>2, <2>3, KeptCarriers DEF IInv
<1> QED
  BY <1>1, <1>2, <1>3, <1>4, <1>5, <1>6, <1>7 DEF Next

\* So it holds in every state.
LEMMA IngestInvariant == Spec => []IInv
  BY InitIngest, NextIngest, PTL DEF Spec

\* The coordinator's state has its types: the limit stays between two and the number of workers,
\* whatever fails and succeeds.
THEOREM IngestTypes == Spec => []TypeOK
<1>1. IInv => TypeOK
  BY DEF IInv
<1> QED
  BY <1>1, IngestInvariant, PTL

\* A future that is carried, and no two carriers of one, make the set of its carriers a
\* singleton.
LEMMA OneCarrier ==
  ASSUME IInv, NEW s \in Seqs, future[s] = "open"
  PROVE  Cardinality(Carriers(s)) = 1 /\ \E k \in Key : pending[k] = s
<1>1. CarriedOnce /\ CarriedAreBooked /\ IsCarried(s)
  BY DEF IInv, Carrying, OpenAreCarried
<1>2. ASSUME NEW c \in Caller, Puts(c), caller[c].item.seq = s
      PROVE  Carriers(s) = {c} /\ \E k \in Key : pending[k] = s
  <2>1. \A d \in Caller : caller[d].st = "put" /\ caller[d].item.seq = s <=> d = c
    BY <1>1, <1>2 DEF CarriedOnce, Puts
  <2>2. \A i \in queue : i.seq # s
    BY <1>1, <1>2 DEF CarriedOnce
  <2>3. \A w \in AllWorkers : ~(worker[w].st # "get" /\ worker[w].item.seq = s)
    BY <1>1, <1>2 DEF CarriedOnce, Holds
  <2>4. Carriers(s) = {c}
    BY <2>1, <2>2, <2>3 DEF Carriers
  <2>5. caller[c].item.key \in Key /\ pending[caller[c].item.key] = s
    BY <1>1, <1>2, Shapes, ItemFields DEF IInv, CarriedAreBooked, Booked
  <2> QED
    BY <2>4, <2>5
<1>3. ASSUME NEW i \in queue, i.seq = s
      PROVE  Carriers(s) = {i} /\ \E k \in Key : pending[k] = s
  <2>1. \A d \in Caller : ~(caller[d].st = "put" /\ caller[d].item.seq = s)
    BY <1>1, <1>3 DEF CarriedOnce, Puts
  <2>2. \A j \in queue : j.seq = s <=> j = i
    BY <1>1, <1>3 DEF CarriedOnce
  <2>3. \A w \in AllWorkers : ~(worker[w].st # "get" /\ worker[w].item.seq = s)
    BY <1>1, <1>3 DEF CarriedOnce, Holds
  <2>4. Carriers(s) = {i}
    BY <2>1, <2>2, <2>3 DEF Carriers
  <2>5. i.key \in Key /\ pending[i.key] = s
    BY <1>1, <1>3, ItemFields DEF IInv, TypeOK, CarriedAreBooked, Booked
  <2> QED
    BY <2>4, <2>5
<1>4. ASSUME NEW w \in AllWorkers, Holds(w), worker[w].item.seq = s
      PROVE  Carriers(s) = {w} /\ \E k \in Key : pending[k] = s
  <2>1. \A d \in Caller : ~(caller[d].st = "put" /\ caller[d].item.seq = s)
    BY <1>1, <1>4 DEF CarriedOnce, Puts
  <2>2. \A i \in queue : i.seq # s
    BY <1>1, <1>4 DEF CarriedOnce
  <2>3. \A v \in AllWorkers : worker[v].st # "get" /\ worker[v].item.seq = s <=> v = w
    BY <1>1, <1>4 DEF CarriedOnce, Holds
  <2>4. Carriers(s) = {w}
    BY <2>1, <2>2, <2>3 DEF Carriers
  <2>5. worker[w].item.key \in Key /\ pending[worker[w].item.key] = s
    BY <1>1, <1>4, Shapes, ItemFields DEF IInv, CarriedAreBooked, Booked
  <2> QED
    BY <2>4, <2>5
<1>5. (\E x : Carriers(s) = {x}) /\ \E k \in Key : pending[k] = s
  BY <1>1, <1>2, <1>3, <1>4 DEF IsCarried
<1> QED
  BY <1>5, FS_Singleton

\* Every open future is under its key and carried by exactly one caller, queue or worker, and
\* nobody carries a future that is resolved: no key can stay in the table without a fetch that
\* will free it.
THEOREM PendingCarried == Spec => []PendingIsCarried
<1>1. IInv => PendingIsCarried
  <2> SUFFICES ASSUME IInv PROVE PendingIsCarried
    OBVIOUS
  <2>1. \A k \in Key : pending[k] # 0 => future[pending[k]] = "open"
    BY DEF IInv, Carrying, PendingAreOpen
  <2>2. \A s \in Seqs : future[s] # "open" => Carriers(s) = {}
    BY DEF IInv, Carrying, CarriedAreBooked, Booked, Carriers, Puts, Holds
  <2> QED
    BY <2>1, <2>2, OneCarrier DEF PendingIsCarried
<1> QED
  BY <1>1, IngestInvariant, PTL

\* _active is the number of fetches that run, in every state.
THEOREM ActiveCounted == Spec => []ActiveCountsFetches
<1>1. IInv => ActiveCountsFetches
  BY DEF IInv
<1> QED
  BY <1>1, IngestInvariant, PTL

\* No two workers ever fetch the page of one key at once, however requests are joined, expire,
\* fail or are cancelled.
THEOREM KeysFetchedOnce == Spec => []OneFetchPerKey
<1>1. IInv => OneFetchPerKey
  <2> SUFFICES ASSUME IInv, NEW v \in AllWorkers, NEW w \in AllWorkers, v # w, Holds(v), Holds(w)
      PROVE  worker[v].item.key # worker[w].item.key
    BY DEF OneFetchPerKey, Holds
  <2>1. Booked(worker[v].item) /\ Booked(worker[w].item)
    BY DEF IInv, Carrying, CarriedAreBooked
  <2>2. worker[v].item.seq # worker[w].item.seq
    BY DEF IInv, Carrying, CarriedOnce
  <2> QED
    BY <2>1, <2>2 DEF Booked
<1> QED
  BY <1>1, IngestInvariant, PTL

-----------------------------------------------------------------------------
(* The refinement.                                                         *)

Asking == [c \in Caller |-> Asks(c)]

OpenKeys == {k \in Key : pending[k] # 0}

\* What a caller asks for, by what it is doing: an open future is not resolved.
LEMMA AskedFor ==
  ASSUME IInv, NEW c \in Caller
  PROVE  /\ caller[c].st = "idle" => Asks(c) = NoKey
         /\ Puts(c) => Asks(c) = caller[c].item.key /\ Asks(c) \in Key
         /\ Waiting(c) => Asks(c) = IF future[caller[c].seq] = "open" THEN caller[c].key ELSE NoKey
<1>1. Waiting(c) => future[caller[c].seq] # "none"
  BY DEF IInv, WaitsAreBooked
<1>2. Puts(c) => caller[c].item.key \in Key
  BY Shapes, ItemFields DEF IInv
<1> QED
  BY <1>1, <1>2 DEF Asks, Resolved, Puts, Waiting

\* What a caller asks for is a key that is pending.
LEMMA AskedIsPending ==
  ASSUME IInv, NEW c \in Caller, Asks(c) # NoKey
  PROVE  /\ Asks(c) \in Key
         /\ \/ Puts(c) /\ pending[Asks(c)] = caller[c].item.seq
            \/ /\ Waiting(c) /\ pending[Asks(c)] = caller[c].seq
               /\ future[caller[c].seq] = "open"
<1>1. CASE Puts(c)
  <2>1. Booked(caller[c].item)
    BY <1>1 DEF IInv, Carrying, CarriedAreBooked
  <2> QED
    BY <1>1, <2>1, AskedFor DEF Booked
<1>2. CASE Waiting(c)
  <2>1. future[caller[c].seq] = "open" /\ Asks(c) = caller[c].key
    BY <1>2, AskedFor
  <2>2. caller[c].key \in Key /\ pending[caller[c].key] = caller[c].seq
    BY <1>2, <2>1, Shapes DEF IInv, WaitsAreBooked
  <2> QED
    BY <1>2, <2>1, <2>2
<1>3. Puts(c) \/ Waiting(c)
  BY AskedFor, Shapes DEF IInv, Puts, Waiting
<1> QED
  BY <1>1, <1>2, <1>3

\* Callers that do what they did, and futures that were not resolved, ask for what they asked.
LEMMA AsksTheSame ==
  ASSUME NEW c \in Caller, caller'[c] = caller[c],
         Waiting(c) => (Resolved(caller[c].seq)' <=> Resolved(caller[c].seq))
  PROVE  Asks(c)' = Asks(c)
  BY DEF Asks, Resolved, Waiting

\* The end of some futures is the end of the fetches of their keys: the callers that share them
\* are answered, and nobody else.
LEMMA EndsFlight ==
  ASSUME IInv, IInv', NEW ended, EndsFutures(ended)
  PROVE  Flight!Next
<1>0. PICK keys : keys = {k \in Key : pending[k] \in ended}
  OBVIOUS
<1>1. keys \subseteq OpenKeys
  BY <1>0 DEF EndsFutures, OpenKeys, Seqs
<1>2. OpenKeys' = OpenKeys \ keys
  BY <1>0 DEF EndsFutures, OpenKeys
<1>3. ASSUME NEW c \in Caller PROVE Asks(c)' = IF Asks(c) \in keys THEN NoKey ELSE Asks(c)
  <2>1. caller'[c] = caller[c] /\ (Puts(c)' <=> Puts(c)) /\ (Waiting(c)' <=> Waiting(c))
    BY DEF EndsFutures, Puts, Waiting
  <2>2. CASE Puts(c)
    <3>1. pending[Asks(c)] = caller[c].item.seq /\ caller[c].item.seq \notin ended
      BY <2>2, AskedFor DEF EndsFutures, IInv, Carrying, CarriedAreBooked, Booked
    <3>2. Asks(c)' = Asks(c)
      BY <2>1, <2>2, AsksTheSame DEF Puts, Waiting
    <3> QED
      BY <1>0, <3>1, <3>2
  <2>3. CASE Waiting(c)
    <3>1. caller[c].seq \in Seqs /\ caller[c].key \in Key
      BY <2>3, Shapes DEF IInv
    <3>2. CASE caller[c].seq \in ended
      <4>1. future[caller[c].seq] = "open" /\ Resolved(caller[c].seq)'
        BY <3>2 DEF EndsFutures, Resolved
      <4>2. Asks(c) = caller[c].key /\ pending[caller[c].key] = caller[c].seq
        BY <2>3, <4>1, AskedFor DEF IInv, WaitsAreBooked
      <4>3. Asks(c)' = NoKey
        BY <2>1, <2>3, <4>1 DEF Asks, Waiting, Resolved
      <4> QED
        BY <1>0, <3>1, <3>2, <4>2, <4>3
    <3>3. CASE caller[c].seq \notin ended
      <4>1. Asks(c)' = Asks(c)
        BY <2>1, <3>1, <3>3, AsksTheSame DEF EndsFutures, Resolved
      <4>2. Asks(c) # NoKey => pending[Asks(c)] = caller[c].seq
        BY <2>3, AskedIsPending DEF Puts, Waiting
      <4>3. NoKey \notin keys
        BY <1>0, IngestKeyAssumption
      <4> QED
        BY <1>0, <3>3, <4>1, <4>2, <4>3
    <3> QED
      BY <3>2, <3>3
  <2>4. CASE caller[c].st = "idle"
    <3>1. Asks(c) = NoKey /\ Asks(c)' = NoKey
      BY <2>1, <2>4 DEF Asks
    <3> QED
      BY <1>0, <3>1
  <2> QED
    BY <2>2, <2>3, <2>4, Shapes DEF IInv, Puts, Waiting
<1>4. Asking' = [c \in Caller |-> IF Asking[c] \in keys THEN NoKey ELSE Asking[c]]
  BY <1>3 DEF Asking
<1>5. Flight!End(keys)
  BY <1>2, <1>4 DEF Flight!End, Asking, OpenKeys
<1>6. keys \in SUBSET {k \in Key : pending[k] # 0}
  BY <1>1 DEF OpenKeys
<1> QED
  BY <1>5, <1>6 DEF Flight!Next

\* A caller that submits or joins asks for its key; nobody else does anything.
LEMMA AsksFlight ==
  ASSUME IInv, NEW c \in Caller, NEW k \in Key, caller[c].st = "idle", Asks(c)' = k,
         \A d \in Caller : d # c => Asks(d)' = Asks(d),
         OpenKeys' = OpenKeys \cup {k}
  PROVE  Flight!Next
<1>1. Asking[c] = NoKey
  BY AskedFor DEF Asking
<1>2. Asking' = [Asking EXCEPT ![c] = k]
  BY DEF Asking
<1>3. Flight!Ask(c, k)
  BY <1>1, <1>2 DEF Flight!Ask, Asking, OpenKeys
<1> QED
  BY <1>3 DEF Flight!Next

\* A step in which every caller asks for what it asked, and no key is added or ends.
LEMMA StuttersFlight ==
  ASSUME \A c \in Caller : Asks(c)' = Asks(c), pending' = pending
  PROVE  UNCHANGED Flight!vars
<1>1. Asking' = Asking /\ OpenKeys' = OpenKeys
  BY DEF Asking, OpenKeys
<1> QED
  BY <1>1 DEF Flight!vars, Asking, OpenKeys

\* Joining is asking.
LEMMA JoinFlight ==
  ASSUME IInv, NEW c \in Caller, NEW k \in Key, Join(c, k)
  PROVE  Flight!Next
<1>1. pending[k] \in Seqs /\ future[pending[k]] = "open"
  BY DEF Join, IInv, TypeOK, Seqs, Carrying, PendingAreOpen
<1>2. caller'[c] = Waits(k, pending[k]) /\ \A d \in Caller : d # c => caller'[d] = caller[d]
  BY DEF Join, IInv, TypeOK
<1>3. UNCHANGED <<pending, future>> /\ caller[c].st = "idle" /\ pending[k] # 0
  BY DEF Join
<1>4. Asks(c)' = k
  BY <1>1, <1>2, <1>3, WaitsIsState DEF Asks, Resolved
<1>5. \A d \in Caller : d # c => Asks(d)' = Asks(d)
  BY <1>2, <1>3, AsksTheSame DEF Resolved
<1>6. OpenKeys' = OpenKeys \cup {k}
  BY <1>3 DEF OpenKeys
<1> QED
  BY <1>3, <1>4, <1>5, <1>6, AsksFlight

\* Submitting is asking, whether the queue has room or not.
LEMMA SubmitFlight ==
  ASSUME IInv, NEW c \in Caller, NEW k \in Key, NEW priority \in Priority,
         NEW deadline \in BOOLEAN, Submit(c, k, priority, deadline)
  PROVE  Flight!Next
<1>1. PICK s \in Seqs, item \in Item :
        /\ s = requests + 1 /\ item.key = k
        /\ \/ caller' = [caller EXCEPT ![c] = [st |-> "put", item |-> item]]
           \/ caller' = [caller EXCEPT ![c] = Waits(k, s)]
        /\ pending' = [pending EXCEPT ![k] = s]
        /\ future' = [future EXCEPT ![s] = "open"]
  <2> DEFINE n  == requests + 1
             it == [seq |-> n, key |-> k, priority |-> priority, deadline |-> deadline]
  <2>1. n \in Seqs
    BY BoundAssumption DEF Submit, IInv, TypeOK, Seqs
  <2>2. it \in Item /\ it.key = k
    BY <2>1 DEF Item
  <2>3. /\ \/ caller' = [caller EXCEPT ![c] = [st |-> "put", item |-> it]]
           \/ caller' = [caller EXCEPT ![c] = Waits(k, n)]
        /\ pending' = [pending EXCEPT ![k] = n]
        /\ future' = [future EXCEPT ![n] = "open"]
    BY DEF Submit, Registered
  <2> HIDE DEF n, it
  <2> QED
    BY <2>1, <2>2, <2>3 DEF n
<1>2. caller[c].st = "idle" /\ s # 0
  BY DEF Submit, Seqs
<1>3. future[s] = "none"
  BY <1>1 DEF IInv, Carrying, Fresh, TypeOK, Seqs
<1>4. /\ \A t \in Seqs : future'[t] = IF t = s THEN "open" ELSE future[t]
      /\ \A l \in Key : pending'[l] = IF l = k THEN s ELSE pending[l]
  BY <1>1 DEF IInv, TypeOK
<1>5. /\ \/ caller'[c] = [st |-> "put", item |-> item]
         \/ caller'[c] = Waits(k, s)
      /\ \A d \in Caller : d # c => caller'[d] = caller[d]
  BY <1>1 DEF IInv, TypeOK
<1>6. Asks(c)' = k
  <2>1. CASE caller'[c] = [st |-> "put", item |-> item]
    BY <1>1, <2>1 DEF Asks
  <2>2. CASE caller'[c] = Waits(k, s)
    BY <1>4, <2>2, WaitsIsState DEF Asks, Resolved
  <2> QED
    BY <1>5, <2>1, <2>2
<1>7. ASSUME NEW d \in Caller, d # c PROVE Asks(d)' = Asks(d)
  <2>1. Waiting(d) => caller[d].seq \in Seqs
    BY Shapes DEF IInv
  <2>2. Waiting(d) => (Resolved(caller[d].seq)' <=> Resolved(caller[d].seq))
    BY <1>3, <1>4, <1>5, <1>7, <2>1 DEF Resolved
  <2> QED
    BY <1>5, <1>7, <2>2, AsksTheSame
<1>8. OpenKeys' = OpenKeys \cup {k}
  BY <1>2, <1>4 DEF OpenKeys
<1> QED
  BY <1>2, <1>6, <1>7, <1>8, AsksFlight

\* A caller that puts its item goes on asking for the same key, and one that is answered asked
\* for nothing any more.
LEMMA CallerFlight ==
  ASSUME IInv, NEW c \in Caller, CallerStep(c)
  PROVE  UNCHANGED Flight!vars
<1>1. UNCHANGED <<pending, future>>
  BY DEF CallerStep, Put, Answer
<1>2. \A d \in Caller : d # c => caller'[d] = caller[d]
  BY DEF CallerStep, Put, Answer, IInv, TypeOK
<1>3. \A d \in Caller : d # c => Asks(d)' = Asks(d)
  BY <1>1, <1>2, AsksTheSame DEF Resolved
<1>4. Asks(c)' = Asks(c)
  <2>1. CASE Put(c)
    <3>1. Puts(c) /\ Booked(caller[c].item)
      BY <2>1 DEF Put, Puts, IInv, Carrying, CarriedAreBooked
    <3>2. caller[c].item.seq \in Seqs /\ caller[c].item.key \in Key
      BY <3>1, Shapes, ItemFields DEF IInv
    <3>3. caller'[c] = Waits(caller[c].item.key, caller[c].item.seq)
      BY <2>1 DEF Put, IInv, TypeOK
    <3>4. Asks(c)' = caller[c].item.key
      BY <1>1, <3>1, <3>2, <3>3, WaitsIsState DEF Asks, Resolved, Booked
    <3> QED
      BY <3>1, <3>4, AskedFor
  <2>2. CASE Answer(c)
    <3>1. caller'[c] = [st |-> "idle"]
      BY <2>2 DEF Answer, IInv, TypeOK
    <3>2. Asks(c)' = NoKey
      BY <3>1 DEF Asks
    <3>3. Asks(c) = NoKey
      BY <2>2 DEF Answer, Asks, Resolved
    <3> QED
      BY <3>2, <3>3
  <2> QED
    BY <2>1, <2>2 DEF CallerStep
<1> QED
  BY <1>1, <1>3, <1>4, StuttersFlight

\* Every step of the coordinator is a step of the single flight, or none.
LEMMA NextFlight == IInv /\ IInv' /\ [Next]_vars => [Flight!Next]_(Flight!vars)
<1> SUFFICES ASSUME IInv, IInv', [Next]_vars PROVE [Flight!Next]_(Flight!vars)
  OBVIOUS
<1>1. ASSUME NEW c \in Caller, NEW k \in Key, Join(c, k) PROVE Flight!Next
  BY <1>1, JoinFlight
<1>2. ASSUME NEW c \in Caller, NEW k \in Key, NEW p \in Priority, NEW d \in BOOLEAN,
             Submit(c, k, p, d)
      PROVE  Flight!Next
  BY <1>2, SubmitFlight
<1>3. ASSUME NEW c \in Caller, CallerStep(c) PROVE UNCHANGED Flight!vars
  BY <1>3, CallerFlight
<1>4. ASSUME UNCHANGED <<caller, pending, future>> PROVE UNCHANGED Flight!vars
  BY <1>4, AsksTheSame, StuttersFlight DEF Resolved
<1>5. ASSUME NEW w \in AllWorkers, WorkerStep(w) PROVE [Flight!Next]_(Flight!vars)
  <2>1. CASE Expire(w)
    BY <2>1, ExpireEnds, EndsFlight
  <2>2. CASE Finish(w)
    BY <2>2, FinishEnds, EndsFlight
  <2>3. CASE Get(w) \/ Wake(w) \/ Retry(w)
    BY <1>4, <2>3 DEF Get, Wake, Retry
  <2> QED
    BY <1>5, <2>1, <2>2, <2>3 DEF WorkerStep
<1>6. CASE Close
  BY <1>6, CloseEnds, EndsFlight
<1>7. CASE Tick \/ UNCHANGED vars
  BY <1>4, <1>7 DEF Tick, vars
<1> QED
  BY <1>1, <1>2, <1>3, <1>5, <1>6, <1>7 DEF Next

\* The coordinator implements the abstract single flight: with the queues, the workers, the
\* cooldown and close forgotten, callers ask for keys and fetches end, answering exactly the
\* callers that share them.
THEOREM FlightImplemented == Spec => ImplementsSingleFlight
<1>1. Init => Flight!Init
  BY DEF Init, Flight!Init, Asks
<1>2. IInv /\ IInv' /\ [Next]_vars => [Flight!Next]_(Flight!vars)
  BY NextFlight
<1> QED
  BY <1>1, <1>2, IngestInvariant, PTL DEF Spec, ImplementsSingleFlight, Flight!Spec

\* No caller of submit ever waits for a page that is not pending: the abstract promise, in terms
\* of the coordinator's own state.
THEOREM CallersWaitForAFetch == Spec => []Flight!NobodyWaitsInVain
<1>1. IInv => Flight!NobodyWaitsInVain
  <2> SUFFICES ASSUME IInv, NEW c \in Caller, Asks(c) # NoKey
      PROVE  Asks(c) \in Key /\ pending[Asks(c)] # 0
    BY DEF Flight!NobodyWaitsInVain
  <2>1. 0 \notin Seqs
    BY DEF Seqs
  <2> QED
    BY <2>1, AskedIsPending, Shapes, ItemFields DEF IInv
<1> QED
  BY <1>1, IngestInvariant, PTL

=============================================================================
