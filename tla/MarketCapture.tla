---------------------------- MODULE MarketCapture ----------------------------
(***************************************************************************)
(* Capturing the odds of a match: capture_match runs a capture of every     *)
(* market, a few at a time; each tries up to max_retries_per_match times    *)
(* and leaves a row for every attempt (capture.py).  The rows go through    *)
(* the bounded queue of PersistenceCoordinator, whose worker stores them in *)
(* batches, a transaction each, and answers (persistence.py).               *)
(***************************************************************************)
EXTENDS Naturals, Sequences, FiniteSets

CONSTANTS
  Call,        \* calls of capture_match, and of capture_match_market by archive jobs
  Market,      \* the markets of a match
  Answers,     \* what BetExplorer may answer for each market
  MaxRetries,  \* max_retries_per_match
  MaxMarkets,  \* max_concurrent_markets_per_match
  QueueSize,   \* persistence_queue_size (at least 32 in the code)
  BatchSize,   \* persistence_batch_size
  MaxFaults    \* bound on what fails but fetches: transactions and log entries

Task == Call \X Market

VARIABLES
  call,     \* where each call stands: its result once it has one
  task,     \* where the capture of each market stands
  queue,    \* tasks whose write is in the persistence queue
  worker,   \* the persistence worker
  batch,    \* tasks whose write it holds
  answer,   \* the future of the last write of each task
  rows,     \* scrape_attempts and odds_snapshots of each task, in the order they were stored
  service,  \* how far the process and its shutdown have come
  faults    \* failures so far

vars == <<call, task, queue, worker, batch, answer, rows, service, faults>>

-----------------------------------------------------------------------------
(* Payloads and rows.                                                      *)

WithOdds == {"complete", "partial"}

\* partial: odds, but not of all required bookmakers; unavailable: no odds, and the page says
\* that nobody offers any; empty: no odds, without a word.
Payload == WithOdds \cup {"unavailable", "empty"}

\* What an attempt writes: a snapshot of its payload, or only the error.
Content == Payload \cup {"error"}

ASSUME CaptureAssumption ==
  /\ Answers \in [Market -> SUBSET Content]
  /\ MaxRetries \in Nat \ {0} /\ MaxMarkets \in Nat \ {0}
  /\ QueueSize \in Nat \ {0} /\ BatchSize \in Nat \ {0} /\ MaxFaults \in Nat

Status == {"complete", "partial", "unavailable", "failed"}

TaskRow ==
  [pc : {"off", "ready", "fetch", "put", "wait", "stuck", "sleep", "over", "raised", "cancelled"},
   attempt : 0 .. MaxRetries, saved : BOOLEAN, unavailable : BOOLEAN, trouble : BOOLEAN,
   write : Content \cup {"none"}, status : Status \cup {"none"}]

NoTask == [pc |-> "off", attempt |-> 0, saved |-> FALSE, unavailable |-> FALSE,
           trouble |-> FALSE, write |-> "none", status |-> "none"]

TypeOK ==
  /\ call \in [Call -> {"idle", "running", "saved", "nothing", "raised", "cancelled"}]
  /\ task \in [Task -> TaskRow]
  /\ queue \in Seq(Task) /\ Len(queue) <= QueueSize
  /\ worker \in {"none", "get", "collect", "commit", "stored", "refused"}
  /\ batch \in Seq(Task) /\ Len(batch) <= BatchSize
  /\ answer \in [Task -> {"none", "ok", "error"}]
  /\ rows \in [Task -> Seq([attempt : 1 .. MaxRetries, content : Content])]
  /\ service \in {"up", "closing", "joined", "closed", "ended"}
  /\ faults \in 0 .. MaxFaults

Init ==
  /\ call = [c \in Call |-> "idle"]
  /\ task = [t \in Task |-> NoTask]
  /\ queue = <<>> /\ batch = <<>>
  /\ worker = "none"
  /\ answer = [t \in Task |-> "none"]
  /\ rows = [t \in Task |-> <<>>]
  /\ service = "up"
  /\ faults = 0

Fault == faults < MaxFaults /\ faults' = faults + 1

-----------------------------------------------------------------------------
(* The queue.                                                              *)

\* Defect: one write too many.
RoomForOneMore == Len(queue) <= QueueSize

Room == Len(queue) < QueueSize

\* PersistenceCoordinator._submit: row is the task's row with the write it submits.
Submitted(t, row) ==
  /\ answer' = [answer EXCEPT ![t] = "none"]
  /\ worker' = IF worker = "none" THEN "get" ELSE worker
  /\ IF Room
     THEN queue' = Append(queue, t) /\ task' = [task EXCEPT ![t] = [row EXCEPT !.pc = "wait"]]
     ELSE queue' = queue /\ task' = [task EXCEPT ![t] = [row EXCEPT !.pc = "put"]]

\* Whoever comes first gets the room: a task that waits for it is not served in turn.
Put(t) ==
  /\ task[t].pc = "put" /\ Room
  /\ queue' = Append(queue, t)
  /\ task' = [task EXCEPT ![t].pc = "wait"]
  /\ UNCHANGED <<call, worker, batch, answer, rows, service, faults>>

Take ==
  /\ worker = "get" /\ queue # <<>>
  /\ batch' = <<Head(queue)>> /\ queue' = Tail(queue)
  /\ worker' = "collect"
  /\ UNCHANGED <<call, task, answer, rows, service, faults>>

Collect ==
  /\ worker = "collect" /\ Len(batch) < BatchSize /\ queue # <<>>
  /\ batch' = Append(batch, Head(queue)) /\ queue' = Tail(queue)
  /\ UNCHANGED <<call, task, worker, answer, rows, service, faults>>

\* The batch is full, or the flush interval is over.
Flush ==
  /\ worker = "collect"
  /\ worker' = "commit"
  /\ UNCHANGED <<call, task, queue, batch, answer, rows, service, faults>>

InBatch(t) == \E i \in DOMAIN batch : batch[i] = t

\* Defect: every row is that of the first attempt.
FirstRow(t) == [attempt |-> 1, content |-> task[t].write]

Row(t) == [attempt |-> task[t].attempt, content |-> task[t].write]

RowsWithBatch == [t \in Task |-> IF InBatch(t) THEN Append(rows[t], Row(t)) ELSE rows[t]]

\* persist_capture_batch is one transaction.
Commit ==
  /\ worker = "commit"
  /\ rows' = RowsWithBatch
  /\ worker' = "stored"
  /\ UNCHANGED <<call, task, queue, batch, answer, service, faults>>

CommitFails ==
  /\ worker = "commit"
  /\ Fault
  /\ worker' = "refused"
  /\ UNCHANGED <<call, task, queue, batch, answer, rows, service>>

\* Defect: the tasks of a batch that failed are not told.
AnsweredSuccess(t) == IF InBatch(t) /\ worker = "stored" THEN "ok" ELSE answer[t]

\* Defect: a batch that failed is answered like one that was stored.
AnsweredOk(t) == IF InBatch(t) THEN "ok" ELSE answer[t]

Answered(t) ==
  IF ~InBatch(t) THEN answer[t] ELSE IF worker = "stored" THEN "ok" ELSE "error"

AnswerBatch ==
  /\ worker \in {"stored", "refused"}
  /\ answer' = [t \in Task |-> Answered(t)]
  /\ batch' = <<>>
  /\ worker' = "get"
  /\ UNCHANGED <<call, task, queue, rows, service, faults>>

-----------------------------------------------------------------------------
(* The capture of one market.                                              *)

Running(t) == task[t].pc \notin {"off", "ready", "over", "raised", "cancelled"}

MarketTasks(c) == {t \in Task : t[1] = c}

\* The configured market, those the match page names, or 1x2.  A capture worker that a failed
\* cycle has left behind takes its next job during a shutdown, too.
BeginCall(c) ==
  /\ service # "ended" /\ call[c] = "idle"
  /\ call' = [call EXCEPT ![c] = "running"]
  /\ \E ms \in SUBSET Market \ {{}} :
       task' = [t \in Task |-> IF t[1] = c /\ t[2] \in ms THEN [NoTask EXCEPT !.pc = "ready"] ELSE task[t]]
  /\ UNCHANGED <<queue, worker, batch, answer, rows, service, faults>>

\* The semaphore of the call.
Enter(t) ==
  /\ task[t].pc = "ready"
  /\ Cardinality({u \in MarketTasks(t[1]) : Running(u)}) < MaxMarkets
  /\ task' = [task EXCEPT ![t].pc = "fetch", ![t].attempt = 1]
  /\ UNCHANGED <<call, queue, worker, batch, answer, rows, service, faults>>

\* A response; an empty one is a snapshot too.
Respond(t, payload) ==
  /\ task[t].pc = "fetch" /\ payload \in Answers[t[2]]
  /\ Submitted(t, [task[t] EXCEPT !.write = payload,
                      !.unavailable = @ \/ payload = "unavailable",
                      !.trouble = @ \/ payload = "empty"])
  /\ UNCHANGED <<call, batch, rows, service, faults>>

\* Defect: the same write again.
InTroubleAgain(row) == [row EXCEPT !.trouble = TRUE]

\* What the task becomes when something fails: the error is the next write.
InTrouble(row) == [row EXCEPT !.write = "error", !.trouble = TRUE]

\* No response, or its file cannot be written, or it cannot be parsed.
FetchFails(t) ==
  /\ task[t].pc = "fetch" /\ "error" \in Answers[t[2]]
  /\ Submitted(t, InTrouble(task[t]))
  /\ UNCHANGED <<call, batch, rows, service, faults>>

\* The ingestion is closed next, with the fetches it runs.
FetchCancelled(t) ==
  /\ task[t].pc = "fetch" /\ service = "closed"
  /\ task' = [task EXCEPT ![t].pc = "cancelled"]
  /\ UNCHANGED <<call, queue, worker, batch, answer, rows, service, faults>>

\* Defect: a page without odds counts although another attempt failed.
FinalStatusAnyUnavailable(row) ==
  IF row.saved THEN "partial" ELSE IF row.unavailable THEN "unavailable" ELSE "failed"

FinalStatus(row) ==
  IF row.saved THEN "partial"
  ELSE IF row.unavailable /\ ~row.trouble THEN "unavailable" ELSE "failed"

AttemptOver(row) ==
  IF row.attempt < MaxRetries THEN [row EXCEPT !.pc = "sleep"]
  ELSE [row EXCEPT !.pc = "over", !.status = FinalStatus(row)]

Has(t, outcome) == task[t].pc = "wait" /\ answer[t] = outcome

\* saved or bool(odds)
SavedNow(row) == row.saved \/ row.write \in WithOdds

\* The snapshot is stored and logged.
SnapshotStored(t) ==
  /\ task[t].write # "error" /\ Has(t, "ok")
  /\ LET row == [task[t] EXCEPT !.saved = SavedNow(task[t])]
     IN  task' = [task EXCEPT ![t] = IF row.write = "complete"
                                     THEN [row EXCEPT !.pc = "over", !.status = "complete"]
                                     ELSE AttemptOver(row)]
  /\ UNCHANGED <<call, queue, worker, batch, answer, rows, service, faults>>

\* The snapshot is stored, and writing the log entry fails.
SnapshotNotLogged(t) ==
  /\ task[t].write # "error" /\ Has(t, "ok")
  /\ Fault
  /\ Submitted(t, InTrouble([task[t] EXCEPT !.saved = SavedNow(task[t])]))
  /\ UNCHANGED <<call, batch, rows, service>>

SnapshotRefused(t) ==
  /\ task[t].write # "error" /\ Has(t, "error")
  /\ Submitted(t, InTrouble(task[t]))
  /\ UNCHANGED <<call, batch, rows, service, faults>>

\* The error is stored, or could not be and is logged.
ErrorHandled(t) ==
  /\ task[t].write = "error" /\ task[t].pc = "wait" /\ answer[t] # "none"
  /\ task' = [task EXCEPT ![t] = AttemptOver(task[t])]
  /\ UNCHANGED <<call, queue, worker, batch, answer, rows, service, faults>>

\* Writing the log entry fails, and the exception leaves capture_match_market.
ErrorNotLogged(t) ==
  /\ task[t].write = "error" /\ task[t].pc = "wait" /\ answer[t] # "none"
  /\ Fault
  /\ task' = [task EXCEPT ![t].pc = "raised"]
  /\ UNCHANGED <<call, queue, worker, batch, answer, rows, service>>

TryAgain(t) ==
  /\ task[t].pc = "sleep"
  /\ task' = [task EXCEPT ![t].pc = "fetch", ![t].attempt = @ + 1]
  /\ UNCHANGED <<call, queue, worker, batch, answer, rows, service, faults>>

-----------------------------------------------------------------------------
(* The call, and the end of the process.                                    *)

EndCall(c) ==
  /\ call[c] = "running"
  /\ \A t \in MarketTasks(c) : task[t].pc \in {"off", "over"}
  /\ call' = [call EXCEPT ![c] = IF \E t \in MarketTasks(c) : task[t].saved THEN "saved" ELSE "nothing"]
  /\ UNCHANGED <<task, queue, worker, batch, answer, rows, service, faults>>

\* gather raises the first exception or cancellation; the other markets go on.
CallRaises(c) ==
  /\ call[c] = "running"
  /\ \E t \in MarketTasks(c) : task[t].pc \in {"raised", "cancelled"}
  /\ call' = [call EXCEPT ![c] = "raised"]
  /\ UNCHANGED <<task, queue, worker, batch, answer, rows, service, faults>>

\* What is cancelled: the markets of the calls that end with it.
Cancelled(calls) ==
  /\ call' = [c \in Call |-> IF c \in calls /\ call[c] = "running" THEN "cancelled" ELSE call[c]]
  /\ task' = [t \in Task |-> IF t[1] \in calls /\ (Running(t) \/ task[t].pc = "ready")
                             THEN [task[t] EXCEPT !.pc = "cancelled"] ELSE task[t]]

\* The lifespan cancels the scheduler and the jobs, and the calls they wait for.  It does not know
\* the calls of the workers that a failed cycle has left behind, nor the markets that go on when
\* their call has raised.  What is in the queue stays there.
Shutdown ==
  /\ service = "up"
  /\ service' = "closing"
  /\ \E known \in SUBSET {c \in Call : call[c] = "running"} : Cancelled(known)
  /\ UNCHANGED <<queue, worker, batch, answer, rows, faults>>

\* Defect: close does not wait for the batch the worker has taken.
UnfinishedInQueue == Len(queue)

\* The count of Queue.join.
Unfinished == Len(queue) + Len(batch)

\* close waits for the queue, but returns at once when there never was a worker.
Join ==
  /\ service = "closing"
  /\ \/ worker = "none" /\ service' = "closed"
     \/ worker # "none" /\ Unfinished = 0 /\ service' = "joined"
  /\ UNCHANGED <<call, task, queue, worker, batch, answer, rows, faults>>

\* The worker is gone with the batch it holds; the thread of its transaction is not stopped.
DropWorker ==
  /\ worker' = "none" /\ batch' = <<>>
  /\ \/ rows' = rows
     \/ worker = "commit" /\ rows' = RowsWithBatch

\* The worker may have taken a write that a left-over task has submitted since.  That task waits
\* for an answer nobody can give any more; the next one that submits starts a new worker.
CancelWorker ==
  /\ service = "joined"
  /\ service' = "closed"
  /\ DropWorker
  /\ task' = [t \in Task |-> IF InBatch(t) /\ task[t].pc = "wait"
                             THEN [task[t] EXCEPT !.pc = "stuck"] ELSE task[t]]
  /\ UNCHANGED <<call, queue, answer, faults>>

\* The event loop ends, and whatever is left with it.
Exit ==
  /\ service = "closed"
  /\ service' = "ended"
  /\ DropWorker
  /\ queue' = <<>>
  /\ Cancelled(Call)
  /\ UNCHANGED <<answer, faults>>

TaskStep(t) ==
  \/ Enter(t) \/ Put(t) \/ TryAgain(t)
  \/ FetchFails(t) \/ FetchCancelled(t) \/ \E payload \in Payload : Respond(t, payload)
  \/ SnapshotStored(t) \/ SnapshotNotLogged(t) \/ SnapshotRefused(t)
  \/ ErrorHandled(t) \/ ErrorNotLogged(t)

WorkerStep == Take \/ Collect \/ Flush \/ Commit \/ CommitFails \/ AnswerBatch

Step ==
  \/ \E t \in Task : TaskStep(t)
  \/ WorkerStep
  \/ \E c \in Call : EndCall(c) \/ CallRaises(c)
  \/ Join \/ CancelWorker \/ Exit

Next ==
  \/ Step
  \/ \E c \in Call : BeginCall(c)
  \/ Shutdown

Spec == Init /\ [][Next]_vars

\* The event loop and the worker's thread run on.  Each step is progress, so that one
\* condition for all of them is enough.
FairSpec == Spec /\ WF_vars(Step)

-----------------------------------------------------------------------------
(* Properties.                                                             *)

Stored(t) == {rows[t][i].content : i \in DOMAIN rows[t]}

\* What a capture tells its caller is what the database holds: odds if and only if it says
\* so, all required bookmakers if it says complete, and "unavailable" only if every attempt
\* got that answer and nothing failed; capture_match returns True if and only if odds of
\* some market are stored, which is what decides whether signals are computed again.
ResultIsStored ==
  /\ \A t \in Task : task[t].pc = "over" =>
       /\ task[t].status \in {"complete", "partial"} <=> Stored(t) \cap WithOdds # {}
       /\ task[t].status = "complete" => "complete" \in Stored(t)
       /\ task[t].status = "unavailable" => Stored(t) = {"unavailable"}
  /\ \A c \in Call : call[c] \in {"saved", "nothing"} =>
       (call[c] = "saved" <=> \E t \in MarketTasks(c) : Stored(t) \cap WithOdds # {})

\* The rows of a capture are stored in the order of its attempts, a snapshot at most once per
\* attempt and before the error of that attempt: neither batches of several captures nor a
\* full queue nor a transaction that was rolled back changes that.
RowsInOrder ==
  \A t \in Task : \A i, k \in DOMAIN rows[t] : i < k =>
    \/ rows[t][i].attempt < rows[t][k].attempt
    \/ /\ rows[t][i].attempt = rows[t][k].attempt
       /\ rows[t][i].content # "error" /\ rows[t][k].content = "error"

\* Every attempt of a capture that returned has left a row ("Failed attempts must be logged"),
\* unless the transaction of its error failed.
AttemptsRecorded ==
  \A t \in Task : task[t].pc = "over" =>
    Cardinality({n \in 1 .. task[t].attempt : \A i \in DOMAIN rows[t] : rows[t][i].attempt # n})
      <= faults

\* Where the write of a task is, for the specification of the service.
WriteOf(t) ==
  IF InBatch(t) /\ worker = "stored" THEN "stored"
  ELSE IF InBatch(t) /\ worker = "refused" THEN "refused"
  ELSE IF InBatch(t) \/ \E i \in DOMAIN queue : queue[i] = t THEN "accepted"
  ELSE IF task[t].pc = "put" THEN "asked"
  ELSE IF task[t].pc = "wait" THEN (IF answer[t] = "ok" THEN "stored" ELSE "refused")
  ELSE "none"

WS == INSTANCE WriteService WITH
        Client <- Task,
        write  <- [t \in Task |-> WriteOf(t)],
        stored <- [t \in Task |-> Len(rows[t])],
        open   <- service \in {"up", "closing"}

\* The queue and its worker keep the promise of the write service: what the queue has taken
\* before close has found it empty is settled, a batch at once, also during a shutdown, and
\* nobody is told of success without it.  A write that a left-over task submits later, while
\* close ends the worker or afterwards, is not promised anything but that it is stored once.
ImplementsWriteService == WS!FairSpec

\* Every call returns or raises, or is cancelled by a shutdown.
EveryCallEnds == \A c \in Call : call[c] = "running" ~> call[c] # "running"

=============================================================================
