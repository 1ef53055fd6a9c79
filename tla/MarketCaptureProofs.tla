------------------------- MODULE MarketCaptureProofs -------------------------
(* What a capture returns is what is stored, every attempt leaves a row or   *)
(* is a fault, and the queue implements the write service: for every number  *)
(* of calls, markets, attempts and faults.                                   *)
EXTENDS MarketCapture, FiniteSetTheorems, TLAPS

-----------------------------------------------------------------------------
(* Sequences.                                                              *)

Elems(s) == {s[i] : i \in DOMAIN s}

NoDup(s) == \A i, k \in DOMAIN s : s[i] = s[k] => i = k

\* A new element at the end.
LEMMA AppendElems ==
  ASSUME NEW S, NEW s \in Seq(S), NEW e \in S
  PROVE  /\ Elems(Append(s, e)) = Elems(s) \cup {e}
         /\ NoDup(s) /\ e \notin Elems(s) => NoDup(Append(s, e))
<1>1. /\ Append(s, e) \in Seq(S) /\ DOMAIN s = 1 .. Len(s) /\ Len(s) \in Nat
      /\ DOMAIN Append(s, e) = 1 .. Len(s) + 1
      /\ \A i \in 1 .. Len(s) : Append(s, e)[i] = s[i]
      /\ Append(s, e)[Len(s) + 1] = e
  OBVIOUS
<1>2. Elems(Append(s, e)) \subseteq Elems(s) \cup {e}
  <2> SUFFICES ASSUME NEW i \in 1 .. Len(s) + 1 PROVE Append(s, e)[i] \in Elems(s) \cup {e}
    BY <1>1 DEF Elems
  <2>1. CASE i = Len(s) + 1
    BY <1>1, <2>1
  <2>2. CASE i \in 1 .. Len(s)
    BY <1>1, <2>2 DEF Elems
  <2> QED
    BY <1>1, <2>1, <2>2
<1>3. Elems(s) \cup {e} \subseteq Elems(Append(s, e))
  <2>1. \A i \in 1 .. Len(s) : i \in 1 .. Len(s) + 1
    BY <1>1
  <2>2. Len(s) + 1 \in 1 .. Len(s) + 1
    BY <1>1
  <2> QED
    BY <1>1, <2>1, <2>2 DEF Elems
<1>4. ASSUME NoDup(s), e \notin Elems(s) PROVE NoDup(Append(s, e))
  <2> SUFFICES ASSUME NEW i \in 1 .. Len(s) + 1, NEW k \in 1 .. Len(s) + 1,
                      Append(s, e)[i] = Append(s, e)[k]
               PROVE  i = k
    BY <1>1 DEF NoDup
  <2>1. \A j \in 1 .. Len(s) : s[j] # e
    BY <1>1, <1>4 DEF Elems
  <2>2. \A j \in 1 .. Len(s) + 1 : j \in 1 .. Len(s) \/ j = Len(s) + 1
    BY <1>1
  <2> QED
    BY <1>1, <1>4, <2>1, <2>2 DEF NoDup
<1> QED
  BY <1>2, <1>3, <1>4

\* The first element is taken away.
LEMMA TailElems ==
  ASSUME NEW S, NEW s \in Seq(S), s # <<>>, NoDup(s)
  PROVE  /\ Head(s) \in Elems(s) /\ Head(s) \in S
         /\ Elems(Tail(s)) = Elems(s) \ {Head(s)}
         /\ NoDup(Tail(s)) /\ Tail(s) \in Seq(S) /\ Len(Tail(s)) <= Len(s)
<1>1. /\ Len(s) \in Nat /\ Len(s) >= 1 /\ DOMAIN s = 1 .. Len(s)
      /\ Head(s) = s[1] /\ Tail(s) \in Seq(S) /\ Len(Tail(s)) = Len(s) - 1
      /\ DOMAIN Tail(s) = 1 .. Len(s) - 1
      /\ \A i \in 1 .. Len(s) - 1 : Tail(s)[i] = s[i + 1]
      /\ s[1] \in S
  OBVIOUS
<1>2. 1 \in 1 .. Len(s) /\ \A i \in 1 .. Len(s) - 1 : i + 1 \in 1 .. Len(s) /\ i + 1 # 1
  BY <1>1
<1>3. \A i \in 1 .. Len(s) : i = 1 \/ (i - 1 \in 1 .. Len(s) - 1 /\ (i - 1) + 1 = i)
  BY <1>1
<1>4. Elems(Tail(s)) \subseteq Elems(s) \ {Head(s)}
  BY <1>1, <1>2 DEF Elems, NoDup
<1>5. Elems(s) \ {Head(s)} \subseteq Elems(Tail(s))
  <2> SUFFICES ASSUME NEW i \in 1 .. Len(s), s[i] # Head(s) PROVE s[i] \in Elems(Tail(s))
    BY <1>1 DEF Elems
  <2>1. i - 1 \in 1 .. Len(s) - 1 /\ Tail(s)[i - 1] = s[i]
    BY <1>1, <1>3
  <2> QED
    BY <1>1, <2>1 DEF Elems
<1>6. NoDup(Tail(s))
  <2> SUFFICES ASSUME NEW i \in 1 .. Len(s) - 1, NEW k \in 1 .. Len(s) - 1,
                      Tail(s)[i] = Tail(s)[k]
               PROVE  i = k
    BY <1>1 DEF NoDup
  <2>1. i + 1 = k + 1
    BY <1>1, <1>2 DEF NoDup
  <2> QED
    BY <2>1
<1>7. Head(s) \in Elems(s)
  BY <1>1, <1>2 DEF Elems
<1> QED
  BY <1>1, <1>4, <1>5, <1>6, <1>7

-----------------------------------------------------------------------------
(* The inductive invariant.                                                *)

\* The tasks whose write the queue or the worker holds.
Held == Elems(queue) \cup Elems(batch)

QueueInv ==
  /\ NoDup(queue)
  /\ Elems(queue) \cap Elems(batch) = {}
  /\ worker \in {"none", "get"} => batch = <<>>

\* A task, the future of its write, and whether the write is held.
TaskGood(r, a, held) ==
  /\ held => /\ r.pc \in {"wait", "cancelled"} /\ a = "none"
             /\ r.write \in Content /\ r.attempt >= 1
  /\ r.pc = "wait" /\ ~held => a # "none"
  /\ r.pc = "put" => a = "none"
  /\ r.pc = "ready" => r.attempt = 0
  /\ r.pc \in {"put", "wait"} => r.write \in Content
  /\ r.pc \notin {"off", "ready", "cancelled"} => r.attempt >= 1
  /\ r.pc = "sleep" => r.attempt < MaxRetries

\* The last write of a task is stored, and the task has not gone on.
Settled(t) ==
  \/ t \in Elems(batch) /\ worker = "stored"
  \/ task[t].pc = "wait" /\ answer[t] = "ok"

\* What a task remembers of its attempts, and the contents of its rows.
RowGood(r, settled, contents) ==
  r.pc \notin {"cancelled", "raised", "stuck"} =>
    /\ r.pc \in {"off", "ready"} =>
         contents = {} /\ r.saved = FALSE /\ r.unavailable = FALSE /\ r.trouble = FALSE
    /\ r.saved = TRUE => contents \cap WithOdds # {}
    /\ contents \cap WithOdds # {} => r.saved = TRUE \/ (settled /\ r.write \in WithOdds)
    /\ settled => r.write \in contents
    /\ contents \cap {"error", "empty"} # {} => r.trouble = TRUE
    /\ r.pc \in {"put", "wait"} /\ r.write \in {"error", "empty"} => r.trouble = TRUE
    /\ r.unavailable = TRUE /\ r.trouble = FALSE =>
         \/ "unavailable" \in contents
         \/ r.pc \in {"put", "wait"} /\ r.write = "unavailable"
    /\ r.pc = "over" => \/ r.status = "complete" /\ "complete" \in contents /\ r.saved = TRUE
                        \/ r.status = FinalStatus(r)

TaskInv == \A t \in Task : TaskGood(task[t], answer[t], t \in Held)

RowInv == \A t \in Task : RowGood(task[t], Settled(t), Stored(t))

CallInv ==
  \A c \in Call :
    /\ call[c] = "idle" => \A t \in MarketTasks(c) : task[t].pc = "off"
    /\ call[c] \in {"saved", "nothing"} =>
         /\ \A t \in MarketTasks(c) : task[t].pc \in {"off", "over"}
         /\ call[c] = "saved" <=> \E t \in MarketTasks(c) : task[t].saved = TRUE

Inv == TypeOK /\ QueueInv /\ TaskInv /\ RowInv /\ CallInv

-----------------------------------------------------------------------------
(* Steps of a task.                                                        *)

\* The initial state.
LEMMA InitInv == Init => Inv
<1> SUFFICES ASSUME Init PROVE Inv
  OBVIOUS
<1>1. NoTask \in TaskRow
  BY CaptureAssumption DEF NoTask, TaskRow
<1>2. Elems(queue) = {} /\ Elems(batch) = {} /\ \A t \in Task : Stored(t) = {}
  BY DEF Init, Elems, Stored
<1>3. TypeOK
  BY <1>1, CaptureAssumption DEF Init, TypeOK
<1>4. QueueInv
  BY <1>2 DEF Init, QueueInv, NoDup
<1>5. TaskInv
  BY <1>2 DEF Init, TaskInv, TaskGood, NoTask, Held
<1>6. RowInv
  BY <1>2 DEF Init, RowInv, RowGood, NoTask, Settled, WithOdds
<1>7. CallInv
  BY DEF Init, CallInv, MarketTasks, NoTask
<1> QED
  BY <1>3, <1>4, <1>5, <1>6, <1>7 DEF Inv

\* One task changes, and nothing is stored.
LEMMA TaskChange ==
  ASSUME Inv, NEW t \in Task, NEW r,
         task[t].pc \notin {"off", "over"}, t \notin Elems(batch),
         task' = [task EXCEPT ![t] = r],
         \A u \in Task \ {t} : answer'[u] = answer[u] /\ (u \in Elems(queue)' <=> u \in Elems(queue)),
         UNCHANGED <<call, batch, rows>>,
         worker' = "stored" <=> worker = "stored",
         TaskGood(r, answer'[t], t \in Held'),
         RowGood(r, r.pc = "wait" /\ answer'[t] = "ok", Stored(t))
  PROVE  TaskInv' /\ RowInv' /\ CallInv'
<1>1. task'[t] = r /\ \A u \in Task \ {t} : task'[u] = task[u]
  BY DEF Inv, TypeOK
<1>2. /\ Elems(batch)' = Elems(batch)
      /\ \A u \in Task : Stored(u)' = Stored(u)
      /\ \A u \in Task \ {t} : u \in Held' <=> u \in Held
  BY DEF Stored, Held, Elems
<1>3. TaskInv'
  BY <1>1, <1>2 DEF Inv, TaskInv
<1>4. \A u \in Task \ {t} : Settled(u)' <=> Settled(u)
  BY <1>1, <1>2 DEF Settled
<1>5. Settled(t)' <=> r.pc = "wait" /\ answer'[t] = "ok"
  BY <1>1, <1>2 DEF Settled
<1>6. RowInv'
  <2> SUFFICES ASSUME NEW u \in Task PROVE RowGood(task[u], Settled(u), Stored(u))'
    BY DEF RowInv
  <2>1. CASE u = t
    BY <1>1, <1>2, <1>5, <2>1 DEF RowGood
  <2>2. CASE u # t
    BY <1>1, <1>2, <1>4, <2>2 DEF Inv, RowInv, RowGood
  <2> QED
    BY <2>1, <2>2
<1>7. CallInv'
  <2> SUFFICES ASSUME NEW c \in Call, call[c] \in {"idle", "saved", "nothing"}
               PROVE  \A u \in MarketTasks(c) : task'[u] = task[u]
    BY DEF Inv, CallInv, MarketTasks
  <2>1. \A u \in MarketTasks(c) : u \in Task /\ task[u].pc \in {"off", "over"}
    BY DEF Inv, CallInv, MarketTasks
  <2> QED
    BY <1>1, <2>1
<1> QED
  BY <1>3, <1>6, <1>7

\* A task that runs and whose write is not held submits one.
LEMMA SubmittedEffect ==
  ASSUME Inv, NEW t \in Task, t \notin Held, NEW row, Submitted(t, row),
         UNCHANGED <<call, batch, rows>>
  PROVE  /\ QueueInv'
         /\ queue' \in Seq(Task) /\ Len(queue') <= QueueSize
         /\ worker' \in {"none", "get", "collect", "commit", "stored", "refused"}
         /\ worker' = worker \/ (worker = "none" /\ worker' = "get")
         /\ answer' = [answer EXCEPT ![t] = "none"] /\ answer'[t] = "none"
         /\ \A u \in Task \ {t} : u \in Elems(queue)' <=> u \in Elems(queue)
         /\ t \notin Elems(batch)
         /\ \/ task' = [task EXCEPT ![t] = [row EXCEPT !.pc = "wait"]] /\ t \in Held'
            \/ task' = [task EXCEPT ![t] = [row EXCEPT !.pc = "put"]] /\ t \notin Held'
<1>1. /\ queue \in Seq(Task) /\ Len(queue) <= QueueSize /\ answer \in [Task -> {"none", "ok", "error"}]
      /\ NoDup(queue) /\ t \notin Elems(queue) /\ t \notin Elems(batch) /\ QueueSize \in Nat
      /\ Elems(queue) \cap Elems(batch) = {}
  BY CaptureAssumption DEF Inv, TypeOK, QueueInv, Held
<1>2. /\ worker' \in {"none", "get", "collect", "commit", "stored", "refused"}
      /\ worker' = worker \/ (worker = "none" /\ worker' = "get")
      /\ worker' \in {"none", "get"} => batch' = <<>>
  BY DEF Inv, TypeOK, Submitted, QueueInv
<1>3. answer' = [answer EXCEPT ![t] = "none"] /\ answer'[t] = "none"
  BY <1>1 DEF Submitted
<1>4. Elems(batch)' = Elems(batch)
  BY DEF Elems
<1>5. CASE Room
  <2>1. /\ queue' = Append(queue, t)
        /\ task' = [task EXCEPT ![t] = [row EXCEPT !.pc = "wait"]]
    BY <1>5 DEF Submitted
  <2>2. Elems(queue') = Elems(queue) \cup {t} /\ NoDup(queue')
    BY <1>1, <2>1, AppendElems
  <2>3. queue' \in Seq(Task) /\ Len(queue') <= QueueSize
    BY <1>1, <1>5, <2>1 DEF Room
  <2>4. Elems(queue)' = Elems(queue') /\ NoDup(queue)'
    BY <2>2 DEF Elems, NoDup
  <2>5. QueueInv'
    BY <1>1, <1>2, <1>4, <2>2, <2>4 DEF QueueInv
  <2> QED
    BY <1>1, <1>2, <1>3, <1>4, <2>1, <2>2, <2>3, <2>4, <2>5 DEF Held
<1>6. CASE ~Room
  <2>1. queue' = queue /\ task' = [task EXCEPT ![t] = [row EXCEPT !.pc = "put"]]
    BY <1>6 DEF Submitted
  <2>2. Elems(queue)' = Elems(queue) /\ NoDup(queue)'
    BY <1>1, <2>1 DEF Elems, NoDup
  <2>3. QueueInv'
    BY <1>1, <1>2, <1>4, <2>2 DEF QueueInv
  <2> QED
    BY <1>1, <1>2, <1>3, <1>4, <2>1, <2>2, <2>3 DEF Held
<1> QED
  BY <1>5, <1>6

\* What is submitted keeps what the task remembers true.
LEMMA SubmittedInv ==
  ASSUME Inv, NEW t \in Task, t \notin Held, NEW row \in TaskRow, Submitted(t, row),
         task[t].pc \notin {"off", "over"},
         UNCHANGED <<call, batch, rows, service>>, faults' \in 0 .. MaxFaults,
         row.write \in Content, row.attempt >= 1,
         RowGood([row EXCEPT !.pc = "put"], FALSE, Stored(t)),
         RowGood([row EXCEPT !.pc = "wait"], FALSE, Stored(t))
  PROVE  Inv'
<1>1. /\ QueueInv'
      /\ queue' \in Seq(Task) /\ Len(queue') <= QueueSize
      /\ worker' \in {"none", "get", "collect", "commit", "stored", "refused"}
      /\ worker' = worker \/ (worker = "none" /\ worker' = "get")
      /\ answer' = [answer EXCEPT ![t] = "none"] /\ answer'[t] = "none"
      /\ \A u \in Task \ {t} : u \in Elems(queue)' <=> u \in Elems(queue)
      /\ t \notin Elems(batch)
      /\ \/ task' = [task EXCEPT ![t] = [row EXCEPT !.pc = "wait"]] /\ t \in Held'
         \/ task' = [task EXCEPT ![t] = [row EXCEPT !.pc = "put"]] /\ t \notin Held'
  BY SubmittedEffect
<1>2. worker' = "stored" <=> worker = "stored"
  BY <1>1
<1>3. PICK p \in {"wait", "put"} :
        task' = [task EXCEPT ![t] = [row EXCEPT !.pc = p]] /\ (p = "wait" <=> t \in Held')
  BY <1>1
<1> DEFINE r == [row EXCEPT !.pc = p]
<1>4. /\ r \in TaskRow /\ r.pc = p /\ r.write = row.write /\ r.attempt = row.attempt
      /\ r.attempt \in Nat
  BY CaptureAssumption DEF TaskRow
<1>5. TaskGood(r, answer'[t], t \in Held')
  BY <1>1, <1>3, <1>4 DEF TaskGood
<1>6. RowGood(r, r.pc = "wait" /\ answer'[t] = "ok", Stored(t))
  BY <1>1, <1>3 DEF RowGood
<1>7. \A u \in Task \ {t} : answer'[u] = answer[u]
  BY <1>1 DEF Inv, TypeOK
<1>8. TaskInv' /\ RowInv' /\ CallInv'
  <2> HIDE DEF r
  <2>1. task' = [task EXCEPT ![t] = r]
    BY <1>3 DEF r
  <2> QED
    BY <1>1, <1>2, <1>5, <1>6, <1>7, <2>1, TaskChange
<1>9. TypeOK'
  BY <1>1, <1>3, <1>4 DEF Inv, TypeOK
<1> QED
  BY <1>1, <1>8, <1>9 DEF Inv

\* A task goes on without a write.
LEMMA TaskMoves ==
  ASSUME Inv, NEW t \in Task, t \notin Held, NEW r \in TaskRow,
         task[t].pc \notin {"off", "over"}, r.pc # "wait",
         task' = [task EXCEPT ![t] = r],
         UNCHANGED <<call, queue, worker, batch, answer, rows, service>>, faults' \in 0 .. MaxFaults,
         TaskGood(r, answer[t], FALSE), RowGood(r, FALSE, Stored(t))
  PROVE  Inv'
<1>1. /\ Elems(queue)' = Elems(queue) /\ Elems(batch)' = Elems(batch)
      /\ t \notin Held' /\ t \notin Elems(batch)
      /\ QueueInv' /\ answer'[t] = answer[t]
      /\ \A u \in Task : answer'[u] = answer[u]
      /\ worker' = "stored" <=> worker = "stored"
  BY DEF Held, Elems, QueueInv, NoDup, Inv
<1>2. TaskGood(r, answer'[t], t \in Held') /\ RowGood(r, r.pc = "wait" /\ answer'[t] = "ok", Stored(t))
  BY <1>1 DEF TaskGood, RowGood
<1>3. TaskInv' /\ RowInv' /\ CallInv'
  BY <1>1, <1>2, TaskChange
<1>4. TypeOK'
  BY DEF Inv, TypeOK
<1> QED
  BY <1>1, <1>3, <1>4 DEF Inv

\* What holds of a task that is about to act.
LEMMA Acting ==
  ASSUME Inv, NEW t \in Task,
         task[t].pc \in {"ready", "fetch", "put", "sleep"} \/ (task[t].pc = "wait" /\ answer[t] # "none")
  PROVE  /\ t \notin Held
         /\ task[t] \in TaskRow /\ task[t].attempt \in 0 .. MaxRetries
         /\ task[t].pc \notin {"off", "over", "cancelled", "raised", "stuck"}
         /\ TaskGood(task[t], answer[t], FALSE)
         /\ RowGood(task[t], task[t].pc = "wait" /\ answer[t] = "ok", Stored(t))
<1>1. TaskGood(task[t], answer[t], t \in Held) /\ RowGood(task[t], Settled(t), Stored(t))
  BY DEF Inv, TaskInv, RowInv
<1>2. t \notin Held
  BY <1>1 DEF TaskGood
<1>3. Settled(t) <=> task[t].pc = "wait" /\ answer[t] = "ok"
  BY <1>2 DEF Settled, Held
<1>4. task[t] \in TaskRow /\ task[t].attempt \in 0 .. MaxRetries
  BY DEF Inv, TypeOK, TaskRow
<1> QED
  BY <1>1, <1>2, <1>3, <1>4 DEF TaskGood, RowGood

\* Rows of a task: what the updates of one keep.
LEMMA RowUpdates ==
  ASSUME NEW r \in TaskRow
  PROVE  /\ [r EXCEPT !.write = "error", !.trouble = TRUE] \in TaskRow
         /\ \A b \in BOOLEAN : [r EXCEPT !.saved = b] \in TaskRow
         /\ \A p \in {"fetch", "put", "wait", "stuck", "sleep", "over", "raised", "cancelled"} : [r EXCEPT !.pc = p] \in TaskRow
         /\ \A n \in 0 .. MaxRetries : [r EXCEPT !.pc = "fetch", !.attempt = n] \in TaskRow
         /\ \A st \in Status : [r EXCEPT !.pc = "over", !.status = st] \in TaskRow
         /\ FinalStatus(r) \in Status
         /\ r.saved \in BOOLEAN /\ r.unavailable \in BOOLEAN /\ r.trouble \in BOOLEAN
         /\ r.write \in Content \cup {"none"}
  BY DEF TaskRow, Content, Status, FinalStatus

\* A task enters with its first attempt.
LEMMA EnterInv == ASSUME Inv, NEW t \in Task, Enter(t) PROVE Inv'
<1> DEFINE r == [task[t] EXCEPT !.pc = "fetch", !.attempt = 1]
<1>1. /\ t \notin Held /\ task[t] \in TaskRow /\ task[t].pc = "ready"
      /\ TaskGood(task[t], answer[t], FALSE)
      /\ RowGood(task[t], FALSE, Stored(t))
  BY Acting DEF Enter, RowGood
<1>2. r \in TaskRow
  <2>1. 1 \in 0 .. MaxRetries
    BY CaptureAssumption
  <2> QED
    BY <1>1, <2>1, RowUpdates
<1>3. task' = [task EXCEPT ![t] = r]
  BY DEF Enter
<1>4. TaskGood(r, answer[t], FALSE)
  BY <1>1, CaptureAssumption DEF TaskGood, TaskRow
<1>5. RowGood(r, FALSE, Stored(t))
  BY <1>1 DEF RowGood, TaskRow
<1>6. r.pc # "wait" /\ faults' \in 0 .. MaxFaults
  BY <1>1 DEF Enter, Inv, TypeOK, TaskRow
<1> HIDE DEF r
<1> QED
  BY <1>1, <1>2, <1>3, <1>4, <1>5, <1>6, TaskMoves DEF Enter

\* A task starts its next attempt.
LEMMA TryAgainInv == ASSUME Inv, NEW t \in Task, TryAgain(t) PROVE Inv'
<1> DEFINE r == [task[t] EXCEPT !.pc = "fetch", !.attempt = @ + 1]
<1>1. /\ t \notin Held /\ task[t] \in TaskRow /\ task[t].pc = "sleep"
      /\ task[t].attempt \in 0 .. MaxRetries
      /\ TaskGood(task[t], answer[t], FALSE)
      /\ RowGood(task[t], FALSE, Stored(t))
  BY Acting DEF TryAgain, RowGood
<1>2. r \in TaskRow
  <2>1. task[t].attempt + 1 \in 0 .. MaxRetries
    BY <1>1, CaptureAssumption DEF TaskGood
  <2> QED
    BY <1>1, <2>1, RowUpdates
<1>3. task' = [task EXCEPT ![t] = r]
  BY DEF TryAgain
<1>4. TaskGood(r, answer[t], FALSE)
  BY <1>1, CaptureAssumption DEF TaskGood, TaskRow
<1>5. RowGood(r, FALSE, Stored(t))
  BY <1>1 DEF RowGood, TaskRow
<1>6. r.pc # "wait" /\ faults' \in 0 .. MaxFaults
  BY <1>1 DEF TryAgain, Inv, TypeOK, TaskRow
<1> HIDE DEF r
<1> QED
  BY <1>1, <1>2, <1>3, <1>4, <1>5, <1>6, TaskMoves DEF TryAgain

\* A payload is parsed, and its snapshot is the next write.
LEMMA RespondInv == ASSUME Inv, NEW t \in Task, NEW payload \in Payload, Respond(t, payload) PROVE Inv'
<1> DEFINE row == [task[t] EXCEPT !.write = payload,
                      !.unavailable = @ \/ payload = "unavailable", !.trouble = @ \/ payload = "empty"]
<1>1. /\ t \notin Held /\ task[t] \in TaskRow /\ task[t].pc = "fetch"
      /\ TaskGood(task[t], answer[t], FALSE)
      /\ RowGood(task[t], FALSE, Stored(t))
  BY Acting DEF Respond, RowGood
<1>2. row \in TaskRow /\ row.write = payload
  BY <1>1 DEF TaskRow, Content
<1>3. Submitted(t, row)
  BY DEF Respond
<1>4. row.write \in Content /\ row.attempt >= 1
  BY <1>1, <1>2 DEF TaskGood, TaskRow, Content
<1>5. \A p \in {"put", "wait"} : RowGood([row EXCEPT !.pc = p], FALSE, Stored(t))
  BY <1>1 DEF RowGood, TaskRow, Payload, WithOdds
<1>6. faults' \in 0 .. MaxFaults
  BY DEF Respond, Inv, TypeOK
<1> HIDE DEF row
<1> QED
  BY <1>1, <1>2, <1>3, <1>4, <1>5, <1>6, SubmittedInv DEF Respond

\* A request that fails leaves an error as the next write.
LEMMA FetchFailsInv == ASSUME Inv, NEW t \in Task, FetchFails(t) PROVE Inv'
<1> DEFINE row == InTrouble(task[t])
<1>1. /\ t \notin Held /\ task[t] \in TaskRow /\ task[t].pc = "fetch"
      /\ TaskGood(task[t], answer[t], FALSE)
      /\ RowGood(task[t], FALSE, Stored(t))
  BY Acting DEF FetchFails, RowGood
<1>2. row \in TaskRow /\ row.write = "error" /\ row.attempt = task[t].attempt
  BY <1>1 DEF TaskRow, Content, InTrouble
<1>3. row.write \in Content /\ row.attempt >= 1
  BY <1>1, <1>2 DEF TaskGood, TaskRow, Content
<1>4. \A p \in {"put", "wait"} : RowGood([row EXCEPT !.pc = p], FALSE, Stored(t))
  BY <1>1 DEF RowGood, TaskRow, WithOdds, InTrouble
<1>5. faults' \in 0 .. MaxFaults /\ Submitted(t, row)
  BY DEF FetchFails, Inv, TypeOK
<1> HIDE DEF row
<1> QED
  BY <1>1, <1>2, <1>3, <1>4, <1>5, SubmittedInv DEF FetchFails

\* A task that waited for room puts its write into the queue.
LEMMA PutInv == ASSUME Inv, NEW t \in Task, Put(t) PROVE Inv'
<1> DEFINE r == [task[t] EXCEPT !.pc = "wait"]
<1>1. /\ t \notin Held /\ task[t] \in TaskRow /\ task[t].pc = "put"
      /\ TaskGood(task[t], answer[t], FALSE)
      /\ RowGood(task[t], FALSE, Stored(t))
  BY Acting DEF Put, RowGood
<1>2. r \in TaskRow
  BY <1>1 DEF TaskRow
<1>3. /\ queue \in Seq(Task) /\ NoDup(queue) /\ t \notin Elems(queue) /\ t \notin Elems(batch)
      /\ queue' = Append(queue, t) /\ task' = [task EXCEPT ![t] = r]
  BY <1>1 DEF Put, Inv, TypeOK, QueueInv, Held
<1>4. Elems(queue') = Elems(queue) \cup {t} /\ NoDup(queue')
  BY <1>3, AppendElems
<1>5. Elems(queue)' = Elems(queue') /\ NoDup(queue)' /\ Elems(batch)' = Elems(batch)
  BY <1>4 DEF Elems, NoDup, Put
<1>6. QueueInv'
  BY <1>3, <1>4, <1>5 DEF QueueInv, Inv, Put
<1>7. queue' \in Seq(Task) /\ Len(queue') <= QueueSize
  BY <1>3, CaptureAssumption DEF Put, Room
<1>8. t \in Held' /\ answer'[t] = "none" /\ r.pc = "wait"
  BY <1>1, <1>4, <1>5 DEF TaskGood, Held, Put, TaskRow
<1>9. TaskGood(r, answer'[t], t \in Held')
  BY <1>1, <1>8 DEF TaskGood, TaskRow
<1>10. RowGood(r, r.pc = "wait" /\ answer'[t] = "ok", Stored(t))
  BY <1>1, <1>8 DEF RowGood, TaskRow
<1>11. TaskInv' /\ RowInv' /\ CallInv'
  <2>1. \A u \in Task \ {t} : answer'[u] = answer[u] /\ (u \in Elems(queue)' <=> u \in Elems(queue))
    BY <1>4, <1>5 DEF Put
  <2> HIDE DEF r
  <2>2. /\ task[t].pc \notin {"off", "over"} /\ t \notin Elems(batch)
        /\ UNCHANGED <<call, batch, rows>> /\ (worker' = "stored" <=> worker = "stored")
    BY <1>1, <1>3 DEF Put
  <2> QED
    BY <1>3, <1>9, <1>10, <2>1, <2>2, TaskChange
<1>12. TypeOK'
  BY <1>2, <1>3, <1>7 DEF Put, Inv, TypeOK
<1> QED
  BY <1>6, <1>11, <1>12 DEF Inv

\* The outcome of an attempt that is over.
LEMMA AttemptOverGood ==
  ASSUME NEW r \in TaskRow, NEW a, NEW contents, r.attempt >= 1,
         RowGood([r EXCEPT !.pc = "sleep"], FALSE, contents)
  PROVE  /\ AttemptOver(r) \in TaskRow /\ AttemptOver(r).pc \in {"sleep", "over"}
         /\ TaskGood(AttemptOver(r), a, FALSE)
         /\ RowGood(AttemptOver(r), FALSE, contents)
<1>1. CASE r.attempt < MaxRetries
  BY <1>1 DEF AttemptOver, TaskGood, RowGood, TaskRow
<1>2. CASE ~(r.attempt < MaxRetries)
  <2> DEFINE o == [r EXCEPT !.pc = "over", !.status = FinalStatus(r)]
  <2>1. AttemptOver(r) = o
    BY <1>2 DEF AttemptOver
  <2>2. /\ o \in TaskRow /\ o.pc = "over" /\ o.status = FinalStatus(r)
        /\ o.attempt = r.attempt /\ o.saved = r.saved /\ o.unavailable = r.unavailable
        /\ o.trouble = r.trouble /\ o.write = r.write
    <3>1. o \in TaskRow
      BY RowUpdates
    <3>2. /\ o.pc = "over" /\ o.status = FinalStatus(r)
          /\ o.attempt = r.attempt /\ o.saved = r.saved /\ o.unavailable = r.unavailable
          /\ o.trouble = r.trouble /\ o.write = r.write
      BY DEF TaskRow
    <3> QED
      BY <3>1, <3>2
  <2>3. FinalStatus(o) = FinalStatus(r)
    BY <2>2 DEF FinalStatus
  <2>4. TaskGood(o, a, FALSE)
    BY <2>2 DEF TaskGood
  <2>5. RowGood(o, FALSE, contents)
    <3>1. /\ r.saved = TRUE => contents \cap WithOdds # {}
          /\ contents \cap WithOdds # {} => r.saved = TRUE
          /\ contents \cap {"error", "empty"} # {} => r.trouble = TRUE
          /\ r.unavailable = TRUE /\ r.trouble = FALSE => "unavailable" \in contents
      BY DEF RowGood, TaskRow
    <3> HIDE DEF o
    <3> QED
      BY <2>2, <2>3, <3>1 DEF RowGood
  <2> QED
    BY <2>1, <2>2, <2>4, <2>5
<1> QED
  BY <1>1, <1>2

\* A stored snapshot ends the task, or its attempt.
LEMMA SnapshotStoredInv == ASSUME Inv, NEW t \in Task, SnapshotStored(t) PROVE Inv'
<1> DEFINE row == [task[t] EXCEPT !.saved = SavedNow(task[t])]
           done == [row EXCEPT !.pc = "over", !.status = "complete"]
           r == IF row.write = "complete" THEN done ELSE AttemptOver(row)
<1>1. /\ t \notin Held /\ task[t] \in TaskRow /\ task[t].pc = "wait" /\ answer[t] = "ok"
      /\ task[t].write # "error"
      /\ TaskGood(task[t], answer[t], FALSE)
      /\ RowGood(task[t], TRUE, Stored(t))
  BY Acting DEF SnapshotStored, Has, RowGood
<1>2. /\ row \in TaskRow /\ row.attempt = task[t].attempt /\ row.write = task[t].write
      /\ row.attempt >= 1
  BY <1>1 DEF TaskRow, SavedNow, TaskGood
<1>3. task' = [task EXCEPT ![t] = r]
  BY DEF SnapshotStored
<1>4. RowGood([row EXCEPT !.pc = "sleep"], FALSE, Stored(t))
  BY <1>1 DEF RowGood, TaskRow, SavedNow, WithOdds
<1>5. ASSUME row.write = "complete"
      PROVE  done \in TaskRow /\ done.pc = "over" /\ TaskGood(done, answer[t], FALSE)
             /\ RowGood(done, FALSE, Stored(t))
  <2>1. done \in TaskRow /\ done.pc = "over"
    BY <1>2 DEF TaskRow, Status
  <2>2. TaskGood(done, answer[t], FALSE)
    BY <1>2 DEF TaskGood, TaskRow
  <2>3. RowGood(done, FALSE, Stored(t))
    BY <1>1, <1>5 DEF RowGood, TaskRow, SavedNow, WithOdds
  <2> QED
    BY <2>1, <2>2, <2>3
<1>6. /\ AttemptOver(row) \in TaskRow /\ AttemptOver(row).pc \in {"sleep", "over"}
      /\ TaskGood(AttemptOver(row), answer[t], FALSE)
      /\ RowGood(AttemptOver(row), FALSE, Stored(t))
  <2> HIDE DEF row
  <2> QED
    BY <1>2, <1>4, AttemptOverGood
<1>7. r \in TaskRow /\ r.pc # "wait" /\ TaskGood(r, answer[t], FALSE) /\ RowGood(r, FALSE, Stored(t))
  <2> HIDE DEF row, done
  <2> QED
    BY <1>5, <1>6
<1>8. faults' \in 0 .. MaxFaults
  BY DEF SnapshotStored, Inv, TypeOK
<1> HIDE DEF r
<1> QED
  BY <1>1, <1>3, <1>7, <1>8, TaskMoves DEF SnapshotStored

\* Something failed: the error becomes the next write.
LEMMA TroubleInv ==
  ASSUME Inv, NEW t \in Task, t \notin Held, NEW row \in TaskRow, Submitted(t, InTrouble(row)),
         task[t].pc \notin {"off", "over"},
         UNCHANGED <<call, batch, rows, service>>, faults' \in 0 .. MaxFaults,
         row.attempt >= 1, row.pc = "wait",
         RowGood([row EXCEPT !.pc = "sleep"], FALSE, Stored(t))
            \/ RowGood(row, FALSE, Stored(t))
  PROVE  Inv'
<1> DEFINE error == InTrouble(row)
<1>1. error \in TaskRow /\ error.write \in Content /\ error.attempt >= 1
  BY DEF InTrouble, TaskRow, Content
<1>2. \A p \in {"put", "wait"} : RowGood([error EXCEPT !.pc = p], FALSE, Stored(t))
  BY DEF RowGood, TaskRow, WithOdds, InTrouble
<1>3. Submitted(t, error)
  OBVIOUS
<1> HIDE DEF error
<1> QED
  BY <1>1, <1>2, <1>3, SubmittedInv

\* A stored snapshot that could not be logged leaves an error as the next write.
LEMMA SnapshotNotLoggedInv == ASSUME Inv, NEW t \in Task, SnapshotNotLogged(t) PROVE Inv'
<1> DEFINE row == [task[t] EXCEPT !.saved = SavedNow(task[t])]
<1>1. /\ t \notin Held /\ task[t] \in TaskRow /\ task[t].pc = "wait" /\ answer[t] = "ok"
      /\ task[t].write # "error"
      /\ TaskGood(task[t], answer[t], FALSE)
      /\ RowGood(task[t], TRUE, Stored(t))
  BY Acting DEF SnapshotNotLogged, Has, RowGood
<1>2. row \in TaskRow /\ row.attempt >= 1 /\ row.pc = "wait"
  BY <1>1 DEF TaskRow, SavedNow, TaskGood
<1>3. RowGood([row EXCEPT !.pc = "sleep"], FALSE, Stored(t))
  BY <1>1 DEF RowGood, TaskRow, SavedNow, WithOdds
<1>4. Submitted(t, InTrouble(row)) /\ faults' \in 0 .. MaxFaults
  BY CaptureAssumption DEF SnapshotNotLogged, Fault, Inv, TypeOK
<1> HIDE DEF row
<1> QED
  BY <1>1, <1>2, <1>3, <1>4, TroubleInv DEF SnapshotNotLogged

\* A refused snapshot leaves an error as the next write.
LEMMA SnapshotRefusedInv == ASSUME Inv, NEW t \in Task, SnapshotRefused(t) PROVE Inv'
<1>1. /\ t \notin Held /\ task[t] \in TaskRow /\ task[t].pc = "wait" /\ answer[t] = "error"
      /\ TaskGood(task[t], answer[t], FALSE)
      /\ RowGood(task[t], FALSE, Stored(t))
  BY Acting DEF SnapshotRefused, Has, RowGood
<1>2. task[t].attempt >= 1
  BY <1>1 DEF TaskGood
<1>3. Submitted(t, InTrouble(task[t])) /\ faults' \in 0 .. MaxFaults
  BY DEF SnapshotRefused, Inv, TypeOK
<1> QED
  BY <1>1, <1>2, <1>3, TroubleInv DEF SnapshotRefused

\* The error is stored or not, and the attempt is over.
LEMMA ErrorHandledInv == ASSUME Inv, NEW t \in Task, ErrorHandled(t) PROVE Inv'
<1> DEFINE r == AttemptOver(task[t])
<1>1. /\ t \notin Held /\ task[t] \in TaskRow /\ task[t].pc = "wait" /\ task[t].write = "error"
      /\ TaskGood(task[t], answer[t], FALSE)
      /\ RowGood(task[t], task[t].pc = "wait" /\ answer[t] = "ok", Stored(t))
  BY Acting DEF ErrorHandled
<1>2. RowGood([task[t] EXCEPT !.pc = "sleep"], FALSE, Stored(t))
  BY <1>1 DEF RowGood, TaskRow, WithOdds
<1>3. task[t].attempt >= 1
  BY <1>1 DEF TaskGood
<1>4. /\ r \in TaskRow /\ r.pc \in {"sleep", "over"}
      /\ TaskGood(r, answer[t], FALSE) /\ RowGood(r, FALSE, Stored(t))
  BY <1>1, <1>2, <1>3, AttemptOverGood
<1>5. task' = [task EXCEPT ![t] = r] /\ faults' \in 0 .. MaxFaults
  BY DEF ErrorHandled, Inv, TypeOK
<1> HIDE DEF r
<1> QED
  BY <1>1, <1>4, <1>5, TaskMoves DEF ErrorHandled

\* The error could not be logged, and the task raises it.
LEMMA ErrorNotLoggedInv == ASSUME Inv, NEW t \in Task, ErrorNotLogged(t) PROVE Inv'
<1> DEFINE r == [task[t] EXCEPT !.pc = "raised"]
<1>1. /\ t \notin Held /\ task[t] \in TaskRow /\ task[t].pc = "wait" /\ task[t].write = "error"
      /\ TaskGood(task[t], answer[t], FALSE)
  BY Acting DEF ErrorNotLogged
<1>2. r \in TaskRow /\ r.pc = "raised"
  BY <1>1 DEF TaskRow
<1>3. TaskGood(r, answer[t], FALSE) /\ RowGood(r, FALSE, Stored(t))
  BY <1>1 DEF TaskGood, RowGood, TaskRow
<1>4. task' = [task EXCEPT ![t] = r] /\ faults' \in 0 .. MaxFaults
  BY CaptureAssumption DEF ErrorNotLogged, Fault, Inv, TypeOK
<1> HIDE DEF r
<1> QED
  BY <1>1, <1>2, <1>3, <1>4, TaskMoves DEF ErrorNotLogged

\* The fetch is cancelled with the ingestion.
LEMMA FetchCancelledInv == ASSUME Inv, NEW t \in Task, FetchCancelled(t) PROVE Inv'
<1> DEFINE r == [task[t] EXCEPT !.pc = "cancelled"]
<1>1. /\ t \notin Held /\ task[t] \in TaskRow /\ task[t].pc = "fetch"
      /\ TaskGood(task[t], answer[t], FALSE)
  BY Acting DEF FetchCancelled
<1>2. r \in TaskRow /\ r.pc = "cancelled"
  BY <1>1 DEF TaskRow
<1>3. TaskGood(r, answer[t], FALSE) /\ RowGood(r, FALSE, Stored(t))
  BY <1>1 DEF TaskGood, RowGood, TaskRow
<1>4. task' = [task EXCEPT ![t] = r] /\ faults' \in 0 .. MaxFaults
  BY DEF FetchCancelled, Inv, TypeOK
<1> HIDE DEF r
<1> QED
  BY <1>1, <1>2, <1>3, <1>4, TaskMoves DEF FetchCancelled

\* Every step of a task keeps the invariant.
LEMMA TaskStepInv == ASSUME Inv, NEW t \in Task, TaskStep(t) PROVE Inv'
BY EnterInv, PutInv, TryAgainInv, FetchFailsInv, RespondInv, SnapshotStoredInv, SnapshotNotLoggedInv,
   SnapshotRefusedInv, ErrorHandledInv, ErrorNotLoggedInv, FetchCancelledInv DEF TaskStep

-----------------------------------------------------------------------------
(* Steps of the worker.                                                    *)

\* The worker takes a write from the queue.
LEMMA TakeInv ==
  ASSUME Inv, queue # <<>>, queue' = Tail(queue),
         batch' = Append(batch, Head(queue)), Len(batch) < BatchSize,
         worker \in {"get", "collect"}, worker' = "collect",
         UNCHANGED <<call, task, answer, rows, service, faults>>
  PROVE  /\ Inv' /\ Held' = Held
         /\ Elems(batch)' = Elems(batch) \cup {Head(queue)} /\ Head(queue) \in Elems(queue)
<1>1. queue \in Seq(Task) /\ batch \in Seq(Task) /\ NoDup(queue) /\ Elems(queue) \cap Elems(batch) = {}
  BY DEF Inv, TypeOK, QueueInv
<1>2. /\ Head(queue) \in Elems(queue) /\ Head(queue) \in Task
      /\ Elems(Tail(queue)) = Elems(queue) \ {Head(queue)}
      /\ NoDup(Tail(queue)) /\ Tail(queue) \in Seq(Task) /\ Len(Tail(queue)) <= Len(queue)
  BY <1>1, TailElems
<1>3. Elems(Append(batch, Head(queue))) = Elems(batch) \cup {Head(queue)}
  BY <1>1, <1>2, AppendElems
<1>4. /\ Elems(queue)' = Elems(queue) \ {Head(queue)} /\ NoDup(queue)'
      /\ Elems(batch)' = Elems(batch) \cup {Head(queue)}
  BY <1>2, <1>3 DEF Elems, NoDup
<1>5. QueueInv'
  BY <1>1, <1>4 DEF QueueInv
<1>6. Held' = Held
  BY <1>1, <1>2, <1>4 DEF Held
<1>7. TaskInv'
  BY <1>6 DEF TaskInv, Inv
<1>8. RowInv'
  <2> SUFFICES ASSUME NEW t \in Task PROVE RowGood(task[t], Settled(t), Stored(t))'
    BY DEF RowInv
  <2>1. (Settled(t)' <=> Settled(t)) /\ Stored(t)' = Stored(t)
    BY DEF Settled, Stored
  <2> QED
    BY <2>1 DEF Inv, RowInv, RowGood
<1>9. CallInv'
  BY DEF CallInv, Inv, MarketTasks
<1>10. TypeOK'
  <2>1. batch' \in Seq(Task) /\ Len(batch') <= BatchSize /\ Len(queue') <= QueueSize
    BY <1>1, <1>2, CaptureAssumption DEF Inv, TypeOK
  <2> QED
    BY <1>2, <2>1 DEF Inv, TypeOK
<1> QED
  BY <1>2, <1>4, <1>5, <1>6, <1>7, <1>8, <1>9, <1>10 DEF Inv

\* The writer takes the first write of a batch.
LEMMA TakeOneInv == ASSUME Inv, Take PROVE Inv' /\ Held' = Held
<1>1. batch = <<>> /\ batch' = Append(batch, Head(queue)) /\ Len(batch) < BatchSize
  BY CaptureAssumption DEF Take, Inv, QueueInv, TypeOK
<1> QED
  BY <1>1, TakeInv DEF Take

\* The writer takes one more write into its batch.
LEMMA CollectInv == ASSUME Inv, Collect PROVE Inv' /\ Held' = Held
BY TakeInv DEF Collect

\* The worker goes on, and nothing is stored.
LEMMA WorkerMoves ==
  ASSUME Inv, worker \in {"collect", "commit"}, worker' \in {"commit", "refused"},
         UNCHANGED <<call, task, queue, batch, answer, rows, service>>, faults' \in 0 .. MaxFaults
  PROVE  Inv'
<1>1. /\ Elems(queue)' = Elems(queue) /\ Elems(batch)' = Elems(batch) /\ Held' = Held
      /\ NoDup(queue)' /\ \A t \in Task : (Settled(t)' <=> Settled(t)) /\ Stored(t)' = Stored(t)
  BY DEF Inv, QueueInv, Elems, Held, NoDup, Settled, Stored
<1>2. QueueInv'
  BY <1>1 DEF QueueInv, Inv
<1>3. TaskInv'
  BY <1>1 DEF TaskInv, Inv
<1>4. RowInv'
  BY <1>1 DEF RowInv, RowGood, Inv
<1>5. CallInv'
  BY DEF CallInv, Inv, MarketTasks
<1>6. TypeOK'
  BY DEF TypeOK, Inv
<1> QED
  BY <1>2, <1>3, <1>4, <1>5, <1>6 DEF Inv

\* What the database keeps of one attempt.
Entry == [attempt : 1 .. MaxRetries, content : Content]

\* A row more.
LEMMA AppendContent ==
  ASSUME NEW s \in Seq(Entry), NEW e \in Entry
  PROVE  {Append(s, e)[i].content : i \in DOMAIN Append(s, e)}
           = {s[i].content : i \in DOMAIN s} \cup {e.content}
<1>1. /\ DOMAIN s = 1 .. Len(s) /\ Len(s) \in Nat /\ DOMAIN Append(s, e) = 1 .. Len(s) + 1
      /\ \A i \in 1 .. Len(s) : Append(s, e)[i] = s[i]
      /\ Append(s, e)[Len(s) + 1] = e
  OBVIOUS
<1>2. \A i : i \in 1 .. Len(s) + 1 <=> i \in 1 .. Len(s) \/ i = Len(s) + 1
  BY <1>1
<1> QED
  BY <1>1, <1>2

\* What the worker holds when it commits.
LEMMA StoreEffect ==
  ASSUME Inv, rows' = RowsWithBatch
  PROVE  /\ \A t \in Task : InBatch(t) <=> t \in Elems(batch)
         /\ \A t \in Elems(batch) : t \in Task =>
              /\ Row(t) \in [attempt : 1 .. MaxRetries, content : Content]
              /\ rows'[t] = Append(rows[t], Row(t))
              /\ Stored(t)' = Stored(t) \cup {task[t].write}
         /\ \A t \in Task \ Elems(batch) : rows'[t] = rows[t] /\ Stored(t)' = Stored(t)
<1>1. \A t \in Task : InBatch(t) <=> t \in Elems(batch)
  BY DEF InBatch, Elems
<1>2. \A t \in Task : rows[t] \in Seq([attempt : 1 .. MaxRetries, content : Content])
  BY DEF Inv, TypeOK
<1>3. ASSUME NEW t \in Task, t \in Elems(batch)
      PROVE  /\ Row(t) \in [attempt : 1 .. MaxRetries, content : Content]
             /\ rows'[t] = Append(rows[t], Row(t))
             /\ Stored(t)' = Stored(t) \cup {task[t].write}
  <2>1. task[t].write \in Content /\ task[t].attempt \in 1 .. MaxRetries
    <3>1. task[t] \in TaskRow
      BY DEF Inv, TypeOK
    <3>2. t \in Held
      BY <1>3 DEF Held
    <3>3. TaskGood(task[t], answer[t], TRUE)
      BY <3>2 DEF Inv, TaskInv
    <3>4. task[t].attempt \in 0 .. MaxRetries /\ MaxRetries \in Nat
      BY <3>1, CaptureAssumption DEF TaskRow
    <3> QED
      BY <3>3, <3>4 DEF TaskGood
  <2>2. Row(t) \in [attempt : 1 .. MaxRetries, content : Content] /\ Row(t).content = task[t].write
    BY <2>1 DEF Row
  <2>3. rows'[t] = Append(rows[t], Row(t))
    BY <1>1, <1>3 DEF RowsWithBatch
  <2>4. Stored(t)' = Stored(t) \cup {Row(t).content}
    <3>1. {Append(rows[t], Row(t))[i].content : i \in DOMAIN Append(rows[t], Row(t))}
            = {rows[t][i].content : i \in DOMAIN rows[t]} \cup {Row(t).content}
      <4>1. rows[t] \in Seq(Entry) /\ Row(t) \in Entry
        BY <1>2, <2>2 DEF Entry
      <4> QED
        BY <4>1, AppendContent
    <3> QED
      BY <2>3, <3>1 DEF Stored
  <2>5. Stored(t)' = Stored(t) \cup {task[t].write}
    BY <2>2, <2>4
  <2> QED
    BY <2>2, <2>3, <2>5
<1>4. \A t \in Task \ Elems(batch) : rows'[t] = rows[t] /\ Stored(t)' = Stored(t)
  BY <1>1 DEF RowsWithBatch, Stored
<1> QED
  BY <1>1, <1>3, <1>4

\* A batch that is appended leaves rows of the same kind.
LEMMA StoreTypes ==
  ASSUME Inv, rows' = RowsWithBatch
  PROVE  rows' \in [Task -> Seq([attempt : 1 .. MaxRetries, content : Content])]
<1> DEFINE R == [attempt : 1 .. MaxRetries, content : Content]
<1>1. \A t \in Task : rows[t] \in Seq(R)
  BY DEF Inv, TypeOK
<1>2. ASSUME NEW t \in Task PROVE rows'[t] \in Seq(R)
  <2>1. CASE t \in Elems(batch)
    <3>1. Row(t) \in R /\ rows'[t] = Append(rows[t], Row(t))
      BY <2>1, StoreEffect
    <3> HIDE DEF R
    <3> QED
      BY <1>1, <3>1
  <2>2. CASE t \notin Elems(batch)
    BY <1>1, <2>2, StoreEffect
  <2> QED
    BY <2>1, <2>2
<1> QED
  BY <1>2 DEF RowsWithBatch

\* The transaction of the worker appends the batch.
LEMMA CommitEffect ==
  ASSUME Inv, Commit
  PROVE  /\ \A t \in Task : InBatch(t) <=> t \in Elems(batch)
         /\ \A t \in Elems(batch) : t \in Task =>
              /\ Row(t) \in [attempt : 1 .. MaxRetries, content : Content]
              /\ rows'[t] = Append(rows[t], Row(t))
              /\ Stored(t)' = Stored(t) \cup {task[t].write}
         /\ \A t \in Task \ Elems(batch) : rows'[t] = rows[t] /\ Stored(t)' = Stored(t)
BY StoreEffect DEF Commit

\* The batch is stored in its order, or refused as a whole.
LEMMA CommitInv == ASSUME Inv, Commit PROVE Inv'
<1>1. /\ Elems(queue)' = Elems(queue) /\ Elems(batch)' = Elems(batch) /\ Held' = Held
      /\ NoDup(queue)'
  BY DEF Inv, QueueInv, Elems, Held, NoDup, Commit
<1>2. QueueInv'
  BY <1>1 DEF QueueInv, Inv, Commit
<1>3. TaskInv'
  BY <1>1 DEF TaskInv, Inv, Commit
<1>4. RowInv'
  <2> SUFFICES ASSUME NEW t \in Task PROVE RowGood(task[t], Settled(t)', Stored(t)')
    BY DEF RowInv, Commit, RowGood
  <2>1. RowGood(task[t], Settled(t), Stored(t))
    BY DEF Inv, RowInv
  <2>2. CASE t \notin Elems(batch)
    <3>1. (Settled(t)' <=> Settled(t)) /\ Stored(t)' = Stored(t)
      BY <1>1, <2>2, CommitEffect DEF Settled, Commit
    <3> QED
      BY <2>1, <3>1 DEF RowGood
  <2>3. CASE t \in Elems(batch)
    <3>1. Settled(t)' /\ Stored(t)' = Stored(t) \cup {task[t].write}
      BY <1>1, <2>3, CommitEffect DEF Settled, Commit
    <3>2. /\ task[t].pc \in {"wait", "cancelled"} /\ task[t].write \in Content /\ ~Settled(t)
      BY <2>3 DEF Inv, TaskInv, TaskGood, Held, Settled, Commit
    <3> QED
      BY <2>1, <3>1, <3>2 DEF RowGood
  <2> QED
    BY <2>2, <2>3
<1>5. CallInv'
  BY DEF CallInv, Inv, MarketTasks, Commit
<1>6. TypeOK'
  <2>1. rows' \in [Task -> Seq([attempt : 1 .. MaxRetries, content : Content])]
    BY StoreTypes DEF Commit
  <2> QED
    BY <2>1 DEF TypeOK, Inv, Commit
<1> QED
  BY <1>2, <1>3, <1>4, <1>5, <1>6 DEF Inv

\* Every task of the batch gets its answer.
LEMMA AnswerBatchInv == ASSUME Inv, AnswerBatch PROVE Inv'
<1>1. /\ Elems(queue)' = Elems(queue) /\ Elems(batch)' = {} /\ NoDup(queue)'
      /\ Held' = Elems(queue) /\ Elems(queue) \cap Elems(batch) = {}
  BY DEF Inv, QueueInv, Elems, Held, NoDup, AnswerBatch
<1>2. QueueInv'
  BY <1>1 DEF QueueInv, AnswerBatch
<1>3. /\ \A t \in Task : InBatch(t) <=> t \in Elems(batch)
      /\ \A t \in Task \ Elems(batch) : answer'[t] = answer[t]
      /\ \A t \in Elems(batch) : t \in Task =>
           /\ answer'[t] \in {"ok", "error"}
           /\ answer'[t] = "ok" <=> worker = "stored"
  BY DEF AnswerBatch, Answered, InBatch, Elems
<1>4. TaskInv'
  <2> SUFFICES ASSUME NEW t \in Task PROVE TaskGood(task[t], answer'[t], t \in Held')
    BY DEF TaskInv, AnswerBatch
  <2>1. TaskGood(task[t], answer[t], t \in Held)
    BY DEF Inv, TaskInv
  <2> QED
    BY <1>1, <1>3, <2>1 DEF TaskGood, Held
<1>5. RowInv'
  <2> SUFFICES ASSUME NEW t \in Task, task[t].pc \notin {"cancelled", "raised", "stuck"}
               PROVE  RowGood(task[t], Settled(t)', Stored(t)')
    BY DEF RowInv, AnswerBatch, RowGood
  <2>1. RowGood(task[t], Settled(t), Stored(t)) /\ TaskGood(task[t], answer[t], t \in Held)
    BY DEF Inv, RowInv, TaskInv
  <2>2. Stored(t)' = Stored(t)
    BY DEF Stored, AnswerBatch
  <2>3. Settled(t)' <=> Settled(t)
    BY <1>1, <1>3, <2>1 DEF Settled, AnswerBatch, TaskGood, Held
  <2> QED
    BY <2>1, <2>2, <2>3 DEF RowGood
<1>6. CallInv'
  BY DEF CallInv, Inv, MarketTasks, AnswerBatch
<1>7. TypeOK'
  <2>1. answer' \in [Task -> {"none", "ok", "error"}]
    BY DEF AnswerBatch, Answered, Inv, TypeOK
  <2>2. <<>> \in Seq(Task) /\ Len(<<>>) <= BatchSize
    BY CaptureAssumption
  <2> QED
    BY <2>1, <2>2 DEF TypeOK, Inv, AnswerBatch
<1> QED
  BY <1>2, <1>4, <1>5, <1>6, <1>7 DEF Inv

\* Every step of the writer keeps the invariant.
LEMMA WorkerStepInv == ASSUME Inv, WorkerStep PROVE Inv'
<1>1. faults \in 0 .. MaxFaults /\ MaxFaults \in Nat
  BY CaptureAssumption DEF Inv, TypeOK
<1>2. Flush => Inv'
  BY <1>1, WorkerMoves DEF Flush
<1>3. CommitFails => Inv'
  <2>1. CommitFails => faults' \in 0 .. MaxFaults
    BY <1>1 DEF CommitFails, Fault
  <2> QED
    BY <2>1, WorkerMoves DEF CommitFails
<1> QED
  BY <1>2, <1>3, TakeOneInv, CollectInv, CommitInv, AnswerBatchInv DEF WorkerStep

-----------------------------------------------------------------------------
(* Calls and the end of the process.                                       *)

\* Nothing that tasks or writes depend on changes, but where calls and tasks stand.
LEMMA SameWrites ==
  ASSUME Inv, UNCHANGED <<queue, batch, answer, rows>>
  PROVE  /\ Elems(queue)' = Elems(queue) /\ Elems(batch)' = Elems(batch) /\ Held' = Held
         /\ NoDup(queue)' /\ \A t \in Task : Stored(t)' = Stored(t)
  BY DEF Inv, QueueInv, Elems, Held, NoDup, Stored

\* A call starts a task for each of its markets.
LEMMA BeginCallInv == ASSUME Inv, NEW c \in Call, BeginCall(c) PROVE Inv'
<1>1. /\ Elems(queue)' = Elems(queue) /\ Elems(batch)' = Elems(batch) /\ Held' = Held
      /\ NoDup(queue)' /\ \A t \in Task : Stored(t)' = Stored(t)
  BY SameWrites DEF BeginCall
<1> DEFINE ready == [NoTask EXCEPT !.pc = "ready"]
<1>2. PICK ms \in SUBSET Market :
        task' = [t \in Task |-> IF t[1] = c /\ t[2] \in ms THEN ready ELSE task[t]]
  BY DEF BeginCall
<1>3. ready \in TaskRow /\ ready.pc = "ready" /\ ready.saved = FALSE /\ ready.attempt = 0
  <2>1. 0 \in 0 .. MaxRetries
    BY CaptureAssumption
  <2> QED
    BY <2>1 DEF NoTask, TaskRow
<1>4. \A t \in Task : t[1] = c => task[t].pc = "off"
  BY DEF BeginCall, Inv, CallInv, MarketTasks
<1>5. \A t \in Task : task'[t] = task[t] \/ (task'[t] = ready /\ task[t].pc = "off" /\ t[1] = c)
  BY <1>2, <1>4
<1>6. QueueInv'
  BY <1>1 DEF QueueInv, Inv, BeginCall
<1>7. TaskInv'
  <2> SUFFICES ASSUME NEW t \in Task PROVE TaskGood(task'[t], answer[t], t \in Held)
    BY <1>1 DEF TaskInv, BeginCall
  <2>1. TaskGood(task[t], answer[t], t \in Held)
    BY DEF Inv, TaskInv
  <2>2. CASE task'[t] = task[t]
    BY <2>1, <2>2
  <2>3. CASE task'[t] = ready /\ task[t].pc = "off"
    <3> HIDE DEF ready
    <3> QED
      BY <1>3, <2>1, <2>3 DEF TaskGood
  <2> QED
    BY <1>5, <2>2, <2>3
<1>8. RowInv'
  <2> SUFFICES ASSUME NEW t \in Task PROVE RowGood(task'[t], Settled(t)', Stored(t))
    BY <1>1 DEF RowInv, RowGood
  <2>1. RowGood(task[t], Settled(t), Stored(t)) /\ TaskGood(task[t], answer[t], t \in Held)
    BY DEF Inv, RowInv, TaskInv
  <2>2. CASE task'[t] = task[t]
    <3>1. Settled(t)' <=> Settled(t)
      BY <1>1, <2>2 DEF Settled, BeginCall, Inv, QueueInv
    <3> QED
      BY <2>1, <2>2, <3>1 DEF RowGood
  <2>3. CASE task'[t] = ready /\ task[t].pc = "off"
    <3>1. ~Settled(t)'
      <4>1. t \notin Elems(batch)
        BY <2>1, <2>3 DEF TaskGood, Held
      <4> HIDE DEF ready
      <4> QED
        BY <1>1, <1>3, <2>3, <4>1 DEF Settled
    <3>2. Stored(t) = {}
      BY <2>1, <2>3 DEF RowGood
    <3> QED
      BY <2>3, <3>1, <3>2 DEF RowGood, NoTask
  <2> QED
    BY <1>5, <2>2, <2>3
<1>9. CallInv'
  <2>1. call'[c] = "running" /\ \A d \in Call \ {c} : call'[d] = call[d]
    BY DEF BeginCall, Inv, TypeOK
  <2>2. \A d \in Call \ {c} : \A t \in MarketTasks(d) : t \in Task /\ task'[t] = task[t]
    BY <1>2 DEF MarketTasks
  <2> SUFFICES ASSUME NEW d \in Call
               PROVE  /\ call'[d] = "idle" => \A t \in MarketTasks(d) : task'[t].pc = "off"
                      /\ call'[d] \in {"saved", "nothing"} =>
                           /\ \A t \in MarketTasks(d) : task'[t].pc \in {"off", "over"}
                           /\ call'[d] = "saved" <=> \E t \in MarketTasks(d) : task'[t].saved = TRUE
    BY DEF CallInv, MarketTasks
  <2>3. CASE d = c
    BY <2>1, <2>3
  <2>4. CASE d # c
    BY <2>1, <2>2, <2>4 DEF Inv, CallInv
  <2> QED
    BY <2>3, <2>4
<1>10. TypeOK'
  <2>1. task' \in [Task -> TaskRow]
    <3> HIDE DEF ready
    <3> QED
      BY <1>2, <1>3 DEF Inv, TypeOK
  <2> QED
    BY <2>1 DEF TypeOK, Inv, BeginCall
<1> QED
  BY <1>6, <1>7, <1>8, <1>9, <1>10 DEF Inv

\* A call ends, or close goes on.
LEMMA CallEnds ==
  ASSUME Inv, UNCHANGED <<task, queue, batch, answer, rows, faults>>,
         worker' = worker, TypeOK', CallInv'
  PROVE  Inv'
<1>1. /\ Elems(queue)' = Elems(queue) /\ Elems(batch)' = Elems(batch) /\ Held' = Held
      /\ NoDup(queue)' /\ \A t \in Task : Stored(t)' = Stored(t)
  BY SameWrites
<1>2. QueueInv'
  BY <1>1 DEF QueueInv, Inv
<1>3. TaskInv'
  BY <1>1 DEF TaskInv, Inv
<1>4. \A t \in Task : Settled(t)' <=> Settled(t)
  BY <1>1 DEF Settled
<1>5. RowInv'
  BY <1>1, <1>4 DEF RowInv, RowGood, Inv
<1> QED
  BY <1>2, <1>3, <1>5 DEF Inv

\* A call ends when all its markets are over.
LEMMA EndCallInv == ASSUME Inv, NEW c \in Call, EndCall(c) PROVE Inv'
<1>1. TypeOK'
  BY DEF EndCall, Inv, TypeOK
<1>2. /\ \A t \in MarketTasks(c) : t \in Task /\ task[t].pc \in {"off", "over"}
      /\ call'[c] = IF \E t \in MarketTasks(c) : task[t].saved THEN "saved" ELSE "nothing"
      /\ \A d \in Call \ {c} : call'[d] = call[d]
  BY DEF EndCall, Inv, TypeOK, MarketTasks
<1>3. \A t \in Task : task[t].saved \in BOOLEAN
  BY DEF Inv, TypeOK, TaskRow
<1>4. CallInv'
  <2> SUFFICES ASSUME NEW d \in Call
               PROVE  /\ call'[d] = "idle" => \A t \in MarketTasks(d) : task[t].pc = "off"
                      /\ call'[d] \in {"saved", "nothing"} =>
                           /\ \A t \in MarketTasks(d) : task[t].pc \in {"off", "over"}
                           /\ call'[d] = "saved" <=> \E t \in MarketTasks(d) : task[t].saved = TRUE
    BY DEF CallInv, MarketTasks, EndCall
  <2>1. CASE d = c
    BY <1>2, <1>3, <2>1
  <2>2. CASE d # c
    BY <1>2, <2>2 DEF Inv, CallInv
  <2> QED
    BY <2>1, <2>2
<1> QED
  BY <1>1, <1>4, CallEnds DEF EndCall

\* A call raises what one of its markets raised.
LEMMA CallRaisesInv == ASSUME Inv, NEW c \in Call, CallRaises(c) PROVE Inv'
<1>1. TypeOK'
  BY DEF CallRaises, Inv, TypeOK
<1>2. call'[c] = "raised" /\ \A d \in Call \ {c} : call'[d] = call[d]
  BY DEF CallRaises, Inv, TypeOK
<1>3. CallInv'
  <2> SUFFICES ASSUME NEW d \in Call, d # c
               PROVE  /\ call'[d] = "idle" => \A t \in MarketTasks(d) : task[t].pc = "off"
                      /\ call'[d] \in {"saved", "nothing"} =>
                           /\ \A t \in MarketTasks(d) : task[t].pc \in {"off", "over"}
                           /\ call'[d] = "saved" <=> \E t \in MarketTasks(d) : task[t].saved = TRUE
    BY <1>2 DEF CallInv, MarketTasks, CallRaises
  <2> QED
    BY <1>2 DEF Inv, CallInv
<1> QED
  BY <1>1, <1>3, CallEnds DEF CallRaises

\* close goes on when the queue is empty and the batch answered, or nothing was ever written.
LEMMA JoinInv == ASSUME Inv, Join PROVE Inv'
<1>1. TypeOK' /\ CallInv'
  BY DEF Join, Inv, TypeOK, CallInv, MarketTasks
<1> QED
  BY <1>1, CallEnds DEF Join

\* What is cancelled had not ended, and the calls that returned keep what they returned.
LEMMA CancelledEffect ==
  ASSUME Inv, NEW calls, Cancelled(calls)
  PROVE  /\ \A t \in Task : \/ task'[t] = task[t]
                            \/ /\ task'[t] = [task[t] EXCEPT !.pc = "cancelled"]
                               /\ task[t].pc \notin {"off", "over"}
         /\ task' \in [Task -> TaskRow]
         /\ call' \in [Call -> {"idle", "running", "saved", "nothing", "raised", "cancelled"}]
         /\ CallInv'
<1>1. \A t \in Task : /\ task[t] \in TaskRow
                      /\ \/ task'[t] = task[t]
                         \/ /\ task'[t] = [task[t] EXCEPT !.pc = "cancelled"]
                            /\ task[t].pc \notin {"off", "over"}
  BY DEF Cancelled, Inv, TypeOK, Running
<1>2. CallInv'
  <2> SUFFICES ASSUME NEW c \in Call
               PROVE  /\ call'[c] = "idle" => \A t \in MarketTasks(c) : task'[t].pc = "off"
                      /\ call'[c] \in {"saved", "nothing"} =>
                           /\ \A t \in MarketTasks(c) : task'[t].pc \in {"off", "over"}
                           /\ call'[c] = "saved" <=> \E t \in MarketTasks(c) : task'[t].saved = TRUE
    BY DEF CallInv, MarketTasks
  <2>1. call'[c] \in {"idle", "saved", "nothing"} => call'[c] = call[c]
    BY DEF Cancelled, Inv, TypeOK
  <2>2. call[c] \in {"idle", "saved", "nothing"} =>
          \A t \in MarketTasks(c) : t \in Task /\ task[t].pc \in {"off", "over"}
    BY DEF Inv, CallInv, MarketTasks
  <2>3. call[c] \in {"idle", "saved", "nothing"} => \A t \in MarketTasks(c) : task'[t] = task[t]
    BY <1>1, <2>2
  <2> QED
    BY <2>1, <2>3 DEF Inv, CallInv
<1>3. task' \in [Task -> TaskRow]
  <2>1. \A t \in Task : [task[t] EXCEPT !.pc = "cancelled"] \in TaskRow
    BY <1>1 DEF TaskRow
  <2> QED
    BY <2>1 DEF Cancelled, Inv, TypeOK
<1>4. call' \in [Call -> {"idle", "running", "saved", "nothing", "raised", "cancelled"}]
  BY DEF Cancelled, Inv, TypeOK
<1> QED
  BY <1>1, <1>2, <1>3, <1>4

\* A shutdown cancels tasks and leaves the queue alone.
LEMMA ShutdownInv == ASSUME Inv, Shutdown PROVE Inv'
<1>1. /\ Elems(queue)' = Elems(queue) /\ Elems(batch)' = Elems(batch) /\ Held' = Held
      /\ NoDup(queue)' /\ \A t \in Task : Stored(t)' = Stored(t)
  BY SameWrites DEF Shutdown
<1>2. PICK known \in SUBSET {c \in Call : call[c] = "running"} : Cancelled(known)
  BY DEF Shutdown
<1>3. /\ \A t \in Task : \/ task'[t] = task[t]
                         \/ /\ task'[t] = [task[t] EXCEPT !.pc = "cancelled"]
                            /\ task[t].pc \notin {"off", "over"}
      /\ task' \in [Task -> TaskRow]
      /\ call' \in [Call -> {"idle", "running", "saved", "nothing", "raised", "cancelled"}]
      /\ CallInv'
  BY <1>2, CancelledEffect
<1>4. QueueInv'
  BY <1>1 DEF QueueInv, Inv, Shutdown
<1>5. TaskInv'
  <2> SUFFICES ASSUME NEW t \in Task PROVE TaskGood(task'[t], answer[t], t \in Held)
    BY <1>1 DEF TaskInv, Shutdown
  <2>1. TaskGood(task[t], answer[t], t \in Held) /\ task[t] \in TaskRow
    BY DEF Inv, TaskInv, TypeOK
  <2>2. TaskGood([task[t] EXCEPT !.pc = "cancelled"], answer[t], t \in Held)
    BY <2>1 DEF TaskGood, TaskRow
  <2> QED
    BY <1>3, <2>1, <2>2
<1>6. RowInv'
  <2> SUFFICES ASSUME NEW t \in Task, task'[t].pc \notin {"cancelled", "raised", "stuck"}
               PROVE  RowGood(task'[t], Settled(t)', Stored(t))
    BY <1>1 DEF RowInv, RowGood
  <2>1. task[t] \in TaskRow
    BY DEF Inv, TypeOK
  <2>2. task'[t] = task[t]
    BY <1>3, <2>1 DEF TaskRow
  <2>3. Settled(t)' <=> Settled(t)
    BY <1>1, <2>2 DEF Settled, Shutdown
  <2> QED
    BY <2>2, <2>3 DEF Inv, RowInv, RowGood
<1>7. TypeOK'
  BY <1>3 DEF Shutdown, Inv, TypeOK
<1> QED
  BY <1>3, <1>4, <1>5, <1>6, <1>7 DEF Inv

\* The worker is gone: its batch is empty, and stored or not.
LEMMA DropEffect ==
  ASSUME Inv, DropWorker
  PROVE  /\ worker' = "none" /\ batch' = <<>> /\ Elems(batch)' = {}
         /\ rows' \in [Task -> Seq([attempt : 1 .. MaxRetries, content : Content])]
         /\ \A t \in Task : InBatch(t) <=> t \in Elems(batch)
         /\ \A t \in Task \ Elems(batch) : rows'[t] = rows[t] /\ Stored(t)' = Stored(t)
         /\ rows' = rows \/ (worker = "commit" /\ rows' = RowsWithBatch)
<1>1. worker' = "none" /\ batch' = <<>> /\ Elems(batch)' = {}
  BY DEF DropWorker, Elems
<1>2. rows' = rows \/ (worker = "commit" /\ rows' = RowsWithBatch)
  BY DEF DropWorker
<1>3. rows' \in [Task -> Seq([attempt : 1 .. MaxRetries, content : Content])]
  BY <1>2, StoreTypes DEF Inv, TypeOK
<1>4. \A t \in Task : InBatch(t) <=> t \in Elems(batch)
  BY DEF InBatch, Elems
<1>5. ASSUME NEW t \in Task \ Elems(batch) PROVE rows'[t] = rows[t] /\ Stored(t)' = Stored(t)
  <2>1. CASE rows' = rows
    BY <2>1 DEF Stored
  <2>2. CASE rows' = RowsWithBatch
    BY <2>2, StoreEffect
  <2> QED
    BY <1>2, <2>1, <2>2
<1> QED
  BY <1>1, <1>2, <1>3, <1>4, <1>5

\* Which tasks the end of the worker, or that of the process, leaves where they are.
LEMMA DropTasks ==
  ASSUME Inv, CancelWorker \/ Exit, NEW t \in Task
  PROVE  /\ \/ task'[t] = task[t]
            \/ task[t].pc \notin {"off", "over"} /\ task'[t] = [task[t] EXCEPT !.pc = "cancelled"]
            \/ task[t].pc = "wait" /\ task'[t] = [task[t] EXCEPT !.pc = "stuck"]
         /\ t \in Held' => t \in Elems(queue) /\ t \notin Elems(batch) /\ task'[t] = task[t]
         /\ t \in Held /\ t \notin Held' => task'[t].pc \in {"stuck", "cancelled"}
<1>1. /\ worker' = "none" /\ batch' = <<>> /\ Elems(batch)' = {}
      /\ InBatch(t) <=> t \in Elems(batch)
  BY DropEffect DEF CancelWorker, Exit
<1>2. /\ TaskGood(task[t], answer[t], t \in Held) /\ task[t] \in TaskRow /\ task \in [Task -> TaskRow]
      /\ Elems(queue) \cap Elems(batch) = {}
  BY DEF Inv, TaskInv, TypeOK, QueueInv
<1>3. CASE CancelWorker
  <2>1. Held' = Elems(queue)
    BY <1>1, <1>3 DEF CancelWorker, Held, Elems
  <2>2. task'[t] = IF InBatch(t) /\ task[t].pc = "wait" THEN [task[t] EXCEPT !.pc = "stuck"] ELSE task[t]
    BY <1>3 DEF CancelWorker
  <2>3. [task[t] EXCEPT !.pc = "stuck"].pc = "stuck"
    BY <1>2 DEF TaskRow
  <2> QED
    BY <1>1, <1>2, <2>1, <2>2, <2>3 DEF TaskGood, Held
<1>4. CASE Exit
  <2>1. Held' = {}
    BY <1>1, <1>4 DEF Exit, Held, Elems
  <2>2. task'[t] = IF t[1] \in Call /\ (Running(t) \/ task[t].pc = "ready")
                   THEN [task[t] EXCEPT !.pc = "cancelled"] ELSE task[t]
    BY <1>4 DEF Exit, Cancelled
  <2>3. t[1] \in Call
    BY DEF Task
  <2>4. [task[t] EXCEPT !.pc = "cancelled"].pc = "cancelled"
    BY <1>2 DEF TaskRow
  <2> QED
    BY <1>2, <2>1, <2>2, <2>3, <2>4 DEF TaskGood, Running
<1> QED
  BY <1>3, <1>4

\* What they leave of the invariant, apart from types and calls.
LEMMA DropInv ==
  ASSUME Inv, CancelWorker \/ Exit, TypeOK', CallInv'
  PROVE  Inv'
<1>1. /\ worker' = "none" /\ batch' = <<>> /\ Elems(batch)' = {}
      /\ \A t \in Task \ Elems(batch) : rows'[t] = rows[t] /\ Stored(t)' = Stored(t)
      /\ answer' = answer /\ queue' \in {queue, <<>>}
  BY DropEffect DEF CancelWorker, Exit
<1>2. QueueInv'
  BY <1>1 DEF QueueInv, Inv, NoDup, Elems
<1>3. ASSUME NEW t \in Task
      PROVE  /\ TaskGood(task[t], answer[t], t \in Held) /\ task[t] \in TaskRow
             /\ \/ task'[t] = task[t]
                \/ task[t].pc \notin {"off", "over"} /\ task'[t] = [task[t] EXCEPT !.pc = "cancelled"]
                \/ task[t].pc = "wait" /\ task'[t] = [task[t] EXCEPT !.pc = "stuck"]
             /\ t \in Held' => t \in Held /\ t \notin Elems(batch) /\ task'[t] = task[t]
             /\ t \in Held /\ t \notin Held' => task'[t].pc \in {"stuck", "cancelled"}
  BY <1>3, DropTasks DEF Held, Inv, TaskInv, TypeOK
<1>4. TaskInv'
  <2> SUFFICES ASSUME NEW t \in Task PROVE TaskGood(task'[t], answer[t], t \in Held')
    BY <1>1 DEF TaskInv
  <2>1. CASE task'[t] = task[t]
    BY <1>3, <2>1 DEF TaskGood
  <2>2. CASE task'[t] = [task[t] EXCEPT !.pc = "cancelled"]
    <3>1. task'[t].pc = "cancelled" /\ task'[t].write = task[t].write /\ task'[t].attempt = task[t].attempt
      BY <1>3, <2>2 DEF TaskRow
    <3> QED
      BY <1>3, <3>1 DEF TaskGood
  <2>3. CASE task[t].pc = "wait" /\ task'[t] = [task[t] EXCEPT !.pc = "stuck"]
    <3>1. task'[t].pc = "stuck" /\ task'[t].attempt = task[t].attempt
      BY <1>3, <2>3 DEF TaskRow
    <3>2. t \notin Held'
      BY <1>3, <2>3, <3>1
    <3> QED
      BY <1>3, <2>3, <3>1, <3>2 DEF TaskGood
  <2> QED
    BY <1>3, <2>1, <2>2, <2>3
<1>5. RowInv'
  <2> SUFFICES ASSUME NEW t \in Task, task'[t].pc \notin {"cancelled", "raised", "stuck"}
               PROVE  RowGood(task'[t], Settled(t)', Stored(t)')
    BY DEF RowInv, RowGood
  <2>1. task'[t] = task[t]
    BY <1>3 DEF TaskRow
  <2>2. t \notin Elems(batch)
    BY <1>3 DEF Held
  <2>3. (Settled(t)' <=> Settled(t)) /\ Stored(t)' = Stored(t)
    BY <1>1, <2>1, <2>2 DEF Settled
  <2> QED
    BY <2>1, <2>3 DEF Inv, RowInv, RowGood
<1> QED
  BY <1>2, <1>4, <1>5 DEF Inv

\* The cancelled worker leaves its batch to nobody.
LEMMA CancelWorkerInv == ASSUME Inv, CancelWorker PROVE Inv'
<1>1. /\ worker' = "none" /\ batch' = <<>>
      /\ rows' \in [Task -> Seq([attempt : 1 .. MaxRetries, content : Content])]
  BY DropEffect DEF CancelWorker
<1>2. ASSUME NEW t \in Task
      PROVE  /\ task[t] \in TaskRow /\ [task[t] EXCEPT !.pc = "stuck"] \in TaskRow
             /\ task[t].pc \in {"off", "over"} => task'[t] = task[t]
  <2>1. task[t] \in TaskRow
    BY DEF Inv, TypeOK
  <2> QED
    BY <2>1 DEF TaskRow, CancelWorker
<1>3. task' \in [Task -> TaskRow]
  BY <1>2 DEF CancelWorker
<1>4. <<>> \in Seq(Task) /\ Len(<<>>) <= BatchSize
  BY CaptureAssumption
<1>5. TypeOK'
  BY <1>1, <1>3, <1>4 DEF CancelWorker, Inv, TypeOK
<1>6. CallInv'
  <2> SUFFICES ASSUME NEW c \in Call
               PROVE  /\ call[c] = "idle" => \A t \in MarketTasks(c) : task'[t].pc = "off"
                      /\ call[c] \in {"saved", "nothing"} =>
                           /\ \A t \in MarketTasks(c) : task'[t].pc \in {"off", "over"}
                           /\ call[c] = "saved" <=> \E t \in MarketTasks(c) : task'[t].saved = TRUE
    BY DEF CallInv, MarketTasks, CancelWorker
  <2>1. call[c] \in {"idle", "saved", "nothing"} =>
          \A t \in MarketTasks(c) : t \in Task /\ task[t].pc \in {"off", "over"}
    BY DEF Inv, CallInv, MarketTasks
  <2>2. call[c] \in {"idle", "saved", "nothing"} => \A t \in MarketTasks(c) : task'[t] = task[t]
    BY <1>2, <2>1
  <2> QED
    BY <2>2 DEF Inv, CallInv
<1> QED
  BY <1>5, <1>6, DropInv

\* The process ends with all that runs.
LEMMA ExitInv == ASSUME Inv, Exit PROVE Inv'
<1>1. /\ worker' = "none" /\ batch' = <<>>
      /\ rows' \in [Task -> Seq([attempt : 1 .. MaxRetries, content : Content])]
  BY DropEffect DEF Exit
<1>2. /\ task' \in [Task -> TaskRow]
      /\ call' \in [Call -> {"idle", "running", "saved", "nothing", "raised", "cancelled"}]
      /\ CallInv'
  BY CancelledEffect DEF Exit
<1>3. <<>> \in Seq(Task) /\ Len(<<>>) <= BatchSize /\ Len(<<>>) <= QueueSize
  BY CaptureAssumption
<1>4. TypeOK'
  BY <1>1, <1>2, <1>3 DEF Exit, Inv, TypeOK
<1> QED
  BY <1>2, <1>4, DropInv

\* Every step keeps the invariant.
LEMMA NextInv == ASSUME Inv, [Next]_vars PROVE Inv'
<1>1. CASE UNCHANGED vars
  <2>1. /\ Elems(queue)' = Elems(queue) /\ Elems(batch)' = Elems(batch) /\ Held' = Held
        /\ NoDup(queue)' /\ \A t \in Task : Stored(t)' = Stored(t)
    BY <1>1, SameWrites DEF vars
  <2>2. TypeOK' /\ CallInv'
    BY <1>1 DEF vars, Inv, TypeOK, CallInv, MarketTasks
  <2> QED
    BY <1>1, <2>2, CallEnds DEF vars
<1> QED
  BY <1>1, TaskStepInv, WorkerStepInv, EndCallInv, CallRaisesInv, JoinInv, CancelWorkerInv, ExitInv,
     BeginCallInv, ShutdownInv
  DEF Next, Step

\* Where calls, tasks, the queue and the worker may stand: no attempt is counted beyond
\* max_retries_per_match, and the queue and the batches keep their bounds.
THEOREM TypeCorrect == Spec => []TypeOK
<1>1. Inv /\ [Next]_vars => Inv'
  BY NextInv
<1>2. Inv => TypeOK
  BY DEF Inv
<1> QED
  BY InitInv, <1>1, <1>2, PTL DEF Spec

\* The invariant holds what the caller of a capture is told.
LEMMA InvResult == Inv => ResultIsStored
<1> SUFFICES ASSUME Inv PROVE ResultIsStored
  OBVIOUS
<1>1. ASSUME NEW t \in Task
      PROVE  /\ task[t] \in TaskRow /\ Stored(t) \subseteq Content
             /\ task[t].pc \in {"off", "over"} =>
                  RowGood(task[t], FALSE, Stored(t))
  <2>1. task[t] \in TaskRow /\ rows[t] \in Seq([attempt : 1 .. MaxRetries, content : Content])
    BY DEF Inv, TypeOK
  <2>2. Stored(t) \subseteq Content
    <3> DEFINE R == [attempt : 1 .. MaxRetries, content : Content]
    <3>1. \A e \in R : e.content \in Content
      OBVIOUS
    <3>2. \A i \in DOMAIN rows[t] : rows[t][i] \in R
      <4> HIDE DEF R
      <4>1. rows[t] \in Seq(R)
        BY <2>1 DEF R
      <4> QED
        BY <4>1
    <3> HIDE DEF R
    <3> QED
      BY <3>1, <3>2 DEF Stored
  <2>3. RowGood(task[t], Settled(t), Stored(t)) /\ TaskGood(task[t], answer[t], t \in Held)
    BY DEF Inv, RowInv, TaskInv
  <2>4. task[t].pc \in {"off", "over"} => ~Settled(t)
    BY <2>3 DEF TaskGood, Settled, Held
  <2> QED
    BY <2>1, <2>2, <2>3, <2>4 DEF RowGood
<1>2. ASSUME NEW t \in Task, task[t].pc = "over"
      PROVE  /\ task[t].status \in {"complete", "partial"} <=> Stored(t) \cap WithOdds # {}
             /\ task[t].status = "complete" => "complete" \in Stored(t)
             /\ task[t].status = "unavailable" => Stored(t) = {"unavailable"}
  <2> DEFINE r == task[t]
             S == Stored(t)
  <2>1. /\ r.saved \in BOOLEAN /\ r.unavailable \in BOOLEAN /\ r.trouble \in BOOLEAN
        /\ S \subseteq {"complete", "partial", "unavailable", "empty", "error"}
    BY <1>1 DEF TaskRow, Content, Payload, WithOdds
  <2>2. /\ r.saved = TRUE <=> S \cap WithOdds # {}
        /\ S \cap {"error", "empty"} # {} => r.trouble = TRUE
        /\ r.unavailable = TRUE /\ r.trouble = FALSE => "unavailable" \in S
        /\ \/ r.status = "complete" /\ "complete" \in S /\ r.saved = TRUE
           \/ r.status = FinalStatus(r)
    BY <1>1, <1>2 DEF RowGood
  <2> HIDE DEF r, S
  <2>3. /\ r.status \in {"complete", "partial"} <=> r.saved = TRUE
        /\ r.status = "complete" => "complete" \in S
        /\ r.status = "unavailable" =>
             "unavailable" \in S /\ S \cap WithOdds = {} /\ S \cap {"error", "empty"} = {}
    BY <2>1, <2>2 DEF FinalStatus
  <2>4. S \cap WithOdds = {} /\ S \cap {"error", "empty"} = {} => S \subseteq {"unavailable"}
    BY <2>1 DEF WithOdds
  <2> QED
    BY <2>2, <2>3, <2>4 DEF r, S
<1>3. ASSUME NEW c \in Call, call[c] \in {"saved", "nothing"}
      PROVE  call[c] = "saved" <=> \E t \in MarketTasks(c) : Stored(t) \cap WithOdds # {}
  <2>1. \A t \in MarketTasks(c) : t \in Task /\ task[t].pc \in {"off", "over"}
    BY <1>3 DEF Inv, CallInv, MarketTasks
  <2>2. \A t \in MarketTasks(c) : task[t].saved = TRUE <=> Stored(t) \cap WithOdds # {}
    BY <1>1, <2>1 DEF RowGood
  <2> QED
    BY <1>3, <2>2 DEF Inv, CallInv
<1> QED
  BY <1>2, <1>3 DEF ResultIsStored

\* What a capture reports is what the database holds, whatever the number of calls, markets,
\* attempts and failures, with any bounds of the queue and the batches.
THEOREM ResultStored == Spec => []ResultIsStored
<1>1. Inv /\ [Next]_vars => Inv'
  BY NextInv
<1> QED
  BY InitInv, <1>1, InvResult, PTL DEF Spec

-----------------------------------------------------------------------------
(* The queue and its worker implement the write service.                    *)

\* WriteOf with the sets of what is queued and what is in the batch.
LEMMA WriteOfSets ==
  ASSUME NEW t
  PROVE  WriteOf(t) =
           IF t \in Elems(batch) /\ worker = "stored" THEN "stored"
           ELSE IF t \in Elems(batch) /\ worker = "refused" THEN "refused"
           ELSE IF t \in Held THEN "accepted"
           ELSE IF task[t].pc = "put" THEN "asked"
           ELSE IF task[t].pc = "wait" THEN (IF answer[t] = "ok" THEN "stored" ELSE "refused")
           ELSE "none"
<1>1. InBatch(t) <=> t \in Elems(batch)
  BY DEF InBatch, Elems
<1>2. (\E i \in DOMAIN queue : queue[i] = t) <=> t \in Elems(queue)
  BY DEF Elems
<1> QED
  BY <1>1, <1>2 DEF WriteOf, Held

\* Where the write of a task stands after a step.
LEMMA WriteOfSetsPrimed ==
  ASSUME NEW t
  PROVE  WriteOf(t)' =
           IF t \in Elems(batch)' /\ worker' = "stored" THEN "stored"
           ELSE IF t \in Elems(batch)' /\ worker' = "refused" THEN "refused"
           ELSE IF t \in Held' THEN "accepted"
           ELSE IF task'[t].pc = "put" THEN "asked"
           ELSE IF task'[t].pc = "wait" THEN (IF answer'[t] = "ok" THEN "stored" ELSE "refused")
           ELSE "none"
<1>1. InBatch(t)' <=> t \in Elems(batch)'
  BY DEF InBatch, Elems
<1>2. (\E i \in DOMAIN queue' : queue'[i] = t) <=> t \in Elems(queue)'
  BY DEF Elems
<1> QED
  BY <1>1, <1>2 DEF WriteOf, Held

\* The state of the service, as the refinement maps it.
Writes == [t \in Task |-> WriteOf(t)]
Counts == [t \in Task |-> Len(rows[t])]

\* One task changes: the writes of the others are where they were.
LEMMA OthersWrites ==
  ASSUME Inv, NEW t \in Task, NEW r,
         task' = [task EXCEPT ![t] = r],
         \A u \in Task \ {t} : answer'[u] = answer[u] /\ (u \in Elems(queue)' <=> u \in Elems(queue)),
         UNCHANGED <<batch, rows>>,
         worker' = worker \/ (worker = "none" /\ worker' = "get")
  PROVE  /\ Writes' = [Writes EXCEPT ![t] = WriteOf(t)'] /\ Counts' = Counts
<1>1. \A u \in Task \ {t} : task'[u] = task[u]
  BY DEF Inv, TypeOK
<1>2. /\ Elems(batch)' = Elems(batch)
      /\ \A u \in Task \ {t} : u \in Held' <=> u \in Held
  BY DEF Held, Elems
<1>3. \A u \in Task \ {t} : WriteOf(u)' = WriteOf(u)
  BY <1>1, <1>2, WriteOfSets, WriteOfSetsPrimed
<1>4. Writes' = [u \in Task |-> WriteOf(u)']
  BY DEF Writes
<1> QED
  BY <1>3, <1>4 DEF Writes, Counts

\* A task submits a write: it asks for it.
LEMMA SubmittedAsks ==
  ASSUME Inv, NEW t \in Task, t \notin Held, task[t].pc \in {"fetch", "wait"}, NEW row \in TaskRow,
         Submitted(t, row), UNCHANGED <<call, batch, rows, service>>
  PROVE  WS!Next
<1>1. /\ worker' = worker \/ (worker = "none" /\ worker' = "get")
      /\ answer' = [answer EXCEPT ![t] = "none"] /\ answer'[t] = "none"
      /\ \A u \in Task \ {t} : u \in Elems(queue)' <=> u \in Elems(queue)
      /\ t \notin Elems(batch)
      /\ \/ task' = [task EXCEPT ![t] = [row EXCEPT !.pc = "wait"]] /\ t \in Held'
         \/ task' = [task EXCEPT ![t] = [row EXCEPT !.pc = "put"]] /\ t \notin Held'
  BY SubmittedEffect
<1>2. PICK p \in {"wait", "put"} :
        task' = [task EXCEPT ![t] = [row EXCEPT !.pc = p]] /\ (p = "wait" <=> t \in Held')
  BY <1>1
<1>3. Elems(batch)' = Elems(batch)
  BY DEF Elems
<1>4. task'[t].pc = p
  BY <1>2 DEF Inv, TypeOK, TaskRow
<1>5. WriteOf(t)' \in {"asked", "accepted"}
  BY <1>1, <1>2, <1>3, <1>4, WriteOfSetsPrimed
<1>6. WriteOf(t) \notin {"asked", "accepted"}
  BY <1>1, WriteOfSets
<1>7. Writes' = [Writes EXCEPT ![t] = WriteOf(t)'] /\ Counts' = Counts
  <2>1. \A u \in Task \ {t} : answer'[u] = answer[u]
    BY <1>1 DEF Inv, TypeOK
  <2> QED
    BY <1>1, <1>2, <2>1, OthersWrites
<1>8. WS!Ask(t, WriteOf(t)')
  BY <1>6, <1>7 DEF WS!Ask, WS!Unsettled, Writes, Counts
<1> QED
  BY <1>5, <1>8 DEF WS!Next, WS!Unsettled

\* A task whose write is not held goes on without one.
LEMMA MovesLeave ==
  ASSUME Inv, NEW t \in Task, t \notin Held, NEW r, task' = [task EXCEPT ![t] = r],
         r.pc \notin {"put", "wait"}, task[t].pc # "put",
         UNCHANGED <<queue, worker, batch, answer, rows, service>>
  PROVE  WS!Next
<1>1. /\ Elems(queue)' = Elems(queue) /\ Elems(batch)' = Elems(batch)
      /\ t \notin Held' /\ t \notin Elems(batch)
  BY DEF Held, Elems
<1>2. task'[t] = r
  BY DEF Inv, TypeOK
<1>3. WriteOf(t)' = "none"
  BY <1>1, <1>2, WriteOfSetsPrimed
<1>4. WriteOf(t) # "accepted"
  BY <1>1, WriteOfSets
<1>5. Writes' = [Writes EXCEPT ![t] = "none"] /\ Counts' = Counts
  BY <1>1, <1>3, OthersWrites
<1>6. WS!Leave({t})
  BY <1>4, <1>5 DEF WS!Leave, Writes, Counts
<1> QED
  BY <1>6 DEF WS!Next

\* What the steps without a write do to the task.
LEMMA MovesEffect ==
  ASSUME Inv, NEW t \in Task,
         Enter(t) \/ TryAgain(t) \/ SnapshotStored(t) \/ ErrorHandled(t) \/ ErrorNotLogged(t)
         \/ FetchCancelled(t)
  PROVE  /\ task' = [task EXCEPT ![t] = task'[t]]
         /\ task'[t].pc \notin {"put", "wait"}
<1>1. task[t] \in TaskRow /\ task \in [Task -> TaskRow]
  BY DEF Inv, TypeOK
<1>2. CASE Enter(t)
  BY <1>1, <1>2 DEF Enter, TaskRow
<1>3. CASE TryAgain(t)
  BY <1>1, <1>3 DEF TryAgain, TaskRow
<1>4. ASSUME NEW r \in TaskRow PROVE AttemptOver(r).pc \notin {"put", "wait"}
  BY DEF AttemptOver, TaskRow
<1>5. CASE SnapshotStored(t)
  <2> DEFINE row == [task[t] EXCEPT !.saved = SavedNow(task[t])]
             r == IF row.write = "complete" THEN [row EXCEPT !.pc = "over", !.status = "complete"]
                  ELSE AttemptOver(row)
  <2>1. row \in TaskRow
    BY <1>1 DEF TaskRow, SavedNow
  <2>2. [row EXCEPT !.pc = "over", !.status = "complete"].pc = "over"
    BY <1>1 DEF TaskRow
  <2>3. r.pc \notin {"put", "wait"}
    <3> HIDE DEF row
    <3> QED
      BY <1>4, <2>1, <2>2
  <2>4. task' = [task EXCEPT ![t] = r]
    BY <1>5 DEF SnapshotStored
  <2> HIDE DEF r
  <2> QED
    BY <1>1, <2>3, <2>4
<1>6. CASE ErrorHandled(t)
  <2>1. AttemptOver(task[t]).pc \notin {"put", "wait"}
    BY <1>1, <1>4
  <2>2. task' = [task EXCEPT ![t] = AttemptOver(task[t])]
    BY <1>6 DEF ErrorHandled
  <2> QED
    BY <1>1, <2>1, <2>2
<1>7. CASE ErrorNotLogged(t)
  BY <1>1, <1>7 DEF ErrorNotLogged, TaskRow
<1>8. CASE FetchCancelled(t)
  BY <1>1, <1>8 DEF FetchCancelled, TaskRow
<1> QED
  BY <1>2, <1>3, <1>5, <1>6, <1>7, <1>8

\* Room in the queue: the write that was asked for is accepted.
LEMMA PutAccepted == ASSUME Inv, NEW t \in Task, Put(t) PROVE WS!Next
<1>1. /\ queue \in Seq(Task) /\ task[t].pc = "put" /\ t \notin Held /\ queue' = Append(queue, t)
      /\ task[t] \in TaskRow
  BY Acting DEF Put, Inv, TypeOK
<1>2. Elems(queue)' = Elems(queue) \cup {t} /\ Elems(batch)' = Elems(batch)
  <2>1. Elems(Append(queue, t)) = Elems(queue) \cup {t}
    BY <1>1, AppendElems
  <2> QED
    BY <1>1, <2>1 DEF Elems, Put
<1>3. t \in Held' /\ t \notin Elems(batch)'
  BY <1>1, <1>2 DEF Held
<1>4. WriteOf(t) = "asked" /\ WriteOf(t)' = "accepted"
  BY <1>1, <1>3, WriteOfSets, WriteOfSetsPrimed DEF Held
<1>5. task' = [task EXCEPT ![t] = [task[t] EXCEPT !.pc = "wait"]]
  BY DEF Put
<1>6. Writes' = [Writes EXCEPT ![t] = "accepted"] /\ Counts' = Counts
  <2>1. \A u \in Task \ {t} : answer'[u] = answer[u] /\ (u \in Elems(queue)' <=> u \in Elems(queue))
    BY <1>2 DEF Put
  <2> QED
    BY <1>4, <1>5, <2>1, OthersWrites DEF Put
<1>7. WS!Accept(t)
  BY <1>4, <1>6 DEF WS!Accept, Writes, Counts, Put
<1> QED
  BY <1>7 DEF WS!Next

\* A step of a task is one of the service, or none.
LEMMA TaskStepServed ==
  ASSUME Inv, NEW t \in Task, TaskStep(t)
  PROVE  WS!Next
<1>1. CASE Enter(t) \/ TryAgain(t) \/ SnapshotStored(t) \/ ErrorHandled(t) \/ ErrorNotLogged(t)
           \/ FetchCancelled(t)
  <2>1. t \notin Held /\ task[t].pc # "put"
    BY <1>1, Acting DEF Enter, TryAgain, SnapshotStored, ErrorHandled, ErrorNotLogged, FetchCancelled, Has
  <2>2. UNCHANGED <<queue, worker, batch, answer, rows, service>>
    BY <1>1 DEF Enter, TryAgain, SnapshotStored, ErrorHandled, ErrorNotLogged, FetchCancelled
  <2>3. task' = [task EXCEPT ![t] = task'[t]] /\ task'[t].pc \notin {"put", "wait"}
    BY <1>1, MovesEffect
  <2> QED
    BY <2>1, <2>2, <2>3, MovesLeave
<1>2. CASE Put(t)
  BY <1>2, PutAccepted
<1>3. ASSUME NEW row \in TaskRow, Submitted(t, row), UNCHANGED <<call, batch, rows, service>>,
             task[t].pc = "fetch" \/ (task[t].pc = "wait" /\ answer[t] # "none")
      PROVE  WS!Next
  BY <1>3, Acting, SubmittedAsks
<1>4. ASSUME NEW payload \in Payload, Respond(t, payload) PROVE WS!Next
  <2> DEFINE row == [task[t] EXCEPT !.write = payload,
                       !.unavailable = @ \/ payload = "unavailable", !.trouble = @ \/ payload = "empty"]
  <2>1. row \in TaskRow
    <3>1. task[t] \in TaskRow
      BY DEF Inv, TypeOK
    <3>2. payload \in Content
      BY DEF Content
    <3> QED
      BY <3>1, <3>2 DEF TaskRow
  <2>2. Submitted(t, row)
    BY <1>4 DEF Respond
  <2> HIDE DEF row
  <2> QED
    BY <1>3, <1>4, <2>1, <2>2 DEF Respond
<1>5. \A row \in TaskRow : InTrouble(row) \in TaskRow
  BY DEF InTrouble, TaskRow, Content
<1>6. task[t] \in TaskRow /\ [task[t] EXCEPT !.saved = SavedNow(task[t])] \in TaskRow
  <2>1. task[t] \in TaskRow
    BY DEF Inv, TypeOK
  <2>2. SavedNow(task[t]) \in BOOLEAN
    BY <2>1 DEF SavedNow, TaskRow
  <2>3. ASSUME NEW row \in TaskRow, NEW s \in BOOLEAN
        PROVE  [row EXCEPT !.saved = s] \in TaskRow
    BY <2>3 DEF TaskRow
  <2> QED
    BY <2>1, <2>2, <2>3
<1>7. CASE FetchFails(t)
  BY <1>3, <1>5, <1>6, <1>7 DEF FetchFails
<1>8. CASE SnapshotNotLogged(t)
  BY <1>3, <1>5, <1>6, <1>8 DEF SnapshotNotLogged, Has
<1>9. CASE SnapshotRefused(t)
  BY <1>3, <1>5, <1>6, <1>9 DEF SnapshotRefused, Has
<1> QED
  BY <1>1, <1>2, <1>4, <1>7, <1>8, <1>9 DEF TaskStep

\* Storing a batch is a step of the service.
LEMMA StoreServed ==
  ASSUME NEW cs, cs \in SUBSET Task,
         \A t \in Task : IF t \in cs THEN WriteOf(t) = "accepted" /\ WriteOf(t)' = "stored"
                         ELSE WriteOf(t)' = WriteOf(t),
         \A t \in Task : Len(rows'[t]) = IF t \in cs THEN Len(rows[t]) + 1 ELSE Len(rows[t]),
         UNCHANGED service
  PROVE  WS!Next
<1>1. WS!Store(cs)
  BY DEF WS!Store
<1> QED
  BY <1>1 DEF WS!Next

\* Each task of a batch that is appended has a row more.
LEMMA StoreCounts ==
  ASSUME Inv, rows' = RowsWithBatch, NEW t \in Task
  PROVE  Len(rows'[t]) = IF t \in Elems(batch) \cap Task THEN Len(rows[t]) + 1 ELSE Len(rows[t])
<1> DEFINE R == [attempt : 1 .. MaxRetries, content : Content]
<1>1. rows[t] \in Seq(R) /\ (t \in Elems(batch) => rows'[t] = Append(rows[t], Row(t)) /\ Row(t) \in R)
  BY StoreEffect DEF Inv, TypeOK
<1>2. t \notin Elems(batch) => rows'[t] = rows[t]
  BY StoreEffect
<1> HIDE DEF R
<1> QED
  BY <1>1, <1>2

\* A batch is stored, refused or answered at once.
LEMMA WorkerServed == ASSUME Inv, WorkerStep PROVE [WS!Next]_(WS!vars)
<1>1. CASE Take \/ Collect
  <2>1. Held' = Held
    BY <1>1, TakeOneInv, CollectInv
  <2>2. /\ UNCHANGED <<task, answer, rows, service>> /\ worker' = "collect"
        /\ worker = "collect" \/ (worker = "get" /\ batch = <<>>)
    BY <1>1 DEF Take, Collect, Inv, QueueInv
  <2>3. \A t \in Task : WriteOf(t)' = WriteOf(t)
    BY <2>1, <2>2, WriteOfSets, WriteOfSetsPrimed DEF Elems
  <2> QED
    BY <2>2, <2>3 DEF WS!vars
<1>2. CASE Flush
  <2>1. Held' = Held /\ Elems(batch)' = Elems(batch)
    BY <1>2 DEF Flush, Held, Elems
  <2>2. \A t \in Task : WriteOf(t)' = WriteOf(t)
    BY <1>2, <2>1, WriteOfSets, WriteOfSetsPrimed DEF Flush
  <2> QED
    BY <1>2, <2>2 DEF Flush, WS!vars
<1> DEFINE B == Elems(batch) \cap Task
<1>0. B \in SUBSET Task
  OBVIOUS
<1>3. CASE Commit
  <2>1. Held' = Held /\ Elems(batch)' = Elems(batch)
    BY <1>3 DEF Commit, Held, Elems
  <2>2. \A t \in Task : IF t \in B THEN WriteOf(t) = "accepted" /\ WriteOf(t)' = "stored"
                        ELSE WriteOf(t)' = WriteOf(t)
    BY <1>3, <2>1, WriteOfSets, WriteOfSetsPrimed DEF Commit, Held
  <2>3. \A t \in Task : Len(rows'[t]) = IF t \in B THEN Len(rows[t]) + 1 ELSE Len(rows[t])
    BY <1>3, StoreCounts DEF Commit
  <2>4. service' = service
    BY <1>3 DEF Commit
  <2> HIDE DEF B
  <2> QED
    BY <1>0, <2>2, <2>3, <2>4, StoreServed
<1>4. CASE CommitFails
  <2>1. Held' = Held /\ Elems(batch)' = Elems(batch)
    BY <1>4 DEF CommitFails, Held, Elems
  <2>2. \A t \in Task : IF t \in B THEN WriteOf(t) = "accepted" /\ WriteOf(t)' = "refused"
                        ELSE WriteOf(t)' = WriteOf(t)
    BY <1>4, <2>1, WriteOfSets, WriteOfSetsPrimed DEF CommitFails, Held
  <2>3. WS!Refuse(B)
    BY <1>4, <2>2 DEF WS!Refuse, CommitFails
  <2> QED
    BY <2>3 DEF WS!Next
<1>5. CASE AnswerBatch
  <2> DEFINE gone == {t \in B : task[t].pc = "cancelled"}
  <2>1. /\ Held' = Elems(queue) /\ Elems(batch)' = {} /\ Elems(queue) \cap Elems(batch) = {}
        /\ \A t \in Task : t \notin Elems(batch) => answer'[t] = answer[t]
        /\ \A t \in B : answer'[t] = "ok" <=> worker = "stored"
        /\ worker \in {"stored", "refused"} /\ task' = task /\ worker' = "get"
        /\ UNCHANGED <<rows, service>>
    BY <1>5 DEF AnswerBatch, Answered, InBatch, Held, Elems, Inv, QueueInv
  <2>2. \A t \in B : task[t].pc \in {"wait", "cancelled"}
    BY DEF Inv, TaskInv, TaskGood, Held
  <2>3. ASSUME NEW t \in Task
        PROVE  IF t \in gone THEN WriteOf(t) # "accepted" /\ WriteOf(t)' = "none"
               ELSE WriteOf(t)' = WriteOf(t)
    <3>1. CASE t \in B
      BY <2>1, <2>2, <3>1, WriteOfSets, WriteOfSetsPrimed DEF Held
    <3>2. CASE t \notin B
      BY <2>1, <3>2, WriteOfSets, WriteOfSetsPrimed DEF Held
    <3> QED
      BY <3>1, <3>2
  <2>4. WS!Leave(gone)
    BY <2>1, <2>3 DEF WS!Leave
  <2> QED
    BY <2>4 DEF WS!Next
<1> QED
  BY <1>1, <1>2, <1>3, <1>4, <1>5 DEF WorkerStep

\* The shutdown takes leave of tasks whose write the queue has not taken.
LEMMA ShutdownServed == ASSUME Inv, Shutdown PROVE [WS!Next]_(WS!vars)
<1> DEFINE gone == {t \in Task : WriteOf(t)' # WriteOf(t)}
<1>1. Held' = Held /\ Elems(batch)' = Elems(batch)
  BY SameWrites DEF Shutdown
<1>2. ASSUME NEW t \in Task PROVE task'[t] = task[t] \/ task'[t].pc = "cancelled"
  <2>1. PICK known \in SUBSET {c \in Call : call[c] = "running"} : Cancelled(known)
    BY DEF Shutdown
  <2>2. task'[t] = task[t] \/ task'[t] = [task[t] EXCEPT !.pc = "cancelled"]
    BY <2>1, CancelledEffect
  <2>3. task[t] \in TaskRow
    BY DEF Inv, TypeOK
  <2> QED
    BY <2>2, <2>3 DEF TaskRow
<1>3. ASSUME NEW t \in Task
      PROVE  WriteOf(t)' = WriteOf(t) \/ (WriteOf(t) # "accepted" /\ WriteOf(t)' = "none")
  BY <1>1, <1>2, WriteOfSets, WriteOfSetsPrimed DEF Shutdown
<1>4. WS!Leave(gone)
  BY <1>3 DEF WS!Leave, Shutdown
<1> QED
  BY <1>4 DEF WS!Next

\* Calls are not the service's business.
LEMMA CallServed ==
  ASSUME Inv, \E c \in Call : BeginCall(c) \/ EndCall(c) \/ CallRaises(c)
  PROVE  UNCHANGED WS!vars
<1>1. /\ UNCHANGED <<queue, batch, answer, rows, worker, service>>
      /\ \A t \in Task : task'[t] = task[t]
                         \/ (task[t].pc = "off" /\ task'[t].pc = "ready")
  <2>1. ASSUME NEW c \in Call, BeginCall(c)
        PROVE  \A t \in Task : task'[t] = task[t]
                               \/ (task[t].pc = "off" /\ task'[t].pc = "ready")
    <3>1. \A t \in Task : t[1] = c => task[t].pc = "off"
      BY <2>1 DEF BeginCall, Inv, CallInv, MarketTasks
    <3> QED
      BY <2>1, <3>1 DEF BeginCall, NoTask
  <2> QED
    BY <2>1 DEF BeginCall, EndCall, CallRaises
<1>2. Held' = Held /\ Elems(batch)' = Elems(batch)
  BY <1>1, SameWrites
<1>3. \A t \in Task : WriteOf(t)' = WriteOf(t)
  BY <1>1, <1>2, WriteOfSets, WriteOfSetsPrimed
<1> QED
  BY <1>1, <1>3 DEF WS!vars

\* As long as the service has not closed, there is a worker when there is a write: each
\* submission starts one.
ServiceInv ==
  service \in {"up", "closing"} /\ worker = "none" =>
    queue = <<>> /\ \A t \in Task : task[t].pc # "put"

\* No step leaves a write without a worker before the service has closed.
LEMMA ServiceStep == ASSUME Inv, ServiceInv, [Next]_vars PROVE ServiceInv'
<1> SUFFICES ASSUME service' \in {"up", "closing"}, worker' = "none"
             PROVE  queue' = <<>> /\ \A t \in Task : task'[t].pc # "put"
  BY DEF ServiceInv
<1>1. \A t \in Task : \A row : ~Submitted(t, row)
  BY DEF Submitted
<1>2. ASSUME NEW t \in Task, TaskStep(t)
      PROVE  queue' = <<>> /\ \A u \in Task : task'[u].pc # "put"
  <2>1. \/ Put(t)
        \/ Enter(t) \/ TryAgain(t) \/ SnapshotStored(t) \/ ErrorHandled(t) \/ ErrorNotLogged(t)
           \/ FetchCancelled(t)
    BY <1>1, <1>2 DEF TaskStep, FetchFails, Respond, SnapshotNotLogged, SnapshotRefused
  <2>2. UNCHANGED <<worker, service>>
    BY <2>1 DEF Put, Enter, TryAgain, SnapshotStored, ErrorHandled, ErrorNotLogged, FetchCancelled
  <2>3. queue = <<>> /\ \A u \in Task : task[u].pc # "put"
    BY <2>2 DEF ServiceInv
  <2>4. ~Put(t)
    BY <2>3 DEF Put
  <2>5. queue' = queue
    BY <2>1, <2>4 DEF Enter, TryAgain, SnapshotStored, ErrorHandled, ErrorNotLogged, FetchCancelled
  <2>6. task' = [task EXCEPT ![t] = task'[t]] /\ task'[t].pc \notin {"put", "wait"}
    BY <2>1, <2>4, MovesEffect
  <2>7. \A u \in Task \ {t} : task'[u] = task[u]
    BY <2>6 DEF Inv, TypeOK
  <2> QED
    BY <2>3, <2>5, <2>6, <2>7
<1>3. ~WorkerStep
  BY DEF WorkerStep, Take, Collect, Flush, Commit, CommitFails, AnswerBatch
<1>4. ~CancelWorker /\ ~Exit
  BY DEF CancelWorker, Exit
<1>5. CASE UNCHANGED vars \/ Join \/ \E c \in Call : EndCall(c) \/ CallRaises(c)
  <2>1. UNCHANGED <<task, queue, worker>> /\ service \in {"up", "closing"}
    BY <1>5 DEF vars, Join, EndCall, CallRaises
  <2> QED
    BY <2>1 DEF ServiceInv
<1>6. CASE \E c \in Call : BeginCall(c)
  <2>1. UNCHANGED <<queue, worker, service>>
    BY <1>6 DEF BeginCall
  <2>2. \A t \in Task : task'[t] = task[t] \/ task'[t].pc = "ready"
    BY <1>6 DEF BeginCall, NoTask
  <2> QED
    BY <2>1, <2>2 DEF ServiceInv
<1>7. CASE Shutdown
  <2>1. UNCHANGED <<queue, worker>> /\ service \in {"up", "closing"}
    BY <1>7 DEF Shutdown
  <2>2. ASSUME NEW t \in Task PROVE task'[t] = task[t] \/ task'[t].pc = "cancelled"
    <3>1. PICK known \in SUBSET {c \in Call : call[c] = "running"} : Cancelled(known)
      BY <1>7 DEF Shutdown
    <3>2. task'[t] = task[t] \/ task'[t] = [task[t] EXCEPT !.pc = "cancelled"]
      BY <3>1, CancelledEffect
    <3>3. task[t] \in TaskRow
      BY DEF Inv, TypeOK
    <3> QED
      BY <3>2, <3>3 DEF TaskRow
  <2> QED
    BY <2>1, <2>2 DEF ServiceInv
<1> QED
  BY <1>2, <1>3, <1>4, <1>5, <1>6, <1>7 DEF Next, Step

\* When close goes on, nothing that the queue has taken is left: this is where the promise ends.
LEMMA JoinServed == ASSUME Inv, ServiceInv, Join PROVE WS!Next
<1>1. queue \in Seq(Task) /\ batch \in Seq(Task) /\ Len(queue) \in Nat /\ Len(batch) \in Nat
  BY DEF Inv, TypeOK
<1>2. queue = <<>> /\ batch = <<>>
  <2>1. CASE worker = "none"
    BY <2>1 DEF Join, ServiceInv, Inv, QueueInv
  <2>2. CASE worker # "none"
    <3>1. Len(queue) + Len(batch) = 0
      BY <2>2 DEF Join, Unfinished
    <3> QED
      BY <1>1, <3>1
  <2> QED
    BY <2>1, <2>2
<1>3. Held = {} /\ Elems(batch) = {}
  BY <1>2 DEF Held, Elems
<1>4. Held' = Held /\ Elems(batch)' = Elems(batch)
  BY SameWrites DEF Join
<1>5. \A t \in Task : WriteOf(t) # "accepted" /\ WriteOf(t)' = WriteOf(t)
  BY <1>3, <1>4, WriteOfSets, WriteOfSetsPrimed DEF Join
<1>6. WS!Close
  BY <1>5 DEF WS!Close, Join
<1> QED
  BY <1>6 DEF WS!Next

\* Abandoning writes is a step of the closed service.
LEMMA AbandonServed ==
  ASSUME NEW gone, gone \in SUBSET Task, NEW done, done \in SUBSET gone,
         \A t \in Task : WriteOf(t)' = IF t \in gone THEN "none" ELSE WriteOf(t),
         \A t \in done : WriteOf(t) = "accepted",
         \A t \in Task : Len(rows'[t]) = IF t \in done THEN Len(rows[t]) + 1 ELSE Len(rows[t]),
         service \notin {"up", "closing"}, service' \notin {"up", "closing"}
  PROVE  WS!Next
<1>1. \A t \in done : t \in Task
  OBVIOUS
<1>2. WS!Abandon(gone, done)
  BY <1>1 DEF WS!Abandon
<1> QED
  BY <1>2 DEF WS!Next

\* What comes after the end of the worker is abandoned, although it may have been stored.
LEMMA DropServed == ASSUME Inv, CancelWorker \/ Exit PROVE WS!Next
<1> DEFINE gone == {t \in Task : t \in Elems(batch) \/ WriteOf(t)' # WriteOf(t)}
           done == IF rows' = rows THEN {} ELSE Elems(batch) \cap Task
<1>1. /\ worker' = "none" /\ Elems(batch)' = {}
      /\ rows' = rows \/ (worker = "commit" /\ rows' = RowsWithBatch)
      /\ answer' = answer
  BY DropEffect DEF CancelWorker, Exit
<1>2. ASSUME NEW t \in Task
      PROVE  WriteOf(t)' = IF t \in gone THEN "none" ELSE WriteOf(t)
  <2>1. /\ \/ task'[t] = task[t]
           \/ task[t].pc \notin {"off", "over"} /\ task'[t] = [task[t] EXCEPT !.pc = "cancelled"]
           \/ task[t].pc = "wait" /\ task'[t] = [task[t] EXCEPT !.pc = "stuck"]
        /\ t \in Held' => t \in Elems(queue) /\ t \notin Elems(batch) /\ task'[t] = task[t]
        /\ t \in Held /\ t \notin Held' => task'[t].pc \in {"stuck", "cancelled"}
    BY DropTasks
  <2>2. task[t] \in TaskRow
    BY DEF Inv, TypeOK
  <2>3. task'[t] = task[t] \/ task'[t].pc \in {"stuck", "cancelled"}
    BY <2>1, <2>2 DEF TaskRow
  <2>4. CASE t \in Elems(batch)
    BY <1>1, <2>1, <2>4, WriteOfSetsPrimed DEF Held
  <2>5. CASE t \notin Elems(batch)
    BY <1>1, <2>1, <2>3, <2>5, WriteOfSets, WriteOfSetsPrimed DEF Held
  <2> QED
    BY <2>4, <2>5
<1>3. \A t \in done : WriteOf(t) = "accepted"
  BY <1>1, WriteOfSets DEF Held
<1>4. \A t \in Task : Len(rows'[t]) = IF t \in done THEN Len(rows[t]) + 1 ELSE Len(rows[t])
  BY <1>1, StoreCounts
<1>5. done \in SUBSET gone /\ gone \in SUBSET Task
  OBVIOUS
<1>6. service \notin {"up", "closing"} /\ service' \notin {"up", "closing"}
  BY DEF CancelWorker, Exit
<1> HIDE DEF gone, done
<1> QED
  BY <1>2, <1>3, <1>4, <1>5, <1>6, AbandonServed

\* The queue and its worker keep the promises of the write service for every number of tasks
\* and with every bound: what the queue has taken before close found it empty is stored or
\* refused, also during a shutdown.  That no write stays for ever is for TLC.
THEOREM ServiceImplemented == Spec => WS!Spec
<1>1. Init => WS!Init
  <2> SUFFICES ASSUME Init PROVE WS!Init
    OBVIOUS
  <2>1. \A t \in Task : WriteOf(t) = "none" /\ Len(rows[t]) = 0
    BY WriteOfSets DEF Init, Held, Elems, NoTask
  <2>2. service \in {"up", "closing"}
    BY DEF Init
  <2> QED
    BY <2>1, <2>2 DEF WS!Init
<1>2. Inv /\ [Next]_vars => Inv'
  BY NextInv
<1>4. Init => ServiceInv
  BY DEF Init, ServiceInv, NoTask
<1>5. Inv /\ ServiceInv /\ [Next]_vars => ServiceInv'
  BY ServiceStep
<1>3. Inv /\ ServiceInv /\ [Next]_vars => [WS!Next]_(WS!vars)
  <2> SUFFICES ASSUME Inv, ServiceInv, [Next]_vars PROVE [WS!Next]_(WS!vars)
    OBVIOUS
  <2>1. CASE UNCHANGED vars
    <3>1. Held' = Held /\ Elems(batch)' = Elems(batch)
      BY <2>1, SameWrites DEF vars
    <3>2. \A t \in Task : WriteOf(t)' = WriteOf(t)
      BY <2>1, <3>1, WriteOfSets, WriteOfSetsPrimed DEF vars
    <3> QED
      BY <2>1, <3>2 DEF vars, WS!vars
  <2> QED
    BY <2>1, TaskStepServed, WorkerServed, ShutdownServed, CallServed, JoinServed, DropServed DEF Next, Step
<1> QED
  BY InitInv, <1>1, <1>2, <1>3, <1>4, <1>5, PTL DEF Spec, WS!Spec

-----------------------------------------------------------------------------
(* The order of the rows of a task.                                        *)

\* The last write of a task is neither stored nor given up.
Pending(t) ==
  \/ t \in Held /\ ~(t \in Elems(batch) /\ worker = "stored")
  \/ task[t].pc = "put"
  \/ task[t].pc = "wait" /\ answer[t] = "error"

\* The rows of a task, and what its next write may be.
OrderGood(r, pending, settled, l) ==
  /\ \A i, k \in DOMAIN l : i < k =>
       \/ l[i].attempt < l[k].attempt
       \/ /\ l[i].attempt = l[k].attempt
          /\ l[i].content # "error" /\ l[k].content = "error"
  /\ \A i \in DOMAIN l : l[i].attempt <= r.attempt
  /\ r.pc = "fetch" \/ (pending /\ r.write # "error") =>
       \A i \in DOMAIN l : l[i].attempt < r.attempt
  /\ (pending /\ r.write = "error") \/ (settled /\ r.write # "error") =>
       \A i \in DOMAIN l : l[i].attempt = r.attempt => l[i].content # "error"

OrderInv == \A t \in Task : OrderGood(task[t], Pending(t), Settled(t), rows[t])

\* The rows, as numbers of attempts and contents.
LEMMA RowTypes ==
  ASSUME Inv, NEW t \in Task
  PROVE  /\ task[t].attempt \in Nat
         /\ \A i \in DOMAIN rows[t] : rows[t][i].attempt \in Nat /\ rows[t][i].attempt >= 1
         /\ task[t].pc \in {"off", "ready"} => DOMAIN rows[t] = {}
<1> DEFINE R == [attempt : 1 .. MaxRetries, content : Content]
<1>1. \A e \in R : e.attempt \in Nat /\ e.attempt >= 1
  BY CaptureAssumption
<1>2. rows[t] \in Seq(R)
  BY DEF Inv, TypeOK
<1>3. \A i \in DOMAIN rows[t] : rows[t][i] \in R
  <2> HIDE DEF R
  <2> QED
    BY <1>2
<1>4. task[t].attempt \in Nat
  BY CaptureAssumption DEF Inv, TypeOK, TaskRow
<1>5. task[t].pc \in {"off", "ready"} => DOMAIN rows[t] = {}
  <2>1. task[t].pc \in {"off", "ready"} => Stored(t) = {}
    BY DEF Inv, RowInv, RowGood
  <2> QED
    BY <2>1 DEF Stored
<1> HIDE DEF R
<1> QED
  BY <1>1, <1>3, <1>4, <1>5

\* The task goes on with the same attempt and write, and its rows are the same.
LEMMA OrderKept ==
  ASSUME NEW r, NEW p, NEW s, NEW l, OrderGood(r, p, s, l),
         NEW rr, NEW pp, NEW ss,
         rr.attempt = r.attempt, rr.write = r.write, pp => p, ss => s,
         rr.pc = "fetch" => r.pc = "fetch"
  PROVE  OrderGood(rr, pp, ss, l)
BY DEF OrderGood

\* One task changes: those of the others are where they were.
LEMMA OrderOthers ==
  ASSUME Inv, OrderInv, NEW t \in Task, NEW r,
         task' = [task EXCEPT ![t] = r],
         \A u \in Task \ {t} : answer'[u] = answer[u] /\ (u \in Elems(queue)' <=> u \in Elems(queue)),
         UNCHANGED <<batch, rows>>,
         worker' = worker \/ (worker = "none" /\ worker' = "get"),
         OrderGood(task'[t], Pending(t)', Settled(t)', rows[t])
  PROVE  OrderInv'
<1>1. \A u \in Task \ {t} : task'[u] = task[u]
  BY DEF Inv, TypeOK
<1>2. /\ Elems(batch)' = Elems(batch)
      /\ \A u \in Task \ {t} : u \in Held' <=> u \in Held
  BY DEF Held, Elems
<1>3. \A u \in Task \ {t} : (Pending(u)' <=> Pending(u)) /\ (Settled(u)' <=> Settled(u))
  BY <1>1, <1>2 DEF Pending, Settled
<1> SUFFICES ASSUME NEW u \in Task PROVE OrderGood(task'[u], Pending(u)', Settled(u)', rows[u])
  BY DEF OrderInv, OrderGood
<1>4. CASE u = t
  BY <1>4
<1>5. CASE u # t
  <2>1. OrderGood(task[u], Pending(u), Settled(u), rows[u])
    BY DEF OrderInv
  <2> QED
    BY <1>1, <1>3, <1>5, <2>1 DEF OrderGood
<1> QED
  BY <1>4, <1>5

\* A write is submitted: of a new attempt, or the error of the same one.
LEMMA SubmittedOrder ==
  ASSUME Inv, OrderInv, NEW t \in Task, t \notin Held, NEW row \in TaskRow, Submitted(t, row),
         UNCHANGED <<call, batch, rows>>, row.attempt = task[t].attempt,
         row.write # "error" => task[t].pc = "fetch",
         row.write = "error" =>
           \A i \in DOMAIN rows[t] : rows[t][i].attempt = task[t].attempt => rows[t][i].content # "error"
  PROVE  OrderInv'
<1>1. /\ worker' = worker \/ (worker = "none" /\ worker' = "get")
      /\ answer' = [answer EXCEPT ![t] = "none"] /\ answer'[t] = "none"
      /\ \A u \in Task \ {t} : u \in Elems(queue)' <=> u \in Elems(queue)
      /\ t \notin Elems(batch)
      /\ \/ task' = [task EXCEPT ![t] = [row EXCEPT !.pc = "wait"]] /\ t \in Held'
         \/ task' = [task EXCEPT ![t] = [row EXCEPT !.pc = "put"]] /\ t \notin Held'
  BY SubmittedEffect
<1>2. PICK p \in {"wait", "put"} :
        task' = [task EXCEPT ![t] = [row EXCEPT !.pc = p]] /\ (p = "wait" <=> t \in Held')
  BY <1>1
<1>3. /\ task'[t].pc = p /\ task'[t].attempt = row.attempt /\ task'[t].write = row.write
  BY <1>2 DEF Inv, TypeOK, TaskRow
<1>4. Elems(batch)' = Elems(batch)
  BY DEF Elems
<1>5. ~Settled(t)'
  BY <1>1, <1>3, <1>4 DEF Settled
<1>6. OrderGood(task[t], Pending(t), Settled(t), rows[t])
  BY DEF OrderInv
<1>7. OrderGood(task'[t], Pending(t)', Settled(t)', rows[t])
  BY <1>3, <1>5, <1>6 DEF OrderGood
<1>8. \A u \in Task \ {t} : answer'[u] = answer[u]
  BY <1>1 DEF Inv, TypeOK
<1> QED
  BY <1>1, <1>2, <1>7, <1>8, OrderOthers

\* The task goes on without a write: nothing is pending, and a fetch is that of a new attempt.
LEMMA MovesOrder ==
  ASSUME Inv, OrderInv, NEW t \in Task, t \notin Held, NEW r, task' = [task EXCEPT ![t] = r],
         r.pc \notin {"put", "wait"}, r.attempt \in Nat, r.attempt >= task[t].attempt,
         r.pc = "fetch" => r.attempt > task[t].attempt,
         UNCHANGED <<queue, worker, batch, answer, rows>>
  PROVE  OrderInv'
<1>1. /\ Elems(queue)' = Elems(queue) /\ Elems(batch)' = Elems(batch)
      /\ t \notin Held' /\ t \notin Elems(batch)
  BY DEF Held, Elems
<1>2. task'[t] = r
  BY DEF Inv, TypeOK
<1>3. ~Pending(t)' /\ ~Settled(t)'
  BY <1>1, <1>2 DEF Pending, Settled
<1>4. OrderGood(task[t], Pending(t), Settled(t), rows[t])
  BY DEF OrderInv
<1>5. OrderGood(r, FALSE, FALSE, rows[t])
  <2>1. /\ task[t].attempt \in Nat
        /\ \A i \in DOMAIN rows[t] : rows[t][i].attempt \in Nat
    BY RowTypes
  <2>2. \A i \in DOMAIN rows[t] : rows[t][i].attempt <= task[t].attempt
    BY <1>4 DEF OrderGood
  <2>3. \A i \in DOMAIN rows[t] :
          /\ rows[t][i].attempt <= r.attempt
          /\ r.pc = "fetch" => rows[t][i].attempt < r.attempt
    BY <2>1, <2>2
  <2> QED
    BY <1>4, <2>3 DEF OrderGood
<1>6. OrderGood(task'[t], Pending(t)', Settled(t)', rows[t])
  BY <1>2, <1>3, <1>5 DEF OrderGood
<1> QED
  BY <1>1, <1>6, OrderOthers

\* A write that waited for room comes after all that its task has stored.
LEMMA PutOrder == ASSUME Inv, OrderInv, NEW t \in Task, Put(t) PROVE OrderInv'
<1>1. /\ queue \in Seq(Task) /\ t \notin Held /\ queue' = Append(queue, t) /\ task[t].pc = "put"
      /\ task[t] \in TaskRow /\ answer[t] = "none"
  BY Acting DEF Put, Inv, TypeOK, TaskGood
<1>2. Elems(queue)' = Elems(queue) \cup {t} /\ Elems(batch)' = Elems(batch)
  <2>1. Elems(Append(queue, t)) = Elems(queue) \cup {t}
    BY <1>1, AppendElems
  <2> QED
    BY <1>1, <2>1 DEF Elems, Put
<1>3. task' = [task EXCEPT ![t] = [task[t] EXCEPT !.pc = "wait"]]
  BY DEF Put
<1>4. task'[t].pc = "wait" /\ task'[t].attempt = task[t].attempt /\ task'[t].write = task[t].write
  BY <1>1, <1>3 DEF Inv, TypeOK, TaskRow
<1>5. Pending(t) /\ ~Settled(t)'
  BY <1>1, <1>2, <1>4 DEF Pending, Settled, Held, Put
<1>6. OrderGood(task'[t], Pending(t)', Settled(t)', rows[t])
  BY <1>4, <1>5 DEF OrderInv, OrderGood
<1>7. \A u \in Task \ {t} : answer'[u] = answer[u] /\ (u \in Elems(queue)' <=> u \in Elems(queue))
  BY <1>2 DEF Put
<1> QED
  BY <1>3, <1>6, <1>7, OrderOthers DEF Put

\* Attempts are counted upwards, and a fetch starts a new one.
LEMMA AttemptsGrow ==
  ASSUME Inv, NEW t \in Task,
         Enter(t) \/ TryAgain(t) \/ SnapshotStored(t) \/ ErrorHandled(t) \/ ErrorNotLogged(t)
         \/ FetchCancelled(t)
  PROVE  /\ task'[t].attempt \in Nat /\ task'[t].attempt >= task[t].attempt
         /\ task'[t].pc = "fetch" => task'[t].attempt > task[t].attempt
<1>1. task[t] \in TaskRow /\ task \in [Task -> TaskRow] /\ task[t].attempt \in Nat
  BY RowTypes DEF Inv, TypeOK
<1>2. CASE Enter(t)
  <2>1. task[t].attempt = 0
    BY <1>2, Acting DEF Enter, TaskGood
  <2>2. task'[t].attempt = 1
    BY <1>1, <1>2 DEF Enter, TaskRow
  <2> QED
    BY <2>1, <2>2
<1>3. CASE TryAgain(t)
  BY <1>1, <1>3 DEF TryAgain, TaskRow
<1>4. ASSUME NEW r \in TaskRow
      PROVE  AttemptOver(r).attempt = r.attempt /\ AttemptOver(r).pc \in {"sleep", "over"}
  BY DEF AttemptOver, TaskRow
<1>5. CASE SnapshotStored(t)
  <2> DEFINE row == [task[t] EXCEPT !.saved = SavedNow(task[t])]
             done == [row EXCEPT !.pc = "over", !.status = "complete"]
             r == IF row.write = "complete" THEN done ELSE AttemptOver(row)
  <2>1. row \in TaskRow /\ row.attempt = task[t].attempt
    BY <1>1 DEF TaskRow, SavedNow
  <2>2. done.attempt = row.attempt /\ done.pc = "over"
    BY <1>1 DEF TaskRow
  <2>3. r.attempt = task[t].attempt /\ r.pc \in {"sleep", "over"}
    <3> HIDE DEF row, done
    <3> QED
      BY <1>4, <2>1, <2>2
  <2>4. task'[t] = r
    BY <1>1, <1>5 DEF SnapshotStored
  <2> HIDE DEF r
  <2> QED
    BY <1>1, <2>3, <2>4
<1>6. CASE ErrorHandled(t)
  <2>1. task'[t] = AttemptOver(task[t])
    BY <1>1, <1>6 DEF ErrorHandled
  <2> QED
    BY <1>1, <1>4, <2>1
<1>7. CASE ErrorNotLogged(t)
  BY <1>1, <1>7 DEF ErrorNotLogged, TaskRow
<1>8. CASE FetchCancelled(t)
  BY <1>1, <1>8 DEF FetchCancelled, TaskRow
<1> QED
  BY <1>2, <1>3, <1>5, <1>6, <1>7, <1>8

\* No step of a task disturbs the order of the rows.
LEMMA TaskStepOrder == ASSUME Inv, OrderInv, NEW t \in Task, TaskStep(t) PROVE OrderInv'
<1>1. task[t] \in TaskRow /\ task \in [Task -> TaskRow] /\ task[t].attempt \in Nat
  BY RowTypes DEF Inv, TypeOK
<1>2. OrderGood(task[t], Pending(t), Settled(t), rows[t])
  BY DEF OrderInv
<1>3. CASE Enter(t) \/ TryAgain(t) \/ SnapshotStored(t) \/ ErrorHandled(t) \/ ErrorNotLogged(t)
           \/ FetchCancelled(t)
  <2>1. t \notin Held
    BY <1>3, Acting DEF Enter, TryAgain, SnapshotStored, ErrorHandled, ErrorNotLogged, FetchCancelled, Has
  <2>2. UNCHANGED <<queue, worker, batch, answer, rows>>
    BY <1>3 DEF Enter, TryAgain, SnapshotStored, ErrorHandled, ErrorNotLogged, FetchCancelled
  <2>3. task' = [task EXCEPT ![t] = task'[t]] /\ task'[t].pc \notin {"put", "wait"}
    BY <1>3, MovesEffect
  <2>4. /\ task'[t].attempt \in Nat /\ task'[t].attempt >= task[t].attempt
        /\ task'[t].pc = "fetch" => task'[t].attempt > task[t].attempt
    BY <1>3, AttemptsGrow
  <2> QED
    BY <2>1, <2>2, <2>3, <2>4, MovesOrder
<1>4. CASE Put(t)
  BY <1>4, PutOrder
<1>5. ASSUME NEW payload \in Payload, Respond(t, payload) PROVE OrderInv'
  <2> DEFINE row == [task[t] EXCEPT !.write = payload,
                       !.unavailable = @ \/ payload = "unavailable", !.trouble = @ \/ payload = "empty"]
  <2>1. row \in TaskRow /\ row.attempt = task[t].attempt /\ row.write = payload
    BY <1>1 DEF TaskRow, Content
  <2>2. Submitted(t, row) /\ task[t].pc = "fetch" /\ UNCHANGED <<call, batch, rows>>
    BY <1>5 DEF Respond
  <2>3. t \notin Held /\ payload # "error"
    BY <2>2, Acting DEF Payload, WithOdds
  <2> HIDE DEF row
  <2> QED
    BY <2>1, <2>2, <2>3, SubmittedOrder
<1>6. ASSUME NEW row \in TaskRow, row.attempt = task[t].attempt, Submitted(t, InTrouble(row)),
             UNCHANGED <<call, batch, rows>>, t \notin Held,
             task[t].pc = "fetch" \/ Pending(t) \/ (Settled(t) /\ task[t].write # "error")
      PROVE  OrderInv'
  <2>1. InTrouble(row) \in TaskRow /\ InTrouble(row).attempt = task[t].attempt
        /\ InTrouble(row).write = "error"
    BY <1>6 DEF InTrouble, TaskRow, Content
  <2>2. \A i \in DOMAIN rows[t] : rows[t][i].attempt \in Nat
    BY RowTypes
  <2>3. \A i \in DOMAIN rows[t] : rows[t][i].attempt = task[t].attempt => rows[t][i].content # "error"
    BY <1>1, <1>2, <1>6, <2>2 DEF OrderGood
  <2> QED
    BY <1>6, <2>1, <2>3, SubmittedOrder
<1>7. CASE FetchFails(t)
  BY <1>1, <1>6, <1>7, Acting DEF FetchFails
<1>8. CASE SnapshotNotLogged(t)
  <2> DEFINE row == [task[t] EXCEPT !.saved = SavedNow(task[t])]
  <2>1. row \in TaskRow /\ row.attempt = task[t].attempt
    BY <1>1 DEF TaskRow, SavedNow
  <2>2. Submitted(t, InTrouble(row)) /\ UNCHANGED <<call, batch, rows>>
    BY <1>8 DEF SnapshotNotLogged
  <2>3. t \notin Held /\ Settled(t) /\ task[t].write # "error"
    BY <1>8, Acting DEF SnapshotNotLogged, Has, Settled
  <2> HIDE DEF row
  <2> QED
    BY <1>6, <2>1, <2>2, <2>3
<1>9. CASE SnapshotRefused(t)
  <2>1. t \notin Held /\ Pending(t)
    BY <1>9, Acting DEF SnapshotRefused, Has, Pending
  <2> QED
    BY <1>1, <1>6, <1>9, <2>1 DEF SnapshotRefused
<1> QED
  BY <1>3, <1>4, <1>5, <1>7, <1>8, <1>9 DEF TaskStep

\* Nothing is stored: what is pending or settled stays so, or is given up.
LEMMA OrderWithoutRows ==
  ASSUME Inv, OrderInv, rows' = rows,
         \A t \in Task : /\ task'[t].attempt = task[t].attempt /\ task'[t].write = task[t].write
                         /\ task'[t].pc = "fetch" => task[t].pc = "fetch"
                         /\ Pending(t)' => Pending(t)
                         /\ Settled(t)' => Settled(t)
  PROVE  OrderInv'
<1> SUFFICES ASSUME NEW t \in Task PROVE OrderGood(task'[t], Pending(t)', Settled(t)', rows[t])
  BY DEF OrderInv, OrderGood
<1>1. OrderGood(task[t], Pending(t), Settled(t), rows[t])
  BY DEF OrderInv
<1> QED
  BY <1>1 DEF OrderGood

\* A write of the batch is appended to the rows of its task in their order.
LEMMA StoreOrder ==
  ASSUME Inv, OrderInv, worker = "commit", rows' = RowsWithBatch, NEW t \in Task, t \in Elems(batch)
  PROVE  OrderGood(task[t], FALSE, TRUE, rows'[t])
<1> DEFINE R == [attempt : 1 .. MaxRetries, content : Content]
           l == rows[t]
           m == rows'[t]
           n == Len(l) + 1
<1>1. /\ l \in Seq(R) /\ Row(t) \in R /\ m = Append(l, Row(t))
      /\ Row(t).attempt = task[t].attempt /\ Row(t).content = task[t].write
  BY StoreEffect DEF Inv, TypeOK, Row
<1>2. /\ Len(l) \in Nat /\ DOMAIN l = 1 .. Len(l) /\ DOMAIN m = 1 .. n
      /\ \A i \in 1 .. Len(l) : m[i] = l[i]
      /\ m[n] = Row(t)
  <2> HIDE DEF R
  <2> QED
    BY <1>1
<1>3. \A i \in DOMAIN m : (i \in DOMAIN l /\ m[i] = l[i]) \/ i = n
  BY <1>2
<1>4. Pending(t) /\ OrderGood(task[t], Pending(t), Settled(t), rows[t])
  BY DEF Pending, Held, OrderInv
<1>5. \A i \in DOMAIN l : l[i].attempt \in Nat
  BY RowTypes
<1>6. task[t].attempt \in Nat /\ task[t].pc # "fetch"
  BY RowTypes DEF Inv, TaskInv, TaskGood, Held
<1>7. \A i \in DOMAIN l :
        /\ l[i].attempt <= task[t].attempt
        /\ task[t].write # "error" => l[i].attempt < task[t].attempt
        /\ task[t].write = "error" /\ l[i].attempt = task[t].attempt => l[i].content # "error"
  BY <1>4 DEF OrderGood
<1>8. ASSUME NEW i \in DOMAIN m, NEW k \in DOMAIN m, i < k
      PROVE  \/ m[i].attempt < m[k].attempt
             \/ /\ m[i].attempt = m[k].attempt
                /\ m[i].content # "error" /\ m[k].content = "error"
  <2>1. i \in DOMAIN l /\ m[i] = l[i]
    BY <1>2, <1>8
  <2>2. CASE k \in DOMAIN l
    BY <1>2, <1>4, <1>8, <2>1, <2>2 DEF OrderGood
  <2>3. CASE k = n
    <3>1. m[k].attempt = task[t].attempt /\ m[k].content = task[t].write
      BY <1>1, <1>2, <2>3
    <3>2. CASE l[i].attempt < task[t].attempt
      BY <2>1, <3>1, <3>2
    <3>3. CASE l[i].attempt = task[t].attempt
      BY <1>6, <1>7, <2>1, <3>1, <3>3
    <3>4. l[i].attempt < task[t].attempt \/ l[i].attempt = task[t].attempt
      BY <1>5, <1>6, <1>7, <2>1
    <3> QED
      BY <3>2, <3>3, <3>4
  <2> QED
    BY <1>3, <2>2, <2>3
<1>9. \A i \in DOMAIN m : m[i].attempt <= task[t].attempt
  BY <1>1, <1>2, <1>3, <1>6, <1>7
<1>10. task[t].write # "error" =>
         \A i \in DOMAIN m : m[i].attempt = task[t].attempt => m[i].content # "error"
  <2> SUFFICES ASSUME task[t].write # "error", NEW i \in DOMAIN m, m[i].attempt = task[t].attempt
               PROVE  m[i].content # "error"
    OBVIOUS
  <2>1. CASE i = n
    BY <1>1, <1>2, <2>1
  <2>2. CASE i \in DOMAIN l /\ m[i] = l[i]
    BY <1>5, <1>6, <1>7, <2>2
  <2> QED
    BY <1>3, <2>1, <2>2
<1> QED
  BY <1>6, <1>8, <1>9, <1>10 DEF OrderGood

\* A batch is appended to the rows in its order.
LEMMA CommitOrder == ASSUME Inv, OrderInv, Commit PROVE OrderInv'
<1>1. Held' = Held /\ Elems(batch)' = Elems(batch)
  BY DEF Commit, Held, Elems
<1> SUFFICES ASSUME NEW t \in Task PROVE OrderGood(task[t], Pending(t)', Settled(t)', rows'[t])
  BY DEF OrderInv, OrderGood, Commit
<1>2. OrderGood(task[t], Pending(t), Settled(t), rows[t])
  BY DEF OrderInv
<1>3. CASE t \notin Elems(batch)
  <2>1. rows'[t] = rows[t] /\ (Pending(t)' <=> Pending(t)) /\ (Settled(t)' <=> Settled(t))
    BY <1>1, <1>3, CommitEffect DEF Pending, Settled, Commit
  <2> QED
    BY <1>2, <2>1 DEF OrderGood
<1>4. CASE t \in Elems(batch)
  <2>1. ~Pending(t)' /\ Settled(t)'
    BY <1>1, <1>4 DEF Pending, Settled, Held, Commit, Inv, TaskInv, TaskGood
  <2>2. OrderGood(task[t], FALSE, TRUE, rows'[t])
    BY <1>4, StoreOrder DEF Commit
  <2> QED
    BY <2>1, <2>2 DEF OrderGood
<1> QED
  BY <1>3, <1>4

\* No step of the writer disturbs the order of the rows.
LEMMA WorkerStepOrder == ASSUME Inv, OrderInv, WorkerStep PROVE OrderInv'
<1>1. CASE Take \/ Collect
  <2>1. Held' = Held
    BY <1>1, TakeOneInv, CollectInv
  <2>2. UNCHANGED <<task, answer, rows>> /\ worker' = "collect" /\ worker \in {"get", "collect"}
    BY <1>1 DEF Take, Collect
  <2>3. \A t \in Task : (Pending(t)' <=> Pending(t)) /\ (Settled(t)' <=> Settled(t))
    BY <2>1, <2>2 DEF Pending, Settled
  <2> QED
    BY <2>2, <2>3, OrderWithoutRows
<1>2. CASE Flush \/ CommitFails
  <2>1. Held' = Held /\ UNCHANGED <<task, answer, rows>> /\ worker # "stored" /\ worker' # "stored"
    BY <1>2 DEF Flush, CommitFails, Held, Elems
  <2>2. \A t \in Task : (Pending(t)' <=> Pending(t)) /\ (Settled(t)' <=> Settled(t))
    BY <2>1 DEF Pending, Settled
  <2> QED
    BY <2>1, <2>2, OrderWithoutRows
<1>3. CASE AnswerBatch
  <2>1. /\ Held' = Elems(queue) /\ Elems(batch)' = {} /\ Elems(queue) \cap Elems(batch) = {}
        /\ \A t \in Task : t \notin Elems(batch) => answer'[t] = answer[t]
        /\ \A t \in Task : t \in Elems(batch) =>
             answer'[t] = IF worker = "stored" THEN "ok" ELSE "error"
        /\ UNCHANGED <<task, rows>>
    BY <1>3 DEF AnswerBatch, Answered, InBatch, Held, Elems, Inv, QueueInv
  <2>2. ASSUME NEW t \in Task
        PROVE  (Pending(t)' => Pending(t)) /\ (Settled(t)' => Settled(t))
    <3>1. CASE t \in Elems(batch)
      BY <2>1, <3>1 DEF Pending, Settled, Held
    <3>2. CASE t \notin Elems(batch)
      BY <2>1, <3>2 DEF Pending, Settled, Held
    <3> QED
      BY <3>1, <3>2
  <2> QED
    BY <2>1, <2>2, OrderWithoutRows
<1> QED
  BY <1>1, <1>2, <1>3, CommitOrder DEF WorkerStep

\* Calls, closing and shutdown leave rows and order alone.
LEMMA OtherStepsOrder ==
  ASSUME Inv, OrderInv,
         \/ UNCHANGED vars \/ Join \/ Shutdown
         \/ \E c \in Call : BeginCall(c) \/ EndCall(c) \/ CallRaises(c)
  PROVE  OrderInv'
<1>1. UNCHANGED <<queue, batch, answer, rows>>
  BY DEF vars, Join, Shutdown, BeginCall, EndCall, CallRaises
<1>2. Held' = Held /\ Elems(batch)' = Elems(batch)
  BY <1>1, SameWrites
<1>3. worker' = worker
  BY DEF vars, Join, Shutdown, BeginCall, EndCall, CallRaises
<1>4. CASE \E c \in Call : BeginCall(c)
  <2>1. \A t \in Task : task'[t] = task[t] \/ (task[t].pc = "off" /\ task'[t].pc = "ready" /\ task'[t].attempt = 0)
    <3>1. PICK c \in Call : BeginCall(c)
      BY <1>4
    <3>2. \A t \in Task : t[1] = c => task[t].pc = "off"
      BY <3>1 DEF BeginCall, Inv, CallInv, MarketTasks
    <3> QED
      BY <3>1, <3>2 DEF BeginCall, NoTask
  <2>2. ASSUME NEW t \in Task PROVE OrderGood(task'[t], Pending(t)', Settled(t)', rows[t])
    <3>1. OrderGood(task[t], Pending(t), Settled(t), rows[t])
      BY DEF OrderInv
    <3>2. CASE task'[t] = task[t]
      <4>1. (Pending(t)' <=> Pending(t)) /\ (Settled(t)' <=> Settled(t))
        BY <1>1, <1>2, <1>3, <3>2 DEF Pending, Settled, Held
      <4> QED
        BY <3>1, <3>2, <4>1 DEF OrderGood
    <3>3. CASE task[t].pc = "off"
      <4>1. DOMAIN rows[t] = {}
        BY <3>3, RowTypes
      <4> QED
        BY <4>1 DEF OrderGood
    <3> QED
      BY <2>1, <3>2, <3>3
  <2> QED
    BY <1>1, <2>2 DEF OrderInv, OrderGood
<1>5. CASE ~\E c \in Call : BeginCall(c)
  <2>1. \A t \in Task : /\ task'[t].attempt = task[t].attempt /\ task'[t].write = task[t].write
                        /\ task'[t].pc = task[t].pc \/ task'[t].pc = "cancelled"
    <3>1. CASE Shutdown
      <4> SUFFICES ASSUME NEW t \in Task
                   PROVE  /\ task'[t].attempt = task[t].attempt /\ task'[t].write = task[t].write
                          /\ task'[t].pc = task[t].pc \/ task'[t].pc = "cancelled"
        OBVIOUS
      <4>1. task'[t] = task[t] \/ task'[t] = [task[t] EXCEPT !.pc = "cancelled"]
        BY <3>1, CancelledEffect DEF Shutdown
      <4>2. task[t] \in TaskRow
        BY DEF Inv, TypeOK
      <4> QED
        BY <4>1, <4>2 DEF TaskRow
    <3>2. CASE ~Shutdown
      <4>1. task' = task
        BY <1>5, <3>2 DEF vars, Join, EndCall, CallRaises
      <4> QED
        BY <4>1
    <3> QED
      BY <3>1, <3>2
  <2>2. \A t \in Task : /\ task'[t].pc = "fetch" => task[t].pc = "fetch"
                        /\ Pending(t)' => Pending(t)
                        /\ Settled(t)' => Settled(t)
    BY <1>1, <1>2, <1>3, <2>1 DEF Pending, Settled, Held
  <2> QED
    BY <1>1, <2>1, <2>2, OrderWithoutRows
<1> QED
  BY <1>4, <1>5

\* A task that the end of the worker or of the process changes has nothing pending or settled.
LEMMA DropFields ==
  ASSUME Inv, CancelWorker \/ Exit, NEW t \in Task
  PROVE  /\ task'[t].attempt = task[t].attempt /\ task'[t].write = task[t].write
         /\ task'[t] = task[t] \/ task'[t].pc \in {"stuck", "cancelled"}
         /\ t \in Elems(batch) => task'[t].pc \in {"stuck", "cancelled"}
         /\ t \in Held' => t \in Elems(queue) /\ t \notin Elems(batch) /\ task'[t] = task[t]
         /\ Elems(batch)' = {} /\ UNCHANGED <<answer, faults>>
         /\ rows'[t] = rows[t] \/ (t \in Elems(batch) /\ worker = "commit" /\ rows' = RowsWithBatch)
<1>1. task[t] \in TaskRow
  BY DEF Inv, TypeOK
<1>2. /\ \/ task'[t] = task[t]
         \/ task[t].pc \notin {"off", "over"} /\ task'[t] = [task[t] EXCEPT !.pc = "cancelled"]
         \/ task[t].pc = "wait" /\ task'[t] = [task[t] EXCEPT !.pc = "stuck"]
      /\ t \in Held' => t \in Elems(queue) /\ t \notin Elems(batch) /\ task'[t] = task[t]
      /\ t \in Held /\ t \notin Held' => task'[t].pc \in {"stuck", "cancelled"}
  BY DropTasks
<1>3. /\ Elems(batch)' = {}
      /\ \A u \in Task \ Elems(batch) : rows'[u] = rows[u]
      /\ rows' = rows \/ (worker = "commit" /\ rows' = RowsWithBatch)
      /\ UNCHANGED <<answer, faults>>
  BY DropEffect DEF CancelWorker, Exit
<1>4. /\ task'[t].attempt = task[t].attempt /\ task'[t].write = task[t].write
      /\ task'[t] = task[t] \/ task'[t].pc \in {"stuck", "cancelled"}
  BY <1>1, <1>2 DEF TaskRow
<1>5. t \in Elems(batch) => task'[t].pc \in {"stuck", "cancelled"}
  BY <1>2 DEF Held
<1> QED
  BY <1>2, <1>3, <1>4, <1>5

\* The batch that a cancelled worker leaves is stored in its order, or not at all.
LEMMA DropOrder == ASSUME Inv, OrderInv, CancelWorker \/ Exit PROVE OrderInv'
<1> SUFFICES ASSUME NEW t \in Task PROVE OrderGood(task'[t], Pending(t)', Settled(t)', rows'[t])
  BY DEF OrderInv, OrderGood
<1>1. /\ task'[t].attempt = task[t].attempt /\ task'[t].write = task[t].write
      /\ task'[t] = task[t] \/ task'[t].pc \in {"stuck", "cancelled"}
      /\ t \in Elems(batch) => task'[t].pc \in {"stuck", "cancelled"}
      /\ t \in Held' => t \in Elems(queue) /\ t \notin Elems(batch) /\ task'[t] = task[t]
      /\ Elems(batch)' = {} /\ UNCHANGED <<answer, faults>>
      /\ rows'[t] = rows[t] \/ (t \in Elems(batch) /\ worker = "commit" /\ rows' = RowsWithBatch)
  BY DropFields
<1>2. (Pending(t)' => Pending(t)) /\ (Settled(t)' => Settled(t))
  BY <1>1 DEF Pending, Settled, Held
<1>3. task'[t].pc = "fetch" => task[t].pc = "fetch"
  BY <1>1
<1>4. CASE rows'[t] = rows[t]
  <2>1. OrderGood(task[t], Pending(t), Settled(t), rows[t])
    BY DEF OrderInv
  <2> HIDE DEF Pending, Settled
  <2> QED
    BY <1>1, <1>2, <1>3, <1>4, <2>1 DEF OrderGood
<1>5. CASE t \in Elems(batch) /\ worker = "commit" /\ rows' = RowsWithBatch
  <2>1. OrderGood(task[t], FALSE, TRUE, rows'[t])
    BY <1>5, StoreOrder
  <2>2. ~Pending(t)' /\ ~Settled(t)' /\ task'[t].pc # "fetch"
    BY <1>1, <1>5 DEF Pending, Settled, Held
  <2> QED
    BY <1>1, <2>1, <2>2 DEF OrderGood
<1> QED
  BY <1>1, <1>4, <1>5

\* The rows of every capture are in the order of its attempts, a snapshot before the error of
\* the same attempt and neither twice, however writes of several captures are batched, refused
\* or left behind by a shutdown.
THEOREM RowsStoredInOrder == Spec => []RowsInOrder
<1>1. Init => OrderInv
  BY DEF Init, OrderInv, OrderGood, Pending, Settled, NoTask, Held, Elems
<1>2. Inv /\ [Next]_vars => Inv'
  BY NextInv
<1>3. Inv /\ OrderInv /\ [Next]_vars => OrderInv'
  <2> SUFFICES ASSUME Inv, OrderInv, [Next]_vars PROVE OrderInv'
    OBVIOUS
  <2> QED
    BY TaskStepOrder, WorkerStepOrder, OtherStepsOrder, DropOrder DEF Next, Step
<1>4. OrderInv => RowsInOrder
  BY DEF OrderInv, OrderGood, RowsInOrder
<1> QED
  BY InitInv, <1>1, <1>2, <1>3, <1>4, PTL DEF Spec

-----------------------------------------------------------------------------
(* Attempts without a row.                                                 *)

\* The attempts of a task that have left a row.
Recorded(t) == {rows[t][i].attempt : i \in DOMAIN rows[t]}

\* The error of the last attempt could not be stored.
Refused(t) ==
  /\ task[t].write = "error"
  /\ \/ t \in Elems(batch) /\ worker = "refused"
     \/ task[t].pc = "wait" /\ answer[t] = "error"

\* Nothing of the last attempt is going to be written.
Over(t) == task[t].pc \in {"sleep", "over"} \/ Refused(t)

\* Attempts that have left no row, and are not going to.
Lost(t) ==
  {n \in 1 .. task[t].attempt : (n < task[t].attempt \/ Over(t)) /\ n \notin Recorded(t)}

\* Each attempt that is lost took a failed transaction.
LostInv ==
  \A t \in Task : /\ Cardinality(Lost(t)) <= faults
                  /\ Settled(t) => task[t].attempt \in Recorded(t)

\* The lost attempts are counted by a number.
LEMMA LostFinite ==
  ASSUME Inv, NEW t \in Task
  PROVE  IsFiniteSet(Lost(t)) /\ Cardinality(Lost(t)) \in Nat /\ task[t].attempt \in Nat /\ faults \in Nat
<1>1. task[t].attempt \in Nat /\ faults \in Nat
  <2>1. faults \in 0 .. MaxFaults
    BY DEF Inv, TypeOK
  <2> QED
    BY <2>1, RowTypes, CaptureAssumption
<1>2. Lost(t) \in SUBSET (1 .. task[t].attempt)
  BY DEF Lost
<1>3. IsFiniteSet(1 .. task[t].attempt)
  BY <1>1, FS_Interval
<1>4. IsFiniteSet(Lost(t))
  BY <1>2, <1>3, FS_Subset
<1> QED
  BY <1>1, <1>4, FS_CardinalityType

\* Nothing is lost, or one more attempt and there was one more failure.
LEMMA LostKept ==
  ASSUME Inv, Inv', LostInv,
         \A t \in Task :
           /\ \/ Lost(t)' \subseteq Lost(t) /\ faults' >= faults
              \/ \E n : Lost(t)' \subseteq Lost(t) \cup {n} /\ faults' = faults + 1
           /\ Settled(t)' => task'[t].attempt \in Recorded(t)'
  PROVE  LostInv'
<1> SUFFICES ASSUME NEW t \in Task PROVE Cardinality(Lost(t)') <= faults'
  BY DEF LostInv
<1>1. /\ IsFiniteSet(Lost(t)) /\ Cardinality(Lost(t)) \in Nat /\ faults \in Nat
      /\ Cardinality(Lost(t)) <= faults
  BY LostFinite DEF LostInv
<1>2. faults' \in Nat /\ Cardinality(Lost(t)') \in Nat
  <2>1. faults' \in Nat
    BY CaptureAssumption DEF Inv, TypeOK
  <2>2. CASE Lost(t)' \subseteq Lost(t)
    BY <1>1, <2>1, <2>2, FS_Subset, FS_CardinalityType
  <2>3. CASE \E n : Lost(t)' \subseteq Lost(t) \cup {n}
    <3>1. PICK n : Lost(t)' \subseteq Lost(t) \cup {n}
      BY <2>3
    <3>2. IsFiniteSet(Lost(t) \cup {n})
      BY <1>1, FS_AddElement
    <3> QED
      BY <2>1, <3>1, <3>2, FS_Subset, FS_CardinalityType
  <2> QED
    BY <2>2, <2>3
<1>3. CASE Lost(t)' \subseteq Lost(t) /\ faults' >= faults
  <2>1. Cardinality(Lost(t)') <= Cardinality(Lost(t))
    BY <1>1, <1>3, FS_Subset
  <2> QED
    BY <1>1, <1>2, <1>3, <2>1
<1>4. CASE \E n : Lost(t)' \subseteq Lost(t) \cup {n} /\ faults' = faults + 1
  <2>1. PICK n : Lost(t)' \subseteq Lost(t) \cup {n} /\ faults' = faults + 1
    BY <1>4
  <2>2. /\ IsFiniteSet(Lost(t) \cup {n})
        /\ Cardinality(Lost(t) \cup {n}) = IF n \in Lost(t) THEN Cardinality(Lost(t))
                                           ELSE Cardinality(Lost(t)) + 1
    BY <1>1, FS_AddElement
  <2>3. Cardinality(Lost(t)') <= Cardinality(Lost(t) \cup {n})
    BY <2>1, <2>2, FS_Subset
  <2>4. Cardinality(Lost(t) \cup {n}) <= Cardinality(Lost(t)) + 1 /\ Cardinality(Lost(t) \cup {n}) \in Nat
    BY <1>1, <2>2
  <2> QED
    BY <1>1, <1>2, <2>1, <2>3, <2>4
<1> QED
  BY <1>3, <1>4

\* A task goes on with the attempt it is at, which is over only if it was or has left a row.
LEMMA SameAttempt ==
  ASSUME Inv, NEW t \in Task, Recorded(t) \subseteq Recorded(t)', task'[t].attempt = task[t].attempt,
         Over(t)' => Over(t) \/ task[t].attempt \in Recorded(t)
  PROVE  Lost(t)' \subseteq Lost(t)
<1>1. task[t].attempt \in Nat
  BY RowTypes
<1> SUFFICES ASSUME NEW n \in Lost(t)' PROVE n \in Lost(t)
  OBVIOUS
<1>2. /\ n \in 1 .. task[t].attempt /\ n \notin Recorded(t)
      /\ n < task[t].attempt \/ Over(t)'
  BY DEF Lost
<1>3. n = task[t].attempt \/ n < task[t].attempt
  BY <1>1, <1>2
<1> QED
  BY <1>2, <1>3 DEF Lost

\* A task begins another attempt when the one before is over.
LEMMA NextAttempt ==
  ASSUME Inv, NEW t \in Task, Recorded(t)' = Recorded(t), task'[t].attempt = task[t].attempt + 1,
         ~Over(t)', Over(t) \/ task[t].attempt = 0
  PROVE  Lost(t)' \subseteq Lost(t)
<1>1. task[t].attempt \in Nat
  BY RowTypes
<1> SUFFICES ASSUME NEW n \in Lost(t)' PROVE n \in Lost(t)
  OBVIOUS
<1>2. n \in 1 .. task[t].attempt + 1 /\ n < task[t].attempt + 1 /\ n \notin Recorded(t)
  BY DEF Lost
<1>3. n \in 1 .. task[t].attempt /\ task[t].attempt # 0
  BY <1>1, <1>2
<1> QED
  BY <1>2, <1>3 DEF Lost

\* One task goes on: the others have lost and stored what they had.
LEMMA LostOthers ==
  ASSUME Inv, Inv', LostInv, NEW t \in Task, NEW r,
         task' = [task EXCEPT ![t] = r],
         \A u \in Task \ {t} : answer'[u] = answer[u],
         UNCHANGED <<batch, rows>>, faults' >= faults,
         worker' = worker \/ (worker = "none" /\ worker' = "get"),
         Lost(t)' \subseteq Lost(t), ~Settled(t)'
  PROVE  LostInv'
<1>1. \A u \in Task \ {t} : task'[u] = task[u]
  BY DEF Inv, TypeOK
<1>2. Elems(batch)' = Elems(batch) /\ \A u \in Task : Recorded(u)' = Recorded(u)
  BY DEF Elems, Recorded
<1>3. \A u \in Task \ {t} : (Over(u)' <=> Over(u)) /\ (Settled(u)' <=> Settled(u))
  BY <1>1, <1>2 DEF Over, Refused, Settled
<1>4. \A u \in Task \ {t} : Lost(u)' \subseteq Lost(u)
  BY <1>1, <1>2, <1>3, SameAttempt
<1>5. \A u \in Task \ {t} : Settled(u)' => task'[u].attempt \in Recorded(u)'
  BY <1>1, <1>2, <1>3 DEF LostInv
<1> QED
  BY <1>4, <1>5, LostKept

\* A write is submitted for the attempt the task is at.
LEMMA SubmittedLost ==
  ASSUME Inv, Inv', LostInv, NEW t \in Task, t \notin Held, NEW row \in TaskRow, Submitted(t, row),
         UNCHANGED <<call, batch, rows>>, row.attempt = task[t].attempt, faults' >= faults
  PROVE  LostInv'
<1>1. /\ worker' = worker \/ (worker = "none" /\ worker' = "get")
      /\ answer' = [answer EXCEPT ![t] = "none"] /\ answer'[t] = "none"
      /\ t \notin Elems(batch)
      /\ \/ task' = [task EXCEPT ![t] = [row EXCEPT !.pc = "wait"]]
         \/ task' = [task EXCEPT ![t] = [row EXCEPT !.pc = "put"]]
  BY SubmittedEffect
<1>2. PICK p \in {"wait", "put"} : task' = [task EXCEPT ![t] = [row EXCEPT !.pc = p]]
  BY <1>1
<1>3. task'[t].pc = p /\ task'[t].attempt = task[t].attempt
  BY <1>2 DEF Inv, TypeOK, TaskRow
<1>4. Elems(batch)' = Elems(batch) /\ Recorded(t)' = Recorded(t)
  BY DEF Elems, Recorded
<1>5. ~Settled(t)' /\ ~Over(t)'
  BY <1>1, <1>3, <1>4 DEF Settled, Over, Refused
<1>6. Lost(t)' \subseteq Lost(t)
  BY <1>3, <1>4, <1>5, SameAttempt
<1>7. \A u \in Task \ {t} : answer'[u] = answer[u]
  BY <1>1 DEF Inv, TypeOK
<1> QED
  BY <1>1, <1>2, <1>5, <1>6, <1>7, LostOthers

\* An attempt ends when its row is stored, or its error was refused.
LEMMA MovesLost ==
  ASSUME Inv, Inv', LostInv, NEW t \in Task,
         Enter(t) \/ TryAgain(t) \/ SnapshotStored(t) \/ ErrorHandled(t) \/ ErrorNotLogged(t)
         \/ FetchCancelled(t)
  PROVE  LostInv'
<1>1. task' = [task EXCEPT ![t] = task'[t]] /\ task'[t].pc \notin {"put", "wait"}
  BY MovesEffect
<1>2. UNCHANGED <<queue, worker, batch, answer, rows>>
  BY DEF Enter, TryAgain, SnapshotStored, ErrorHandled, ErrorNotLogged, FetchCancelled
<1>3. t \notin Held
  BY Acting DEF Enter, TryAgain, SnapshotStored, ErrorHandled, ErrorNotLogged, FetchCancelled, Has
<1>4. Elems(batch)' = Elems(batch) /\ t \notin Elems(batch) /\ Recorded(t)' = Recorded(t)
  BY <1>2, <1>3 DEF Elems, Recorded, Held
<1>5. ~Settled(t)' /\ ~Refused(t)'
  BY <1>1, <1>4 DEF Settled, Refused
<1>6. task[t] \in TaskRow /\ task \in [Task -> TaskRow] /\ task[t].attempt \in Nat
  BY RowTypes DEF Inv, TypeOK
<1>7. Lost(t)' \subseteq Lost(t)
  <2>1. CASE Enter(t)
    <3>1. task[t].attempt = 0
      BY <2>1, Acting DEF Enter, TaskGood
    <3>2. task'[t].attempt = 1 /\ task'[t].pc = "fetch"
      BY <1>6, <2>1 DEF Enter, TaskRow
    <3>3. ~Over(t)'
      BY <1>5, <3>2 DEF Over
    <3> QED
      BY <1>4, <3>1, <3>2, <3>3, NextAttempt
  <2>2. CASE TryAgain(t)
    <3>1. Over(t)
      BY <2>2 DEF TryAgain, Over
    <3>2. task'[t].attempt = task[t].attempt + 1 /\ task'[t].pc = "fetch"
      BY <1>6, <2>2 DEF TryAgain, TaskRow
    <3>3. ~Over(t)'
      BY <1>5, <3>2 DEF Over
    <3> QED
      BY <1>4, <3>1, <3>2, <3>3, NextAttempt
  <2>3. CASE ErrorNotLogged(t)
    <3>1. task'[t].attempt = task[t].attempt /\ task'[t].pc = "raised"
      BY <1>6, <2>3 DEF ErrorNotLogged, TaskRow
    <3>2. ~Over(t)'
      BY <1>5, <3>1 DEF Over
    <3> QED
      BY <1>4, <3>1, <3>2, SameAttempt
  <2>5. CASE FetchCancelled(t)
    <3>1. task'[t].attempt = task[t].attempt /\ task'[t].pc = "cancelled"
      BY <1>6, <2>5 DEF FetchCancelled, TaskRow
    <3>2. ~Over(t)'
      BY <1>5, <3>1 DEF Over
    <3> QED
      BY <1>4, <3>1, <3>2, SameAttempt
  <2>4. CASE SnapshotStored(t) \/ ErrorHandled(t)
    <3>1. task'[t].attempt = task[t].attempt
      <4>1. ASSUME NEW r \in TaskRow PROVE AttemptOver(r).attempt = r.attempt
        BY DEF AttemptOver, TaskRow
      <4>2. CASE ErrorHandled(t)
        BY <1>6, <4>1, <4>2 DEF ErrorHandled
      <4>3. CASE SnapshotStored(t)
        <5> DEFINE row == [task[t] EXCEPT !.saved = SavedNow(task[t])]
                   done == [row EXCEPT !.pc = "over", !.status = "complete"]
        <5>1. row \in TaskRow /\ row.attempt = task[t].attempt /\ done.attempt = task[t].attempt
          BY <1>6 DEF TaskRow, SavedNow
        <5>2. task'[t] = done \/ task'[t] = AttemptOver(row)
          BY <1>6, <4>3 DEF SnapshotStored
        <5> HIDE DEF row, done
        <5> QED
          BY <4>1, <5>1, <5>2
      <4> QED
        BY <2>4, <4>2, <4>3
    <3>2. Settled(t) \/ Refused(t)
      <4>1. answer[t] \in {"none", "ok", "error"}
        BY DEF Inv, TypeOK
      <4> QED
        BY <2>4, <4>1 DEF SnapshotStored, ErrorHandled, Has, Settled, Refused
    <3>3. Over(t) \/ task[t].attempt \in Recorded(t)
      BY <3>2 DEF Over, LostInv
    <3> QED
      BY <1>4, <3>1, <3>3, SameAttempt
  <2> QED
    BY <2>1, <2>2, <2>3, <2>4, <2>5
<1>8. faults' >= faults
  <2>1. faults \in Nat
    BY LostFinite
  <2> QED
    BY <2>1 DEF Enter, TryAgain, SnapshotStored, ErrorHandled, ErrorNotLogged, FetchCancelled, Fault
<1> QED
  BY <1>1, <1>2, <1>5, <1>7, <1>8, LostOthers

\* No step of a task loses an attempt.
LEMMA TaskStepLost == ASSUME Inv, Inv', LostInv, NEW t \in Task, TaskStep(t) PROVE LostInv'
<1>1. task[t] \in TaskRow /\ task \in [Task -> TaskRow] /\ task[t].attempt \in Nat /\ faults \in Nat
  BY LostFinite DEF Inv, TypeOK
<1>2. CASE Enter(t) \/ TryAgain(t) \/ SnapshotStored(t) \/ ErrorHandled(t) \/ ErrorNotLogged(t)
         \/ FetchCancelled(t)
  BY <1>2, MovesLost
<1>3. CASE Put(t)
  <2>1. /\ t \notin Held /\ answer[t] = "none" /\ task' = [task EXCEPT ![t] = [task[t] EXCEPT !.pc = "wait"]]
        /\ UNCHANGED <<worker, batch, answer, rows, faults>>
    BY <1>3, Acting DEF Put, TaskGood
  <2>2. task'[t].pc = "wait" /\ task'[t].attempt = task[t].attempt
    BY <1>1, <2>1 DEF TaskRow
  <2>3. Elems(batch)' = Elems(batch) /\ t \notin Elems(batch) /\ Recorded(t)' = Recorded(t)
    BY <2>1 DEF Elems, Recorded, Held
  <2>4. ~Settled(t)' /\ ~Over(t)'
    BY <2>1, <2>2, <2>3 DEF Settled, Over, Refused
  <2>5. Lost(t)' \subseteq Lost(t)
    BY <2>2, <2>3, <2>4, SameAttempt
  <2>6. /\ \A u \in Task \ {t} : answer'[u] = answer[u]
        /\ UNCHANGED <<batch, rows>> /\ faults' >= faults /\ worker' = worker
    BY <1>1, <2>1
  <2> QED
    BY <2>1, <2>4, <2>5, <2>6, LostOthers
<1>4. ASSUME NEW payload \in Payload, Respond(t, payload) PROVE LostInv'
  <2> DEFINE row == [task[t] EXCEPT !.write = payload,
                       !.unavailable = @ \/ payload = "unavailable", !.trouble = @ \/ payload = "empty"]
  <2>1. row \in TaskRow /\ row.attempt = task[t].attempt
    BY <1>1 DEF TaskRow, Content
  <2>2. Submitted(t, row) /\ task[t].pc = "fetch" /\ UNCHANGED <<call, batch, rows, faults>>
    BY <1>4 DEF Respond
  <2>3. t \notin Held
    BY <2>2, Acting
  <2> HIDE DEF row
  <2> QED
    BY <1>1, <2>1, <2>2, <2>3, SubmittedLost
<1>5. ASSUME NEW row \in TaskRow, row.attempt = task[t].attempt, Submitted(t, InTrouble(row)),
             UNCHANGED <<call, batch, rows>>, t \notin Held, faults' >= faults
      PROVE  LostInv'
  <2>1. InTrouble(row) \in TaskRow /\ InTrouble(row).attempt = task[t].attempt
    BY <1>5 DEF InTrouble, TaskRow, Content
  <2> QED
    BY <1>5, <2>1, SubmittedLost
<1>6. CASE FetchFails(t) \/ SnapshotRefused(t)
  <2>1. t \notin Held
    BY <1>6, Acting DEF FetchFails, SnapshotRefused, Has
  <2>2. faults' >= faults
    BY <1>1, <1>6 DEF FetchFails, SnapshotRefused
  <2> QED
    BY <1>1, <1>5, <1>6, <2>1, <2>2 DEF FetchFails, SnapshotRefused
<1>7. CASE SnapshotNotLogged(t)
  <2> DEFINE row == [task[t] EXCEPT !.saved = SavedNow(task[t])]
  <2>1. row \in TaskRow /\ row.attempt = task[t].attempt
    BY <1>1 DEF TaskRow, SavedNow
  <2>2. Submitted(t, InTrouble(row)) /\ UNCHANGED <<call, batch, rows>>
    BY <1>7 DEF SnapshotNotLogged
  <2>3. t \notin Held
    BY <1>7, Acting DEF SnapshotNotLogged, Has
  <2>4. faults' >= faults
    BY <1>1, <1>7 DEF SnapshotNotLogged, Fault
  <2> HIDE DEF row
  <2> QED
    BY <1>5, <2>1, <2>2, <2>3, <2>4
<1> QED
  BY <1>2, <1>3, <1>4, <1>6, <1>7 DEF TaskStep

\* A batch that is stored leaves a row of every task in it.
LEMMA CommitRecords ==
  ASSUME Inv, rows' = RowsWithBatch, NEW t \in Task
  PROVE  /\ Recorded(t) \subseteq Recorded(t)'
         /\ t \in Elems(batch) => task[t].attempt \in Recorded(t)'
<1>1. CASE t \in Elems(batch)
  <2> DEFINE R == [attempt : 1 .. MaxRetries, content : Content]
             l == rows[t]
             m == rows'[t]
             n == Len(l) + 1
  <2>1. l \in Seq(R) /\ Row(t) \in R /\ m = Append(l, Row(t)) /\ Row(t).attempt = task[t].attempt
    BY <1>1, StoreEffect DEF Inv, TypeOK, Row
  <2>2. /\ Len(l) \in Nat /\ DOMAIN l = 1 .. Len(l) /\ DOMAIN m = 1 .. n
        /\ \A i \in 1 .. Len(l) : m[i] = l[i]
        /\ m[n] = Row(t)
    <3> HIDE DEF R
    <3> QED
      BY <2>1
  <2>3. n \in DOMAIN m /\ \A i \in DOMAIN l : i \in DOMAIN m
    BY <2>2
  <2>4. \A i \in DOMAIN l : m[i] = l[i]
    BY <2>2
  <2> QED
    BY <2>1, <2>2, <2>3, <2>4 DEF Recorded
<1>2. CASE t \notin Elems(batch)
  BY <1>2, StoreEffect DEF Recorded
<1> QED
  BY <1>1, <1>2

\* A failed transaction loses at most the attempt a task is at.
LEMMA WorkerStepLost == ASSUME Inv, Inv', LostInv, WorkerStep PROVE LostInv'
<1>1. \A t \in Task : task'[t] = task[t]
  BY DEF WorkerStep, Take, Collect, Flush, Commit, CommitFails, AnswerBatch
<1>2. faults \in Nat
  BY CaptureAssumption DEF Inv, TypeOK
<1>3. CASE Take \/ Collect \/ Flush
  <2>1. UNCHANGED <<answer, rows, faults>> /\ worker' \in {"collect", "commit"}
    BY <1>3 DEF Take, Collect, Flush
  <2>2. \A t \in Task : /\ Recorded(t)' = Recorded(t) /\ (Over(t)' => Over(t))
                        /\ (Settled(t)' => Settled(t))
    BY <1>1, <2>1 DEF Recorded, Over, Refused, Settled
  <2>3. \A t \in Task : Lost(t)' \subseteq Lost(t)
    BY <1>1, <2>2, SameAttempt
  <2> QED
    BY <1>1, <1>2, <2>1, <2>2, <2>3, LostKept DEF LostInv
<1>4. CASE Commit
  <2>1. UNCHANGED <<answer, faults>> /\ worker' = "stored" /\ Elems(batch)' = Elems(batch)
    BY <1>4 DEF Commit, Elems
  <2>2. \A t \in Task : /\ Recorded(t) \subseteq Recorded(t)' /\ (Over(t)' => Over(t))
                        /\ (Settled(t)' => Settled(t) \/ t \in Elems(batch))
    BY <1>1, <1>4, <2>1, CommitRecords DEF Commit, Over, Refused, Settled
  <2>3. \A t \in Task : Lost(t)' \subseteq Lost(t)
    BY <1>1, <2>2, SameAttempt
  <2>4. \A t \in Task : Settled(t)' => task'[t].attempt \in Recorded(t)'
    BY <1>1, <1>4, <2>2, CommitRecords DEF Commit, LostInv
  <2> QED
    BY <1>2, <2>1, <2>3, <2>4, LostKept
<1>5. CASE CommitFails
  <2>1. /\ UNCHANGED <<answer, rows>> /\ faults' = faults + 1
        /\ worker' = "refused" /\ worker = "commit" /\ Elems(batch)' = Elems(batch)
    BY <1>5 DEF CommitFails, Fault, Elems
  <2>2. \A t \in Task : Recorded(t)' = Recorded(t) /\ (Settled(t)' => Settled(t))
    BY <1>1, <2>1 DEF Recorded, Settled
  <2>3. ASSUME NEW t \in Task PROVE Lost(t)' \subseteq Lost(t) \cup {task[t].attempt}
    <3>1. task[t].attempt \in Nat
      BY LostFinite
    <3> SUFFICES ASSUME NEW n \in Lost(t)', n # task[t].attempt PROVE n \in Lost(t)
      OBVIOUS
    <3>2. n \in 1 .. task[t].attempt /\ n \notin Recorded(t)
      BY <1>1, <2>2 DEF Lost
    <3>3. n < task[t].attempt
      BY <3>1, <3>2
    <3> QED
      BY <3>2, <3>3 DEF Lost
  <2>4. \A t \in Task : Settled(t)' => task'[t].attempt \in Recorded(t)'
    BY <1>1, <2>2 DEF LostInv
  <2> QED
    BY <2>1, <2>3, <2>4, LostKept
<1>6. CASE AnswerBatch
  <2>1. /\ worker \in {"stored", "refused"} /\ worker' = "get" /\ Elems(batch)' = {}
        /\ \A t \in Task : t \notin Elems(batch) => answer'[t] = answer[t]
        /\ \A t \in Task : t \in Elems(batch) =>
             answer'[t] = IF worker = "stored" THEN "ok" ELSE "error"
        /\ UNCHANGED <<rows, faults>>
    BY <1>6 DEF AnswerBatch, Answered, InBatch, Elems
  <2>2. ASSUME NEW t \in Task
        PROVE  /\ Recorded(t)' = Recorded(t) /\ (Over(t)' => Over(t)) /\ (Settled(t)' => Settled(t))
    <3>1. Recorded(t)' = Recorded(t)
      BY <2>1 DEF Recorded
    <3>2. CASE t \in Elems(batch)
      BY <1>1, <2>1, <3>1, <3>2 DEF Over, Refused, Settled
    <3>3. CASE t \notin Elems(batch)
      BY <1>1, <2>1, <3>1, <3>3 DEF Over, Refused, Settled
    <3> QED
      BY <3>2, <3>3
  <2>3. \A t \in Task : Lost(t)' \subseteq Lost(t)
    BY <1>1, <2>2, SameAttempt
  <2>4. \A t \in Task : Settled(t)' => task'[t].attempt \in Recorded(t)'
    BY <1>1, <2>2 DEF LostInv
  <2> QED
    BY <1>2, <2>1, <2>3, <2>4, LostKept
<1> QED
  BY <1>3, <1>4, <1>5, <1>6 DEF WorkerStep

\* Calls, closing and shutdown lose nothing.
LEMMA OtherStepsLost ==
  ASSUME Inv, Inv', LostInv,
         \/ UNCHANGED vars \/ Join \/ Shutdown
         \/ \E c \in Call : BeginCall(c) \/ EndCall(c) \/ CallRaises(c)
  PROVE  LostInv'
<1>1. UNCHANGED <<queue, batch, answer, rows, faults>> /\ faults \in Nat
  BY CaptureAssumption DEF Inv, TypeOK, vars, Join, Shutdown, BeginCall, EndCall, CallRaises
<1>2. Elems(batch)' = Elems(batch) /\ \A t \in Task : Recorded(t)' = Recorded(t)
  BY <1>1 DEF Elems, Recorded
<1>3. worker' = worker
  BY DEF vars, Join, Shutdown, BeginCall, EndCall, CallRaises
<1>4. ASSUME NEW t \in Task, task'[t].attempt = task[t].attempt, task'[t].write = task[t].write,
             task'[t].pc = task[t].pc \/ task'[t].pc = "cancelled"
      PROVE  Lost(t)' \subseteq Lost(t) /\ (Settled(t)' => task'[t].attempt \in Recorded(t)')
  <2>1. (Over(t)' => Over(t)) /\ (Settled(t)' => Settled(t))
    BY <1>1, <1>2, <1>3, <1>4 DEF Over, Refused, Settled
  <2> QED
    BY <1>2, <1>4, <2>1, SameAttempt DEF LostInv
<1>5. ASSUME NEW t \in Task
      PROVE  Lost(t)' \subseteq Lost(t) /\ (Settled(t)' => task'[t].attempt \in Recorded(t)')
  <2>1. task[t] \in TaskRow
    BY DEF Inv, TypeOK
  <2>2. CASE \E c \in Call : BeginCall(c)
    <3>1. PICK c \in Call : BeginCall(c)
      BY <2>2
    <3>2. CASE task'[t] = task[t]
      BY <1>4, <3>2
    <3>3. CASE task'[t] # task[t]
      <4>1. /\ task[t].pc = "off" /\ task'[t] = [NoTask EXCEPT !.pc = "ready"]
        BY <3>1, <3>3 DEF BeginCall, Inv, CallInv, MarketTasks
      <4>2. task'[t].attempt = 0 /\ task'[t].pc = "ready"
        BY <4>1 DEF NoTask
      <4>3. t \notin Elems(batch)
        BY <4>1 DEF Inv, TaskInv, TaskGood, Held
      <4>4. ~Settled(t)'
        BY <1>2, <4>2, <4>3 DEF Settled
      <4>5. Lost(t)' = {}
        BY <4>2 DEF Lost
      <4> QED
        BY <4>4, <4>5
    <3> QED
      BY <3>2, <3>3
  <2>3. CASE Shutdown
    <3>1. task'[t] = task[t] \/ task'[t] = [task[t] EXCEPT !.pc = "cancelled"]
      BY <2>3, CancelledEffect DEF Shutdown
    <3>2. /\ task'[t].attempt = task[t].attempt /\ task'[t].write = task[t].write
          /\ task'[t].pc = task[t].pc \/ task'[t].pc = "cancelled"
      BY <2>1, <3>1 DEF TaskRow
    <3> QED
      BY <1>4, <3>2
  <2>4. CASE UNCHANGED vars \/ Join \/ \E c \in Call : EndCall(c) \/ CallRaises(c)
    <3>1. task' = task
      BY <2>4 DEF vars, Join, EndCall, CallRaises
    <3> QED
      BY <1>4, <3>1
  <2> QED
    BY <2>2, <2>3, <2>4
<1> QED
  BY <1>1, <1>5, LostKept

\* What the end of the worker or of the process abandons loses no attempt of a task that goes on.
LEMMA DropLost == ASSUME Inv, Inv', LostInv, CancelWorker \/ Exit PROVE LostInv'
<1>1. ASSUME NEW t \in Task
      PROVE  Lost(t)' \subseteq Lost(t) /\ (Settled(t)' => task'[t].attempt \in Recorded(t)')
  <2>1. /\ task'[t].attempt = task[t].attempt /\ task'[t].write = task[t].write
        /\ task'[t] = task[t] \/ task'[t].pc \in {"stuck", "cancelled"}
        /\ Elems(batch)' = {} /\ UNCHANGED <<answer, faults>>
        /\ rows'[t] = rows[t] \/ (t \in Elems(batch) /\ worker = "commit" /\ rows' = RowsWithBatch)
    BY DropFields
  <2>2. Recorded(t) \subseteq Recorded(t)'
    <3>1. CASE rows'[t] = rows[t]
      BY <3>1 DEF Recorded
    <3>2. CASE rows' = RowsWithBatch
      BY <3>2, CommitRecords
    <3> QED
      BY <2>1, <3>1, <3>2
  <2>3. (Over(t)' => Over(t)) /\ (Settled(t)' => Settled(t))
    BY <2>1 DEF Over, Refused, Settled
  <2> QED
    BY <2>1, <2>2, <2>3, SameAttempt DEF LostInv
<1>2. faults' = faults /\ faults \in Nat
  BY CaptureAssumption DEF CancelWorker, Exit, Inv, TypeOK
<1> QED
  BY <1>1, <1>2, LostKept

\* Every attempt of a capture that returned has left a row, but for as many as transactions
\* failed: a snapshot that is refused is followed by its error, and only an error that is
\* refused, too, leaves nothing.
THEOREM AttemptsLeaveRows == Spec => []AttemptsRecorded
<1>1. Init => LostInv
  <2> SUFFICES ASSUME Init, NEW t \in Task
               PROVE  Cardinality(Lost(t)) <= faults /\ ~Settled(t)
    BY DEF LostInv
  <2>1. task[t].attempt = 0 /\ task[t].pc = "off" /\ Elems(batch) = {}
    BY DEF Init, NoTask, Elems
  <2>2. Lost(t) = {}
    BY <2>1 DEF Lost
  <2> QED
    BY <2>1, <2>2, FS_EmptySet DEF Init, Settled
<1>2. Inv /\ [Next]_vars => Inv'
  BY NextInv
<1>3. Inv /\ LostInv /\ [Next]_vars => LostInv'
  <2> SUFFICES ASSUME Inv, LostInv, [Next]_vars PROVE LostInv'
    OBVIOUS
  <2>1. Inv'
    BY NextInv
  <2> QED
    BY <2>1, TaskStepLost, WorkerStepLost, OtherStepsLost, DropLost DEF Next, Step
<1>4. Inv /\ LostInv => AttemptsRecorded
  <2> SUFFICES ASSUME LostInv, NEW t \in Task, task[t].pc = "over"
               PROVE  Cardinality({n \in 1 .. task[t].attempt :
                                    \A i \in DOMAIN rows[t] : rows[t][i].attempt # n}) <= faults
    BY DEF AttemptsRecorded
  <2>1. {n \in 1 .. task[t].attempt : \A i \in DOMAIN rows[t] : rows[t][i].attempt # n} = Lost(t)
    BY DEF Lost, Over, Recorded
  <2> QED
    BY <2>1 DEF LostInv
<1> QED
  BY InitInv, <1>1, <1>2, <1>3, <1>4, PTL DEF Spec

=============================================================================
