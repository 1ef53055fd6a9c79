----------------------------- MODULE WriteService -----------------------------
(***************************************************************************)
(* What PersistenceCoordinator promises the tasks that submit writes: while *)
(* it is open, a write that the queue has taken is stored once or refused,  *)
(* together with a batch of others, also when the task that asked is gone;  *)
(* it closes only when nothing it has taken is left.  A task is told of     *)
(* success only if its write is stored.                                     *)
(***************************************************************************)
EXTENDS Naturals

CONSTANT Client   \* tasks that submit writes, one at a time

VARIABLES
  write,   \* the last write of a client
  stored,  \* how many writes of a client are stored
  open     \* is what the queue takes still promised to be settled

vars == <<write, stored, open>>

Unsettled == {"asked", "accepted"}

TypeOK ==
  /\ write \in [Client -> Unsettled \cup {"none", "stored", "refused"}]
  /\ stored \in [Client -> Nat]
  /\ open \in BOOLEAN

Init ==
  /\ write = [c \in Client |-> "none"]
  /\ stored = [c \in Client |-> 0]
  /\ open = TRUE

\* There may be room in the queue at once.
Ask(c, state) ==
  /\ write[c] \notin Unsettled
  /\ write' = [write EXCEPT ![c] = state]
  /\ UNCHANGED <<stored, open>>

Accept(c) ==
  /\ write[c] = "asked"
  /\ write' = [write EXCEPT ![c] = "accepted"]
  /\ UNCHANGED <<stored, open>>

Store(cs) ==
  /\ \A c \in cs : write[c] = "accepted"
  /\ write' = [c \in Client |-> IF c \in cs THEN "stored" ELSE write[c]]
  /\ stored' = [c \in Client |-> IF c \in cs THEN stored[c] + 1 ELSE stored[c]]
  /\ UNCHANGED open

Refuse(cs) ==
  /\ \A c \in cs : write[c] = "accepted"
  /\ write' = [c \in Client |-> IF c \in cs THEN "refused" ELSE write[c]]
  /\ UNCHANGED <<stored, open>>

\* Clients that have read their answer, or give up before their write was taken.
Leave(cs) ==
  /\ \A c \in cs : write[c] # "accepted"
  /\ write' = [c \in Client |-> IF c \in cs THEN "none" ELSE write[c]]
  /\ UNCHANGED <<stored, open>>

Close ==
  /\ open /\ open' = FALSE
  /\ \A c \in Client : write[c] # "accepted"
  /\ UNCHANGED <<write, stored>>

\* What comes after the close may be dropped, although its transaction is under way.
Abandon(cs, done) ==
  /\ ~open
  /\ \A c \in done : write[c] = "accepted"
  /\ write' = [c \in Client |-> IF c \in cs THEN "none" ELSE write[c]]
  /\ stored' = [c \in Client |-> IF c \in done THEN stored[c] + 1 ELSE stored[c]]
  /\ UNCHANGED open

Next ==
  \/ \E c \in Client, state \in Unsettled : Ask(c, state)
  \/ \E c \in Client : Accept(c)
  \/ \E cs \in SUBSET Client : Store(cs) \/ Refuse(cs) \/ Leave(cs)
  \/ Close
  \/ \E cs \in SUBSET Client : \E done \in SUBSET cs : Abandon(cs, done)

Spec == Init /\ [][Next]_vars

Settle == open /\ \E cs \in SUBSET Client : cs # {} /\ (Store(cs) \/ Refuse(cs))

\* No write stays in the queue for ever.
FairSpec == Spec /\ WF_vars(Settle)

=============================================================================
