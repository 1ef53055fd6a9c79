---------------------------- MODULE SingleFlight ----------------------------
(***************************************************************************)
(* What IngestCoordinator.submit promises its callers: callers that ask for *)
(* the same thing share one fetch, a fetch that ends answers every caller   *)
(* that shares it and nobody else, and every caller is answered by a fetch  *)
(* that ended after the caller asked.                                       *)
(***************************************************************************)
CONSTANTS
  Caller,    \* tasks that submit requests
  Key,       \* what can be asked for
  NoKey      \* not a key: a caller that asks for nothing

VARIABLES
  asks,      \* what a caller waits for
  open       \* the keys somebody is fetching, or will fetch

vars == <<asks, open>>

TypeOK == asks \in [Caller -> Key \cup {NoKey}] /\ open \subseteq Key

Init == asks = [c \in Caller |-> NoKey] /\ open = {}

Ask(c, k) ==
  /\ asks[c] = NoKey
  /\ asks' = [asks EXCEPT ![c] = k]
  /\ open' = open \cup {k}

\* The fetches of some keys end; the callers that share them are answered.
End(ended) ==
  /\ asks' = [c \in Caller |-> IF asks[c] \in ended THEN NoKey ELSE asks[c]]
  /\ open' = open \ ended

Next ==
  \/ \E c \in Caller, k \in Key : Ask(c, k)
  \/ \E ended \in SUBSET open : End(ended)

Spec == Init /\ [][Next]_vars

\* Nobody waits for a fetch that does not exist.
NobodyWaitsInVain == \A c \in Caller : asks[c] # NoKey => asks[c] \in open

=============================================================================
