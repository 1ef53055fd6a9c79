------------------------------ MODULE FinalOdds ------------------------------
(***************************************************************************)
(* Which odds of a match are its final ones (database.py): the is_final flag *)
(* of odds_snapshots, which each saved snapshot may take over; the table     *)
(* final_bookmaker_odds, which holds the newest usable row of Bwin and of    *)
(* Unibet, whichever snapshots they come from; and repair_final_snapshots,   *)
(* which computes both again for every match, in single statements.          *)
(*                                                                         *)
(* One lock is held by each saved batch and by a whole repair.  A batch is   *)
(* one transaction, a repair is not.  Snapshots get captured_at when they    *)
(* enter the persistence queue, so they are saved in that order.             *)
(***************************************************************************)
EXTENDS Integers, Sequences, FiniteSets

CONSTANTS
  Group,         \* a match and one of its markets
  Bookmaker,     \* bookmakers a payload may list
  Tracked,       \* Bwin and Unibet
  Requirements,  \* values settings.required_bookmakers may have
  ChunkSize,     \* the 500 ids of one UPDATE of the repair
  MaxSnapshots,  \* bound on the snapshots of all groups
  MaxRepairs,    \* bound on repairs
  MaxFaults,     \* bound on repairs that fail, or are cut off by a restart
  MaxChanges     \* bound on restarts with other settings

ASSUME BookmakerAssumption ==
  /\ IsFiniteSet(Bookmaker)
  /\ Tracked \subseteq Bookmaker
  /\ Tracked # {}
  /\ Requirements \subseteq SUBSET Bookmaker
ASSUME GroupAssumption == IsFiniteSet(Group) /\ ChunkSize \in Nat \ {0}

VARIABLES
  snapshots,  \* odds_snapshots with their bookmaker_odds, oldest first
  final,      \* the positions with is_final
  observed,   \* final_bookmaker_odds: the position a bookmaker's row is from, 0 if it has none
  required,   \* settings.required_bookmakers
  repair,     \* where a running repair stands
  used        \* saves, repairs, faults and changes so far

vars == <<snapshots, final, observed, required, repair, used>>

-----------------------------------------------------------------------------
\* available: the row has a home and a draw price; priced: it has all three.
Snapshot == [available: SUBSET Bookmaker, priced: SUBSET Bookmaker, required: SUBSET Bookmaker]

Repair == [pc: {"idle", "flag", "rebuild"}, todo: SUBSET Group]

NoRepair == [pc |-> "idle", todo |-> {}]

Nothing == [b \in Tracked |-> 0]

TypeOK ==
  /\ snapshots \in [Group -> Seq(Snapshot)]
  /\ final \in [Group -> SUBSET Nat]
  /\ observed \in [Group -> [Tracked -> Nat]]
  /\ required \in SUBSET Bookmaker
  /\ repair \in Repair
  /\ used \in [saves: Nat, repairs: Nat, faults: Nat, changes: Nat]

Init ==
  /\ snapshots = [g \in Group |-> <<>>]
  /\ final = [g \in Group |-> {}]
  /\ observed = [g \in Group |-> Nothing]
  /\ required \in Requirements
  /\ repair = NoRepair
  /\ used = [saves |-> 0, repairs |-> 0, faults |-> 0, changes |-> 0]

-----------------------------------------------------------------------------
(* Saving a snapshot.                                                      *)

\* How many of the bookmakers asked for it has.
Score(s, asked) == Cardinality(s.available \cap asked)

\* Defect: of two equally good snapshots the older one stays.
PromotedIfRicher(s, flagged, list) ==
  \A i \in flagged : list[i].required = {} \/ Score(s, s.required) > Score(list[i], list[i].required)

\* _should_promote_snapshot: each side is scored by what was required when it was taken.
Promoted(s, flagged, list) ==
  \A i \in flagged : list[i].required = {} \/ Score(s, s.required) >= Score(list[i], list[i].required)

Newest(S) == CHOOSE i \in S : \A j \in S : j <= i

\* Defect: a bookmaker that is missing from the newest snapshot has no final odds.
NewestOnly(list) ==
  [b \in Tracked |-> IF list # <<>> /\ b \in list[Len(list)].priced THEN Len(list) ELSE 0]

\* Defect: the position before the first stands for no row.
MinusOne(list) ==
  [b \in Tracked |->
     LET found == {i \in DOMAIN list : b \in list[i].priced}
     IN  IF found = {} THEN -1 ELSE Newest(found)]

\* _rebuild_final_bookmaker_observations
Observations(list) ==
  [b \in Tracked |->
     LET found == {i \in DOMAIN list : b \in list[i].priced}
     IN  IF found = {} THEN 0 ELSE Newest(found)]

\* Defect: the flag of the former final snapshot stays.
FlagAdded(flagged, n) == flagged \cup {n}

FlagMoved(flagged, n) == {n}

\* _save_snapshot_unlocked, committed with its batch.
Save(g) ==
  /\ repair.pc = "idle"
  /\ used.saves < MaxSnapshots
  /\ used' = [used EXCEPT !.saves = @ + 1]
  /\ \E s \in Snapshot :
       LET list == Append(snapshots[g], s)
       IN  /\ s.priced \subseteq s.available
           /\ s.required = required
           /\ snapshots' = [snapshots EXCEPT ![g] = list]
           /\ final' = [final EXCEPT ![g] =
                IF Promoted(s, @, snapshots[g]) THEN FlagMoved(@, Len(list)) ELSE @]
           /\ observed' = [observed EXCEPT ![g] = Observations(list)]
  /\ UNCHANGED <<required, repair>>

-----------------------------------------------------------------------------
(* The repair.                                                             *)

\* Without a setting the repair asks for Bwin and Unibet.
Asked == IF required = {} THEN Tracked ELSE required

\* Defect: the newest of the best is not told from the oldest.
OldestBest(list, asked, i) ==
  \A j \in DOMAIN list :
    \/ Score(list[j], asked) < Score(list[i], asked)
    \/ Score(list[j], asked) = Score(list[i], asked) /\ i <= j

\* The ranking: by score, then by capture time.
IsBest(list, asked, i) ==
  \A j \in DOMAIN list :
    \/ Score(list[j], asked) < Score(list[i], asked)
    \/ Score(list[j], asked) = Score(list[i], asked) /\ j <= i

BestOf(list, asked) == {i \in DOMAIN list : IsBest(list, asked, i)}

Captured == {g \in Group : snapshots[g] # <<>>}

\* The best snapshots are read, and every flag is cleared.
BeginRepair ==
  /\ repair.pc = "idle"
  /\ Captured # {}
  /\ used.repairs < MaxRepairs
  /\ used' = [used EXCEPT !.repairs = @ + 1]
  /\ final' = [g \in Group |-> {}]
  /\ repair' = [pc |-> "flag", todo |-> Captured]
  /\ UNCHANGED <<snapshots, observed, required>>

\* Up to ChunkSize flags are set by one statement.
FlagChunk ==
  /\ repair.pc = "flag" /\ repair.todo # {}
  /\ \E chunk \in SUBSET repair.todo :
       /\ \/ Cardinality(chunk) = ChunkSize
          \/ Cardinality(chunk) < ChunkSize /\ chunk = repair.todo
       /\ final' = [g \in Group |->
                      IF g \in chunk THEN BestOf(snapshots[g], Asked) ELSE final[g]]
       /\ repair' = [repair EXCEPT !.todo = @ \ chunk]
  /\ UNCHANGED <<snapshots, observed, required, used>>

DeleteObservations ==
  /\ repair.pc = "flag" /\ repair.todo = {}
  /\ observed' = [g \in Group |-> Nothing]
  /\ repair' = [pc |-> "rebuild", todo |-> Captured]
  /\ UNCHANGED <<snapshots, final, required, used>>

Rebuild(g) ==
  /\ repair.pc = "rebuild" /\ g \in repair.todo
  /\ observed' = [observed EXCEPT ![g] = Observations(snapshots[g])]
  /\ repair' = IF repair.todo = {g} THEN NoRepair ELSE [repair EXCEPT !.todo = @ \ {g}]
  /\ UNCHANGED <<snapshots, final, required, used>>

\* A statement fails, or the process ends: what the repair has done stays.
CutRepair ==
  /\ repair.pc # "idle"
  /\ used.faults < MaxFaults
  /\ used' = [used EXCEPT !.faults = @ + 1]
  /\ repair' = NoRepair
  /\ UNCHANGED <<snapshots, final, observed, required>>

\* A restart with other required bookmakers.
Reconfigure ==
  /\ repair.pc = "idle"
  /\ used.changes < MaxChanges
  /\ used' = [used EXCEPT !.changes = @ + 1]
  /\ required' \in Requirements \ {required}
  /\ UNCHANGED <<snapshots, final, observed, repair>>

Next ==
  \/ \E g \in Group : Save(g) \/ Rebuild(g)
  \/ BeginRepair \/ FlagChunk \/ DeleteObservations
  \/ CutRepair
  \/ Reconfigure

Spec == Init /\ [][Next]_vars

-----------------------------------------------------------------------------
(* Properties.                                                             *)

\* No snapshot of the list is richer, and none that is newer is as rich.
Foremost(list, asked, i) ==
  \A j \in DOMAIN list : /\ Score(list[j], asked) <= Score(list[i], asked)
                         /\ j > i => Score(list[j], asked) < Score(list[i], asked)

\* A market of a match never has two final snapshots, not even in the middle of a repair or
\* after one that was cut off: every query that joins on is_final would return it twice.
AtMostOneFinal == \A g \in Group : \A i, j \in final[g] : i = j

\* Saving snapshot by snapshot ends where the repair ends that looks at all of them at once:
\* the final snapshot is the richest in required bookmakers, and the newest of those.  While
\* the requirement has not changed and no repair was cut off.
FinalIsBest ==
  /\ used.faults = 0 /\ used.changes = 0
  /\ required # {}
  /\ repair.pc = "idle"
  => \A g \in Captured : \E i \in DOMAIN snapshots[g] :
       final[g] = {i} /\ Foremost(snapshots[g], required, i)

\* The final odds of a bookmaker are never older than its newest usable row, and missing only
\* while a repair runs or after one was cut off.  Saving other odds does not erase them, and a
\* match never keeps one bookmaker of a pair of which the other got lost (the plan's "Never let
\* a later missing bookmaker erase an earlier valid bookmaker value").
ObservationsAreNewest ==
  \A g \in Group :
    \/ /\ repair.pc # "idle" \/ used.faults > 0
       /\ observed[g] = Nothing
    \/ \A b \in Tracked :
         /\ observed[g][b] # 0 => /\ observed[g][b] \in DOMAIN snapshots[g]
                                 /\ b \in snapshots[g][observed[g][b]].priced
         /\ \A i \in DOMAIN snapshots[g] : b \in snapshots[g][i].priced => i <= observed[g][b]

\* A repair that gets to its end puts everything right, whatever repairs were cut off before
\* and whatever the snapshots were asked for: each match has its best snapshot as the final one
\* and no bookmaker's odds are missing.
RepairRestores ==
  [][repair.pc = "rebuild" /\ repair'.pc = "idle" /\ used' = used
     => \A g \in Captured :
          /\ \E i \in DOMAIN snapshots[g] : final'[g] = {i} /\ Foremost(snapshots[g], Asked, i)
          /\ \A b \in Tracked, i \in DOMAIN snapshots[g] :
               b \in snapshots[g][i].priced => observed'[g][b] >= i]_vars

=============================================================================
