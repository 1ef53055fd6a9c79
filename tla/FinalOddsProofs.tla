--------------------------- MODULE FinalOddsProofs ---------------------------
(* Saved snapshots and repairs agree on the final odds, for every number of *)
(* groups, bookmakers, snapshots, repairs, faults and changes of settings.   *)
EXTENDS FinalOdds, FiniteSetTheorems, WellFoundedInduction, TLAPS

-----------------------------------------------------------------------------
(* Greatest elements.                                                      *)

\* A bounded, nonempty set of naturals has a greatest element: its least final segment, by
\* strict inclusion, which is well-founded on finite sets.
LEMMA GreatestOf ==
  ASSUME NEW n \in Nat, NEW T \in SUBSET (0 .. n), T # {}
  PROVE  \E x \in T : \A y \in T : y <= x
<1> DEFINE Above(x) == x .. n
           Order == StrictSubsetOrdering(0 .. n)
           U == {Above(x) : x \in T}
<1>1. IsWellFoundedOn(Order, SUBSET (0 .. n))
  <2>1. IsFiniteSet(0 .. n)
    BY FS_Interval
  <2> QED
    BY <2>1, FS_FiniteSubsetsOfFinite, FS_StrictSubsetOrderingWellFounded
<1>2. U \subseteq SUBSET (0 .. n) /\ U # {}
  <2>1. \A x \in T : Above(x) \subseteq 0 .. n
    OBVIOUS
  <2> QED
    BY <2>1
<1>3. \E u \in U : \A v \in U : ~(<<v, u>> \in Order)
  <2> HIDE DEF U, Order
  <2> QED
    BY <1>1, <1>2, WFMin
<1>4. PICK x \in T : \A y \in T : ~(<<Above(y), Above(x)>> \in Order)
  <2> HIDE DEF Above, Order
  <2> QED
    BY <1>3
<1>5. ASSUME NEW y \in T, x < y PROVE FALSE
  <2>1. Above(y) \subseteq Above(x) /\ x \in Above(x) /\ x \notin Above(y)
    BY <1>5
  <2>2. Above(y) \in SUBSET (0 .. n) /\ Above(x) \in SUBSET (0 .. n)
    OBVIOUS
  <2> HIDE DEF Above
  <2>3. <<Above(y), Above(x)>> \in Order
    BY <2>1, <2>2 DEF StrictSubsetOrdering
  <2> QED
    BY <1>4, <2>3
<1> QED
  BY <1>5

-----------------------------------------------------------------------------
(* Lists of snapshots.                                                     *)

\* A score counts bookmakers.
LEMMA ScoreType ==
  ASSUME NEW s \in Snapshot, NEW asked \in SUBSET Bookmaker
  PROVE  Score(s, asked) \in 0 .. Cardinality(Bookmaker)
<1>1. s.available \cap asked \in SUBSET Bookmaker
  BY DEF Snapshot
<1>2. /\ IsFiniteSet(s.available \cap asked)
      /\ Cardinality(s.available \cap asked) <= Cardinality(Bookmaker)
  BY <1>1, FS_Subset, BookmakerAssumption
<1> QED
  BY <1>2, FS_CardinalityType, BookmakerAssumption DEF Score

\* The best snapshot is one that no other is ahead of.
LEMMA BestIsForemost ==
  ASSUME NEW list \in Seq(Snapshot), NEW asked \in SUBSET Bookmaker,
         NEW i \in BestOf(list, asked)
  PROVE  /\ i \in DOMAIN list /\ Foremost(list, asked, i)
         /\ BestOf(list, asked) = {i}
<1>1. \A j \in DOMAIN list : j \in Nat /\ Score(list[j], asked) \in Nat
  BY ScoreType, FS_CardinalityType, BookmakerAssumption
<1>2. i \in DOMAIN list /\ IsBest(list, asked, i)
  BY DEF BestOf
<1>3. Foremost(list, asked, i)
  BY <1>1, <1>2 DEF IsBest, Foremost
<1>4. ASSUME NEW k \in BestOf(list, asked) PROVE k = i
  <2>1. k \in DOMAIN list /\ IsBest(list, asked, k)
    BY DEF BestOf
  <2> QED
    BY <1>1, <1>2, <2>1 DEF IsBest
<1> QED
  BY <1>2, <1>3, <1>4

\* A list that is not empty has a best snapshot: among those of the greatest score, the newest.
LEMMA BestExists ==
  ASSUME NEW list \in Seq(Snapshot), NEW asked \in SUBSET Bookmaker, list # <<>>
  PROVE  \E i \in DOMAIN list : BestOf(list, asked) = {i} /\ Foremost(list, asked, i)
<1> DEFINE S(j) == Score(list[j], asked)
           Scores == {S(j) : j \in DOMAIN list}
<1>1. DOMAIN list = 1 .. Len(list) /\ Len(list) \in Nat \ {0}
  OBVIOUS
<1>2. \A j \in DOMAIN list : S(j) \in 0 .. Cardinality(Bookmaker)
  BY <1>1, ScoreType
<1>3. Cardinality(Bookmaker) \in Nat
  BY FS_CardinalityType, BookmakerAssumption
<1> HIDE DEF S
<1>4. PICK top \in Scores : \A x \in Scores : x <= top
  <2>1. Scores \subseteq 0 .. Cardinality(Bookmaker)
    BY <1>2
  <2>2. 1 \in DOMAIN list
    BY <1>1
  <2>3. Scores # {}
    BY <2>2
  <2> HIDE DEF Scores
  <2> QED
    BY <1>3, <2>1, <2>3, GreatestOf
<1>5. PICK i \in {j \in DOMAIN list : S(j) = top} :
        \A k \in {j \in DOMAIN list : S(j) = top} : k <= i
  <2>1. {j \in DOMAIN list : S(j) = top} \subseteq 0 .. Len(list)
    BY <1>1
  <2>2. {j \in DOMAIN list : S(j) = top} # {}
    BY <1>4
  <2> QED
    BY <1>1, <2>1, <2>2, GreatestOf
<1>6. ASSUME NEW j \in DOMAIN list PROVE S(j) < S(i) \/ (S(j) = S(i) /\ j <= i)
  <2>1. S(j) \in Nat /\ S(i) \in Nat /\ S(i) = top
    BY <1>2, <1>3, <1>5
  <2>2. S(j) <= top
    BY <1>4
  <2>3. S(j) = top => j <= i
    BY <1>5
  <2> QED
    BY <2>1, <2>2, <2>3
<1>7. i \in BestOf(list, asked)
  BY <1>5, <1>6 DEF S, BestOf, IsBest
<1> QED
  BY <1>7, BestIsForemost

\* The best snapshot of a list that grew is the new one, unless it scores less than the old best.
LEMMA BestOfAppend ==
  ASSUME NEW list \in Seq(Snapshot), NEW s \in Snapshot, NEW asked \in SUBSET Bookmaker,
         NEW i \in BestOf(list, asked)
  PROVE  BestOf(Append(list, s), asked) =
           IF Score(s, asked) >= Score(list[i], asked) THEN {Len(list) + 1} ELSE {i}
<1> DEFINE longer == Append(list, s)
           n == Len(list) + 1
           S(j) == Score(longer[j], asked)
<1>1. /\ longer \in Seq(Snapshot)
      /\ DOMAIN longer = DOMAIN list \cup {n} /\ DOMAIN list = 1 .. Len(list)
      /\ Len(list) \in Nat
      /\ longer[n] = s /\ \A j \in DOMAIN list : longer[j] = list[j]
  OBVIOUS
<1>2. \A j \in DOMAIN longer : S(j) \in Nat
  BY <1>1, ScoreType, FS_CardinalityType, BookmakerAssumption
<1>3. /\ i \in DOMAIN list
      /\ \A j \in DOMAIN list : S(j) < S(i) \/ (S(j) = S(i) /\ j <= i)
  BY <1>1 DEF BestOf, IsBest
<1>4. S(n) = Score(s, asked) /\ S(i) = Score(list[i], asked)
  BY <1>1, <1>3
<1>5. \A k \in DOMAIN longer :
        k \in BestOf(longer, asked)
          <=> \A j \in DOMAIN longer : S(j) < S(k) \/ (S(j) = S(k) /\ j <= k)
  BY DEF BestOf, IsBest
<1>6. BestOf(longer, asked) \subseteq DOMAIN longer
  BY DEF BestOf
<1> HIDE DEF S, longer
<1>7. CASE S(n) >= S(i)
  <2>1. \A j \in DOMAIN longer : S(j) < S(n) \/ (S(j) = S(n) /\ j <= n)
    BY <1>1, <1>2, <1>3, <1>7
  <2>2. n \in BestOf(longer, asked)
    BY <1>1, <1>5, <2>1
  <2> QED
    BY <1>1, <1>4, <1>7, <2>2, BestIsForemost DEF longer
<1>8. CASE ~(S(n) >= S(i))
  <2>1. \A j \in DOMAIN longer : S(j) < S(i) \/ (S(j) = S(i) /\ j <= i)
    BY <1>1, <1>2, <1>3, <1>8
  <2>2. i \in BestOf(longer, asked)
    BY <1>1, <1>3, <1>5, <2>1
  <2> QED
    BY <1>1, <1>4, <1>8, <2>2, BestIsForemost DEF longer
<1> QED
  BY <1>7, <1>8

\* o names each bookmaker's newest usable row of the list.
Right(list, o) ==
  \A b \in Tracked :
    /\ o[b] # 0 => o[b] \in DOMAIN list /\ b \in list[o[b]].priced
    /\ \A i \in DOMAIN list : b \in list[i].priced => i <= o[b]

\* Computing the observations of a list yields the newest usable rows.
LEMMA ObservationsRight ==
  ASSUME NEW list \in Seq(Snapshot)
  PROVE  /\ Observations(list) \in [Tracked -> Nat]
         /\ Right(list, Observations(list))
<1> DEFINE Found(b) == {i \in DOMAIN list : b \in list[i].priced}
<1>1. DOMAIN list = 1 .. Len(list) /\ Len(list) \in Nat
  OBVIOUS
<1>2. ASSUME NEW b \in Tracked
      PROVE  /\ Observations(list)[b] = IF Found(b) = {} THEN 0 ELSE Newest(Found(b))
             /\ Found(b) # {} => /\ Newest(Found(b)) \in Found(b)
                                /\ \A i \in Found(b) : i <= Newest(Found(b))
  <2>1. Found(b) \subseteq 0 .. Len(list)
    BY <1>1
  <2>2. Observations(list)[b] = IF Found(b) = {} THEN 0 ELSE Newest(Found(b))
    BY DEF Observations
  <2> HIDE DEF Found
  <2>3. Found(b) # {} => \E i \in Found(b) : \A j \in Found(b) : j <= i
    BY <1>1, <2>1, GreatestOf
  <2>4. Found(b) # {} => /\ Newest(Found(b)) \in Found(b)
                        /\ \A i \in Found(b) : i <= Newest(Found(b))
    BY <2>3 DEF Newest
  <2> QED
    BY <2>2, <2>4
<1>3. ASSUME NEW b \in Tracked PROVE Observations(list)[b] \in Nat
  <2>1. \A i \in Found(b) : i \in Nat
    BY <1>1
  <2> HIDE DEF Found
  <2> QED
    BY <1>2, <2>1
<1>4. Observations(list) \in [Tracked -> Nat]
  BY <1>3 DEF Observations
<1>5. Right(list, Observations(list))
  BY <1>1, <1>2 DEF Right
<1> QED
  BY <1>4, <1>5

\* Without snapshots there is nothing to observe.
LEMMA NothingRight == Right(<<>>, Nothing)
  BY DEF Right, Nothing

-----------------------------------------------------------------------------
(* Type correctness.                                                       *)

\* The best of a list are positions of it.
LEMMA BestType ==
  ASSUME NEW list \in Seq(Snapshot), NEW asked
  PROVE  BestOf(list, asked) \subseteq Nat
  BY DEF BestOf

\* What Save(g) does, with the snapshot it saves.
Saved(g, s) ==
  /\ repair.pc = "idle"
  /\ s \in Snapshot /\ s.required = required
  /\ snapshots' = [snapshots EXCEPT ![g] = Append(snapshots[g], s)]
  /\ final' = [final EXCEPT ![g] =
       IF Promoted(s, final[g], snapshots[g])
         THEN {Len(snapshots[g]) + 1} ELSE final[g]]
  /\ observed' = [observed EXCEPT ![g] = Observations(Append(snapshots[g], s))]
  /\ used' = [used EXCEPT !.saves = @ + 1]
  /\ UNCHANGED <<required, repair>>

\* Saving is what Saved says, for one of the snapshots.
LEMMA SaveSaves ==
  ASSUME TypeOK, NEW g \in Group, Save(g)
  PROVE  \E s \in Snapshot : Saved(g, s)
<1>1. PICK s \in Snapshot :
        LET list == Append(snapshots[g], s)
        IN  /\ s.required = required
            /\ snapshots' = [snapshots EXCEPT ![g] = list]
            /\ final' = [final EXCEPT ![g] =
                 IF Promoted(s, @, snapshots[g]) THEN FlagMoved(@, Len(list)) ELSE @]
            /\ observed' = [observed EXCEPT ![g] = Observations(list)]
  BY DEF Save
<1>2. snapshots[g] \in Seq(Snapshot)
  BY DEF TypeOK
<1>3. Len(Append(snapshots[g], s)) = Len(snapshots[g]) + 1
  BY <1>2
<1>4. final' = [final EXCEPT ![g] =
        IF Promoted(s, final[g], snapshots[g]) THEN {Len(snapshots[g]) + 1} ELSE final[g]]
  BY <1>1, <1>3 DEF FlagMoved
<1> QED
  BY <1>1, <1>4 DEF Saved, Save

\* The bounds of the model count.
Counts == [saves: Nat, repairs: Nat, faults: Nat, changes: Nat]

\* One more of anything counted is still a count.
LEMMA CountType ==
  ASSUME NEW u \in Counts
  PROVE  /\ [u EXCEPT !.saves = @ + 1] \in Counts
         /\ [u EXCEPT !.repairs = @ + 1] \in Counts
         /\ [u EXCEPT !.faults = @ + 1] \in Counts
         /\ [u EXCEPT !.changes = @ + 1] \in Counts
<1>1. [u EXCEPT !.saves = @ + 1] \in Counts
  BY DEF Counts
<1>2. [u EXCEPT !.repairs = @ + 1] \in Counts
  BY DEF Counts
<1>3. [u EXCEPT !.faults = @ + 1] \in Counts
  BY DEF Counts
<1>4. [u EXCEPT !.changes = @ + 1] \in Counts
  BY DEF Counts
<1> QED
  BY <1>1, <1>2, <1>3, <1>4

\* Work that is done leaves a repair a repair.
LEMMA TodoType ==
  ASSUME NEW r \in Repair, NEW gone
  PROVE  [r EXCEPT !.todo = @ \ gone] \in Repair
  BY DEF Repair

\* Every step keeps the types.
LEMMA TypeStep ==
  ASSUME TypeOK, [Next]_vars
  PROVE  TypeOK'
<1>0. used \in Counts /\ repair \in Repair
  BY DEF TypeOK, Counts
<1>1. ASSUME NEW g \in Group, Save(g) PROVE TypeOK'
  <2>1. PICK s \in Snapshot : Saved(g, s)
    BY <1>1, SaveSaves
  <2>2. /\ snapshots[g] \in Seq(Snapshot)
        /\ Append(snapshots[g], s) \in Seq(Snapshot)
        /\ Len(snapshots[g]) + 1 \in Nat
    BY DEF TypeOK
  <2>3. Observations(Append(snapshots[g], s)) \in [Tracked -> Nat]
    BY <2>2, ObservationsRight
  <2>4. snapshots' \in [Group -> Seq(Snapshot)]
    BY <2>1, <2>2 DEF Saved, TypeOK
  <2>5. final' \in [Group -> SUBSET Nat]
    BY <2>1, <2>2 DEF Saved, TypeOK
  <2>6. observed' \in [Group -> [Tracked -> Nat]]
    BY <2>1, <2>3 DEF Saved, TypeOK
  <2>7. used' \in Counts
    BY <1>0, <2>1, CountType DEF Saved
  <2> QED
    BY <2>1, <2>4, <2>5, <2>6, <2>7 DEF Saved, TypeOK, Counts
<1>2. ASSUME NEW g \in Group, Rebuild(g) PROVE TypeOK'
  <2>1. Observations(snapshots[g]) \in [Tracked -> Nat]
    BY ObservationsRight DEF TypeOK
  <2>2. observed' \in [Group -> [Tracked -> Nat]]
    BY <1>2, <2>1 DEF Rebuild, TypeOK
  <2>3. repair' \in Repair
    BY <1>0, <1>2, TodoType DEF Rebuild, NoRepair, Repair
  <2> QED
    BY <1>2, <2>2, <2>3 DEF Rebuild, TypeOK
<1>3. ASSUME BeginRepair PROVE TypeOK'
  <2>1. final' \in [Group -> SUBSET Nat] /\ repair' \in Repair
    BY <1>3 DEF BeginRepair, Repair, Captured
  <2>2. used' \in Counts
    BY <1>0, <1>3, CountType DEF BeginRepair
  <2> QED
    BY <1>3, <2>1, <2>2 DEF BeginRepair, TypeOK, Counts
<1>4. ASSUME FlagChunk PROVE TypeOK'
  <2>1. \A g \in Group : BestOf(snapshots[g], Asked) \subseteq Nat
    BY BestType DEF TypeOK
  <2>2. final' \in [Group -> SUBSET Nat]
    BY <1>4, <2>1 DEF FlagChunk, TypeOK
  <2>3. repair' \in Repair
    BY <1>0, <1>4, TodoType DEF FlagChunk
  <2> QED
    BY <1>4, <2>2, <2>3 DEF FlagChunk, TypeOK
<1>5. ASSUME DeleteObservations PROVE TypeOK'
  <2>1. observed' \in [Group -> [Tracked -> Nat]] /\ repair' \in Repair
    BY <1>5 DEF DeleteObservations, Nothing, Repair, Captured
  <2> QED
    BY <1>5, <2>1 DEF DeleteObservations, TypeOK
<1>6. ASSUME CutRepair PROVE TypeOK'
  <2>1. used' \in Counts
    BY <1>0, <1>6, CountType DEF CutRepair
  <2>2. repair' \in Repair
    BY <1>6 DEF CutRepair, NoRepair, Repair
  <2> QED
    BY <1>6, <2>1, <2>2 DEF CutRepair, TypeOK, Counts
<1>7. ASSUME Reconfigure PROVE TypeOK'
  <2>1. used' \in Counts
    BY <1>0, <1>7, CountType DEF Reconfigure
  <2>2. required' \in SUBSET Bookmaker
    BY <1>7, BookmakerAssumption DEF Reconfigure
  <2> QED
    BY <1>7, <2>1, <2>2 DEF Reconfigure, TypeOK, Counts
<1>8. ASSUME UNCHANGED vars PROVE TypeOK'
  BY <1>8 DEF vars, TypeOK
<1> QED
  BY <1>1, <1>2, <1>3, <1>4, <1>5, <1>6, <1>7, <1>8 DEF Next

\* The initial state has them.
LEMMA TypeInit == Init => TypeOK
  BY BookmakerAssumption DEF Init, TypeOK, Nothing, NoRepair, Repair

\* In every reachable state the variables have their types.
THEOREM TypeCorrect == Spec => []TypeOK
  BY TypeInit, TypeStep, PTL DEF Spec

-----------------------------------------------------------------------------
(* One final snapshot.                                                     *)

\* A save moves the flag, a repair sets it where the best snapshot is, of which there is one.
LEMMA AtMostOneStep ==
  ASSUME TypeOK, AtMostOneFinal, [Next]_vars
  PROVE  AtMostOneFinal'
<1>1. ASSUME NEW g \in Group, Save(g) PROVE AtMostOneFinal'
  <2>1. PICK s \in Snapshot : Saved(g, s)
    BY <1>1, SaveSaves
  <2>2. ASSUME NEW h \in Group
        PROVE  final'[h] = final[h] \/ final'[h] = {Len(snapshots[g]) + 1}
    BY <2>1 DEF Saved, TypeOK
  <2> QED
    BY <2>2 DEF AtMostOneFinal
<1>2. ASSUME FlagChunk PROVE AtMostOneFinal'
  <2>1. ASSUME NEW h \in Group
        PROVE  final'[h] = final[h] \/ final'[h] = BestOf(snapshots[h], Asked)
    BY <1>2 DEF FlagChunk
  <2>2. Asked \in SUBSET Bookmaker
    BY BookmakerAssumption DEF TypeOK, Asked
  <2>3. ASSUME NEW h \in Group, NEW i \in BestOf(snapshots[h], Asked)
        PROVE  BestOf(snapshots[h], Asked) = {i}
    <3>1. snapshots[h] \in Seq(Snapshot)
      BY DEF TypeOK
    <3> QED
      BY <2>2, <3>1, BestIsForemost
  <2> QED
    BY <2>1, <2>3 DEF AtMostOneFinal
<1>3. ASSUME BeginRepair PROVE AtMostOneFinal'
  BY <1>3 DEF BeginRepair, AtMostOneFinal
<1>4. ASSUME UNCHANGED final PROVE AtMostOneFinal'
  BY <1>4 DEF AtMostOneFinal
<1> QED
  BY <1>1, <1>2, <1>3, <1>4
     DEF Next, vars, Rebuild, DeleteObservations, CutRepair, Reconfigure

\* No market of a match ever has two final snapshots, whatever is saved, repaired, cut off or
\* reconfigured, in whichever order.
THEOREM OneFinal == Spec => []AtMostOneFinal
<1>1. Init => AtMostOneFinal
  BY DEF Init, AtMostOneFinal
<1> QED
  BY <1>1, TypeInit, TypeStep, AtMostOneStep, PTL DEF Spec

-----------------------------------------------------------------------------
(* The final odds of each bookmaker.                                       *)

\* A match is without final odds only between the delete of the repair and its own turn, or
\* since a repair that was cut off there.
ObservedInv ==
  \A g \in Group :
    \/ Right(snapshots[g], observed[g])
    \/ /\ observed[g] = Nothing
       /\ IF repair.pc = "rebuild" THEN g \in repair.todo ELSE used.faults > 0

\* Every step keeps the observations right, or accounted for.
LEMMA ObservedStep ==
  ASSUME TypeOK, ObservedInv, [Next]_vars
  PROVE  ObservedInv'
<1> DEFINE Good(g) ==
      \/ Right(snapshots[g], observed[g])
      \/ /\ observed[g] = Nothing
         /\ IF repair.pc = "rebuild" THEN g \in repair.todo ELSE used.faults > 0
<1>1. ASSUME NEW g \in Group, Save(g) PROVE ObservedInv'
  <2>1. PICK s \in Snapshot : Saved(g, s)
    BY <1>1, SaveSaves
  <2>2. snapshots[g] \in Seq(Snapshot) /\ Append(snapshots[g], s) \in Seq(Snapshot)
    BY DEF TypeOK
  <2>3. Right(snapshots'[g], observed'[g])
    BY <2>1, <2>2, ObservationsRight DEF Saved, TypeOK
  <2>4. used'.faults = used.faults /\ repair' = repair
    BY <2>1 DEF Saved, TypeOK
  <2>5. ASSUME NEW h \in Group, h # g
        PROVE  snapshots'[h] = snapshots[h] /\ observed'[h] = observed[h]
    BY <2>1, <2>5 DEF Saved, TypeOK
  <2> QED
    BY <2>3, <2>4, <2>5 DEF ObservedInv
<1>2. ASSUME NEW g \in Group, Rebuild(g) PROVE ObservedInv'
  <2>1. Right(snapshots'[g], observed'[g])
    <3>1. snapshots[g] \in Seq(Snapshot)
      BY DEF TypeOK
    <3> QED
      BY <1>2, <3>1, ObservationsRight DEF Rebuild, TypeOK
  <2>2. ASSUME NEW h \in Group, h # g PROVE Good(h)'
    <3>1. snapshots'[h] = snapshots[h] /\ observed'[h] = observed[h]
      BY <1>2, <2>2 DEF Rebuild, TypeOK
    <3>2. CASE h \in repair.todo
      <4>1. repair' = [repair EXCEPT !.todo = @ \ {g}]
        BY <1>2, <2>2, <3>2 DEF Rebuild
      <4>2. repair'.pc = "rebuild" /\ h \in repair'.todo
        BY <1>2, <2>2, <3>2, <4>1 DEF Rebuild, TypeOK, Repair
      <4> QED
        BY <3>1, <4>2 DEF ObservedInv
    <3>3. CASE h \notin repair.todo
      BY <1>2, <3>1, <3>3 DEF Rebuild, ObservedInv
    <3> QED
      BY <3>2, <3>3
  <2> QED
    BY <2>1, <2>2 DEF ObservedInv
<1>3. ASSUME BeginRepair PROVE ObservedInv'
  BY <1>3 DEF BeginRepair, ObservedInv, TypeOK
<1>4. ASSUME FlagChunk PROVE ObservedInv'
  <2>1. repair.pc = "flag" /\ repair'.pc = "flag"
    BY <1>4 DEF FlagChunk, TypeOK, Repair
  <2> QED
    BY <1>4, <2>1 DEF FlagChunk, ObservedInv
<1>5. ASSUME DeleteObservations PROVE ObservedInv'
  <2>1. ASSUME NEW g \in Group, g \notin Captured PROVE Right(snapshots[g], Nothing)
    BY <2>1, NothingRight DEF Captured
  <2> QED
    BY <1>5, <2>1 DEF DeleteObservations, ObservedInv
<1>6. ASSUME CutRepair PROVE ObservedInv'
  <2>1. used'.faults > 0 /\ repair'.pc = "idle"
    BY <1>6 DEF CutRepair, TypeOK, NoRepair
  <2> QED
    BY <1>6, <2>1 DEF CutRepair, ObservedInv
<1>7. ASSUME Reconfigure PROVE ObservedInv'
  BY <1>7 DEF Reconfigure, ObservedInv, TypeOK
<1>8. ASSUME UNCHANGED vars PROVE ObservedInv'
  BY <1>8 DEF vars, ObservedInv
<1> QED
  BY <1>1, <1>2, <1>3, <1>4, <1>5, <1>6, <1>7, <1>8 DEF Next

\* Before the first snapshot there is nothing to observe.
LEMMA ObservedInit == Init => ObservedInv
  BY NothingRight DEF Init, ObservedInv

\* The final odds of Bwin and of Unibet are their newest usable rows, each on its own, except
\* where a repair has deleted them and not yet got to rebuild them.
THEOREM NewestObserved == Spec => []ObservationsAreNewest
<1>1. ObservedInv => ObservationsAreNewest
  BY DEF ObservedInv, ObservationsAreNewest, Right
<1> QED
  BY <1>1, TypeInit, TypeStep, ObservedInit, ObservedStep, PTL DEF Spec

-----------------------------------------------------------------------------
(* The final snapshot.                                                     *)

\* Without changed settings, every snapshot was asked for what is required now.
SameRequirement ==
  used.changes = 0
    => \A g \in Group : \A i \in DOMAIN snapshots[g] : snapshots[g][i].required = required

\* Between repairs the flag is on the best snapshot, unless settings changed, a repair was cut
\* off or nothing is required.  During one it is, once it is set again.
FinalInv ==
  \A g \in Group :
    IF repair.pc = "idle"
      THEN used.faults = 0 /\ used.changes = 0 /\ required # {}
             => final[g] = BestOf(snapshots[g], required)
      ELSE final[g] = IF repair.pc = "flag" /\ g \in repair.todo
                        THEN {} ELSE BestOf(snapshots[g], Asked)

\* A snapshot is saved with the requirement of its time, which only a restart changes.
LEMMA SameStep ==
  ASSUME TypeOK, SameRequirement, [Next]_vars
  PROVE  SameRequirement'
<1>1. ASSUME NEW g \in Group, Save(g) PROVE SameRequirement'
  <2>1. PICK s \in Snapshot : Saved(g, s)
    BY <1>1, SaveSaves
  <2>2. used'.changes = used.changes /\ required' = required /\ s.required = required
    BY <2>1 DEF Saved, TypeOK
  <2>3. ASSUME used.changes = 0, NEW h \in Group, NEW i \in DOMAIN snapshots'[h]
        PROVE  snapshots'[h][i].required = required
    <3>1. CASE h = g
      <4>1. snapshots'[g] = Append(snapshots[g], s) /\ snapshots[g] \in Seq(Snapshot)
        BY <2>1 DEF Saved, TypeOK
      <4>2. snapshots'[g][i] = s \/ (i \in DOMAIN snapshots[g] /\ snapshots'[g][i] = snapshots[g][i])
        BY <2>3, <3>1, <4>1
      <4> QED
        BY <2>2, <2>3, <3>1, <4>2 DEF SameRequirement
    <3>2. CASE h # g
      <4>1. snapshots'[h] = snapshots[h]
        BY <2>1, <3>2 DEF Saved, TypeOK
      <4> QED
        BY <2>3, <4>1 DEF SameRequirement
    <3> QED
      BY <3>1, <3>2
  <2> QED
    BY <2>2, <2>3 DEF SameRequirement
<1>2. ASSUME Reconfigure PROVE SameRequirement'
  <2>1. used'.changes # 0
    BY <1>2 DEF Reconfigure, TypeOK
  <2> QED
    BY <2>1 DEF SameRequirement
<1>3. ASSUME UNCHANGED <<snapshots, required>>, used'.changes = used.changes
      PROVE  SameRequirement'
  BY <1>3 DEF SameRequirement
<1>4. ASSUME BeginRepair PROVE UNCHANGED <<snapshots, required>> /\ used'.changes = used.changes
  BY <1>4 DEF BeginRepair, TypeOK
<1>5. ASSUME CutRepair PROVE UNCHANGED <<snapshots, required>> /\ used'.changes = used.changes
  BY <1>5 DEF CutRepair, TypeOK
<1> QED
  BY <1>1, <1>2, <1>3, <1>4, <1>5 DEF Next, vars, Rebuild, FlagChunk, DeleteObservations

\* A save promotes exactly the snapshots that become the best, a repair flags the best.
LEMMA FinalStep ==
  ASSUME TypeOK, SameRequirement, FinalInv, [Next]_vars
  PROVE  FinalInv'
<1> USE DEF Asked
<1>1. ASSUME NEW g \in Group, Save(g) PROVE FinalInv'
  <2>1. PICK s \in Snapshot : Saved(g, s)
    BY <1>1, SaveSaves
  <2>2. /\ repair.pc = "idle" /\ repair' = repair /\ required' = required
        /\ used'.faults = used.faults /\ used'.changes = used.changes
        /\ required \in SUBSET Bookmaker
    BY <2>1 DEF Saved, TypeOK
  <2>3. SUFFICES ASSUME used.faults = 0, used.changes = 0, required # {}, NEW h \in Group
                 PROVE  final'[h] = BestOf(snapshots'[h], required)
    BY <2>2 DEF FinalInv
  <2>4. final[h] = BestOf(snapshots[h], required)
    BY <2>2, <2>3 DEF FinalInv
  <2>5. CASE h # g
    BY <2>1, <2>4, <2>5 DEF Saved, TypeOK
  <2>6. CASE h = g
    <3> DEFINE list == snapshots[g]
    <3>1. /\ list \in Seq(Snapshot)
          /\ snapshots'[g] = Append(list, s)
          /\ final'[g] = IF Promoted(s, final[g], list) THEN {Len(list) + 1} ELSE final[g]
          /\ s.required = required
      BY <2>1 DEF Saved, TypeOK
    <3> HIDE DEF list
    <3>2. CASE list = <<>>
      <4>1. final[g] = {}
        BY <2>4, <2>6, <3>2 DEF BestOf, list
      <4>2. final'[g] = {1}
        BY <3>1, <3>2, <4>1 DEF Promoted
      <4>3. Append(list, s) # <<>> /\ Append(list, s) \in Seq(Snapshot)
            /\ DOMAIN Append(list, s) = {1}
        BY <3>1, <3>2
      <4>4. BestOf(Append(list, s), required) = {1}
        BY <2>2, <4>3, BestExists
      <4> QED
        BY <2>6, <3>1, <4>2, <4>4
    <3>3. CASE list # <<>>
      <4>1. PICK i \in DOMAIN list : BestOf(list, required) = {i}
        BY <2>2, <3>1, <3>3, BestExists
      <4>2. final[g] = {i}
        BY <2>4, <2>6, <4>1 DEF list
      <4>3. list[i].required = required
        BY <2>3 DEF SameRequirement, list
      <4>4. Promoted(s, final[g], list) <=> Score(s, required) >= Score(list[i], required)
        BY <2>3, <3>1, <4>2, <4>3 DEF Promoted
      <4>5. BestOf(Append(list, s), required) =
              IF Score(s, required) >= Score(list[i], required) THEN {Len(list) + 1} ELSE {i}
        <5>1. i \in BestOf(list, required) /\ list \in Seq(Snapshot) /\ s \in Snapshot
          BY <2>1, <3>1, <4>1
        <5> QED
          BY <2>2, <5>1, BestOfAppend
      <4>6. final'[h] = final'[g] /\ snapshots'[h] = Append(list, s)
        BY <2>6, <3>1
      <4>7. CASE Score(s, required) >= Score(list[i], required)
        <5>1. final'[g] = {Len(list) + 1}
          BY <3>1, <4>4, <4>7
        <5> QED
          BY <4>5, <4>6, <4>7, <5>1
      <4>8. CASE ~(Score(s, required) >= Score(list[i], required))
        <5>1. final'[g] = {i}
          BY <3>1, <4>2, <4>4, <4>8
        <5> QED
          BY <4>5, <4>6, <4>8, <5>1
      <4> QED
        BY <4>7, <4>8
    <3> QED
      BY <3>2, <3>3
  <2> QED
    BY <2>5, <2>6
<1>2. ASSUME NEW g \in Group, Rebuild(g) PROVE FinalInv'
  <2>1. /\ repair.pc = "rebuild" /\ repair'.pc \in {"idle", "rebuild"}
        /\ UNCHANGED <<snapshots, final, required, used>>
    BY <1>2 DEF Rebuild, NoRepair, TypeOK, Repair
  <2> QED
    BY <2>1 DEF FinalInv
<1>3. ASSUME BeginRepair PROVE FinalInv'
  <2>1. ASSUME NEW g \in Group, g \notin Captured PROVE BestOf(snapshots[g], Asked) = {}
    BY <2>1 DEF Captured, BestOf
  <2> QED
    BY <1>3, <2>1 DEF BeginRepair, FinalInv
<1>4. ASSUME FlagChunk PROVE FinalInv'
  <2>1. PICK chunk \in SUBSET repair.todo :
          /\ final' = [g \in Group |->
                         IF g \in chunk THEN BestOf(snapshots[g], Asked) ELSE final[g]]
          /\ repair' = [repair EXCEPT !.todo = @ \ chunk]
    BY <1>4 DEF FlagChunk
  <2>2. repair.pc = "flag" /\ repair'.pc = "flag" /\ repair'.todo = repair.todo \ chunk
    BY <1>4, <2>1 DEF FlagChunk, TypeOK, Repair
  <2> QED
    BY <1>4, <2>1, <2>2 DEF FlagChunk, FinalInv
<1>5. ASSUME DeleteObservations PROVE FinalInv'
  BY <1>5 DEF DeleteObservations, FinalInv
<1>6. ASSUME CutRepair PROVE FinalInv'
  <2>1. used'.faults # 0 /\ repair'.pc = "idle"
    BY <1>6 DEF CutRepair, TypeOK, NoRepair
  <2> QED
    BY <2>1 DEF FinalInv
<1>7. ASSUME Reconfigure PROVE FinalInv'
  <2>1. used'.changes # 0 /\ repair'.pc = "idle"
    BY <1>7 DEF Reconfigure, TypeOK
  <2> QED
    BY <2>1 DEF FinalInv
<1>8. ASSUME UNCHANGED vars PROVE FinalInv'
  BY <1>8 DEF vars, FinalInv
<1> QED
  BY <1>1, <1>2, <1>3, <1>4, <1>5, <1>6, <1>7, <1>8 DEF Next

\* Before the first snapshot there is none to flag.
LEMMA FinalInit == Init => SameRequirement /\ FinalInv
  BY DEF Init, SameRequirement, FinalInv, NoRepair, BestOf

\* Snapshot by snapshot, saving keeps the flag where a look at all snapshots would put it: on
\* the richest in required bookmakers, and the newest of those.
THEOREM SavingFindsBest == Spec => []FinalIsBest
<1>1. ASSUME TypeOK, FinalInv PROVE FinalIsBest
  <2>0. SUFFICES ASSUME used.faults = 0, used.changes = 0, required # {}, repair.pc = "idle",
                      NEW g \in Captured
               PROVE  \E i \in DOMAIN snapshots[g] :
                        final[g] = {i} /\ Foremost(snapshots[g], required, i)
    BY DEF FinalIsBest
  <2>1. /\ g \in Group /\ snapshots[g] # <<>> /\ snapshots[g] \in Seq(Snapshot)
        /\ required \in SUBSET Bookmaker
    BY <1>1 DEF Captured, TypeOK
  <2>2. final[g] = BestOf(snapshots[g], required)
    BY <1>1, <2>0, <2>1 DEF FinalInv
  <2> QED
    BY <2>1, <2>2, BestExists
<1> QED
  BY <1>1, TypeInit, TypeStep, FinalInit, SameStep, FinalStep, PTL DEF Spec

-----------------------------------------------------------------------------
(* The end of a repair.                                                    *)

\* Whatever went wrong before it, a repair that ends leaves every match with its best snapshot
\* as the final one and with all the odds its bookmakers have.
THEOREM RepairRepairs == Spec => RepairRestores
<1> DEFINE Ends == repair.pc = "rebuild" /\ repair'.pc = "idle" /\ used' = used
           Restored == \A g \in Captured :
             /\ \E i \in DOMAIN snapshots[g] :
                  final'[g] = {i} /\ Foremost(snapshots[g], Asked, i)
             /\ \A b \in Tracked, i \in DOMAIN snapshots[g] :
                  b \in snapshots[g][i].priced => observed'[g][b] >= i
<1>1. ASSUME TypeOK, ObservedInv, FinalInv, [Next]_vars, Ends PROVE Restored
  <2> SUFFICES ASSUME NEW g \in Captured
      PROVE  /\ \E i \in DOMAIN snapshots[g] :
                  final'[g] = {i} /\ Foremost(snapshots[g], Asked, i)
             /\ \A b \in Tracked, i \in DOMAIN snapshots[g] :
                  b \in snapshots[g][i].priced => observed'[g][b] >= i
    OBVIOUS
  <2>1. /\ g \in Group /\ snapshots[g] # <<>> /\ snapshots[g] \in Seq(Snapshot)
        /\ Asked \in SUBSET Bookmaker
    BY <1>1, BookmakerAssumption DEF Captured, TypeOK, Asked
  <2>2. PICK h \in Group : Rebuild(h)
    <3>1. used.faults \in Nat
      BY <1>1 DEF TypeOK
    <3> QED
      BY <1>1, <3>1 DEF Next, vars, Save, BeginRepair, FlagChunk, DeleteObservations,
                        CutRepair, Reconfigure, TypeOK
  <2>3. repair.todo = {h}
    BY <1>1, <2>2 DEF Rebuild, TypeOK, Repair
  <2>4. final'[g] = BestOf(snapshots[g], Asked)
    BY <1>1, <2>1, <2>2 DEF Rebuild, FinalInv
  <2>5. Right(snapshots[g], observed'[g]) /\ observed'[g] \in [Tracked -> Nat]
    <3>1. CASE g = h
      <4>1. observed'[g] = Observations(snapshots[g])
        BY <1>1, <2>1, <2>2, <3>1 DEF Rebuild, TypeOK
      <4> QED
        BY <2>1, <4>1, ObservationsRight
    <3>2. CASE g # h
      <4>1. observed'[g] = observed[g]
        BY <1>1, <2>1, <2>2, <3>2 DEF Rebuild, TypeOK
      <4>2. Right(snapshots[g], observed[g])
        BY <1>1, <2>1, <2>3, <3>2 DEF ObservedInv
      <4>3. observed[g] \in [Tracked -> Nat]
        BY <1>1, <2>1 DEF TypeOK
      <4> QED
        BY <4>1, <4>2, <4>3
    <3> QED
      BY <3>1, <3>2
  <2>6. \A i \in DOMAIN snapshots[g] : i \in Nat
    BY <2>1
  <2>7. \A b \in Tracked, i \in DOMAIN snapshots[g] :
          b \in snapshots[g][i].priced => observed'[g][b] >= i
    BY <2>5, <2>6 DEF Right
  <2> QED
    BY <2>1, <2>4, <2>7, BestExists
<1> HIDE DEF Ends, Restored
<1>2. TypeOK /\ ObservedInv /\ FinalInv /\ [Next]_vars => [Ends => Restored]_vars
  BY <1>1
<1> USE DEF Ends, Restored
<1> QED
  BY <1>2, TypeInit, TypeStep, ObservedInit, ObservedStep, FinalInit, SameStep, FinalStep, PTL
     DEF Spec, RepairRestores

=============================================================================
