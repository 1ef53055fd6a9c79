--------------------------- MODULE HistoricalProofs ---------------------------
(* What the index finds, what becomes of the rows of a file, and what is     *)
(* stored and planned whenever jobs, sources, failures and restarts overlap: *)
(* for any matches, jobs and files.                                          *)
EXTENDS HistoricalDataset, FiniteSetTheorems, WellFoundedInduction, TLAPS

-----------------------------------------------------------------------------
(* Matching.                                                               *)

\* Two odds have the same normal form when their prices are the same in cents.
LEMMA NormalSame ==
  ASSUME NEW odds, NEW r
  PROVE  Normal(r.odds) = Normal(odds) <=> \A b \in Bookmaker : IsExact(odds, r, b)
<1>1. ASSUME Normal(r.odds) = Normal(odds), NEW b \in Bookmaker, NEW s \in Side
      PROVE  Same(odds, r, b, s)
  <2>1. Normal(r.odds)[b][s] = Normal(odds)[b][s]
    BY <1>1
  <2> QED
    BY <2>1 DEF Normal, Same
<1>2. ASSUME \A b \in Bookmaker : IsExact(odds, r, b)
      PROVE  Normal(r.odds) = Normal(odds)
  BY <1>2 DEF Normal, IsExact, Same
<1> QED
  BY <1>1, <1>2 DEF IsExact

\* The exact matches of the index are all records that differ nowhere.
LEMMA ExactIsPromised ==
  ASSUME NEW odds, NEW rs
  PROVE  ExactRecords(odds, Index(rs)) = PromisedExact(odds, rs)
<1>1. Lookup(Index(rs).exact, Normal(odds)) = {r \in rs : Normal(r.odds) = Normal(odds)}
  <2> DEFINE keys == {Normal(r.odds) : r \in rs}
             f == [k \in keys |-> {r \in rs : Normal(r.odds) = k}]
  <2>1. Index(rs).exact = f
    BY DEF Index
  <2>2. Normal(odds) \notin keys => {r \in rs : Normal(r.odds) = Normal(odds)} = {}
    OBVIOUS
  <2> QED
    BY <2>1, <2>2 DEF Lookup
<1>2. ASSUME NEW r PROVE IsExactSix(odds, r) <=> Differences(odds, r) = {}
  <2>1. \A b \in Bookmaker, s \in Side :
          <<b, s>> \in Differences(odds, r) <=> ~Same(odds, r, b, s)
    BY DEF Differences
  <2>2. \A p \in Differences(odds, r) : \E b \in Bookmaker, s \in Side : p = <<b, s>>
    BY DEF Differences
  <2>3. IsExactSix(odds, r) => Differences(odds, r) = {}
    <3>1. ASSUME IsExactSix(odds, r), NEW p \in Differences(odds, r) PROVE FALSE
      <4>1. PICK b \in Bookmaker, s \in Side : p = <<b, s>>
        BY <2>2, <3>1
      <4>2. ~Same(odds, r, b, s)
        BY <2>1, <3>1, <4>1
      <4> QED
        BY <3>1, <4>2 DEF IsExactSix, IsExact
    <3> QED
      BY <3>1
  <2>4. ASSUME Differences(odds, r) = {} PROVE IsExactSix(odds, r)
    <3>1. \A b \in Bookmaker, s \in Side : Same(odds, r, b, s)
      BY <2>1, <2>4
    <3> QED
      BY <3>1 DEF IsExactSix, IsExact
  <2> QED
    BY <2>3, <2>4
<1>3. \A r \in rs : IsExactSix(odds, r) => Normal(r.odds) = Normal(odds)
  BY NormalSame DEF IsExactSix
<1> QED
  BY <1>1, <1>2, <1>3 DEF ExactRecords, PromisedExact

\* Odds that differ in one draw price only meet under a key.
LEMMA OneDrawMeets ==
  ASSUME NEW odds, NEW r, IsOneDraw(odds, r)
  PROVE  \E k \in OneDrawKeys(odds) : k \in OneDrawKeys(r.odds)
<1>1. PICK b \in Bookmaker : DrawDiffers(odds, r, b) /\ IsExact(odds, r, Other(b))
  BY DEF IsOneDraw
<1>2. Other(b) \in Bookmaker
  BY DEF Bookmaker, Other
<1>3. Normal(odds)[b]["home"] = Normal(r.odds)[b]["home"] /\ Normal(odds)[b]["away"] = Normal(r.odds)[b]["away"]
  BY <1>1 DEF DrawDiffers, Same, Normal, Side
<1>4. Normal(odds)[Other(b)] = Normal(r.odds)[Other(b)]
  BY <1>1, <1>2 DEF IsExact, Same, Normal
<1>5. OneDrawKey(odds, b) = OneDrawKey(r.odds, b)
  BY <1>3, <1>4 DEF OneDrawKey
<1> QED
  BY <1>5 DEF OneDrawKeys

\* A match up to one draw price is one whose only difference is a draw price.
LEMMA OneDrawIsOneDifference ==
  ASSUME NEW odds, NEW r
  PROVE  IsOneDraw(odds, r) <=> \E b \in Bookmaker : Differences(odds, r) = {<<b, "draw">>}
<1>1. ASSUME NEW b \in Bookmaker
      PROVE  DrawDiffers(odds, r, b) /\ IsExact(odds, r, Other(b))
               <=> Differences(odds, r) = {<<b, "draw">>}
  <2>1. \A c \in Bookmaker, s \in Side :
          <<c, s>> \in Differences(odds, r) <=> ~Same(odds, r, c, s)
    BY DEF Differences
  <2>2. Differences(odds, r) \subseteq Bookmaker \X Side
    BY DEF Differences
  <2>3. \A c \in Bookmaker : c = b \/ c = Other(b)
    BY DEF Bookmaker, Other
  <2>4. Other(b) \in Bookmaker /\ Other(b) # b
    BY DEF Bookmaker, Other
  <2>5. ASSUME DrawDiffers(odds, r, b) /\ IsExact(odds, r, Other(b))
        PROVE  Differences(odds, r) = {<<b, "draw">>}
    <3>1. \A c \in Bookmaker, s \in Side : ~Same(odds, r, c, s) <=> c = b /\ s = "draw"
      BY <2>3, <2>4, <2>5 DEF DrawDiffers, IsExact, Side
    <3>2. <<b, "draw">> \in Bookmaker \X Side
      BY DEF Side
    <3> QED
      BY <2>1, <2>2, <3>1, <3>2
  <2>6. ASSUME Differences(odds, r) = {<<b, "draw">>}
        PROVE  DrawDiffers(odds, r, b) /\ IsExact(odds, r, Other(b))
    <3>1. \A c \in Bookmaker, s \in Side : ~Same(odds, r, c, s) <=> c = b /\ s = "draw"
      BY <2>1, <2>6
    <3> QED
      BY <2>4, <3>1 DEF DrawDiffers, IsExact, Side
  <2> QED
    BY <2>5, <2>6
<1> QED
  BY <1>1 DEF IsOneDraw

\* The one-draw matches of the index are all records whose only difference is a draw price.
LEMMA OneDrawIsPromised ==
  ASSUME NEW odds, NEW rs
  PROVE  OneDrawRecords(odds, Index(rs)) = PromisedOneDraw(odds, rs)
<1>1. ASSUME NEW k
      PROVE  Lookup(Index(rs).one_draw, k) = {r \in rs : k \in OneDrawKeys(r.odds)}
  <2> DEFINE keys == UNION {OneDrawKeys(r.odds) : r \in rs}
             f == [x \in keys |-> {r \in rs : x \in OneDrawKeys(r.odds)}]
  <2>1. Index(rs).one_draw = f
    BY DEF Index
  <2>2. k \notin keys => {r \in rs : k \in OneDrawKeys(r.odds)} = {}
    OBVIOUS
  <2> QED
    BY <2>1, <2>2 DEF Lookup
<1>2. ASSUME NEW r
      PROVE  r \in OneDrawRecords(odds, Index(rs)) <=> r \in rs /\ IsOneDraw(odds, r)
  BY <1>1, OneDrawMeets DEF OneDrawRecords
<1> QED
  BY <1>2, OneDrawIsOneDifference DEF PromisedOneDraw

\* For all records, prices and roundings to cents, the index finds exactly the records the
\* board promises: none is hidden under another key, none is found that differs elsewhere.
THEOREM MatchingExact == Spec => []MatchingIsExact
<1>1. MatchingIsExact
  BY ExactIsPromised, OneDrawIsPromised DEF MatchingIsExact
<1> QED
  BY <1>1, PTL

-----------------------------------------------------------------------------
(* The rows of a table.                                                    *)

\* A set of naturals has a least element, and a greatest one if it is bounded.
LEMMA LeastAndGreatest ==
  ASSUME NEW S \in SUBSET Nat, S # {}
  PROVE  /\ \E x \in S : \A y \in S : x <= y
         /\ \A b \in Nat : (\A y \in S : y <= b) => \E x \in S : \A y \in S : y <= x
<1>1. ASSUME NEW T \in SUBSET Nat, T # {} PROVE \E x \in T : \A y \in T : x <= y
  <2>1. PICK x \in T : \A y \in T : ~(<<y, x>> \in OpToRel(<, Nat))
    BY <1>1, NatLessThanWellFounded, WFMin
  <2>2. \A y \in T : ~(y < x)
    BY <1>1, <2>1 DEF OpToRel
  <2> QED
    BY <1>1, <2>2
<1>2. ASSUME NEW b \in Nat, \A y \in S : y <= b
      PROVE  \E x \in S : \A y \in S : y <= x
  <2> DEFINE T == {b - y : y \in S}
  <2>1. T \in SUBSET Nat /\ T # {}
    <3>1. \A y \in S : b - y \in Nat
      BY <1>2
    <3> QED
      BY <3>1
  <2>2. PICK d \in T : \A e \in T : d <= e
    BY <1>1, <2>1
  <2>3. PICK x \in S : d = b - x
    OBVIOUS
  <2>4. \A y \in S : b - x <= b - y
    BY <2>2, <2>3
  <2>5. \A y \in S : y <= x
    BY <1>2, <2>4
  <2> QED
    BY <2>5
<1> QED
  BY <1>1, <1>2

\* Counting the elements below one of them numbers a finite set of naturals from 0 up.
LEMMA Numbering ==
  ASSUME NEW R \in SUBSET Nat, IsFiniteSet(R)
  PROVE  LET A(i) == Cardinality({k \in R : k < i})
         IN  /\ Cardinality(R) \in Nat
             /\ \A i \in R : A(i) \in Nat /\ A(i) < Cardinality(R)
             /\ \A i, j \in R : A(i) = A(j) => i = j
             /\ \A i \in R : A(i) + 1 < Cardinality(R) => \E j \in R : A(j) = A(i) + 1
             /\ \A i \in R : A(i) > 0 => \E j \in R : A(j) + 1 = A(i)
<1> DEFINE B(i) == {k \in R : k < i}
           A(i) == Cardinality(B(i))
<1>0. \A k \in R : k \in Nat
  OBVIOUS
<1>1. Cardinality(R) \in Nat
  BY FS_CardinalityType
<1>2. \A i : IsFiniteSet(B(i)) /\ A(i) \in Nat /\ A(i) <= Cardinality(R)
  <2> TAKE i
  <2>1. B(i) \in SUBSET R
    OBVIOUS
  <2>2. IsFiniteSet(B(i)) /\ A(i) <= Cardinality(R)
    BY <2>1, FS_Subset
  <2> QED
    BY <2>2, FS_CardinalityType
<1>3. ASSUME NEW i \in R
      PROVE  /\ IsFiniteSet(B(i) \cup {i}) /\ Cardinality(B(i) \cup {i}) = A(i) + 1
             /\ A(i) < Cardinality(R)
  <2>1. i \notin B(i) /\ B(i) \cup {i} \in SUBSET R
    OBVIOUS
  <2>2. IsFiniteSet(B(i) \cup {i}) /\ Cardinality(B(i) \cup {i}) = A(i) + 1
    <3> HIDE DEF B
    <3> QED
      BY <1>2, <2>1, FS_AddElement
  <2>3. Cardinality(B(i) \cup {i}) <= Cardinality(R)
    <3> HIDE DEF B
    <3> QED
      BY <2>1, FS_Subset
  <2> QED
    BY <1>1, <1>2, <2>2, <2>3
<1>4. ASSUME NEW i \in R, NEW j \in R, i < j PROVE A(i) < A(j)
  <2>1. B(i) \cup {i} \in SUBSET B(j)
    <3>1. \A k \in R : k < i => k < j
      BY <1>0, <1>4
    <3> QED
      BY <1>4, <3>1
  <2>2. Cardinality(B(i) \cup {i}) <= A(j)
    <3> HIDE DEF B
    <3> QED
      BY <1>2, <2>1, FS_Subset
  <2> HIDE DEF B
  <2> QED
    BY <1>2, <1>3, <2>2
<1>5. ASSUME NEW i \in R, A(i) + 1 < Cardinality(R) PROVE \E j \in R : A(j) = A(i) + 1
  <2> DEFINE S == {k \in R : k > i}
  <2>1. S # {}
    <3>1. S = {} => B(i) \cup {i} = R
      <4>1. \A k \in R : k < i \/ k = i \/ k > i
        BY <1>0
      <4>2. \A k \in R : k \in B(i) \/ k = i \/ k \in S
        BY <4>1
      <4> HIDE DEF S
      <4> QED
        BY <4>2
    <3> HIDE DEF S, B
    <3> QED
      BY <1>1, <1>2, <1>3, <1>5, <3>1
  <2>2. PICK j \in S : \A k \in S : j <= k
    <3>1. S \in SUBSET Nat
      BY <1>0
    <3> HIDE DEF S
    <3> QED
      BY <2>1, <3>1, LeastAndGreatest
  <2>3. B(j) = B(i) \cup {i}
    <3>1. \A k \in R : k < j <=> k < i \/ k = i
      BY <1>0, <2>2
    <3> QED
      BY <3>1
  <2>4. A(j) = A(i) + 1
    <3> HIDE DEF B
    <3> QED
      BY <1>3, <2>3
  <2> QED
    BY <2>4
<1>6. ASSUME NEW i \in R, A(i) > 0 PROVE \E j \in R : A(j) + 1 = A(i)
  <2>1. B(i) # {} /\ B(i) \in SUBSET Nat /\ \A k \in B(i) : k <= i /\ i \in Nat
    <3>1. B(i) # {}
      <4> HIDE DEF B
      <4> QED
        BY <1>6, FS_EmptySet
    <3>2. \A k \in R : k < i => k <= i
      BY <1>0
    <3> QED
      BY <1>0, <3>1, <3>2
  <2>2. PICK j \in B(i) : \A k \in B(i) : k <= j
    <3> HIDE DEF B
    <3> QED
      BY <2>1, LeastAndGreatest
  <2>3. j \in R /\ B(i) = B(j) \cup {j}
    <3>1. \A k \in R : k < i <=> k < j \/ k = j
      BY <1>0, <2>2
    <3> QED
      BY <2>2, <3>1
  <2>4. A(i) = A(j) + 1
    <3> HIDE DEF B
    <3> QED
      BY <1>3, <2>3
  <2> QED
    BY <2>3, <2>4
<1>7. \A i, j \in R : A(i) = A(j) => i = j
  <2> TAKE i, j \in R
  <2>1. i < j \/ j < i \/ i = j
    BY <1>0
  <2>2. i < j => A(i) < A(j)
    BY <1>4
  <2>3. j < i => A(j) < A(i)
    BY <1>4
  <2>4. A(i) \in Nat /\ A(j) \in Nat
    BY <1>2
  <2> HIDE DEF A
  <2> QED
    BY <2>1, <2>2, <2>3, <2>4
<1>8. \A i \in R : A(i) \in Nat /\ A(i) < Cardinality(R)
  <2> HIDE DEF B
  <2> QED
    BY <1>2, <1>3
<1>9. /\ \A i \in R : A(i) + 1 < Cardinality(R) => \E j \in R : A(j) = A(i) + 1
      /\ \A i \in R : A(i) > 0 => \E j \in R : A(j) + 1 = A(i)
  <2> HIDE DEF A
  <2> QED
    BY <1>5, <1>6
<1> QED
  BY <1>1, <1>7, <1>8, <1>9

\* The rows with odds are numbered by those above them.
LEMMA OddsNumbered ==
  ASSUME NEW t, NEW n \in Nat, DOMAIN t = 1 .. n
  PROVE  /\ Cardinality(OddsRows(t)) \in Nat
         /\ \A i \in OddsRows(t) : Above(t, i) \in Nat /\ Above(t, i) < Cardinality(OddsRows(t))
         /\ \A i, j \in OddsRows(t) : Above(t, i) = Above(t, j) => i = j
         /\ \A i \in OddsRows(t) : Above(t, i) + 1 < Cardinality(OddsRows(t))
              => \E j \in OddsRows(t) : Above(t, j) = Above(t, i) + 1
         /\ \A i \in OddsRows(t) : Above(t, i) > 0
              => \E j \in OddsRows(t) : Above(t, j) + 1 = Above(t, i)
<1> DEFINE R == OddsRows(t)
<1>1. R \in SUBSET (1 .. n) /\ R \in SUBSET Nat
  BY DEF OddsRows
<1>2. IsFiniteSet(R)
  BY <1>1, FS_Interval, FS_Subset
<1> HIDE DEF R
<1>3. LET A(i) == Cardinality({k \in R : k < i})
      IN  /\ Cardinality(R) \in Nat
          /\ \A i \in R : A(i) \in Nat /\ A(i) < Cardinality(R)
          /\ \A i, j \in R : A(i) = A(j) => i = j
          /\ \A i \in R : A(i) + 1 < Cardinality(R) => \E j \in R : A(j) = A(i) + 1
          /\ \A i \in R : A(i) > 0 => \E j \in R : A(j) + 1 = A(i)
  BY <1>1, <1>2, Numbering
<1> QED
  BY <1>3 DEF R, Above

\* No row is in two blocks.
LEMMA BlocksDisjoint ==
  ASSUME NEW t, NEW n \in Nat, DOMAIN t = 1 .. n,
         NEW p \in Blocks(t), NEW q \in Blocks(t), NEW i, i \in {p[1], p[2]}, i \in {q[1], q[2]}
  PROVE  p = q
<1>1. /\ p = <<p[1], p[2]>> /\ q = <<q[1], q[2]>>
      /\ p[1] \in OddsRows(t) /\ p[2] \in OddsRows(t) /\ q[1] \in OddsRows(t) /\ q[2] \in OddsRows(t)
      /\ Above(t, p[1]) % 2 = 0 /\ Above(t, p[2]) = Above(t, p[1]) + 1
      /\ Above(t, q[1]) % 2 = 0 /\ Above(t, q[2]) = Above(t, q[1]) + 1
  BY DEF Blocks
<1>2. /\ \A k \in OddsRows(t) : Above(t, k) \in Nat
      /\ \A j, k \in OddsRows(t) : Above(t, j) = Above(t, k) => j = k
  BY OddsNumbered
<1>3. \A x, y \in Nat : ~(x % 2 = 0 /\ y % 2 = 0 /\ x = y + 1)
  OBVIOUS
<1>4. p[1] # q[2] /\ p[2] # q[1]
  BY <1>1, <1>2, <1>3
<1>5. p[1] = q[1] <=> p[2] = q[2]
  BY <1>1, <1>2
<1>6. p[1] = q[1] /\ p[2] = q[2]
  BY <1>4, <1>5
<1> QED
  BY <1>1, <1>6

\* A row with odds is the first or the second of a block, or the one that is left over.
LEMMA OddsRowsPaired ==
  ASSUME NEW t, NEW n \in Nat, DOMAIN t = 1 .. n, NEW i \in OddsRows(t)
  PROVE  i \in LeftOver(t) \/ \E p \in Blocks(t) : i \in {p[1], p[2]}
<1> DEFINE c == Cardinality(OddsRows(t))
<1>1. /\ c \in Nat /\ Above(t, i) \in Nat /\ Above(t, i) < c
      /\ \A k \in OddsRows(t) : Above(t, k) \in Nat
      /\ Above(t, i) + 1 < c => \E j \in OddsRows(t) : Above(t, j) = Above(t, i) + 1
      /\ Above(t, i) > 0 => \E j \in OddsRows(t) : Above(t, j) + 1 = Above(t, i)
  BY OddsNumbered
<1>2. \A j \in OddsRows(t) :
        /\ Above(t, i) % 2 = 0 /\ Above(t, j) = Above(t, i) + 1 => <<i, j>> \in Blocks(t)
        /\ Above(t, j) % 2 = 0 /\ Above(t, i) = Above(t, j) + 1 => <<j, i>> \in Blocks(t)
  BY DEF Blocks
<1>3. Above(t, i) % 2 = 0 /\ Above(t, i) = c - 1 => i \in LeftOver(t)
  <2>1. \A x \in Nat : x % 2 = 0 => (x + 1) % 2 = 1
    OBVIOUS
  <2> QED
    BY <1>1, <2>1 DEF LeftOver
<1> HIDE DEF c
<1>4. CASE Above(t, i) % 2 = 0
  <2>1. CASE Above(t, i) + 1 < c
    <3>1. PICK j \in OddsRows(t) : Above(t, j) = Above(t, i) + 1
      BY <1>1, <2>1
    <3>2. <<i, j>> \in Blocks(t)
      BY <1>2, <1>4, <3>1
    <3> QED
      BY <3>2
  <2>2. CASE ~(Above(t, i) + 1 < c)
    BY <1>1, <1>3, <1>4, <2>2
  <2> QED
    BY <2>1, <2>2
<1>5. CASE Above(t, i) % 2 # 0
  <2>1. \A x \in Nat : x % 2 # 0 => x > 0
    OBVIOUS
  <2>2. PICK j \in OddsRows(t) : Above(t, j) + 1 = Above(t, i)
    BY <1>1, <1>5, <2>1
  <2>3. \A x, y \in Nat : x % 2 # 0 /\ y + 1 = x => y % 2 = 0
    OBVIOUS
  <2>4. Above(t, j) % 2 = 0
    BY <1>1, <1>5, <2>2, <2>3
  <2>5. <<j, i>> \in Blocks(t)
    BY <1>1, <1>2, <2>2, <2>4
  <2> QED
    BY <2>5
<1> QED
  BY <1>4, <1>5

\* A row of scores below a block belongs to one.
LEMMA ScoresOwned ==
  ASSUME NEW t, NEW n \in Nat, DOMAIN t = 1 .. n, NEW i \in ScoreOnlyRows(t), BlocksAbove(t, i) # {}
  PROVE  Owner(t, i) \in Blocks(t) /\ i \in OutcomeRows(t, Owner(t, i))
<1> DEFINE S == {p[2] : p \in BlocksAbove(t, i)}
<1>1. i \in Nat /\ \A p \in BlocksAbove(t, i) : p[2] \in Nat /\ p[2] < i
  BY DEF ScoreOnlyRows, BlocksAbove, Blocks, OddsRows
<1>2. S # {} /\ S \in SUBSET Nat /\ \A k \in S : k <= i
  BY <1>1
<1>3. PICK k \in S : \A l \in S : l <= k
  <2> HIDE DEF S
  <2> QED
    BY <1>1, <1>2, LeastAndGreatest
<1>4. PICK p \in BlocksAbove(t, i) : p[2] = k
  OBVIOUS
<1>5. \A q \in BlocksAbove(t, i) : q[2] <= p[2]
  BY <1>3, <1>4
<1>6. Owner(t, i) \in BlocksAbove(t, i)
  BY <1>5 DEF Owner
<1> QED
  BY <1>6 DEF BlocksAbove, OutcomeRows

\* Every row of every table is accounted for: an empty row or a remark, a row whose odds or
\* score are used, of one block at most, or a row that a warning names.
LEMMA RowsFit ==
  ASSUME NEW t, NEW n \in Nat, DOMAIN t = 1 .. n, NEW i \in DOMAIN t
  PROVE  RowAccounted(t, i)
<1>1. ASSUME NEW p \in Uses(t, i), NEW q \in Uses(t, i) PROVE p = q
  <2>1. p \in Blocks(t) /\ q \in Blocks(t) /\ i \in OutcomeRows(t, p) /\ i \in OutcomeRows(t, q)
    BY DEF Uses
  <2>2. CASE i \in OddsRows(t)
    <3>1. i \notin ScoreOnlyRows(t)
      BY <2>2 DEF OddsRows, ScoreOnlyRows
    <3>2. i \in {p[1], p[2]} /\ i \in {q[1], q[2]}
      BY <2>1, <3>1 DEF OutcomeRows
    <3> QED
      BY <2>1, <3>2, BlocksDisjoint
  <2>3. CASE i \notin OddsRows(t)
    <3>1. i \notin {p[1], p[2]} /\ i \notin {q[1], q[2]}
      BY <2>1, <2>3 DEF Blocks
    <3> QED
      BY <2>1, <3>1 DEF OutcomeRows
  <2> QED
    BY <2>2, <2>3
<1>2. Cardinality(Uses(t, i)) <= 1
  <2>1. CASE Uses(t, i) = {}
    BY <2>1, FS_EmptySet
  <2>2. CASE Uses(t, i) # {}
    <3>1. PICK p : Uses(t, i) = {p}
      BY <1>1, <2>2
    <3>2. Cardinality({p}) = 1
      BY FS_Singleton
    <3>3. Cardinality(Uses(t, i)) = 1
      BY <3>1, <3>2
    <3> QED
      BY <3>3
  <2> QED
    BY <2>1, <2>2
<1>3. ASSUME Unused(t, i), ~IsEmpty(Cells(t[i])), ~IsMetadata(Cells(t[i]))
      PROVE  i \in Warnings(t) \/ \E p \in Blocks(t) : p[1] = i /\ p[2] \in Warnings(t)
  <2>1. CASE i \in OddsRows(t)
    <3>1. CASE i \in LeftOver(t)
      BY <3>1 DEF Warnings
    <3>2. CASE \E p \in Blocks(t) : i \in {p[1], p[2]}
      <4>1. PICK p \in Blocks(t) : i \in {p[1], p[2]}
        BY <3>2
      <4>2. OutcomeRows(t, p) = {}
        BY <1>3, <4>1 DEF Unused
      <4>3. p[2] \in Warnings(t)
        BY <4>2 DEF Warnings
      <4> QED
        BY <4>1, <4>3
    <3> QED
      BY <2>1, <3>1, <3>2, OddsRowsPaired
  <2>2. CASE i \in ScoreOnlyRows(t)
    <3>1. CASE BlocksAbove(t, i) = {}
      BY <2>2, <3>1 DEF Warnings
    <3>2. CASE BlocksAbove(t, i) # {}
      <4>1. PICK p \in Blocks(t) : i \in OutcomeRows(t, p)
        BY <2>2, <3>2, ScoresOwned
      <4> QED
        BY <1>3, <4>1 DEF Unused
    <3> QED
      BY <3>1, <3>2
  <2>3. CASE i \notin OddsRows(t) /\ i \notin ScoreOnlyRows(t)
    <3>1. i \in UnparsedRows(t)
      BY <1>3, <2>3 DEF OddsRows, ScoreOnlyRows, UnparsedRows
    <3> QED
      BY <3>1 DEF Warnings
  <2> QED
    BY <2>1, <2>2, <2>3
<1> QED
  BY <1>2, <1>3 DEF RowAccounted

-----------------------------------------------------------------------------
(* The rows of a match.                                                    *)

\* Signals are made from some of the records, and name their match.
LEMMA RowsFromRecords ==
  ASSUME NEW m, NEW odds, NEW rs, NEW s \in Rows(m, odds, rs)
  PROVE  s.match = m /\ s.from \subseteq rs /\ s.from # {}
<1>1. PICK g \in Groups(odds, Index(rs)), b \in Bookmaker :
        s = [match |-> m, type |-> g.type, dataset |-> g.dataset, bookmaker |-> b,
             current |-> Normal(odds)[b], stats |-> Stats(g.records), from |-> g.records]
  BY DEF Rows
<1>2. s.match = m /\ s.from = g.records
  BY <1>1
<1>3. ExactRecords(odds, Index(rs)) \subseteq rs
  BY ExactIsPromised DEF PromisedExact
<1>4. OneDrawRecords(odds, Index(rs)) \subseteq rs
  BY OneDrawIsPromised DEF PromisedOneDraw
<1>5. g.records \subseteq rs /\ g.records # {}
  <2>1. ASSUME NEW e, e \subseteq rs, NEW h \in ExactGroups(e)
        PROVE  h.records \subseteq rs /\ h.records # {}
    <3>1. \E d \in Dataset : h.records = From(e, d) /\ From(e, d) # {}
      <4>1. CASE From(e, "Odds") # {}
        <5>1. h = [type |-> "exact_odds", dataset |-> {"Odds"}, records |-> From(e, "Odds")]
          BY <4>1 DEF ExactGroups
        <5>2. h.records = From(e, "Odds")
          BY <5>1
        <5> QED
          BY <4>1, <5>2 DEF Dataset
      <4>2. CASE From(e, "Odds") = {}
        <5>1. PICK d \in {x \in {"Usable Odds"} : From(e, x) # {}} :
                h = [type |-> "exact_odds", dataset |-> {d}, records |-> From(e, d)]
          BY <4>2 DEF ExactGroups
        <5> QED
          BY <5>1 DEF Dataset
      <4> QED
        BY <4>1, <4>2
    <3> QED
      BY <2>1, <3>1 DEF From
  <2>2. ASSUME NEW o, o \subseteq rs, NEW h \in OneDrawGroups(o)
        PROVE  h.records \subseteq rs /\ h.records # {}
    BY <2>2 DEF OneDrawGroups
  <2> QED
    BY <1>3, <1>4, <2>1, <2>2 DEF Groups
<1> QED
  BY <1>2, <1>5

\* What recompute_historical_signals makes of a match names it, and comes from the stored records.
LEMMA ExpectedRows ==
  ASSUME NEW m \in Match, NEW s \in Expected(m)
  PROVE  s.match = m /\ s.from \subseteq records /\ s.from # {}
BY RowsFromRecords DEF Expected

-----------------------------------------------------------------------------
(* The inductive invariant.                                                *)

Pc == {"idle", "queued", "look", "activate", "capture", "archive", "recompute", "insert", "finish"}

\* The state of a job or source is a record, whatever the rows are that it has left to insert.
WorkRow(w) ==
  /\ w \in [pc : Pc, upload : Upload \cup {None}, scope : SUBSET Match, found : SUBSET Match,
            todo : {w.todo}]
  /\ w.pc # "insert" => w.todo = {}
  /\ w.pc = "activate" => w.upload # None

Inserting == {a \in Actor : work[a].pc = "insert"}

WorkInv ==
  /\ work = [a \in Actor |-> work[a]]
  /\ \A a \in Actor : WorkRow(work[a])
  /\ \A a, b \in Inserting : a = b

\* The rows that are stored and the rows left are those that the matches in the scope need.
InsertInv ==
  \A a \in Inserting :
    /\ \A s \in work[a].todo : s.match \in work[a].scope
    /\ \A m \in work[a].scope : SignalsOf(m) \cup {s \in work[a].todo : s.match = m} = Expected(m)

\* Everything that is stored or left was made from the records that are stored.
FromInv ==
  /\ \A s \in signals : s.match \in Match /\ s.from # {} /\ s.from \subseteq records
  /\ \A a \in Inserting : \A s \in work[a].todo : s.from \subseteq records

\* A job that stands somewhere is not over, and refreshes every match.
JobInv ==
  \A j \in Job :
    /\ work[j].pc \notin {"idle", "finish"} => job[j].status \in {"pending", "running"}
    /\ work[j].pc \notin {"idle", "queued", "finish"} => work[j].scope = Match
    /\ job[j].kind = "import_zip" => job[j].upload # None

\* The types of everything else.
DataTypes ==
  /\ final \in [Match -> [Bookmaker -> Triple \cup {None}]]
  /\ result \in [Match -> [captured : BOOLEAN, score : Score \cup {None}]]
  /\ \A m \in Match : played[m] # None => played[m].score \in Score /\ played[m].odds \in Odds
  /\ active \in Seq(Upload \cup {"legacy"})
  /\ job \in [Job -> JobRow]
  /\ reader \in {"idle", "empty"}
  /\ missed \in [signals : SUBSET Match, played : SUBSET Match]
  /\ used \in Nat

Inv == DataTypes /\ WorkInv /\ InsertInv /\ FromInv /\ JobInv /\ SignalsAccounted

\* The invariant holds the types of the module.
LEMMA InvTypes == ASSUME Inv PROVE TypeOK
<1>1. Source \subseteq Actor /\ Job \subseteq Actor
  BY DEF Actor
<1> QED
  BY <1>1 DEF Inv, DataTypes, WorkInv, WorkRow, FromInv, TypeOK, Pc

-----------------------------------------------------------------------------
(* What steps keep.                                                        *)

\* A method that has the lock finds no recomputation under way.
LEMMA NobodyInserts == ~Locked => Inserting = {}
BY DEF Locked, Inserting

\* Odds, records and signals are the same.
LEMMA SameData ==
  ASSUME UNCHANGED <<final, records, signals>>
  PROVE  /\ \A m \in Match : Expected(m)' = Expected(m) /\ SignalsOf(m)' = SignalsOf(m)
         /\ StaleSignals' = StaleSignals
<1>1. \A m \in Match : HasFinal(m)' <=> HasFinal(m)
  BY DEF HasFinal
<1>2. \A m \in Match : Expected(m)' = Expected(m) /\ SignalsOf(m)' = SignalsOf(m)
  BY <1>1 DEF Expected, SignalsOf
<1> QED
  BY <1>2 DEF StaleSignals

\* What may become of the record of a job or source that inserts nothing.
LEMMA WorkRows ==
  ASSUME NEW w, WorkRow(w), w.pc # "insert"
  PROVE  /\ WorkRow(Idle) /\ Idle.pc = "idle" /\ Idle.scope = {} /\ Idle.found = {}
         /\ \A p \in Pc \ {"insert", "activate"} : WorkRow([w EXCEPT !.pc = p]) /\ [w EXCEPT !.pc = p].pc = p
         /\ [w EXCEPT !.pc = "queued"].scope = w.scope
  BY DEF WorkRow, Idle, Pc

\* One job or source changes, to something else than inserting.
LEMMA OneWork ==
  ASSUME WorkInv, NEW a \in Actor, NEW w, WorkRow(w), w.pc # "insert",
         work' = [work EXCEPT ![a] = w]
  PROVE  /\ work'[a] = w /\ \A b \in Actor \ {a} : work'[b] = work[b]
         /\ WorkInv' /\ Inserting' = Inserting \ {a}
<1>1. work'[a] = w /\ \A b \in Actor \ {a} : work'[b] = work[b]
  BY DEF WorkInv
<1>2. Inserting' = Inserting \ {a}
  BY <1>1 DEF Inserting
<1>3. work' = [b \in Actor |-> work'[b]]
  BY DEF WorkInv
<1>4. \A b \in Actor : WorkRow(work'[b])
  BY <1>1 DEF WorkInv
<1>5. WorkInv'
  <2>1. \A b \in Actor : WorkRow(work[b])'
    BY <1>4 DEF WorkRow
  <2> QED
    BY <1>2, <1>3, <2>1 DEF WorkInv
<1> QED
  BY <1>1, <1>2, <1>5

\* The same, and odds, records and signals stay: the rows left do, too.
LEMMA Quiet ==
  ASSUME Inv, NEW a \in Actor, NEW w, WorkRow(w), w.pc # "insert",
         work' = [work EXCEPT ![a] = w], UNCHANGED <<final, records, signals>>
  PROVE  /\ WorkInv' /\ InsertInv' /\ FromInv' /\ StaleSignals' = StaleSignals
         /\ work'[a] = w /\ \A b \in Actor \ {a} : work'[b] = work[b]
<1>1. /\ work'[a] = w /\ \A b \in Actor \ {a} : work'[b] = work[b]
      /\ WorkInv' /\ Inserting' = Inserting \ {a}
  BY OneWork DEF Inv
<1>2. /\ \A m \in Match : Expected(m)' = Expected(m) /\ SignalsOf(m)' = SignalsOf(m)
      /\ StaleSignals' = StaleSignals
  BY SameData
<1>3. \A b \in Inserting' : b \in Inserting /\ b \in Actor /\ work'[b] = work[b] /\ work[b].scope \subseteq Match
  BY <1>1 DEF Inserting, Inv, WorkInv, WorkRow
<1>4. InsertInv'
  <2> SUFFICES ASSUME NEW b \in Inserting'
               PROVE  /\ \A s \in work'[b].todo : s.match \in work'[b].scope
                      /\ \A m \in work'[b].scope :
                           SignalsOf(m)' \cup {s \in work'[b].todo : s.match = m} = Expected(m)'
    BY DEF InsertInv
  <2> QED
    BY <1>2, <1>3 DEF Inv, InsertInv
<1>5. FromInv'
  BY <1>3 DEF FromInv, Inv
<1> QED
  BY <1>1, <1>2, <1>4, <1>5

\* Nobody changes place.
LEMMA NobodyMoves ==
  ASSUME Inv, UNCHANGED <<final, records, signals, work>>
  PROVE  WorkInv' /\ InsertInv' /\ FromInv' /\ StaleSignals' = StaleSignals
<1>1. /\ \A m \in Match : Expected(m)' = Expected(m) /\ SignalsOf(m)' = SignalsOf(m)
      /\ StaleSignals' = StaleSignals
  BY SameData
<1>2. Inserting' = Inserting /\ \A b \in Inserting : work[b].scope \subseteq Match
  BY DEF Inserting, Inv, WorkInv, WorkRow
<1>3. WorkInv'
  BY <1>2 DEF WorkInv, WorkRow, Inv
<1>4. InsertInv'
  <2> SUFFICES ASSUME NEW b \in Inserting
               PROVE  /\ \A s \in work[b].todo : s.match \in work[b].scope
                      /\ \A m \in work[b].scope :
                           SignalsOf(m)' \cup {s \in work[b].todo : s.match = m} = Expected(m)'
    BY <1>2 DEF InsertInv
  <2> QED
    BY <1>1, <1>2 DEF Inv, InsertInv
<1>5. FromInv'
  BY <1>2 DEF FromInv, Inv
<1> QED
  BY <1>1, <1>3, <1>4, <1>5

\* Nobody inserts when odds or records change.
LEMMA NobodyLeft ==
  ASSUME Inserting' = {},
         \A s \in signals' : s.match \in Match /\ s.from # {} /\ s.from \subseteq records'
  PROVE  InsertInv' /\ FromInv'
BY DEF InsertInv, FromInv

-----------------------------------------------------------------------------
(* Accounted signals.                                                      *)

\* A source moves, and its matches stay accounted for.
LEMMA SourceAccounted ==
  ASSUME Inv, NEW s \in Source, UNCHANGED job,
         \A b \in Actor \ {s} : work'[b] = work[b],
         \A m \in StaleSignals' :
           /\ m \in StaleSignals \/ m \in work'[s].scope
           /\ m \in work[s].scope => m \in work'[s].scope \cup missed'.signals
           /\ m \in missed.signals => m \in missed'.signals
  PROVE  SignalsAccounted'
<1>1. \A j \in Job : j \in Actor \ {s}
  BY DatasetAssumption DEF Actor
<1>2. \A j \in Job : RecomputeAhead(j) => RecomputeAhead(j)'
  BY <1>1 DEF RecomputeAhead
<1>3. \A x \in Source \ {s} : work'[x] = work[x]
  BY DEF Actor
<1> SUFFICES ASSUME NEW m \in StaleSignals'
             PROVE  \/ m \in missed'.signals
                    \/ \E x \in Source : m \in work'[x].scope
                    \/ \E j \in Job : RecomputeAhead(j)'
  BY DEF SignalsAccounted
<1>4. CASE m \in work'[s].scope
  BY <1>4
<1>5. CASE m \in StaleSignals
  <2>1. \/ m \in missed.signals
        \/ \E x \in Source : m \in work[x].scope
        \/ \E j \in Job : RecomputeAhead(j)
    BY <1>5 DEF Inv, SignalsAccounted
  <2> QED
    BY <1>2, <1>3, <2>1
<1> QED
  BY <1>4, <1>5

\* A job moves: it is still to recompute everything, or was not before, or leaves nothing
\* that is not told.
LEMMA JobAccounted ==
  ASSUME Inv, NEW j \in Job,
         \A b \in Actor \ {j} : work'[b] = work[b],
         \A k \in Job \ {j} : job'[k] = job[k],
         \A m \in StaleSignals' : m \in missed.signals => m \in missed'.signals,
         \/ RecomputeAhead(j)'
         \/ ~RecomputeAhead(j) /\ StaleSignals' \subseteq StaleSignals
         \/ StaleSignals' \subseteq missed'.signals
  PROVE  SignalsAccounted'
<1>1. \A k \in Job \ {j} : RecomputeAhead(k) => RecomputeAhead(k)'
  BY DEF RecomputeAhead, Actor
<1>2. \A s \in Source : work'[s] = work[s]
  BY DatasetAssumption DEF Actor
<1> SUFFICES ASSUME NEW m \in StaleSignals'
             PROVE  \/ m \in missed'.signals
                    \/ \E x \in Source : m \in work'[x].scope
                    \/ \E k \in Job : RecomputeAhead(k)'
  BY DEF SignalsAccounted
<1>3. CASE ~RecomputeAhead(j) /\ StaleSignals' \subseteq StaleSignals
  <2>1. \/ m \in missed.signals
        \/ \E x \in Source : m \in work[x].scope
        \/ \E k \in Job : RecomputeAhead(k)
    BY <1>3 DEF Inv, SignalsAccounted
  <2> QED
    BY <1>1, <1>2, <1>3, <2>1
<1> QED
  BY <1>3

\* Nobody moves, and no signals get stale.
LEMMA StillAccounted ==
  ASSUME Inv, UNCHANGED <<job, work>>, StaleSignals' = StaleSignals, missed'.signals = missed.signals
  PROVE  SignalsAccounted'
BY DEF Inv, SignalsAccounted, RecomputeAhead

-----------------------------------------------------------------------------
(* Maintenance jobs.                                                       *)

\* A job is an actor of its own.
LEMMA JobIsActor ==
  ASSUME Inv, NEW j \in Job
  PROVE  j \in Actor /\ j \notin Source /\ WorkRow(work[j]) /\ job[j] \in JobRow
BY DatasetAssumption DEF Inv, DataTypes, WorkInv, Actor

\* One job changes its row: types and the jobs' part of the invariant.
LEMMA OneJob ==
  ASSUME Inv, NEW j \in Job, NEW row \in JobRow, job' = [job EXCEPT ![j] = row],
         \A b \in Actor \ {j} : work'[b] = work[b],
         work'[j].pc \notin {"idle", "finish"} => row.status \in {"pending", "running"},
         work'[j].pc \notin {"idle", "queued", "finish"} => work'[j].scope = Match,
         row.kind = "import_zip" => row.upload # None
  PROVE  /\ job' \in [Job -> JobRow] /\ job'[j] = row /\ \A k \in Job \ {j} : job'[k] = job[k]
         /\ JobInv'
<1>1. /\ job' \in [Job -> JobRow] /\ job'[j] = row /\ \A k \in Job \ {j} : job'[k] = job[k]
  BY DEF Inv, DataTypes
<1>2. \A k \in Job \ {j} : work'[k] = work[k]
  BY DEF Actor
<1>3. JobInv'
  BY <1>1, <1>2 DEF Inv, JobInv
<1> QED
  BY <1>1, <1>3

\* A source changes: no job does.
LEMMA NoJobMoves ==
  ASSUME Inv, NEW s \in Source, UNCHANGED job, \A b \in Actor \ {s} : work'[b] = work[b]
  PROVE  JobInv'
<1>1. \A k \in Job : work'[k] = work[k]
  BY DatasetAssumption DEF Actor
<1> QED
  BY <1>1 DEF Inv, JobInv

\* The batches stay typed when records get a batch row, or another batch is activated.
LEMMA BatchTypes ==
  ASSUME Inv
  PROVE  /\ WithLegacy \in Seq(Upload \cup {"legacy"})
         /\ \A u \in Upload : <<Content(u)>> \in Seq(Upload \cup {"legacy"})
<1>1. WithLegacy \in Seq(Upload \cup {"legacy"})
  BY DEF WithLegacy, Inv, DataTypes
<1>2. ASSUME NEW u \in Upload PROVE Content(u) \in Upload
  <2>1. \E v \in Upload : Files[v] = Files[u]
    OBVIOUS
  <2> QED
    BY <2>1 DEF Content
<1> QED
  BY <1>1, <1>2

\* create_maintenance_job: a new job is ahead of everything that is stale.
LEMMA CreateJobInv == ASSUME Inv, NEW row \in Request, CreateJob(row) PROVE Inv'
<1>1. PICK j \in Job : /\ job[j] = NoJob
                       /\ job' = [job EXCEPT ![j] = row]
                       /\ work' = [work EXCEPT ![j].pc = "queued"]
  BY DEF CreateJob, Free, Goes
<1>2. /\ row \in JobRow /\ row.status = "pending" /\ (row.kind = "import_zip" => row.upload # None)
      /\ UNCHANGED <<final, result, played, records, active, signals, reader, missed>>
      /\ used' = used + 1
  BY DatasetAssumption DEF CreateJob, Event
<1>3. j \in Actor /\ WorkRow(work[j])
  BY <1>1, JobIsActor
<1>4. work[j].pc # "insert"
  <2>1. job[j].status = "none"
    BY <1>1 DEF NoJob
  <2> QED
    BY <1>1, <2>1 DEF Inv, JobInv
<1> DEFINE w == [work[j] EXCEPT !.pc = "queued"]
<1>5. WorkRow(w) /\ w.pc = "queued"
  BY <1>3, <1>4, WorkRows DEF Pc
<1>6. work' = [work EXCEPT ![j] = w]
  BY <1>1
<1> HIDE DEF w
<1>7. w.pc # "insert"
  BY <1>5
<1>8. /\ WorkInv' /\ InsertInv' /\ FromInv' /\ StaleSignals' = StaleSignals
      /\ work'[j] = w /\ \A b \in Actor \ {j} : work'[b] = work[b]
  BY <1>2, <1>3, <1>5, <1>6, <1>7, Quiet
<1>9. /\ job' \in [Job -> JobRow] /\ job'[j] = row /\ \A k \in Job \ {j} : job'[k] = job[k]
      /\ JobInv'
  BY <1>1, <1>2, <1>5, <1>8, OneJob
<1>10. RecomputeAhead(j)'
  BY <1>2, <1>5, <1>8, <1>9 DEF RecomputeAhead
<1>11. SignalsAccounted'
  BY <1>1, <1>2, <1>8, <1>9, <1>10, JobAccounted
<1>12. DataTypes'
  BY <1>2, <1>9 DEF DataTypes, Inv
<1> QED
  BY <1>8, <1>9, <1>11, <1>12 DEF Inv

\* A job starts with all matches before it.
LEMMA StartJobInv == ASSUME Inv, NEW j \in Job, StartJob(j) PROVE Inv'
<1> DEFINE p == IF job[j].kind # "recompute_signals" THEN "look"
                ELSE IF job[j].archive THEN "archive" ELSE "recompute"
           w == [work[j] EXCEPT !.pc = p, !.scope = Match]
           row == [job[j] EXCEPT !.status = "running"]
<1>1. /\ work[j].pc = "queued" /\ job' = [job EXCEPT ![j] = row]
      /\ work' = [work EXCEPT ![j] = w]
      /\ UNCHANGED <<final, result, played, records, active, signals, reader, missed, used>>
  BY DEF StartJob
<1>2. j \in Actor /\ WorkRow(work[j]) /\ job[j] \in JobRow
  BY JobIsActor
<1>3. p \in {"look", "archive", "recompute"}
  OBVIOUS
<1> HIDE DEF p
<1>4. WorkRow(w) /\ w.pc = p /\ w.scope = Match
  <2>1. p \in Pc \ {"insert", "activate"} /\ Match \in SUBSET Match /\ work[j].pc # "insert"
    BY <1>1, <1>3 DEF Pc
  <2> QED
    BY <1>2, <2>1 DEF WorkRow
<1>5. /\ row \in JobRow /\ row.status = "running"
      /\ row.kind = "import_zip" => row.upload # None
  <2>1. row \in JobRow /\ row.status = "running" /\ row.kind = job[j].kind /\ row.upload = job[j].upload
    BY <1>2 DEF JobRow
  <2> QED
    BY <2>1 DEF Inv, JobInv
<1> HIDE DEF w, row
<1>6. w.pc # "insert" /\ w.pc # "finish"
  BY <1>3, <1>4
<1>7. /\ WorkInv' /\ InsertInv' /\ FromInv' /\ StaleSignals' = StaleSignals
      /\ work'[j] = w /\ \A b \in Actor \ {j} : work'[b] = work[b]
  BY <1>1, <1>2, <1>4, <1>6, Quiet
<1>8. /\ job' \in [Job -> JobRow] /\ job'[j] = row /\ \A k \in Job \ {j} : job'[k] = job[k]
      /\ JobInv'
  BY <1>1, <1>4, <1>5, <1>7, OneJob
<1>9. RecomputeAhead(j)'
  BY <1>5, <1>6, <1>7, <1>8 DEF RecomputeAhead
<1>10. SignalsAccounted'
  BY <1>1, <1>7, <1>8, <1>9, JobAccounted
<1>11. DataTypes'
  BY <1>1, <1>8 DEF DataTypes, Inv
<1> QED
  BY <1>7, <1>8, <1>10, <1>11 DEF Inv

\* import_roots decides on the upload, or that there is nothing to import.
LEMMA LookInv == ASSUME Inv, NEW j \in Job, Look(j) PROVE Inv'
<1>1. /\ work[j].pc = "look"
      /\ UNCHANGED <<final, result, played, records, signals, job, reader, missed, used>>
      /\ active' = WithLegacy
  BY DEF Look
<1>2. j \in Actor /\ WorkRow(work[j]) /\ job[j] \in JobRow
  BY JobIsActor
<1>3. PICK w : /\ work' = [work EXCEPT ![j] = w] /\ WorkRow(w) /\ w.pc \in {"archive", "activate"}
               /\ w.scope = work[j].scope
  <2>1. PICK u \in (IF job[j].kind = "import_zip" THEN {job[j].upload} ELSE Folder) :
          \/ Goes(j, "archive")
          \/ /\ work' = [work EXCEPT ![j].pc = "activate", ![j].upload = u]
             /\ ~(Current(active') = Content(u) \/ Readable(u) = {})
    BY DEF Look
  <2>2. CASE Goes(j, "archive")
    <3> DEFINE w == [work[j] EXCEPT !.pc = "archive"]
    <3>1. work' = [work EXCEPT ![j] = w]
      BY <2>2 DEF Goes
    <3>2. WorkRow(w) /\ w.pc = "archive" /\ w.scope = work[j].scope
      BY <1>1, <1>2 DEF WorkRow, Pc
    <3> QED
      BY <3>1, <3>2
  <2>3. CASE work' = [work EXCEPT ![j].pc = "activate", ![j].upload = u]
    <3> DEFINE w == [work[j] EXCEPT !.pc = "activate", !.upload = u]
    <3>1. work' = [work EXCEPT ![j] = w]
      BY <2>3
    <3>2. u \in Upload /\ u # None
      BY <1>2, DatasetAssumption DEF JobRow, Inv, JobInv
    <3>3. WorkRow(w) /\ w.pc = "activate" /\ w.scope = work[j].scope
      BY <1>1, <1>2, <3>2 DEF WorkRow, Pc
    <3> QED
      BY <3>1, <3>3
  <2> QED
    BY <2>1, <2>2, <2>3
<1>4. w.pc \notin {"insert", "idle", "queued", "finish"}
  BY <1>3
<1>5. /\ WorkInv' /\ InsertInv' /\ FromInv' /\ StaleSignals' = StaleSignals
      /\ work'[j] = w /\ \A b \in Actor \ {j} : work'[b] = work[b]
  BY <1>1, <1>2, <1>3, <1>4, Quiet
<1>6. job[j].status \in {"pending", "running"} /\ work[j].scope = Match
  BY <1>1 DEF Inv, JobInv
<1>7. JobInv'
  <2>1. \A k \in Job \ {j} : work'[k] = work[k]
    BY <1>5 DEF Actor
  <2> QED
    BY <1>1, <1>3, <1>5, <1>6, <2>1 DEF Inv, JobInv
<1>8. RecomputeAhead(j)'
  BY <1>1, <1>4, <1>5, <1>6 DEF RecomputeAhead
<1>9. SignalsAccounted'
  BY <1>1, <1>5, <1>8, JobAccounted
<1>10. DataTypes'
  BY <1>1, BatchTypes DEF DataTypes, Inv
<1> QED
  BY <1>5, <1>7, <1>9, <1>10 DEF Inv

\* replace_active_historical_dataset: records and signals change together.
LEMMA ActivateInv == ASSUME Inv, NEW j \in Job, Activate(j) PROVE Inv'
<1> DEFINE w == [work[j] EXCEPT !.pc = "archive", !.upload = None]
<1>1. /\ work[j].pc = "activate" /\ ~Locked /\ work' = [work EXCEPT ![j] = w]
      /\ UNCHANGED <<final, result, played, job, reader, missed, used>>
  BY DEF Activate
<1>2. j \in Actor /\ WorkRow(work[j]) /\ job[j] \in JobRow
  BY JobIsActor
<1>3. WorkRow(w) /\ w.pc = "archive" /\ w.scope = work[j].scope
  BY <1>1, <1>2 DEF WorkRow, Pc
<1> HIDE DEF w
<1>4. w.pc \notin {"insert", "idle", "queued", "finish"}
  BY <1>3
<1>5. /\ WorkInv' /\ Inserting' = {}
      /\ work'[j] = w /\ \A b \in Actor \ {j} : work'[b] = work[b]
  <2>1. WorkInv /\ Inserting = {}
    BY <1>1, NobodyInserts DEF Inv
  <2> QED
    BY <1>1, <1>2, <1>3, <1>4, <2>1, OneWork
<1>6. job[j].status \in {"pending", "running"} /\ work[j].scope = Match
  BY <1>1 DEF Inv, JobInv
<1>7. JobInv'
  <2>1. \A k \in Job \ {j} : work'[k] = work[k]
    BY <1>5 DEF Actor
  <2> QED
    BY <1>1, <1>3, <1>5, <1>6, <2>1 DEF Inv, JobInv
<1>8. RecomputeAhead(j)'
  BY <1>1, <1>4, <1>5, <1>6 DEF RecomputeAhead
<1>9. SignalsAccounted'
  BY <1>1, <1>5, <1>8, JobAccounted
<1>10. \/ active' = WithLegacy /\ UNCHANGED <<records, signals>>
       \/ active' = <<Content(work[j].upload)>> /\ signals' = {} /\ work[j].upload \in Upload
  BY <1>1, <1>2 DEF Activate, WorkRow
<1>11. InsertInv' /\ FromInv'
  <2>1. \A s \in signals' : s.match \in Match /\ s.from # {} /\ s.from \subseteq records'
    BY <1>10 DEF Inv, FromInv
  <2> QED
    BY <1>5, <2>1, NobodyLeft
<1>12. active' \in Seq(Upload \cup {"legacy"})
  BY <1>10, BatchTypes
<1>13. DataTypes'
  BY <1>1, <1>12 DEF DataTypes, Inv
<1> QED
  BY <1>5, <1>7, <1>9, <1>11, <1>13 DEF Inv

\* The job is over: it has recomputed all before.
LEMMA FinishJobInv == ASSUME Inv, NEW j \in Job, FinishJob(j) PROVE Inv'
<1> DEFINE row == [job[j] EXCEPT !.status = "completed"]
<1>1. /\ work[j].pc = "finish" /\ job' = [job EXCEPT ![j] = row]
      /\ work' = [work EXCEPT ![j] = Idle]
      /\ UNCHANGED <<final, result, played, records, active, signals, reader, missed, used>>
  BY DEF FinishJob
<1>2. j \in Actor /\ WorkRow(work[j]) /\ job[j] \in JobRow
  BY JobIsActor
<1>3. WorkRow(Idle) /\ Idle.pc = "idle"
  BY <1>1, <1>2, WorkRows
<1>4. row \in JobRow /\ (row.kind = "import_zip" => row.upload # None)
  <2>1. row \in JobRow /\ row.kind = job[j].kind /\ row.upload = job[j].upload
    BY <1>2 DEF JobRow
  <2> QED
    BY <2>1 DEF Inv, JobInv
<1> HIDE DEF row
<1>5. /\ WorkInv' /\ InsertInv' /\ FromInv' /\ StaleSignals' = StaleSignals
      /\ work'[j] = Idle /\ \A b \in Actor \ {j} : work'[b] = work[b]
  <2>1. Idle.pc # "insert"
    BY <1>3
  <2> QED
    BY <1>1, <1>2, <1>3, <2>1, Quiet
<1>6. /\ job' \in [Job -> JobRow] /\ job'[j] = row /\ \A k \in Job \ {j} : job'[k] = job[k]
      /\ JobInv'
  BY <1>1, <1>3, <1>4, <1>5, OneJob
<1>7. ~RecomputeAhead(j)
  BY <1>1 DEF RecomputeAhead
<1>8. SignalsAccounted'
  BY <1>1, <1>5, <1>6, <1>7, JobAccounted
<1>9. DataTypes'
  BY <1>1, <1>6 DEF DataTypes, Inv
<1> QED
  BY <1>5, <1>6, <1>8, <1>9 DEF Inv

-----------------------------------------------------------------------------
(* Archive and signals.                                                    *)

\* What is archived has a score and the odds of all bookmakers.
LEMMA ArchivedTyped ==
  ASSUME Inv, NEW ms, played' = Archived(ms), NEW m \in Match, played'[m] # None
  PROVE  played'[m].score \in Score /\ played'[m].odds \in Odds
<1>1. ASSUME PlayedRow(m) # None PROVE PlayedRow(m).score \in Score /\ PlayedRow(m).odds \in Odds
  <2>1. /\ result[m].score # None /\ HasFinal(m)
        /\ PlayedRow(m) = [score |-> result[m].score, odds |-> final[m]]
    BY <1>1 DEF PlayedRow
  <2>2. result[m].score \in Score \cup {None}
    BY DEF Inv, DataTypes
  <2>3. final[m] \in [Bookmaker -> Triple \cup {None}] /\ \A b \in Bookmaker : final[m][b] # None
    BY <2>1 DEF Inv, DataTypes, HasFinal
  <2>4. final[m] \in Odds
    BY <2>3 DEF Odds
  <2> QED
    BY <2>1, <2>2, <2>4
<1>2. (played'[m] = PlayedRow(m) /\ PlayedRow(m) # None) \/ played'[m] = played[m]
  BY DEF Archived
<1> QED
  BY <1>1, <1>2 DEF Inv, DataTypes

\* archive_played_matches leaves signals and records alone.
LEMMA ArchivePlayedInv == ASSUME Inv, NEW a \in Actor, ArchivePlayed(a) PROVE Inv'
<1> DEFINE w == [work[a] EXCEPT !.pc = "recompute"]
<1>1. /\ work[a].pc = "archive" /\ work' = [work EXCEPT ![a] = w]
      /\ played' = Archived(work[a].scope)
      /\ missed' = [missed EXCEPT !.played = @ \ work[a].scope]
      /\ UNCHANGED <<final, result, records, active, signals, job, reader, used>>
  BY DEF ArchivePlayed, Goes
<1>2. WorkRow(work[a])
  BY DEF Inv, WorkInv
<1>3. WorkRow(w) /\ w.pc = "recompute" /\ w.scope = work[a].scope
  BY <1>1, <1>2 DEF WorkRow, Pc
<1> HIDE DEF w
<1>4. w.pc \notin {"insert", "idle", "queued", "finish"}
  BY <1>3
<1>5. /\ WorkInv' /\ InsertInv' /\ FromInv' /\ StaleSignals' = StaleSignals
      /\ work'[a] = w /\ \A b \in Actor \ {a} : work'[b] = work[b]
  BY <1>1, <1>3, <1>4, Quiet
<1>6. missed' \in [signals : SUBSET Match, played : SUBSET Match] /\ missed'.signals = missed.signals
  BY <1>1 DEF Inv, DataTypes
<1>7. JobInv' /\ SignalsAccounted'
  <2>1. CASE a \in Job
    <3>1. job[a].status \in {"pending", "running"} /\ work[a].scope = Match
      BY <1>1, <2>1 DEF Inv, JobInv
    <3>2. \A k \in Job \ {a} : work'[k] = work[k]
      BY <1>5 DEF Actor
    <3>3. JobInv'
      BY <1>1, <1>3, <1>5, <2>1, <3>1, <3>2 DEF Inv, JobInv
    <3>4. RecomputeAhead(a)'
      BY <1>1, <1>4, <1>5, <3>1 DEF RecomputeAhead
    <3> QED
      BY <1>1, <1>5, <1>6, <2>1, <3>3, <3>4, JobAccounted
  <2>2. CASE a \in Source
    <3>1. JobInv'
      BY <1>1, <1>5, <2>2, NoJobMoves
    <3> QED
      BY <1>1, <1>3, <1>5, <1>6, <2>2, <3>1, SourceAccounted
  <2> QED
    BY <2>1, <2>2 DEF Actor
<1>8. DataTypes'
  BY <1>1, <1>6, ArchivedTyped DEF DataTypes, Inv
<1> QED
  BY <1>5, <1>7, <1>8 DEF Inv

\* The signals of the scope are deleted, and exactly the rows to insert are left.
LEMMA BeginRecomputeInv == ASSUME Inv, NEW a \in Actor, BeginRecompute(a) PROVE Inv'
<1> DEFINE todo == UNION {Expected(m) : m \in work[a].scope}
           w == [work[a] EXCEPT !.pc = "insert", !.todo = todo]
<1>1. /\ work[a].pc = "recompute" /\ ~Locked /\ work' = [work EXCEPT ![a] = w]
      /\ signals' = Kept(work[a].scope)
      /\ UNCHANGED <<final, result, played, records, active, job, reader, missed, used>>
  BY DEF BeginRecompute
<1>2. WorkRow(work[a]) /\ work[a].scope \subseteq Match
  BY DEF Inv, WorkInv, WorkRow
<1>3. \A s \in todo : s.match \in work[a].scope /\ s.from \subseteq records /\ s.from # {}
  BY <1>2, ExpectedRows
<1>4. \A m \in work[a].scope : {s \in todo : s.match = m} = Expected(m)
  BY <1>2, ExpectedRows
<1> HIDE DEF todo
<1>5. WorkRow(w) /\ w.pc = "insert" /\ w.scope = work[a].scope /\ w.todo = todo
  BY <1>1, <1>2 DEF WorkRow, Pc
<1> HIDE DEF w
<1>6. Inserting = {}
  BY <1>1, NobodyInserts
<1>7. /\ work'[a] = w /\ \A b \in Actor \ {a} : work'[b] = work[b]
      /\ work' = [b \in Actor |-> work'[b]]
  BY <1>1 DEF Inv, WorkInv
<1>8. Inserting' = {a}
  BY <1>5, <1>6, <1>7 DEF Inserting
<1>9. WorkInv'
  <2>1. \A b \in Actor : WorkRow(work'[b])
    BY <1>5, <1>7 DEF Inv, WorkInv
  <2>2. \A b \in Actor : WorkRow(work[b])'
    BY <2>1 DEF WorkRow
  <2> QED
    BY <1>7, <1>8, <2>2 DEF WorkInv
<1>10. \A m \in Match : Expected(m)' = Expected(m)
  BY <1>1 DEF Expected, HasFinal
<1>11. InsertInv'
  <2>1. \A m \in work[a].scope : SignalsOf(m)' = {}
    BY <1>1 DEF SignalsOf, Kept
  <2>2. \A m \in work'[a].scope :
          SignalsOf(m)' \cup {s \in work'[a].todo : s.match = m} = Expected(m)'
    BY <1>2, <1>4, <1>5, <1>7, <1>10, <2>1
  <2> QED
    BY <1>3, <1>5, <1>7, <1>8, <2>2 DEF InsertInv
<1>12. FromInv'
  BY <1>1, <1>3, <1>5, <1>7, <1>8 DEF FromInv, Inv, Kept
<1>13. \A m \in StaleSignals' : m \in StaleSignals \/ m \in work[a].scope
  <2>1. \A m \in Match \ work[a].scope : SignalsOf(m)' = SignalsOf(m)
    BY <1>1 DEF SignalsOf, Kept
  <2> QED
    BY <1>10, <2>1 DEF StaleSignals
<1>14. JobInv' /\ SignalsAccounted'
  <2>1. CASE a \in Job
    <3>1. job[a].status \in {"pending", "running"} /\ work[a].scope = Match
      BY <1>1, <2>1 DEF Inv, JobInv
    <3>2. \A k \in Job \ {a} : work'[k] = work[k]
      BY <1>7 DEF Actor
    <3>3. JobInv'
      BY <1>1, <1>5, <1>7, <2>1, <3>1, <3>2 DEF Inv, JobInv
    <3>4. RecomputeAhead(a)'
      BY <1>1, <1>5, <1>7, <3>1 DEF RecomputeAhead
    <3> QED
      BY <1>1, <1>7, <2>1, <3>3, <3>4, JobAccounted
  <2>2. CASE a \in Source
    <3>1. JobInv'
      BY <1>1, <1>7, <2>2, NoJobMoves
    <3> QED
      BY <1>1, <1>5, <1>7, <1>13, <2>2, <3>1, SourceAccounted
  <2> QED
    BY <2>1, <2>2 DEF Actor
<1>15. DataTypes'
  BY <1>1 DEF DataTypes, Inv
<1> QED
  BY <1>9, <1>11, <1>12, <1>14, <1>15 DEF Inv

\* One row moves from those left to those stored.
LEMMA InsertSignalInv == ASSUME Inv, NEW a \in Actor, InsertSignal(a) PROVE Inv'
<1>1. PICK s \in work[a].todo :
        /\ work[a].pc = "insert" /\ signals' = signals \cup {s}
        /\ work' = [work EXCEPT ![a].todo = @ \ {s}]
        /\ UNCHANGED <<final, result, played, records, active, job, reader, missed, used>>
  BY DEF InsertSignal
<1> DEFINE w == [work[a] EXCEPT !.todo = @ \ {s}]
<1>2. WorkRow(work[a]) /\ work[a].scope \subseteq Match /\ Inserting = {a}
  BY <1>1 DEF Inv, WorkInv, WorkRow, Inserting
<1>3. /\ s.match \in work[a].scope /\ s.from \subseteq records
      /\ \A x \in work[a].todo : x.match \in work[a].scope /\ x.from \subseteq records
      /\ \A m \in work[a].scope : SignalsOf(m) \cup {x \in work[a].todo : x.match = m} = Expected(m)
  BY <1>2 DEF Inv, InsertInv, FromInv
<1>4. s.from # {}
  <2>1. s.match \in Match /\ s \in Expected(s.match)
    BY <1>2, <1>3
  <2> QED
    BY <2>1, ExpectedRows
<1>5. WorkRow(w) /\ w.pc = "insert" /\ w.scope = work[a].scope /\ w.todo = work[a].todo \ {s}
  BY <1>1, <1>2 DEF WorkRow, Pc
<1>6. work' = [work EXCEPT ![a] = w]
  BY <1>1
<1> HIDE DEF w
<1>7. /\ work'[a] = w /\ \A b \in Actor \ {a} : work'[b] = work[b]
      /\ work' = [b \in Actor |-> work'[b]]
  BY <1>6 DEF Inv, WorkInv
<1>8. Inserting' = {a}
  BY <1>2, <1>5, <1>7 DEF Inserting
<1>9. WorkInv'
  <2>1. \A b \in Actor : WorkRow(work'[b])
    BY <1>5, <1>7 DEF Inv, WorkInv
  <2>2. \A b \in Actor : WorkRow(work[b])'
    BY <2>1 DEF WorkRow
  <2> QED
    BY <1>7, <1>8, <2>2 DEF WorkInv
<1>10. \A m \in Match : Expected(m)' = Expected(m)
  BY <1>1 DEF Expected, HasFinal
<1>11. InsertInv'
  <2>1. ASSUME NEW m \in work[a].scope
        PROVE  SignalsOf(m)' \cup {x \in w.todo : x.match = m} = Expected(m)'
    <3>1. SignalsOf(m)' = SignalsOf(m) \cup {x \in {s} : x.match = m}
      BY <1>1 DEF SignalsOf
    <3>2. {x \in work[a].todo : x.match = m} = {x \in w.todo : x.match = m} \cup {x \in {s} : x.match = m}
      BY <1>5
    <3>3. SignalsOf(m) \cup {x \in work[a].todo : x.match = m} = Expected(m)
      BY <1>3
    <3>4. Expected(m)' = Expected(m)
      BY <1>2, <1>10
    <3> QED
      BY <3>1, <3>2, <3>3, <3>4
  <2> QED
    BY <1>3, <1>5, <1>7, <1>8, <2>1 DEF InsertInv
<1>12. FromInv'
  BY <1>1, <1>2, <1>3, <1>4, <1>5, <1>7, <1>8 DEF FromInv, Inv
<1>13. \A m \in StaleSignals' : m \in StaleSignals \/ m \in work[a].scope
  <2>1. \A m \in Match \ work[a].scope : SignalsOf(m)' = SignalsOf(m)
    BY <1>1, <1>3 DEF SignalsOf
  <2> QED
    BY <1>10, <2>1 DEF StaleSignals
<1>14. JobInv' /\ SignalsAccounted'
  <2>1. CASE a \in Job
    <3>1. job[a].status \in {"pending", "running"} /\ work[a].scope = Match
      BY <1>1, <2>1 DEF Inv, JobInv
    <3>2. \A k \in Job \ {a} : work'[k] = work[k]
      BY <1>7 DEF Actor
    <3>3. JobInv'
      BY <1>1, <1>5, <1>7, <2>1, <3>1, <3>2 DEF Inv, JobInv
    <3>4. RecomputeAhead(a)'
      BY <1>1, <1>5, <1>7, <3>1 DEF RecomputeAhead
    <3> QED
      BY <1>1, <1>7, <2>1, <3>3, <3>4, JobAccounted
  <2>2. CASE a \in Source
    <3>1. JobInv'
      BY <1>1, <1>7, <2>2, NoJobMoves
    <3> QED
      BY <1>1, <1>5, <1>7, <1>13, <2>2, <3>1, SourceAccounted
  <2> QED
    BY <2>1, <2>2 DEF Actor
<1>15. DataTypes'
  BY <1>1 DEF DataTypes, Inv
<1> QED
  BY <1>9, <1>11, <1>12, <1>14, <1>15 DEF Inv

\* Whoever has nothing left to insert leaves no match of its scope stale.
LEMMA NothingLeft ==
  ASSUME Inv, NEW a \in Actor, work[a].pc = "insert", work[a].todo = {}, NEW m \in work[a].scope
  PROVE  SignalsOf(m) = Expected(m)
<1>1. a \in Inserting
  BY DEF Inserting
<1>2. SignalsOf(m) \cup {s \in work[a].todo : s.match = m} = Expected(m)
  BY <1>1 DEF Inv, InsertInv
<1> QED
  BY <1>2

\* With no row left, no match of the scope is stale.
LEMMA EndRecomputeInv == ASSUME Inv, NEW a \in Actor, EndRecompute(a) PROVE Inv'
<1> DEFINE w == IF a \in Job THEN [Idle EXCEPT !.pc = "finish"] ELSE Idle
<1>1. /\ work[a].pc = "insert" /\ work[a].todo = {} /\ work' = [work EXCEPT ![a] = w]
      /\ missed' = [missed EXCEPT !.signals = @ \ work[a].scope]
      /\ UNCHANGED <<final, result, played, records, active, signals, job, reader, used>>
  BY DEF EndRecompute
<1>2. WorkRow(w) /\ w.pc \in {"idle", "finish"}
  BY DEF WorkRow, Pc, Idle
<1> HIDE DEF w
<1>3. w.pc # "insert"
  BY <1>2
<1>4. /\ WorkInv' /\ InsertInv' /\ FromInv' /\ StaleSignals' = StaleSignals
      /\ work'[a] = w /\ \A b \in Actor \ {a} : work'[b] = work[b]
  BY <1>1, <1>2, <1>3, Quiet
<1>5. \A m \in StaleSignals : m \in Match \ work[a].scope
  BY <1>1, NothingLeft DEF StaleSignals
<1>6. /\ missed' \in [signals : SUBSET Match, played : SUBSET Match]
      /\ missed'.signals = missed.signals \ work[a].scope
  BY <1>1 DEF Inv, DataTypes
<1>7. JobInv' /\ SignalsAccounted'
  <2>1. CASE a \in Job
    <3>1. work[a].scope = Match
      BY <1>1, <2>1 DEF Inv, JobInv
    <3>2. \A k \in Job \ {a} : work'[k] = work[k]
      BY <1>4 DEF Actor
    <3>3. JobInv'
      BY <1>1, <1>2, <1>4, <2>1, <3>2 DEF Inv, JobInv
    <3>4. StaleSignals' = {}
      BY <1>4, <1>5, <3>1
    <3> QED
      BY <1>1, <1>4, <2>1, <3>3, <3>4, JobAccounted
  <2>2. CASE a \in Source
    <3>1. JobInv'
      BY <1>1, <1>4, <2>2, NoJobMoves
    <3> QED
      BY <1>1, <1>4, <1>5, <1>6, <2>2, <3>1, SourceAccounted
  <2> QED
    BY <2>1, <2>2 DEF Actor
<1>8. DataTypes'
  BY <1>1, <1>6 DEF DataTypes, Inv
<1> QED
  BY <1>4, <1>7, <1>8 DEF Inv

-----------------------------------------------------------------------------
(* Sources, readers, failures and restarts.                                 *)

\* New final odds make one match stale, and whoever stored them has it on its list.
LEMMA CaptureInv == ASSUME Inv, NEW s \in Source, NEW m \in Match, Capture(s, m) PROVE Inv'
<1> DEFINE w == [work[s] EXCEPT !.pc = "capture", !.scope = @ \cup {m}]
<1>1. /\ work[s].pc \in {"idle", "capture"} /\ ~Locked /\ work' = [work EXCEPT ![s] = w]
      /\ used' = used + 1
      /\ UNCHANGED <<result, played, records, active, signals, job, reader, missed>>
  BY DEF Capture, Event
<1>2. PICK offer \in Offer :
        final' = [final EXCEPT ![m] = [b \in Bookmaker |-> IF offer[b] = None THEN @[b] ELSE offer[b]]]
  BY DEF Capture
<1>3. s \in Actor /\ WorkRow(work[s])
  BY DEF Inv, WorkInv, Actor
<1>4. WorkRow(w) /\ w.pc = "capture" /\ w.scope = work[s].scope \cup {m}
  BY <1>1, <1>3 DEF WorkRow, Pc
<1> HIDE DEF w
<1>5. w.pc # "insert"
  BY <1>4
<1>6. /\ WorkInv' /\ Inserting' = {}
      /\ work'[s] = w /\ \A b \in Actor \ {s} : work'[b] = work[b]
  <2>1. WorkInv /\ Inserting = {}
    BY <1>1, NobodyInserts DEF Inv
  <2> QED
    BY <1>1, <1>3, <1>4, <1>5, <2>1, OneWork
<1>7. InsertInv' /\ FromInv'
  <2>1. \A x \in signals' : x.match \in Match /\ x.from # {} /\ x.from \subseteq records'
    BY <1>1 DEF Inv, FromInv
  <2> QED
    BY <1>6, <2>1, NobodyLeft
<1>8. final' \in [Match -> [Bookmaker -> Triple \cup {None}]]
  <2>1. offer \in [Bookmaker -> Triple \cup {None}] /\ final[m] \in [Bookmaker -> Triple \cup {None}]
    BY DatasetAssumption DEF Inv, DataTypes
  <2>2. [b \in Bookmaker |-> IF offer[b] = None THEN final[m][b] ELSE offer[b]]
          \in [Bookmaker -> Triple \cup {None}]
    BY <2>1
  <2> QED
    BY <1>2, <2>2 DEF Inv, DataTypes
<1>9. \A n \in StaleSignals' : n \in StaleSignals \/ n = m
  <2>1. \A n \in Match \ {m} : final'[n] = final[n]
    BY <1>2 DEF Inv, DataTypes
  <2>2. \A n \in Match \ {m} : Expected(n)' = Expected(n) /\ SignalsOf(n)' = SignalsOf(n)
    BY <1>1, <2>1 DEF Expected, HasFinal, SignalsOf
  <2> QED
    BY <2>2 DEF StaleSignals
<1>10. JobInv'
  BY <1>1, <1>6, NoJobMoves
<1>11. SignalsAccounted'
  BY <1>1, <1>4, <1>6, <1>9, SourceAccounted
<1>12. DataTypes'
  BY <1>1, <1>8 DEF DataTypes, Inv
<1> QED
  BY <1>6, <1>7, <1>10, <1>11, <1>12 DEF Inv

\* A result makes no signal stale.
LEMMA FindResultInv == ASSUME Inv, NEW s \in Source, NEW m \in Match, FindResult(s, m) PROVE Inv'
<1> DEFINE w == [work[s] EXCEPT !.pc = "capture", !.found = @ \cup {m}]
<1>1. /\ work[s].pc \in {"idle", "capture"} /\ work' = [work EXCEPT ![s] = w]
      /\ used' = used + 1
      /\ UNCHANGED <<final, played, records, active, signals, job, reader, missed>>
  BY DEF FindResult, Event
<1>2. s \in Actor /\ WorkRow(work[s])
  BY DEF Inv, WorkInv, Actor
<1>3. WorkRow(w) /\ w.pc = "capture" /\ w.scope = work[s].scope
  BY <1>1, <1>2 DEF WorkRow, Pc
<1> HIDE DEF w
<1>4. w.pc # "insert"
  BY <1>3
<1>5. /\ WorkInv' /\ InsertInv' /\ FromInv' /\ StaleSignals' = StaleSignals
      /\ work'[s] = w /\ \A b \in Actor \ {s} : work'[b] = work[b]
  BY <1>1, <1>2, <1>3, <1>4, Quiet
<1>6. result' \in [Match -> [captured : BOOLEAN, score : Score \cup {None}]]
  <2>1. PICK score \in Final : result' = [result EXCEPT ![m] = [captured |-> TRUE, score |-> score]]
    BY DEF FindResult
  <2> QED
    BY <2>1, DatasetAssumption DEF Inv, DataTypes
<1>7. JobInv'
  BY <1>1, <1>5, NoJobMoves
<1>8. SignalsAccounted'
  BY <1>1, <1>3, <1>5, SourceAccounted
<1>9. DataTypes'
  BY <1>1, <1>6 DEF DataTypes, Inv
<1> QED
  BY <1>5, <1>7, <1>8, <1>9 DEF Inv

\* The list of matches to refresh only grows when the cycle or the archive job ends.
LEMMA EndCaptureInv == ASSUME Inv, NEW s \in Source, EndCapture(s) PROVE Inv'
<1> DEFINE p == IF RefreshScope(s) = {} THEN "idle" ELSE "archive"
           w == [work[s] EXCEPT !.scope = RefreshScope(s), !.found = {}, !.pc = p]
<1>1. /\ work[s].pc = "capture" /\ work' = [work EXCEPT ![s] = w]
      /\ missed' = [missed EXCEPT !.played = @ \cup (work[s].found \ RefreshScope(s))]
      /\ UNCHANGED <<final, result, played, records, active, signals, job, reader, used>>
  BY DEF EndCapture
<1>2. s \in Actor /\ WorkRow(work[s])
  BY DEF Inv, WorkInv, Actor
<1>3. p \in {"idle", "archive"}
  OBVIOUS
<1>4. work[s].scope \subseteq RefreshScope(s) /\ RefreshScope(s) \subseteq Match
  BY <1>2 DEF RefreshScope, WorkRow
<1> HIDE DEF p
<1>5. WorkRow(w) /\ w.pc = p /\ w.scope = RefreshScope(s)
  BY <1>1, <1>2, <1>3, <1>4 DEF WorkRow, Pc
<1> HIDE DEF w
<1>6. w.pc # "insert"
  BY <1>3, <1>5
<1>7. /\ WorkInv' /\ InsertInv' /\ FromInv' /\ StaleSignals' = StaleSignals
      /\ work'[s] = w /\ \A b \in Actor \ {s} : work'[b] = work[b]
  BY <1>1, <1>2, <1>5, <1>6, Quiet
<1>8. missed' \in [signals : SUBSET Match, played : SUBSET Match] /\ missed'.signals = missed.signals
  BY <1>1, <1>2 DEF Inv, DataTypes, WorkRow
<1>9. JobInv'
  BY <1>1, <1>7, NoJobMoves
<1>10. SignalsAccounted'
  BY <1>1, <1>4, <1>5, <1>7, <1>8, SourceAccounted
<1>11. DataTypes'
  BY <1>1, <1>8 DEF DataTypes, Inv
<1> QED
  BY <1>7, <1>9, <1>10, <1>11 DEF Inv

\* A repair may make any match stale, and refreshes all.
LEMMA RepairInv == ASSUME Inv, Repair PROVE Inv'
<1> DEFINE s == "repair"
           w == [Idle EXCEPT !.pc = "archive", !.scope = Match]
<1>1. /\ work[s].pc = "idle" /\ ~Locked /\ work' = [work EXCEPT ![s] = w]
      /\ used' = used + 1
      /\ UNCHANGED <<result, played, records, active, signals, job, reader, missed>>
  BY DEF Repair, Event
<1>2. PICK m \in Match, offer \in Offer : final' = [final EXCEPT ![m] = offer]
  BY DEF Repair
<1>3. s \in Actor /\ s \in Source
  BY DEF Actor, Source
<1>4. WorkRow(w) /\ w.pc = "archive" /\ w.scope = Match
  BY DEF WorkRow, Pc, Idle
<1> HIDE DEF w
<1>5. w.pc # "insert"
  BY <1>4
<1>6. /\ WorkInv' /\ Inserting' = {}
      /\ work'[s] = w /\ \A b \in Actor \ {s} : work'[b] = work[b]
  <2>1. WorkInv /\ Inserting = {}
    BY <1>1, NobodyInserts DEF Inv
  <2> QED
    BY <1>1, <1>3, <1>4, <1>5, <2>1, OneWork
<1> HIDE DEF s
<1>7. InsertInv' /\ FromInv'
  <2>1. \A x \in signals' : x.match \in Match /\ x.from # {} /\ x.from \subseteq records'
    BY <1>1 DEF Inv, FromInv
  <2> QED
    BY <1>6, <2>1, NobodyLeft
<1>8. final' \in [Match -> [Bookmaker -> Triple \cup {None}]]
  BY <1>2, DatasetAssumption DEF Inv, DataTypes
<1>9. JobInv'
  BY <1>1, <1>3, <1>6, NoJobMoves
<1>10. SignalsAccounted'
  <2>1. StaleSignals' \subseteq Match
    BY DEF StaleSignals
  <2> QED
    BY <1>3, <1>4, <1>6, <2>1 DEF SignalsAccounted
<1>11. DataTypes'
  BY <1>1, <1>8 DEF DataTypes, Inv
<1> QED
  BY <1>6, <1>7, <1>9, <1>10, <1>11 DEF Inv

\* Steps in which no job or source moves: a listing, and the requests for the import status.
LEMMA OutsideInv ==
  ASSUME Inv, (\E m \in Match : Relist(m)) \/ ReaderLooks \/ ReaderInserts
  PROVE  Inv'
<1>1. UNCHANGED <<final, records, signals, work, job, played>>
  BY DEF Relist, ReaderLooks, ReaderInserts
<1>2. WorkInv' /\ InsertInv' /\ FromInv' /\ StaleSignals' = StaleSignals
  BY <1>1, NobodyMoves
<1>3. JobInv'
  BY <1>1 DEF Inv, JobInv
<1>4. DataTypes' /\ missed'.signals = missed.signals
  <2>1. CASE \E m \in Match : Relist(m)
    <3>1. PICK m \in Match, score \in Final \cup {None} :
            /\ result' = [result EXCEPT ![m].score = score]
            /\ missed' = [missed EXCEPT !.played = @ \cup {m}]
            /\ UNCHANGED <<active, reader>> /\ used' = used + 1
      BY <2>1 DEF Relist, Event
    <3>2. score \in Score \cup {None}
      BY DatasetAssumption
    <3>3. result' \in [Match -> [captured : BOOLEAN, score : Score \cup {None}]]
      BY <3>1, <3>2 DEF Inv, DataTypes
    <3>4. /\ missed' \in [signals : SUBSET Match, played : SUBSET Match]
          /\ missed'.signals = missed.signals
      BY <3>1 DEF Inv, DataTypes
    <3> QED
      BY <1>1, <3>1, <3>3, <3>4 DEF Inv, DataTypes
  <2>2. CASE ReaderLooks
    BY <2>2 DEF ReaderLooks, Event, Inv, DataTypes
  <2>3. CASE ReaderInserts
    <3>1. active' \in Seq(Upload \cup {"legacy"})
      BY <2>3 DEF ReaderInserts, Inv, DataTypes
    <3> QED
      BY <2>3, <3>1 DEF ReaderInserts, Inv, DataTypes
  <2> QED
    BY <2>1, <2>2, <2>3
<1>5. SignalsAccounted'
  BY <1>1, <1>2, <1>4, StillAccounted
<1> QED
  BY <1>2, <1>3, <1>4, <1>5 DEF Inv

\* Whoever was to refresh matches and is gone leaves those with stale signals behind.
LEMMA MissedSignals ==
  ASSUME Inv, NEW ms
  PROVE  /\ Missed(ms) \in [signals : SUBSET Match, played : SUBSET Match]
         /\ Missed(ms).signals = missed.signals \cup (ms \cap StaleSignals)
BY DEF Missed, Inv, DataTypes, StaleSignals, StalePlayed

\* A failure leaves behind what is stale then.
LEMMA FailInv == ASSUME Inv, NEW a \in Actor, Fail(a) PROVE Inv'
<1>1. /\ work[a].pc \notin {"idle", "queued", "finish"} /\ work' = [work EXCEPT ![a] = Idle]
      /\ used' = used + 1
      /\ UNCHANGED <<final, result, records, active, signals, reader>>
  BY DEF Fail, Event
<1>2. WorkRow(Idle) /\ Idle.pc = "idle" /\ Idle.pc # "insert"
  BY DEF WorkRow, Pc, Idle
<1>3. /\ WorkInv' /\ InsertInv' /\ FromInv' /\ StaleSignals' = StaleSignals
      /\ work'[a] = Idle /\ \A b \in Actor \ {a} : work'[b] = work[b]
  BY <1>1, <1>2, Quiet
<1>4. \A m \in Match : played'[m] # None => played'[m].score \in Score /\ played'[m].odds \in Odds
  <2>1. PICK part \in SUBSET work[a].scope :
          played' = IF work[a].pc = "archive" THEN Archived(part) ELSE played
    BY DEF Fail
  <2>2. CASE work[a].pc = "archive"
    BY <2>1, <2>2, ArchivedTyped
  <2>3. CASE work[a].pc # "archive"
    BY <2>1, <2>3 DEF Inv, DataTypes
  <2> QED
    BY <2>2, <2>3
<1>5. CASE a \in Job
  <2> DEFINE row == [job[a] EXCEPT !.status = "failed"]
  <2>1. job' = [job EXCEPT ![a] = row] /\ missed' = Missed(Match)
    BY <1>5 DEF Fail
  <2>2. row \in JobRow /\ (row.kind = "import_zip" => row.upload # None)
    <3>1. job[a] \in JobRow
      BY <1>5, JobIsActor
    <3>2. row \in JobRow /\ row.kind = job[a].kind /\ row.upload = job[a].upload
      BY <3>1 DEF JobRow
    <3> QED
      BY <1>5, <3>2 DEF Inv, JobInv
  <2> HIDE DEF row
  <2>3. /\ job' \in [Job -> JobRow] /\ job'[a] = row /\ \A k \in Job \ {a} : job'[k] = job[k]
        /\ JobInv'
    BY <1>2, <1>3, <1>5, <2>1, <2>2, OneJob
  <2>4. StaleSignals' \subseteq missed'.signals
    BY <1>3, <2>1, MissedSignals DEF StaleSignals
  <2>5. SignalsAccounted'
    BY <1>3, <1>5, <2>3, <2>4, JobAccounted
  <2>6. DataTypes'
    BY <1>1, <1>4, <2>1, <2>3, MissedSignals DEF DataTypes, Inv
  <2> QED
    BY <1>3, <2>3, <2>5, <2>6 DEF Inv
<1>6. CASE a \in Source
  <2>1. job' = job /\ missed' = Missed(work[a].scope \cup work[a].found)
    BY <1>6, DatasetAssumption DEF Fail
  <2>2. JobInv'
    BY <1>3, <1>6, <2>1, NoJobMoves
  <2>3. SignalsAccounted'
    BY <1>3, <1>6, <2>1, MissedSignals, SourceAccounted
  <2>4. DataTypes'
    BY <1>1, <1>4, <2>1, MissedSignals DEF DataTypes, Inv
  <2> QED
    BY <1>3, <2>2, <2>3, <2>4 DEF Inv
<1> QED
  BY <1>5, <1>6 DEF Actor

\* A restart queues every job that was ahead, and loses the lists of the sources.
LEMMA RestartInv == ASSUME Inv, Restart PROVE Inv'
<1> DEFINE Again(a) == a \in Resumable \cup AutoImports
           Lost == UNION {work[s].scope \cup work[s].found : s \in Source}
           queued == [Idle EXCEPT !.pc = "queued"]
<1>1. /\ UNCHANGED <<final, result, records, signals>>
      /\ active' = WithLegacy /\ missed' = Missed(Lost)
      /\ work' = [a \in Actor |-> IF Again(a) THEN queued ELSE Idle]
      /\ reader' = "idle" /\ used' = used + 1
  BY DEF Restart, Event
<1>2. PICK tidy \in {FALSE, ~Locked} :
        job' = [j \in Job |->
                  IF j \in AutoImports THEN [NoJob EXCEPT !.status = "pending"]
                  ELSE IF j \in Resumable /\ tidy THEN [job[j] EXCEPT !.status = "pending"]
                  ELSE job[j]]
  BY DEF Restart
<1>3. /\ WorkRow(Idle) /\ Idle.pc = "idle"
      /\ WorkRow(queued) /\ queued.pc = "queued"
  BY DEF WorkRow, Pc, Idle
<1> HIDE DEF queued, Again, Lost
<1>4. WorkInv' /\ Inserting' = {}
  <2>1. work' = [a \in Actor |-> work'[a]] /\ \A a \in Actor : work'[a] \in {Idle, queued}
    BY <1>1
  <2>2. \A a \in Actor : WorkRow(work'[a]) /\ work'[a].pc # "insert"
    BY <1>3, <2>1
  <2>3. \A a \in Actor : WorkRow(work[a])'
    BY <2>2 DEF WorkRow
  <2>4. Inserting' = {}
    BY <2>2 DEF Inserting
  <2> QED
    BY <2>1, <2>3, <2>4 DEF WorkInv
<1>5. InsertInv' /\ FromInv'
  <2>1. \A s \in signals' : s.match \in Match /\ s.from # {} /\ s.from \subseteq records'
    BY <1>1 DEF Inv, FromInv
  <2> QED
    BY <1>4, <2>1, NobodyLeft
<1>6. \A j \in Job : /\ job'[j] \in JobRow
                     /\ job'[j].kind = "import_zip" => job'[j].upload # None
                     /\ Again(j) => job'[j].status \in {"pending", "running"}
  <2> TAKE j \in Job
  <2>1. job[j] \in JobRow /\ (job[j].kind = "import_zip" => job[j].upload # None)
    BY DEF Inv, DataTypes, JobInv
  <2>2. CASE j \in AutoImports
    <3>1. job'[j] = [NoJob EXCEPT !.status = "pending"]
      BY <1>2, <2>2
    <3> QED
      BY <3>1 DEF NoJob, JobRow
  <2>3. CASE j \notin AutoImports /\ j \in Resumable /\ tidy
    <3>1. job'[j] = [job[j] EXCEPT !.status = "pending"]
      BY <1>2, <2>3
    <3> QED
      BY <2>1, <3>1 DEF JobRow
  <2>4. CASE j \notin AutoImports /\ ~(j \in Resumable /\ tidy)
    <3>1. job'[j] = job[j]
      BY <1>2, <2>4
    <3> QED
      BY <2>1, <2>4, <3>1 DEF Resumable, Again
  <2> QED
    BY <2>2, <2>3, <2>4
<1>7. \A j \in Job : work'[j] = IF Again(j) THEN queued ELSE Idle
  BY <1>1 DEF Actor
<1>8. JobInv'
  BY <1>3, <1>6, <1>7 DEF JobInv
<1>9. SignalsAccounted'
  <2>1. StaleSignals' = StaleSignals
    BY <1>1, SameData
  <2> SUFFICES ASSUME NEW m \in StaleSignals
               PROVE  m \in missed'.signals \/ \E j \in Job : RecomputeAhead(j)'
    BY <2>1 DEF SignalsAccounted
  <2>2. \/ m \in missed.signals
        \/ \E s \in Source : m \in work[s].scope
        \/ \E j \in Job : RecomputeAhead(j)
    BY DEF Inv, SignalsAccounted
  <2>3. (\E s \in Source : m \in work[s].scope) => m \in Lost
    BY DEF Lost
  <2>4. ASSUME NEW j \in Job, RecomputeAhead(j) PROVE RecomputeAhead(j)'
    <3>1. Again(j)
      BY <2>4 DEF Again, Resumable, RecomputeAhead
    <3> QED
      BY <1>3, <1>6, <1>7, <3>1 DEF RecomputeAhead
  <2> QED
    BY <1>1, <2>2, <2>3, <2>4, MissedSignals
<1>10. \A m \in Match : played'[m] # None => played'[m].score \in Score /\ played'[m].odds \in Odds
  <2>1. PICK a \in Actor : \E part \in SUBSET work[a].scope :
          played' = IF work[a].pc = "archive" THEN Archived(part) ELSE played
    BY DEF Restart
  <2>2. CASE work[a].pc = "archive"
    BY <2>1, <2>2, ArchivedTyped
  <2>3. CASE work[a].pc # "archive"
    BY <2>1, <2>3 DEF Inv, DataTypes
  <2> QED
    BY <2>2, <2>3
<1>11. job' \in [Job -> JobRow]
  BY <1>2, <1>6
<1>12. DataTypes'
  BY <1>1, <1>10, <1>11, BatchTypes, MissedSignals DEF DataTypes, Inv
<1> QED
  BY <1>4, <1>5, <1>8, <1>9, <1>12 DEF Inv

-----------------------------------------------------------------------------
(* Accounted rows of the archive.                                          *)

\* Whoever brings the archive up to date for match m, or the history that nobody does.
PlayedCovered(m) ==
  \/ m \in missed.played
  \/ \E s \in Source : m \in work[s].scope \cup work[s].found /\ work[s].pc \in {"capture", "archive"}
  \/ \E j \in Job : ArchiveAhead(j)

\* Only who captures has results that are not on its list of matches to refresh.
FoundInv == \A s \in Source : work[s].pc # "capture" => work[s].found = {}

PlayedInv == FoundInv /\ \A m \in StalePlayed : PlayedCovered(m)

\* Odds, results and archive are the same.
LEMMA SamePlayed ==
  ASSUME UNCHANGED <<final, result, played>>
  PROVE  StalePlayed' = StalePlayed
<1>1. \A m \in Match : HasFinal(m)' <=> HasFinal(m)
  BY DEF HasFinal
<1>2. \A m \in Match : PlayedRow(m)' = PlayedRow(m)
  BY <1>1 DEF PlayedRow
<1> QED
  BY <1>2 DEF StalePlayed

\* Archiving some matches leaves none of them stale, and makes none stale.
LEMMA ArchivedFits ==
  ASSUME UNCHANGED <<final, result>>, NEW ms, played' = Archived(ms)
  PROVE  StalePlayed' \subseteq StalePlayed \ ms
<1>1. \A m \in Match : HasFinal(m)' <=> HasFinal(m)
  BY DEF HasFinal
<1>2. \A m \in Match : PlayedRow(m)' = PlayedRow(m)
  BY <1>1 DEF PlayedRow
<1>3. \A m \in Match : played'[m] = IF m \in ms /\ PlayedRow(m) # None THEN PlayedRow(m) ELSE played[m]
  BY DEF Archived
<1> QED
  BY <1>2, <1>3 DEF StalePlayed

\* Odds and result of one match change: the others are as stale as they were.
LEMMA OneStale ==
  ASSUME NEW m \in Match, UNCHANGED played,
         \A n \in Match \ {m} : final'[n] = final[n] /\ result'[n] = result[n]
  PROVE  StalePlayed' \subseteq StalePlayed \cup {m}
<1>1. \A n \in Match \ {m} : HasFinal(n)' <=> HasFinal(n)
  BY DEF HasFinal
<1>2. \A n \in Match \ {m} : PlayedRow(n)' = PlayedRow(n)
  BY <1>1 DEF PlayedRow
<1> QED
  BY <1>2 DEF StalePlayed

\* One job or source moves.
LEMMA OneMoves ==
  ASSUME Inv, NEW a \in Actor, NEW w, work' = [work EXCEPT ![a] = w]
  PROVE  work'[a] = w /\ \A b \in Actor \ {a} : work'[b] = work[b]
BY DEF Inv, WorkInv

\* A source moves: who else covers a match still does.
LEMMA SourceMoves ==
  ASSUME Inv, PlayedInv, NEW s \in Source, UNCHANGED job,
         \A b \in Actor \ {s} : work'[b] = work[b],
         work'[s].pc # "capture" => work'[s].found = {},
         \A m \in StalePlayed' :
           \/ PlayedCovered(m)'
           \/ /\ m \in StalePlayed
              /\ m \in missed.played => m \in missed'.played
              /\ ~(m \in work[s].scope \cup work[s].found /\ work[s].pc \in {"capture", "archive"})
  PROVE  PlayedInv'
<1>1. \A j \in Job : work'[j] = work[j]
  BY DatasetAssumption DEF Actor
<1>2. \A x \in Source \ {s} : work'[x] = work[x]
  BY DEF Actor
<1>3. \A j \in Job : ArchiveAhead(j) => ArchiveAhead(j)'
  BY <1>1 DEF ArchiveAhead
<1>4. FoundInv'
  BY <1>2 DEF PlayedInv, FoundInv
<1>5. ASSUME NEW m \in StalePlayed' PROVE PlayedCovered(m)'
  <2>1. CASE PlayedCovered(m)'
    BY <2>1
  <2>2. CASE /\ m \in StalePlayed
             /\ m \in missed.played => m \in missed'.played
             /\ ~(m \in work[s].scope \cup work[s].found /\ work[s].pc \in {"capture", "archive"})
    <3>1. PlayedCovered(m)
      BY <2>2 DEF PlayedInv
    <3> QED
      BY <1>2, <1>3, <2>2, <3>1 DEF PlayedCovered
  <2> QED
    BY <1>5, <2>1, <2>2
<1> QED
  BY <1>4, <1>5 DEF PlayedInv

\* A job moves: it still archives everything, or did not before, or leaves nothing that is
\* not told.
LEMMA JobMoves ==
  ASSUME Inv, PlayedInv, NEW j \in Job,
         \A b \in Actor \ {j} : work'[b] = work[b],
         \A k \in Job \ {j} : job'[k] = job[k],
         \A m \in StalePlayed' : m \in missed.played => m \in missed'.played,
         StalePlayed' \subseteq StalePlayed,
         \/ ArchiveAhead(j) => ArchiveAhead(j)'
         \/ StalePlayed' \subseteq missed'.played
  PROVE  PlayedInv'
<1>1. \A k \in Job \ {j} : ArchiveAhead(k) => ArchiveAhead(k)'
  BY DEF ArchiveAhead, Actor
<1>2. \A s \in Source : work'[s] = work[s]
  BY DatasetAssumption DEF Actor
<1>3. FoundInv'
  BY <1>2 DEF PlayedInv, FoundInv
<1>4. ASSUME NEW m \in StalePlayed' PROVE PlayedCovered(m)'
  <2>1. PlayedCovered(m)
    BY DEF PlayedInv
  <2> QED
    BY <1>1, <1>2, <2>1 DEF PlayedCovered
<1> QED
  BY <1>3, <1>4 DEF PlayedInv

\* A job that is created is no longer free; one that starts, looks or activates still has the
\* archive before it; one that ends does not.
LEMMA JobsPlayed ==
  ASSUME Inv, PlayedInv, NEW j \in Job, StartJob(j) \/ Look(j) \/ Activate(j) \/ FinishJob(j)
  PROVE  PlayedInv'
<1>1. UNCHANGED <<final, result, played, missed>> /\ StalePlayed' = StalePlayed
  BY SamePlayed DEF StartJob, Look, Activate, FinishJob
<1>2. j \in Actor /\ WorkRow(work[j]) /\ job[j] \in JobRow
  BY JobIsActor
<1>3. PICK w : /\ work' = [work EXCEPT ![j] = w]
               /\ \/ w.pc \in {"look", "archive", "activate"}
                  \/ ~ArchiveAhead(j)
  <2>1. CASE StartJob(j)
    <3> DEFINE p == IF job[j].kind # "recompute_signals" THEN "look"
                    ELSE IF job[j].archive THEN "archive" ELSE "recompute"
               w == [work[j] EXCEPT !.pc = p, !.scope = Match]
    <3>1. work' = [work EXCEPT ![j] = w]
      BY <2>1 DEF StartJob
    <3>2. w.pc = p
      BY <1>2 DEF WorkRow
    <3>3. p \in {"look", "archive"} \/ ~job[j].archive
      OBVIOUS
    <3> HIDE DEF w, p
    <3> QED
      BY <3>1, <3>2, <3>3 DEF ArchiveAhead
  <2>2. CASE Look(j)
    <3>1. PICK u : \/ Goes(j, "archive")
                   \/ work' = [work EXCEPT ![j].pc = "activate", ![j].upload = u]
      BY <2>2 DEF Look
    <3>2. CASE Goes(j, "archive")
      <4> DEFINE w == [work[j] EXCEPT !.pc = "archive"]
      <4>1. work' = [work EXCEPT ![j] = w] /\ w.pc = "archive"
        BY <1>2, <3>2 DEF Goes, WorkRow
      <4> QED
        BY <4>1
    <3>3. CASE work' = [work EXCEPT ![j].pc = "activate", ![j].upload = u]
      <4> DEFINE w == [work[j] EXCEPT !.pc = "activate", !.upload = u]
      <4>1. work' = [work EXCEPT ![j] = w] /\ w.pc = "activate"
        BY <1>2, <3>3 DEF WorkRow
      <4> QED
        BY <4>1
    <3> QED
      BY <3>1, <3>2, <3>3
  <2>3. CASE Activate(j)
    <3> DEFINE w == [work[j] EXCEPT !.pc = "archive", !.upload = None]
    <3>1. work' = [work EXCEPT ![j] = w] /\ w.pc = "archive"
      BY <1>2, <2>3 DEF Activate, WorkRow
    <3> QED
      BY <3>1
  <2>4. CASE FinishJob(j)
    <3>1. work' = [work EXCEPT ![j] = Idle] /\ ~ArchiveAhead(j)
      BY <2>4 DEF FinishJob, ArchiveAhead
    <3> QED
      BY <3>1
  <2> QED
    BY <2>1, <2>2, <2>3, <2>4
<1>4. work'[j] = w /\ \A b \in Actor \ {j} : work'[b] = work[b]
  BY <1>2, <1>3, OneMoves
<1>5. /\ \A k \in Job \ {j} : job'[k] = job[k]
      /\ ArchiveAhead(j) => job'[j].status \in {"pending", "running"} /\ job'[j].archive
  <2>1. CASE StartJob(j)
    <3>1. job'[j] = [job[j] EXCEPT !.status = "running"] /\ \A k \in Job \ {j} : job'[k] = job[k]
      BY <2>1 DEF StartJob, Inv, DataTypes
    <3> QED
      BY <1>2, <3>1 DEF ArchiveAhead, JobRow
  <2>2. CASE Look(j) \/ Activate(j)
    BY <2>2 DEF Look, Activate, ArchiveAhead
  <2>3. CASE FinishJob(j)
    BY <2>3 DEF FinishJob, ArchiveAhead, Inv, DataTypes
  <2> QED
    BY <2>1, <2>2, <2>3
<1>6. ArchiveAhead(j) => ArchiveAhead(j)'
  BY <1>3, <1>4, <1>5 DEF ArchiveAhead
<1> QED
  BY <1>1, <1>4, <1>5, <1>6, JobMoves

\* A new job takes nothing away.
LEMMA CreatedPlayed == ASSUME Inv, PlayedInv, NEW row \in Request, CreateJob(row) PROVE PlayedInv'
<1>1. PICK j \in Job : /\ job[j] = NoJob
                       /\ job' = [job EXCEPT ![j] = row]
                       /\ work' = [work EXCEPT ![j].pc = "queued"]
  BY DEF CreateJob, Free, Goes
<1>2. UNCHANGED <<final, result, played, missed>> /\ StalePlayed' = StalePlayed
  BY SamePlayed DEF CreateJob
<1>3. \A b \in Actor \ {j} : work'[b] = work[b]
  BY <1>1, JobIsActor, OneMoves
<1>4. \A k \in Job \ {j} : job'[k] = job[k]
  BY <1>1 DEF Inv, DataTypes
<1>5. ~ArchiveAhead(j)
  BY <1>1 DEF ArchiveAhead, NoJob
<1> QED
  BY <1>2, <1>3, <1>4, <1>5, JobMoves

\* archive_played_matches leaves nothing stale in its scope, which is everything of a source
\* that archives and every match for a job.
LEMMA ArchivedPlayed == ASSUME Inv, PlayedInv, NEW a \in Actor, ArchivePlayed(a) PROVE PlayedInv'
<1>1. /\ work[a].pc = "archive" /\ work' = [work EXCEPT ![a].pc = "recompute"]
      /\ missed' = [missed EXCEPT !.played = @ \ work[a].scope]
      /\ job' = job
  BY DEF ArchivePlayed, Goes
<1>2. StalePlayed' \subseteq StalePlayed \ work[a].scope
  BY ArchivedFits DEF ArchivePlayed
<1>3. missed'.played = missed.played \ work[a].scope
  BY <1>1 DEF Inv, DataTypes
<1> DEFINE w == [work[a] EXCEPT !.pc = "recompute"]
<1>4. work' = [work EXCEPT ![a] = w] /\ w.pc = "recompute" /\ w.found = work[a].found
  BY <1>1 DEF Inv, WorkInv, WorkRow
<1> HIDE DEF w
<1>5. work'[a] = w /\ \A b \in Actor \ {a} : work'[b] = work[b]
  BY <1>4, OneMoves
<1>6. CASE a \in Job
  <2>1. work[a].scope = Match
    BY <1>1, <1>6 DEF Inv, JobInv
  <2>2. StalePlayed' = {}
    BY <1>2, <2>1 DEF StalePlayed
  <2> QED
    BY <1>1, <1>5, <1>6, <2>2, JobMoves
<1>7. CASE a \in Source
  <2>1. work[a].found = {}
    BY <1>1, <1>7 DEF PlayedInv, FoundInv
  <2> QED
    BY <1>1, <1>2, <1>3, <1>4, <1>5, <1>7, <2>1, SourceMoves
<1> QED
  BY <1>6, <1>7 DEF Actor

\* A recomputation has the archive behind it.
LEMMA RecomputePlayed ==
  ASSUME Inv, PlayedInv, NEW a \in Actor, BeginRecompute(a) \/ InsertSignal(a) \/ EndRecompute(a)
  PROVE  PlayedInv'
<1>1. /\ work[a].pc \in {"recompute", "insert"}
      /\ UNCHANGED <<final, result, played, job>> /\ missed'.played = missed.played
  BY DEF BeginRecompute, InsertSignal, EndRecompute, Inv, DataTypes
<1>2. StalePlayed' = StalePlayed
  BY <1>1, SamePlayed
<1>3. PICK w : /\ work' = [work EXCEPT ![a] = w] /\ w.pc # "capture"
               /\ w.found \in {work[a].found, {}}
  <2>1. CASE BeginRecompute(a)
    <3> DEFINE todo == UNION {Expected(m) : m \in work[a].scope}
               w == [work[a] EXCEPT !.pc = "insert", !.todo = todo]
    <3>1. work' = [work EXCEPT ![a] = w]
      BY <2>1 DEF BeginRecompute
    <3> HIDE DEF todo
    <3>2. w.pc = "insert" /\ w.found = work[a].found
      BY DEF Inv, WorkInv, WorkRow
    <3> QED
      BY <3>1, <3>2
  <2>2. CASE InsertSignal(a)
    <3>1. PICK s : work' = [work EXCEPT ![a].todo = @ \ {s}]
      BY <2>2 DEF InsertSignal
    <3> DEFINE w == [work[a] EXCEPT !.todo = @ \ {s}]
    <3>2. work' = [work EXCEPT ![a] = w]
      BY <3>1
    <3>3. w.pc = "insert" /\ w.found = work[a].found
      BY <2>2 DEF Inv, WorkInv, WorkRow, InsertSignal
    <3> QED
      BY <3>2, <3>3
  <2>3. CASE EndRecompute(a)
    <3> DEFINE w == IF a \in Job THEN [Idle EXCEPT !.pc = "finish"] ELSE Idle
    <3>1. work' = [work EXCEPT ![a] = w] /\ w.pc # "capture" /\ w.found = {}
      BY <2>3 DEF EndRecompute, Idle
    <3> QED
      BY <3>1
  <2> QED
    BY <1>1, <2>1, <2>2, <2>3
<1>4. work'[a] = w /\ \A b \in Actor \ {a} : work'[b] = work[b]
  BY <1>3, OneMoves
<1>5. CASE a \in Job
  <2>1. ~ArchiveAhead(a)
    BY <1>1 DEF ArchiveAhead
  <2> QED
    BY <1>1, <1>2, <1>4, <1>5, <2>1, JobMoves
<1>6. CASE a \in Source
  <2>1. work[a].found = {}
    BY <1>1, <1>6 DEF PlayedInv, FoundInv
  <2> QED
    BY <1>1, <1>2, <1>3, <1>4, <1>6, <2>1, SourceMoves
<1> QED
  BY <1>5, <1>6 DEF Actor

\* New odds or a new result of one match, on the list of who found them.
LEMMA CapturedPlayed ==
  ASSUME Inv, PlayedInv, NEW s \in Source, NEW m \in Match, Capture(s, m) \/ FindResult(s, m)
  PROVE  PlayedInv'
<1>1. UNCHANGED <<played, job, missed>>
  BY DEF Capture, FindResult
<1>2. s \in Actor /\ WorkRow(work[s])
  BY DEF Inv, WorkInv, Actor
<1>3. PICK w : /\ work' = [work EXCEPT ![s] = w] /\ w.pc = "capture" /\ m \in w.scope \cup w.found
               /\ work[s].scope \cup work[s].found \subseteq w.scope \cup w.found
  <2>1. CASE Capture(s, m)
    <3> DEFINE w == [work[s] EXCEPT !.pc = "capture", !.scope = @ \cup {m}]
    <3>1. work' = [work EXCEPT ![s] = w]
      BY <2>1 DEF Capture
    <3>2. w.pc = "capture" /\ w.scope = work[s].scope \cup {m} /\ w.found = work[s].found
      BY <1>2 DEF WorkRow
    <3> QED
      BY <3>1, <3>2
  <2>2. CASE FindResult(s, m)
    <3> DEFINE w == [work[s] EXCEPT !.pc = "capture", !.found = @ \cup {m}]
    <3>1. work' = [work EXCEPT ![s] = w]
      BY <2>2 DEF FindResult
    <3>2. w.pc = "capture" /\ w.scope = work[s].scope /\ w.found = work[s].found \cup {m}
      BY <1>2 DEF WorkRow
    <3> QED
      BY <3>1, <3>2
  <2> QED
    BY <2>1, <2>2
<1>4. work'[s] = w /\ \A b \in Actor \ {s} : work'[b] = work[b]
  BY <1>2, <1>3, OneMoves
<1>5. \A n \in Match \ {m} : final'[n] = final[n] /\ result'[n] = result[n]
  <2>1. CASE Capture(s, m)
    <3>1. PICK offer \in Offer :
            /\ final' = [final EXCEPT ![m] = [b \in Bookmaker |-> IF offer[b] = None THEN @[b] ELSE offer[b]]]
            /\ result' = result
      BY <2>1 DEF Capture
    <3> QED
      BY <3>1 DEF Inv, DataTypes
  <2>2. CASE FindResult(s, m)
    <3>1. PICK score \in Final :
            result' = [result EXCEPT ![m] = [captured |-> TRUE, score |-> score]] /\ final' = final
      BY <2>2 DEF FindResult
    <3> QED
      BY <3>1 DEF Inv, DataTypes
  <2> QED
    BY <2>1, <2>2
<1>6. StalePlayed' \subseteq StalePlayed \cup {m}
  BY <1>1, <1>5, OneStale
<1>7. \A n : n \in work'[s].scope \cup work'[s].found => PlayedCovered(n)'
  BY <1>3, <1>4 DEF PlayedCovered
<1>8. \A n \in StalePlayed' :
        \/ PlayedCovered(n)'
        \/ /\ n \in StalePlayed
           /\ ~(n \in work[s].scope \cup work[s].found /\ work[s].pc \in {"capture", "archive"})
  BY <1>3, <1>4, <1>6, <1>7
<1> QED
  BY <1>1, <1>3, <1>4, <1>8, SourceMoves

\* What the monitor does not refresh is told when its cycle ends.
LEMMA EndedPlayed == ASSUME Inv, PlayedInv, NEW s \in Source, EndCapture(s) PROVE PlayedInv'
<1> DEFINE p == IF RefreshScope(s) = {} THEN "idle" ELSE "archive"
           w == [work[s] EXCEPT !.scope = RefreshScope(s), !.found = {}, !.pc = p]
<1>1. /\ work[s].pc = "capture" /\ work' = [work EXCEPT ![s] = w]
      /\ missed' = [missed EXCEPT !.played = @ \cup (work[s].found \ RefreshScope(s))]
      /\ UNCHANGED <<final, result, played, job>>
  BY DEF EndCapture
<1>2. s \in Actor /\ WorkRow(work[s])
  BY DEF Inv, WorkInv, Actor
<1>3. w.pc = p /\ w.scope = RefreshScope(s) /\ w.found = {}
  BY <1>2 DEF WorkRow
<1>4. work[s].scope \subseteq RefreshScope(s) /\ (RefreshScope(s) # {} => p = "archive") /\ p # "capture"
  BY DEF RefreshScope
<1> HIDE DEF w, p
<1>5. work'[s] = w /\ \A b \in Actor \ {s} : work'[b] = work[b]
  BY <1>1, <1>2, OneMoves
<1>6. missed'.played = missed.played \cup (work[s].found \ RefreshScope(s))
  BY <1>1 DEF Inv, DataTypes
<1>7. StalePlayed' = StalePlayed
  BY <1>1, SamePlayed
<1>8. \A m : m \in work[s].scope \cup work[s].found => PlayedCovered(m)'
  BY <1>3, <1>4, <1>5, <1>6 DEF PlayedCovered
<1> QED
  BY <1>1, <1>3, <1>4, <1>5, <1>6, <1>7, <1>8, SourceMoves

\* A repair refreshes every match.
LEMMA RepairPlayed == ASSUME Inv, PlayedInv, Repair PROVE PlayedInv'
<1> DEFINE w == [Idle EXCEPT !.pc = "archive", !.scope = Match]
<1>1. work' = [work EXCEPT !["repair"] = w] /\ job' = job
  BY DEF Repair
<1>2. w.pc = "archive" /\ w.scope = Match /\ w.found = {}
  BY DEF Idle
<1> HIDE DEF w
<1>3. PICK s \in Source : s = "repair" /\ s \in Actor
  BY DEF Source, Actor
<1>4. work'[s] = w /\ \A b \in Actor \ {s} : work'[b] = work[b]
  BY <1>1, <1>3, OneMoves
<1>5. \A m \in StalePlayed' : PlayedCovered(m)'
  BY <1>2, <1>4 DEF PlayedCovered, StalePlayed
<1> QED
  BY <1>1, <1>2, <1>4, <1>5, SourceMoves

\* Nobody moves; a score that is listed anew is told.
LEMMA OutsidePlayed ==
  ASSUME Inv, PlayedInv, (\E m \in Match : Relist(m)) \/ ReaderLooks \/ ReaderInserts
  PROVE  PlayedInv'
<1>1. UNCHANGED <<final, played, work, job>>
  BY DEF Relist, ReaderLooks, ReaderInserts
<1>2. PICK ms : missed'.played = missed.played \cup ms /\ StalePlayed' \subseteq StalePlayed \cup ms
  <2>1. CASE \E m \in Match : Relist(m)
    <3>1. PICK m \in Match, score \in Final \cup {None} : /\ result' = [result EXCEPT ![m].score = score]
                                    /\ missed' = [missed EXCEPT !.played = @ \cup {m}]
      BY <2>1 DEF Relist
    <3>2. \A n \in Match \ {m} : final'[n] = final[n] /\ result'[n] = result[n]
      BY <1>1, <3>1 DEF Inv, DataTypes
    <3>3. missed'.played = missed.played \cup {m}
      BY <3>1 DEF Inv, DataTypes
    <3> QED
      BY <1>1, <3>2, <3>3, OneStale
  <2>2. CASE ReaderLooks \/ ReaderInserts
    <3>1. missed' = missed /\ StalePlayed' = StalePlayed
      BY <2>2, SamePlayed DEF ReaderLooks, ReaderInserts
    <3>2. missed'.played = missed.played \cup {} /\ StalePlayed' \subseteq StalePlayed \cup {}
      BY <3>1
    <3> QED
      BY <3>2
  <2> QED
    BY <2>1, <2>2
<1>3. \A m : PlayedCovered(m) => PlayedCovered(m)'
  BY <1>1, <1>2 DEF PlayedCovered, ArchiveAhead
<1>4. \A m : m \in ms => PlayedCovered(m)'
  BY <1>2 DEF PlayedCovered
<1> QED
  BY <1>1, <1>2, <1>3, <1>4 DEF PlayedInv, FoundInv

\* A part of the scope may have been archived when something fails or the process ends.
LEMMA PartPlayed ==
  ASSUME UNCHANGED <<final, result>>, NEW a,
         \E part \in SUBSET work[a].scope :
           played' = IF work[a].pc = "archive" THEN Archived(part) ELSE played
  PROVE  StalePlayed' \subseteq StalePlayed
<1>1. PICK part \in SUBSET work[a].scope :
        played' = IF work[a].pc = "archive" THEN Archived(part) ELSE played
  OBVIOUS
<1>2. CASE work[a].pc = "archive"
  BY <1>1, <1>2, ArchivedFits
<1>3. CASE work[a].pc # "archive"
  BY <1>1, <1>3, SamePlayed
<1> QED
  BY <1>2, <1>3

\* What was stale among the matches of whoever is gone is told.
LEMMA MissedPlayed ==
  ASSUME Inv, NEW ms
  PROVE  Missed(ms).played = missed.played \cup (ms \cap StalePlayed)
BY DEF Missed

\* A failure leaves behind what is stale then.
LEMMA FailedPlayed == ASSUME Inv, PlayedInv, NEW a \in Actor, Fail(a) PROVE PlayedInv'
<1>1. work' = [work EXCEPT ![a] = Idle] /\ UNCHANGED <<final, result>>
  BY DEF Fail
<1>2. work'[a] = Idle /\ \A b \in Actor \ {a} : work'[b] = work[b]
  BY <1>1, OneMoves
<1>3. Idle.pc = "idle" /\ Idle.scope = {} /\ Idle.found = {}
  BY DEF Idle
<1>4. StalePlayed' \subseteq StalePlayed
  BY <1>1, PartPlayed DEF Fail
<1>5. CASE a \in Job
  <2>1. missed' = Missed(Match) /\ \A k \in Job \ {a} : job'[k] = job[k]
    BY <1>5 DEF Fail, Inv, DataTypes
  <2>2. missed'.played = missed.played \cup (Match \cap StalePlayed)
    BY <2>1, MissedPlayed
  <2>3. StalePlayed' \subseteq missed'.played
    BY <1>4, <2>2 DEF StalePlayed
  <2> QED
    BY <1>2, <1>4, <1>5, <2>1, <2>3, JobMoves
<1>6. CASE a \in Source
  <2>1. job' = job /\ missed' = Missed(work[a].scope \cup work[a].found)
    BY <1>6, DatasetAssumption DEF Fail
  <2>2. missed'.played = missed.played \cup ((work[a].scope \cup work[a].found) \cap StalePlayed)
    BY <2>1, MissedPlayed
  <2>3. \A m \in StalePlayed : m \in work[a].scope \cup work[a].found => PlayedCovered(m)'
    BY <2>2 DEF PlayedCovered
  <2> QED
    BY <1>2, <1>3, <1>4, <1>6, <2>1, <2>2, <2>3, SourceMoves
<1> QED
  BY <1>5, <1>6 DEF Actor

\* A restart queues every job that was to archive, and tells what was stale on the lists of
\* the sources.
LEMMA RestartedPlayed == ASSUME Inv, PlayedInv, Restart PROVE PlayedInv'
<1> DEFINE Lost == UNION {work[s].scope \cup work[s].found : s \in Source}
           queued == [Idle EXCEPT !.pc = "queued"]
<1>1. /\ UNCHANGED <<final, result>> /\ missed' = Missed(Lost)
      /\ work' = [a \in Actor |-> IF a \in Resumable \cup AutoImports THEN queued ELSE Idle]
  BY DEF Restart
<1>2. PICK tidy \in {FALSE, ~Locked} :
        job' = [j \in Job |->
                  IF j \in AutoImports THEN [NoJob EXCEPT !.status = "pending"]
                  ELSE IF j \in Resumable /\ tidy THEN [job[j] EXCEPT !.status = "pending"]
                  ELSE job[j]]
  BY DEF Restart
<1>3. queued.pc = "queued" /\ queued.found = {} /\ Idle.found = {}
  BY DEF Idle
<1> HIDE DEF queued
<1>4. \A s \in Source : work'[s].found = {}
  BY <1>1, <1>3 DEF Actor
<1>5. missed'.played = missed.played \cup (Lost \cap StalePlayed)
  BY <1>1, MissedPlayed
<1>6. \A s \in Source : work[s].scope \cup work[s].found \subseteq Lost
  OBVIOUS
<1> HIDE DEF Lost
<1>7. StalePlayed' \subseteq StalePlayed
  <2>1. PICK a \in Actor : \E part \in SUBSET work[a].scope :
          played' = IF work[a].pc = "archive" THEN Archived(part) ELSE played
    BY DEF Restart
  <2> QED
    BY <1>1, <2>1, PartPlayed
<1>8. ASSUME NEW j \in Job, ArchiveAhead(j) PROVE ArchiveAhead(j)'
  <2>1. j \in Resumable /\ work'[j] = queued
    BY <1>1, <1>8 DEF ArchiveAhead, Resumable, Actor
  <2>2. j \notin AutoImports
    <3>1. job[j] # NoJob
      BY <1>8 DEF ArchiveAhead, NoJob
    <3>2. AutoImports \subseteq Free
      BY DEF AutoImports
    <3> QED
      BY <3>1, <3>2 DEF Free
  <2>3. job[j] \in JobRow /\ job'[j] \in {job[j], [job[j] EXCEPT !.status = "pending"]}
    BY <1>2, <2>2 DEF Inv, DataTypes
  <2>4. job'[j].status \in {"pending", "running"} /\ job'[j].archive
    BY <1>8, <2>3 DEF ArchiveAhead, JobRow
  <2> QED
    BY <1>3, <2>1, <2>4 DEF ArchiveAhead
<1>9. ASSUME NEW m \in StalePlayed' PROVE PlayedCovered(m)'
  <2>1. m \in StalePlayed /\ PlayedCovered(m)
    BY <1>7 DEF PlayedInv
  <2> QED
    BY <1>5, <1>6, <1>8, <2>1 DEF PlayedCovered
<1> QED
  BY <1>4, <1>9 DEF PlayedInv, FoundInv

\* Every step keeps the rows of the archive accounted for.
LEMMA PlayedNext == ASSUME Inv, PlayedInv, [Next]_vars PROVE PlayedInv'
<1>1. CASE UNCHANGED vars
  BY <1>1, SamePlayed DEF vars, PlayedInv, FoundInv, PlayedCovered, ArchiveAhead
<1>2. CASE \E row \in Request : CreateJob(row)
  BY <1>2, CreatedPlayed
<1>3. CASE WorkStep
  BY <1>3, JobsPlayed, ArchivedPlayed, RecomputePlayed, EndedPlayed DEF WorkStep
<1>4. CASE \E s \in Source, m \in Match : Capture(s, m) \/ FindResult(s, m)
  BY <1>4, CapturedPlayed
<1>5. CASE (\E m \in Match : Relist(m)) \/ ReaderLooks \/ ReaderInserts
  BY <1>5, OutsidePlayed
<1>6. CASE Repair \/ Restart \/ \E a \in Actor : Fail(a)
  BY <1>6, RepairPlayed, RestartedPlayed, FailedPlayed
<1> QED
  BY <1>1, <1>2, <1>3, <1>4, <1>5, <1>6 DEF Next

-----------------------------------------------------------------------------
(* The theorems.                                                           *)

\* With no final odds there are no signals to expect.
LEMMA InitInv == ASSUME Init PROVE Inv
<1>1. work = [a \in Actor |-> Idle] /\ WorkRow(Idle) /\ Idle.pc = "idle"
  BY DEF Init, WorkRow, Pc, Idle
<1>2. Inserting = {}
  BY <1>1 DEF Inserting
<1>3. WorkInv
  BY <1>1, <1>2 DEF WorkInv
<1>4. InsertInv /\ FromInv
  BY <1>2 DEF Init, InsertInv, FromInv
<1>5. job \in [Job -> JobRow] /\ \A j \in Job : job[j] = NoJob /\ NoJob.kind = "import_folder"
  BY DEF Init, NoJob, JobRow
<1>6. JobInv
  BY <1>1, <1>5 DEF JobInv, Actor
<1>7. SignalsAccounted
  <2>1. ASSUME NEW m \in Match PROVE SignalsOf(m) = Expected(m)
    <3>1. ~HasFinal(m)
      BY DEF Init, HasFinal, Bookmaker
    <3> QED
      BY <3>1 DEF Init, SignalsOf, Expected
  <2> QED
    BY <2>1 DEF StaleSignals, SignalsAccounted
<1>8. DataTypes
  BY <1>5 DEF Init, DataTypes
<1> QED
  BY <1>3, <1>4, <1>6, <1>7, <1>8 DEF Inv

\* Every step keeps the invariant.
LEMMA NextInv == ASSUME Inv, [Next]_vars PROVE Inv'
<1>1. CASE UNCHANGED vars
  <2>1. WorkInv' /\ InsertInv' /\ FromInv' /\ StaleSignals' = StaleSignals
    BY <1>1, NobodyMoves DEF vars
  <2>2. SignalsAccounted'
    BY <1>1, <2>1, StillAccounted DEF vars
  <2>3. DataTypes' /\ JobInv'
    BY <1>1 DEF vars, Inv, DataTypes, JobInv
  <2> QED
    BY <2>1, <2>2, <2>3 DEF Inv
<1>2. CASE \E row \in Request : CreateJob(row)
  BY <1>2, CreateJobInv
<1>3. CASE WorkStep
  BY <1>3, StartJobInv, LookInv, ActivateInv, FinishJobInv, ArchivePlayedInv, BeginRecomputeInv,
     InsertSignalInv, EndRecomputeInv, EndCaptureInv DEF WorkStep
<1>4. CASE \E s \in Source, m \in Match : Capture(s, m) \/ FindResult(s, m)
  BY <1>4, CaptureInv, FindResultInv
<1>5. CASE (\E m \in Match : Relist(m)) \/ ReaderLooks \/ ReaderInserts
  BY <1>5, OutsideInv
<1>6. CASE Repair \/ Restart \/ \E a \in Actor : Fail(a)
  BY <1>6, RepairInv, RestartInv, FailInv
<1> QED
  BY <1>1, <1>2, <1>3, <1>4, <1>5, <1>6 DEF Next

\* The invariant holds in all states.
LEMMA InvHolds == Spec => []Inv
<1>1. Init => Inv
  BY InitInv
<1>2. Inv /\ [Next]_vars => Inv'
  BY NextInv
<1> QED
  BY <1>1, <1>2, PTL DEF Spec

\* Types, for any number of jobs, matches, records and files.
THEOREM TypeCorrect == Spec => []TypeOK
<1>1. Inv => TypeOK
  BY InvTypes
<1> QED
  BY <1>1, InvHolds, PTL

\* However imports, recomputations, failures and restarts overlap, nobody ever reads a signal
\* that was made from a record of another data set than the stored one.
THEOREM SignalsFromActive == Spec => []SignalsOfActiveData
<1>1. Inv => SignalsOfActiveData
  BY DEF Inv, FromInv, SignalsOfActiveData
<1> QED
  BY <1>1, InvHolds, PTL

\* Signals that do not fit odds and records have someone who will compute them again, or were
\* left behind by a failure, or by a restart in the middle of a cycle.
THEOREM AccountedSignals == Spec => []SignalsAccounted
<1>1. Inv => SignalsAccounted
  BY DEF Inv
<1> QED
  BY <1>1, InvHolds, PTL

\* Nobody has played yet.
LEMMA PlayedInit == ASSUME Init PROVE PlayedInv
<1>1. \A s \in Source : work[s].found = {}
  BY DEF Init, Idle, Actor
<1>2. \A m \in Match : PlayedRow(m) = None
  BY DEF Init, PlayedRow
<1> QED
  BY <1>1, <1>2 DEF PlayedInv, FoundInv, StalePlayed

\* The archive has the row of every match that was played, or somebody is about to archive
\* it, also after a restart; what nobody will archive is what a result found alone, a listed
\* score or a failure left behind.
THEOREM AccountedPlayed == Spec => []PlayedAccounted
<1>1. Init => Inv /\ PlayedInv
  BY InitInv, PlayedInit
<1>2. (Inv /\ PlayedInv) /\ [Next]_vars => (Inv /\ PlayedInv)'
  BY NextInv, PlayedNext
<1>3. PlayedInv => PlayedAccounted
  BY DEF PlayedInv, PlayedCovered, PlayedAccounted
<1> QED
  BY <1>1, <1>2, <1>3, PTL DEF Spec

\* For every file and every way its rows are laid out, no row of an imported file is dropped
\* in silence or lends its score to two blocks: the import report names what is not used.
THEOREM AccountedRows == Spec => []RowsAccounted
<1>1. ASSUME NEW u \in Upload PROVE u \in Reported
  <2>1. ASSUME NEW n \in Readable(u), NEW k \in DOMAIN Files[u][n].tables,
               NEW i \in DOMAIN Files[u][n].tables[k]
        PROVE  RowAccounted(Files[u][n].tables[k], i)
    <3>1. Files[u][n] \in File
      BY FilesAssumption DEF Readable
    <3>2. Files[u][n].tables[k] \in Seq(Seq(Cell))
      BY <3>1 DEF File
    <3>3. PICK len \in Nat : DOMAIN Files[u][n].tables[k] = 1 .. len
      BY <3>2
    <3> QED
      BY <3>3, RowsFit
  <2> QED
    BY <2>1 DEF Reported
<1>2. Inv => RowsAccounted
  BY <1>1 DEF Inv, DataTypes, RowsAccounted
<1> QED
  BY <1>2, InvHolds, PTL

\* A recomputation leaves exactly the signals of its matches, although its rows are stored one
\* by one while readers read: nobody changes odds or records before the last one is there.
THEOREM RecomputeRestored == Spec => RecomputeRestores
<1> DEFINE A == \A a \in Actor : work[a].pc = "insert" /\ EndRecompute(a)
                  => \A m \in work[a].scope : SignalsOf(m) = Expected(m)
<1>1. Inv /\ [Next]_vars => [A]_vars
  BY NothingLeft DEF EndRecompute
<1> QED
  BY <1>1, InvHolds, PTL DEF Spec, RecomputeRestores

\* Signals only go away in a recomputation, or because other content becomes the current
\* batch: importing the current content once more keeps them, whoever activates it.
THEOREM IdempotentImport == Spec => ImportIsIdempotent
<1> DEFINE A == \/ signals \subseteq signals'
                \/ \E a \in Actor : work'[a].pc = "insert"
                \/ Current(active') # Current(active)
<1>1. ASSUME Inv, Next PROVE A
  <2>1. ASSUME NEW j \in Job, Activate(j) PROVE A
    <3>1. CASE ActiveByNow(work[j].upload)
      BY <2>1, <3>1 DEF Activate
    <3>2. CASE ~ActiveByNow(work[j].upload)
      <4>1. active' = <<Content(work[j].upload)>> /\ Current(WithLegacy) # Content(work[j].upload)
        BY <2>1, <3>2 DEF Activate, ActiveByNow
      <4>2. Current(active') = Content(work[j].upload)
        BY <4>1 DEF Current
      <4>3. CASE WithLegacy = active
        BY <4>1, <4>2, <4>3
      <4>4. CASE WithLegacy # active
        <5>1. Current(active) = None
          BY <4>4 DEF WithLegacy, Current
        <5>2. Content(work[j].upload) # None
          <6>1. work[j].pc = "activate" /\ WorkRow(work[j])
            BY <1>1, <2>1, JobIsActor DEF Activate
          <6>2. work[j].upload \in Upload
            BY <6>1 DEF WorkRow
          <6>3. \E v \in Upload : Files[v] = Files[work[j].upload]
            BY <6>2
          <6>4. Content(work[j].upload) \in Upload
            BY <6>3 DEF Content
          <6> QED
            BY <6>4, DatasetAssumption
        <5> QED
          BY <4>2, <5>1, <5>2
      <4> QED
        BY <4>3, <4>4
    <3> QED
      BY <3>1, <3>2
  <2>2. ASSUME NEW a \in Actor, BeginRecompute(a) PROVE A
    <3> DEFINE todo == UNION {Expected(m) : m \in work[a].scope}
               w == [work[a] EXCEPT !.pc = "insert", !.todo = todo]
    <3>1. work' = [work EXCEPT ![a] = w]
      BY <2>2 DEF BeginRecompute
    <3> HIDE DEF todo
    <3>2. w.pc = "insert"
      BY <1>1 DEF Inv, WorkInv, WorkRow
    <3> HIDE DEF w
    <3>3. work'[a].pc = "insert"
      BY <1>1, <3>1, <3>2 DEF Inv, WorkInv
    <3> QED
      BY <3>3
  <2>3. CASE /\ ~\E j \in Job : Activate(j)
             /\ ~\E a \in Actor : BeginRecompute(a)
    <3>1. signals \subseteq signals'
      BY <1>1, <2>3 DEF Next, WorkStep, CreateJob, StartJob, Look, FinishJob, ArchivePlayed,
         InsertSignal, EndRecompute, EndCapture, Capture, FindResult, Relist, Repair, ReaderLooks,
         ReaderInserts, Fail, Restart
    <3> QED
      BY <3>1
  <2> QED
    BY <2>1, <2>2, <2>3
<1>2. Inv /\ [Next]_vars => [A]_vars
  BY <1>1
<1> QED
  BY <1>2, InvHolds, PTL DEF Spec, ImportIsIdempotent

=============================================================================
