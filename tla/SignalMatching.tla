---------------------------- MODULE SignalMatching ----------------------------
(***************************************************************************)
(* How a match is compared with the historical records (database.py): the   *)
(* six final odds of Bwin and Unibet must be equal, or all but one draw     *)
(* price.  Odds are [Bookmaker -> [Side -> Price]], a record has odds, a    *)
(* data set, a source file and a score.                                    *)
(***************************************************************************)
EXTENDS Naturals, FiniteSets

CONSTANTS
  Price,   \* the prices that are stored
  Cents    \* what normalize_odds makes of each of them

Bookmaker == {"bwin", "unibet"}
Side == {"home", "draw", "away"}

Triple == [Side -> Price]
Odds == [Bookmaker -> Triple]

ASSUME MatchingAssumption == Cents \in [Price -> Nat]

Dataset == {"Odds", "Usable Odds"}
Score == [home : Nat, away : Nat]

-----------------------------------------------------------------------------
(* Keys and index.                                                         *)

Other(b) == IF b = "bwin" THEN "unibet" ELSE "bwin"

Normal(odds) == [b \in Bookmaker |-> [s \in Side |-> Cents[odds[b][s]]]]

\* Defect: the draw price that may differ is part of the key.
OneDrawKeyWithDraw(odds, b) ==
  [differs |-> b, home |-> Normal(odds)[b]["home"], away |-> Normal(odds)[b]["draw"],
   other |-> Normal(odds)[Other(b)]]

\* The key under which two odds meet although the draw price of b differs.
OneDrawKey(odds, b) ==
  [differs |-> b, home |-> Normal(odds)[b]["home"], away |-> Normal(odds)[b]["away"],
   other |-> Normal(odds)[Other(b)]]

OneDrawKeys(odds) == {OneDrawKey(odds, b) : b \in Bookmaker}

Index(records) ==
  [exact    |-> [k \in {Normal(r.odds) : r \in records} |->
                   {r \in records : Normal(r.odds) = k}],
   one_draw |-> [k \in UNION {OneDrawKeys(r.odds) : r \in records} |->
                   {r \in records : k \in OneDrawKeys(r.odds)}]]

Lookup(index, key) == IF key \in DOMAIN index THEN index[key] ELSE {}

-----------------------------------------------------------------------------
(* The check of what the index finds.                                      *)

Same(odds, r, b, s) == Cents[odds[b][s]] = Cents[r.odds[b][s]]

IsExact(odds, r, b) == \A s \in Side : Same(odds, r, b, s)

DrawDiffers(odds, r, b) ==
  Same(odds, r, b, "home") /\ Same(odds, r, b, "away") /\ ~Same(odds, r, b, "draw")

IsExactSix(odds, r) == \A b \in Bookmaker : IsExact(odds, r, b)

IsOneDraw(odds, r) == \E b \in Bookmaker : DrawDiffers(odds, r, b) /\ IsExact(odds, r, Other(b))

ExactRecords(odds, index) ==
  {r \in Lookup(index.exact, Normal(odds)) : IsExactSix(odds, r)}

OneDrawRecords(odds, index) ==
  {r \in UNION {Lookup(index.one_draw, k) : k \in OneDrawKeys(odds)} : IsOneDraw(odds, r)}

-----------------------------------------------------------------------------
(* The groups of records that become signals.                              *)

From(records, dataset) == {r \in records : r.dataset = dataset}

\* Exact matches come from Odds, and from Usable Odds only if Odds has none.
ExactGroups(exact) ==
  IF From(exact, "Odds") # {}
  THEN {[type |-> "exact_odds", dataset |-> {"Odds"}, records |-> From(exact, "Odds")]}
  ELSE {[type |-> "exact_odds", dataset |-> {d}, records |-> From(exact, d)] :
          d \in {x \in {"Usable Odds"} : From(exact, x) # {}}}

\* One-draw matches of both data sets are merged; dataset is the set the label names.
OneDrawGroups(found) ==
  {[type |-> "one_draw", dataset |-> {r.dataset : r \in rs}, records |-> rs] :
     rs \in {found} \ {{}}}

Groups(odds, index) ==
  ExactGroups(ExactRecords(odds, index)) \cup OneDrawGroups(OneDrawRecords(odds, index))

\* compute_outcome_stats; the percentages are kept as counts.
Stats(records) ==
  LET Count(Won(_)) == Cardinality({r \in records : Won(r.score)})
  IN  [sample |-> Cardinality(records),
       home   |-> Count(LAMBDA x : x.home > x.away),
       draw   |-> Count(LAMBDA x : x.home = x.away),
       away   |-> Count(LAMBDA x : x.home < x.away),
       over   |-> [n \in 0 .. 2 |-> Count(LAMBDA x : x.home + x.away > n)],
       btts   |-> Count(LAMBDA x : x.home > 0 /\ x.away > 0)]

\* The rows of one match: each group gives one per bookmaker.
Rows(m, odds, records) ==
  {[match |-> m, type |-> g.type, dataset |-> g.dataset, bookmaker |-> b,
    current |-> Normal(odds)[b], stats |-> Stats(g.records), from |-> g.records] :
     g \in Groups(odds, Index(records)), b \in Bookmaker}

-----------------------------------------------------------------------------
(* What the board tells its reader ("Exact 6-odds Bwin + Unibet match", "One *)
(* draw odd differs; other five odds match").                              *)

Differences(odds, r) == {p \in Bookmaker \X Side : ~Same(odds, r, p[1], p[2])}

PromisedExact(odds, records) == {r \in records : Differences(odds, r) = {}}

PromisedOneDraw(odds, records) ==
  {r \in records : \E b \in Bookmaker : Differences(odds, r) = {<<b, "draw">>}}

=============================================================================
