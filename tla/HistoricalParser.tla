--------------------------- MODULE HistoricalParser ---------------------------
(***************************************************************************)
(* How a table of a DOCX file of the historical database is read            *)
(* (historical_parser.py).  Two rows with odds, Bwin above Unibet, make a   *)
(* block; scores stand in these rows or in rows below them.                 *)
(*                                                                         *)
(* A table is a sequence of rows, a row a sequence of cells.  The kind of a *)
(* cell is what its text is taken for.                                     *)
(***************************************************************************)
EXTENDS SignalMatching, Sequences

Cell == [kind : {"price"}, value : Price] \cup [kind : {"score"}, value : Score]
          \cup [kind : {"blank", "date", "text"}, value : {0}]

\* A file: the data set its folder belongs to, whether it opens, and its tables.
File == [dataset : Dataset, readable : BOOLEAN, tables : Seq(Seq(Seq(Cell)))]

-----------------------------------------------------------------------------
(* One row.                                                                *)

Is(cells, i, kind) == i \in DOMAIN cells /\ cells[i].kind = kind

\* A table with its first cell doubled was seen once: the copy is dropped.
Doubled(row) ==
  /\ Len(row) >= 6
  /\ Is(row, 1, "price") /\ Is(row, 2, "price")
  /\ Cents[row[1].value] = Cents[row[2].value]

Cells(row) ==
  IF Doubled(row) THEN SubSeq(row, 2, 6)
  ELSE SubSeq(row, 1, IF Len(row) < 5 THEN Len(row) ELSE 5)

HasOdds(cells) == \A i \in 1 .. 3 : Is(cells, i, "price")

RowOdds(cells) ==
  [home |-> cells[1].value, draw |-> cells[2].value, away |-> cells[3].value]

\* The cell with the full-time score, 0 if there is none.
ScoreCell(cells) ==
  IF Is(cells, 4, "score") THEN 4
  ELSE IF /\ Len(cells) >= 2 /\ Is(cells, 1, "score")
          /\ \A i \in 3 .. Len(cells) : Is(cells, i, "blank")
       THEN 1 ELSE 0

HasScore(cells) == ScoreCell(cells) # 0

\* A date, or a remark in brackets, alone in its row.
IsMetadata(cells) ==
  \E i \in DOMAIN cells :
    Is(cells, i, "date") /\ \A k \in DOMAIN cells \ {i} : Is(cells, k, "blank")

IsEmpty(cells) == \A i \in DOMAIN cells : Is(cells, i, "blank")

-----------------------------------------------------------------------------
(* One table.                                                              *)

OddsRows(t) == {i \in DOMAIN t : HasOdds(Cells(t[i]))}

ScoreOnlyRows(t) == {i \in DOMAIN t : ~HasOdds(Cells(t[i])) /\ HasScore(Cells(t[i]))}

UnparsedRows(t) ==
  {i \in DOMAIN t : LET c == Cells(t[i])
                    IN  ~IsEmpty(c) /\ ~HasOdds(c) /\ ~HasScore(c) /\ ~IsMetadata(c)}

\* How many rows with odds stand above row i.
Above(t, i) == Cardinality({k \in OddsRows(t) : k < i})

\* With an odd number of rows with odds the last one is left over.
Blocks(t) ==
  {p \in OddsRows(t) \X OddsRows(t) : Above(t, p[1]) % 2 = 0 /\ Above(t, p[2]) = Above(t, p[1]) + 1}

LeftOver(t) ==
  {i \in OddsRows(t) : Cardinality(OddsRows(t)) % 2 = 1 /\ Above(t, i) = Cardinality(OddsRows(t)) - 1}

BlocksAbove(t, i) == {p \in Blocks(t) : p[2] < i}

\* A row that holds only scores belongs to the last block that is complete above it.
Owner(t, i) == CHOOSE p \in BlocksAbove(t, i) : \A q \in BlocksAbove(t, i) : q[2] <= p[2]

OutcomeRows(t, p) ==
  {i \in {p[1], p[2]} : HasScore(Cells(t[i]))}
    \cup {i \in ScoreOnlyRows(t) : BlocksAbove(t, i) # {} /\ Owner(t, i) = p}

\* Defect: rows of scores above the first block are dropped without a warning.
WarningsWithoutEarly(t) ==
  UnparsedRows(t) \cup LeftOver(t) \cup {p[2] : p \in {q \in Blocks(t) : OutcomeRows(t, q) = {}}}

\* The rows a warning names.
Warnings(t) ==
  UnparsedRows(t) \cup LeftOver(t)
    \cup {i \in ScoreOnlyRows(t) : BlocksAbove(t, i) = {}}
    \cup {p[2] : p \in {q \in Blocks(t) : OutcomeRows(t, q) = {}}}

\* block_records: one record per outcome, with the odds of its block.
Records(name, file) ==
  UNION {UNION {{[file |-> name, table |-> n, row |-> i, dataset |-> file.dataset,
                  odds |-> [bwin   |-> RowOdds(Cells(file.tables[n][p[1]])),
                            unibet |-> RowOdds(Cells(file.tables[n][p[2]]))],
                  score |-> LET c == Cells(file.tables[n][i]) IN c[ScoreCell(c)].value] :
                   i \in OutcomeRows(file.tables[n], p)} :
                p \in Blocks(file.tables[n])} :
         n \in DOMAIN file.tables}

-----------------------------------------------------------------------------
(* What the import report must account for.                                *)

\* Row i is in no block that has an outcome, and is no outcome of one.
Unused(t, i) ==
  \A p \in Blocks(t) : OutcomeRows(t, p) # {} => i \notin {p[1], p[2]} \cup OutcomeRows(t, p)

\* The blocks row i lends a score to.
Uses(t, i) == {p \in Blocks(t) : i \in OutcomeRows(t, p)}

RowAccounted(t, i) ==
  LET c == Cells(t[i])
  IN  /\ Cardinality(Uses(t, i)) <= 1
      /\ Unused(t, i) /\ ~IsEmpty(c) /\ ~IsMetadata(c)
           => \/ i \in Warnings(t)
              \/ \E p \in Blocks(t) : p[1] = i /\ p[2] \in Warnings(t)

=============================================================================
