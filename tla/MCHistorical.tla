----------------------------- MODULE MCHistorical -----------------------------
(***************************************************************************)
(* A small instance of HistoricalDataset: prices of which two are the same  *)
(* in cents, and files that hold every kind of row.                         *)
(***************************************************************************)
EXTENDS HistoricalDataset

MCPrice == 1 .. 3
MCCents == <<1, 2, 2>>

Quote(home, draw, away) == [home |-> home, draw |-> draw, away |-> away]

MCOffer == {[bwin |-> Quote(1, 3, 1), unibet |-> Quote(1, 2, 1)],
            [bwin |-> Quote(1, 1, 1), unibet |-> None]}

MCFinal == {[home |-> 2, away |-> 1]}

P(p) == [kind |-> "price", value |-> p]
S(h, a) == [kind |-> "score", value |-> [home |-> h, away |-> a]]
Mark(kind) == [kind |-> kind, value |-> 0]

Blank == Mark("blank")

\* An early score, a pair with a score of its own and one below it, a pair that differs in one
\* draw price, a pair without a score, a row of text and a row of odds that is left over.
Full ==
  << <<S(5, 0), S(1, 0)>>,
     <<Mark("date"), Blank, Blank, Blank, Blank>>,
     <<P(1), P(2), P(1), S(1, 0), S(0, 0)>>,
     <<P(1), P(2), P(1), Blank, Blank>>,
     <<P(1), P(2), P(1), Blank, Blank>>,
     <<Blank, Blank, Blank, S(0, 1), Blank>>,
     <<P(1), P(1), P(1), S(3, 1), Blank>>,
     <<P(1), P(1), P(1)>>,
     <<P(1), P(2), P(2)>>,
     <<Mark("text"), Blank>>,
     <<P(2), P(2), P(2), S(4, 4), Blank>> >>

\* The first cell of one row is doubled.
Usable ==
  << <<P(1), P(1), P(2), P(1), S(1, 1), Blank>>,
     <<P(1), P(2), P(1), Blank, Blank>> >>

File1 == [dataset |-> "Odds", readable |-> TRUE, tables |-> <<Full>>]
File2 == [dataset |-> "Usable Odds", readable |-> TRUE, tables |-> <<Usable, <<>>>>]
Broken == [dataset |-> "Odds", readable |-> FALSE, tables |-> <<>>]

MCUpload == {"zip", "copy", "usable", "broken"}

MCFiles ==
  [u \in MCUpload |->
     CASE u \in {"zip", "copy"} -> [f1 |-> File1, f2 |-> File2]
       [] u = "usable" -> [f2 |-> File2, f3 |-> Broken]
       [] u = "broken" -> [f3 |-> Broken]]

MCFolder == {"copy", "usable", "broken"}

Asked(kind, upload, archive) ==
  [status |-> "pending", kind |-> kind, upload |-> upload, archive |-> archive]

MCRequest ==
  {Asked("import_zip", "zip", TRUE), Asked("import_folder", None, TRUE), Asked("recompute_signals", None, FALSE)}

MCOldRecords == Records("f2", File2)

=============================================================================
