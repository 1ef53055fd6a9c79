--------------------------- MODULE MCMarketCapture ---------------------------
(***************************************************************************)
(* A small instance of MarketCapture: one call with up to three markets,    *)
(* two of which run at a time, and a queue that is full with one write.     *)
(***************************************************************************)
EXTENDS MarketCapture

MCMarket == {"x", "y", "z"}

MCAnswers == [m \in MCMarket |-> IF m = "x" THEN Content \ {"complete"} ELSE {"complete"}]

=============================================================================
