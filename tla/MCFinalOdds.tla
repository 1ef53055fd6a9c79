----------------------------- MODULE MCFinalOdds -----------------------------
(* Constants of the TLC runs of FinalOdds.                                  *)
EXTENDS FinalOdds, TLC

CONSTANTS bwin, unibet

\* The default setting, one bookmaker only, and none.
SomeRequirements == {{bwin, unibet}, {bwin}, {}}

Symmetry == Permutations(Group)

=============================================================================
