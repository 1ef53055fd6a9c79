--------------------------- MODULE MCMonitorCycle ---------------------------
(* Constants of the TLC runs of MonitorCycle.                              *)
EXTENDS MonitorCycle, TLC

OneKickoff == {1}
MovingKickoffs == {1, 2, Null}
EarlyKickoff == {0}
EarlyOrUnknown == {0, 1, Null}

WorkerSymmetry == Permutations(Worker)
MatchSymmetry == Permutations(Match)
Symmetry == WorkerSymmetry \cup MatchSymmetry

=============================================================================
