------------------------------ MODULE MCIngest ------------------------------
(* Constants of the TLC runs of Ingest.                                    *)
EXTENDS Ingest, TLC

\* KICKOFF, UPCOMING and BACKFILL of CapturePriority.
Priorities == {0, 10, 40}

\* KICKOFF and BACKFILL.
TwoPriorities == {0, 40}

Symmetry == Permutations(Worker) \cup Permutations(Caller) \cup Permutations(Key)

=============================================================================
