---------------------------- MODULE MCArchiveJobs ----------------------------
(* Constants of the TLC runs of ArchiveJobs.                               *)
EXTENDS ArchiveJobs, TLC

Symmetry == Permutations(Run) \cup Permutations(Event) \cup Permutations(Bookmaker)

=============================================================================
