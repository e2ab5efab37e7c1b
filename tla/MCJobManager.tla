---------------------------- MODULE MCJobManager ----------------------------
(* Small instances of JobManager for TLC. *)
EXTENDS JobManager, TLC

(* Workers and snapshots are interchangeable; neither is ever chosen. *)
Symmetry == Permutations(Workers) \cup Permutations(Snapshots)
=============================================================================
