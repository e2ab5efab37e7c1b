------------------------- MODULE MCAttemptExecution -------------------------
(* Small instances of AttemptExecution for TLC. *)
EXTENDS AttemptExecution, TLC

(* Inputs are only ever compared with one another. *)
Symmetry == Permutations(Inputs)
=============================================================================
