--------------------------- MODULE MCExportHistory ---------------------------
(* Small instances of ExportHistory for TLC. *)
EXTENDS ExportHistory, TLC

(* Invocations differ in nothing but their name.                           *)
Symmetry == Permutations(Invocations)
=============================================================================
