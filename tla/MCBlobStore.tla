----------------------------- MODULE MCBlobStore -----------------------------
(* Small instances of BlobStore for TLC. *)
EXTENDS BlobStore, TLC

(* No action chooses among uploads or digests. *)
Symmetry == Permutations(Uploads) \cup Permutations(Digests)
=============================================================================
