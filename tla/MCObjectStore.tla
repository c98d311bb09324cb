--------------------------- MODULE MCObjectStore ---------------------------
(* TLC instances of ObjectStore. *)
EXTENDS ObjectStore, TLC

\* Blob IDs, version IDs and processes are only compared for equality.
Symmetry == Permutations(Blobs) \cup Permutations(Uuids) \cup Permutations(Procs)
=============================================================================
