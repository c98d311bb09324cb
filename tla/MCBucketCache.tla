--------------------------- MODULE MCBucketCache ---------------------------
(* TLC instances of BucketCache. *)
EXTENDS BucketCache, TLC

\* Names, handlers and configurations are only compared for equality.
Symmetry == Permutations(Procs) \cup Permutations(Configs)
=============================================================================
