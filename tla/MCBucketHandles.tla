-------------------------- MODULE MCBucketHandles --------------------------
(* TLC instances of BucketHandles. *)
EXTENDS BucketHandles, TLC

\* Buckets, handlers, handles and inodes are only compared for equality.
Symmetry ==
    Permutations(Names) \cup Permutations(Procs)
        \cup Permutations(Handles) \cup Permutations(Files)
=============================================================================
