------------------------------ MODULE MCBackup ------------------------------
(* Bounded instances of Backup.  Places and commands are interchangeable.   *)
EXTENDS Backup, TLC

Interchangeable == Permutations(Places) \cup Permutations(Commands)

=============================================================================
