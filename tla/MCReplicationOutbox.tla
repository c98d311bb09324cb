------------------------ MODULE MCReplicationOutbox ------------------------
(* TLC instances of ReplicationOutbox. *)
EXTENDS ReplicationOutbox, TLC
=============================================================================
