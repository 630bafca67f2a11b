---------------------------- MODULE MCReplicaStore ----------------------------
(* TLC instances of ReplicaStore. *)
EXTENDS ReplicaStore

=============================================================================
