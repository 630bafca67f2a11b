---------------------------- MODULE MCTableAppend ----------------------------
(* Journaled appends racing a keyed request that its client sends twice. *)
EXTENDS TableAppend

=============================================================================
