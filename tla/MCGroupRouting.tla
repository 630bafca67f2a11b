---------------------------- MODULE MCGroupRouting ----------------------------
(* Two replicas and two writers, each with one append. *)
EXTENDS GroupRouting
=============================================================================
