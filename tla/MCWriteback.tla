----------------------------- MODULE MCWriteback -----------------------------
(* TLC instances of Writeback. *)
EXTENDS Writeback, TLC

\* Keys differ in nothing; objects do, since a restart orders them.
Symmetric == Permutations(Keys)

(* Bounds of the run: one DELETE is under way at a time (two DELETEs hold   *)
(* different guards and touch different keys), and only the first life of   *)
(* the process is shut down before it ends.                                 *)
OneDelete     == Cardinality({k \in Keys : delPc[k] # "idle"}) <= 1
FirstShutdown == shutdown => restarts = 0
=============================================================================
