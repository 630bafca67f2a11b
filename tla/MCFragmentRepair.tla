--------------------------- MODULE MCFragmentRepair ---------------------------
(* TLC instances of FragmentRepair. *)
EXTENDS FragmentRepair, TLC

Symmetric == Permutations(Nodes) \cup Permutations(Passes)

=============================================================================
