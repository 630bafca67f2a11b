-------------------------- MODULE MCPayloadAllocation --------------------------
(* One WAL body, three voters with k = 2 and a spare node: a coded certificate  *)
(* takes all three voters and is rebuilt from two, complete copies take two and *)
(* are rebuilt from one.                                                        *)
EXTENDS PayloadAllocation, TLC

\* The first voters are interchangeable.
VoterSymmetry == Permutations(FirstVoters)
=============================================================================
