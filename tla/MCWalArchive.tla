----------------------------- MODULE MCWalArchive -----------------------------
(* Two nodes, two segments of two units, chunks that straddle a boundary. *)
EXTENDS WalArchive

\* A range across both segments.
SomeReads == {<<1, 4>>}
NoReads   == {}
=============================================================================
