--------------------------- MODULE MCTimelineGroup ---------------------------
(* Small instance of TimelineGroup for TLC. *)
EXTENDS TimelineGroup

\* Retry identities are interchangeable, so only the states in which the bound
\* ones are 1, 2, 3, ... are explored.
CanonicalRequests ==
    \A r \in Requests : retries[r].index > 0 => r = 1 \/ retries[r - 1].index > 0
=============================================================================
