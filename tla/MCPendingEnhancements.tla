----------------------- MODULE MCPendingEnhancements -----------------------
(* Instances of PendingEnhancements for TLC. *)
EXTENDS PendingEnhancements, TLC

\* References, robots and API handlers are interchangeable when every reference
\* matches the search.
AllSymmetry ==
    Permutations(Reference) \cup Permutations(Robot) \cup Permutations(Caller)
=============================================================================
