----------------------------- MODULE MCIndices -----------------------------
(* Small instances of Indices: the second reference duplicates the first. *)
EXTENDS Indices

SecondOfFirst == [r \in Ref |-> IF r = 2 THEN 1 ELSE r]
=============================================================================
