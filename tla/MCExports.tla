----------------------------- MODULE MCExports -----------------------------
(* Two exports: a list that names a reference twice, and a search.         *)
EXTENDS Exports, TLC

CONSTANTS x1, x2, r1, r2, r3

Kinds == x1 :> "reference" @@ x2 :> "search"

Lists == x1 :> <<r2, r1, r2>> @@ x2 :> <<>>

=============================================================================
