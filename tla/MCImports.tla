----------------------------- MODULE MCImports -----------------------------
(***************************************************************************)
(* Files for Imports, one of which is imported in a behaviour:             *)
(*   "f1" two lines that are no references, under a fault;                 *)
(*   "f2" a line too large and a reference, under a fault and as many      *)
(*        conflicts as there are tries;                                    *)
(*   "f3" references that share an identifier, in any order.               *)
(***************************************************************************)
EXTENDS Imports, TLC

CONSTANTS f1, f2, f3, i1, o1, e1

Line(kind, ids, extras, fragile, flawed) ==
    [kind |-> kind, vis |-> "PUBLIC", ids |-> ids, extras |-> extras,
     fragile |-> fragile, flawed |-> flawed]

Blank == Line("blank", {}, {}, {}, FALSE)
Huge == Line("huge", {}, {}, {}, FALSE)
Invalid == Line("invalid", {}, {}, {}, FALSE)
Rich == Line("entry", {i1, o1}, {e1}, {e1}, FALSE)
Bare == Line("entry", {i1}, {}, {}, TRUE)

Files == (f1 :> <<Invalid, Blank, Invalid>>) @@ (f2 :> <<Huge, Rich>>)
         @@ (f3 :> <<Rich, Bare, Rich>>)

OneBatch == \A b, c \in Batch : importer[b] = "new" \/ importer[c] = "new" \/ b = c

NoConflict == \A w \in Worker : out[w].kind # "conflict"

NoFault == \A kind \in DOMAIN faults : faults[kind] = 0

Within ==
    /\ OneBatch
    /\ importer[f2] = "new" => NoConflict
    /\ importer[f3] # "new" => NoFault

ImportsSpec ==
    Init /\ [][Next /\ Within']_vars /\ WF_vars(Progress /\ Within')

=============================================================================
