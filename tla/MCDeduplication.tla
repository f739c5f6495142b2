-------------------------- MODULE MCDeduplication --------------------------
(* Instances of Deduplication for TLC. *)
EXTENDS Deduplication, TLC

CONSTANTS r1, r2, r3, id1, id2

\* r1 and r2 share a trusted identifier, r3 has one of its own.
PairAndSingle == (r1 :> {id1}) @@ (r2 :> {id1}) @@ (r3 :> {id2})

\* r2 shares a trusted identifier with each of r1 and r3.
Bridged == (r1 :> {id1}) @@ (r2 :> {id1, id2}) @@ (r3 :> {id2})

\* Every reference has a trusted identifier of its own.
Apart == (r1 :> {id1}) @@ (r2 :> {id2}) @@ (r3 :> {})

\* Only r1 has a trusted identifier.
OnlyFirst == (r1 :> {id1}) @@ (r2 :> {}) @@ (r3 :> {})

\* r1 and r2 share a trusted identifier, r3 has none.
PairAndNone == (r1 :> {id1}) @@ (r2 :> {id1}) @@ (r3 :> {})

\* No reference has an identifier of the kind.
Nobody == (r1 :> {}) @@ (r2 :> {}) @@ (r3 :> {})

\* Request handlers are interchangeable.
HandlerSymmetry == Permutations(Handler)
=============================================================================
