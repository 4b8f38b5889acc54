------------------------------ MODULE MCCatalog ------------------------------
(* Two requests at a time on a public list and the private list of a user. *)
EXTENDS Catalog, TLC

CONSTANTS l1, l2, u

MCOwnersOf == (l1 :> {"public"}) @@ (l2 :> {u})
MCCapacity == (l1 :> 3) @@ (l2 :> 1)

MCSymmetry == Permutations(Requests)
=============================================================================
