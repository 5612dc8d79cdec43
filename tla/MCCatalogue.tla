---------------------------- MODULE MCCatalogue ----------------------------
(***************************************************************************)
(* Two IDs and two releases.  The old one ships both mirrors and knows one *)
(* migration, the new one ships one of them, changed, and knows two.       *)
(***************************************************************************)
EXTENDS Catalogue, TLC

CONSTANTS i1, i2, c1, c2, old, new

Entry(content, enabled) == [content |-> content, enabled |-> enabled]

MCShipped ==
  old :> (i1 :> Entry(c1, TRUE) @@ i2 :> Entry(c1, FALSE)) @@
  new :> (i1 :> Entry(c2, TRUE) @@ i2 :> None)

MCSteps == old :> 1 @@ new :> 2

Symmetry == Permutations(Probers)
=============================================================================
