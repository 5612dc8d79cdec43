------------------------------ MODULE Arrange ------------------------------
(***************************************************************************)
(* A finite set in the order of a relation, and what is left of a sequence *)
(* when some of its places are picked: said by counting what comes before, *)
(* so that the modules that sort and filter can be reasoned about.         *)
(***************************************************************************)
EXTENDS Integers, Sequences, FiniteSets

\* How many of S come before x.
Place(S, R, x) == Cardinality({y \in S : <<y, x>> \in R})

\* S from the first to the last.
Arranged(S, R) == [n \in 1 .. Cardinality(S) |-> CHOOSE x \in S : Place(S, R, x) = n - 1]

Ascending(I) == {p \in I \X I : p[1] < p[2]}

\* What stands at the places I of a sequence, in its order.
Picked(seq, I) ==
  LET order == Arranged(I, Ascending(I)) IN [n \in DOMAIN order |-> seq[order[n]]]

\* R puts any two of S in one order.
Orders(R, S) ==
  /\ \A x \in S : <<x, x>> \notin R
  /\ \A x, y \in S : x # y => <<x, y>> \in R \/ <<y, x>> \in R
  /\ \A x, y, z \in S : <<x, y>> \in R /\ <<y, z>> \in R => <<x, z>> \in R
=============================================================================
