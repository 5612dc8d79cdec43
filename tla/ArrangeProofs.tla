--------------------------- MODULE ArrangeProofs ---------------------------
(***************************************************************************)
(* Counting what comes before each puts a finite set in order: as many     *)
(* places as elements, each taken once.  No induction is needed, only that *)
(* an injection between finite sets of one size is onto.                   *)
(***************************************************************************)
EXTENDS Arrange, FiniteSetTheorems, TLAPS

LEMMA Sequence ==
  ASSUME NEW T, NEW c \in Nat, NEW f \in [1 .. c -> T]
  PROVE  f \in Seq(T) /\ Len(f) = c /\ DOMAIN f = 1 .. c
  OBVIOUS

\* A place is one of as many as there are elements.
LEMMA PlaceType ==
  ASSUME NEW S, IsFiniteSet(S), NEW R, Orders(R, S), NEW x \in S
  PROVE  Place(S, R, x) \in 0 .. Cardinality(S) - 1
  <1> DEFINE before == {y \in S : <<y, x>> \in R}
  <1>1. before \in SUBSET S /\ x \notin before
    BY DEF Orders
  <1>2. IsFiniteSet(before) /\ Cardinality(before) <= Cardinality(S)
        /\ Cardinality(before) # Cardinality(S)
    BY <1>1, FS_Subset
  <1>3. Cardinality(before) \in Nat /\ Cardinality(S) \in Nat
    BY <1>2, FS_CardinalityType
  <1>4. QED
    BY <1>2, <1>3 DEF Place

\* What comes later has more before it.
LEMMA PlaceGrows ==
  ASSUME NEW S, IsFiniteSet(S), NEW R, Orders(R, S), NEW x \in S, NEW y \in S,
         <<x, y>> \in R
  PROVE  Place(S, R, x) < Place(S, R, y)
  <1> DEFINE Before(z) == {w \in S : <<w, z>> \in R}
  <1>1. Before(x) \in SUBSET Before(y) /\ Before(x) # Before(y)
    BY DEF Orders
  <1>2. IsFiniteSet(Before(y))
    BY FS_Subset, Before(y) \in SUBSET S
  <1>3. /\ IsFiniteSet(Before(x)) /\ Cardinality(Before(x)) <= Cardinality(Before(y))
        /\ Cardinality(Before(x)) # Cardinality(Before(y))
    BY <1>1, <1>2, FS_Subset
  <1>4. Cardinality(Before(x)) \in Nat /\ Cardinality(Before(y)) \in Nat
    BY <1>2, <1>3, FS_CardinalityType
  <1>5. QED
    BY <1>3, <1>4 DEF Place

\* No two share a place, and the places say which of two comes first.
LEMMA PlaceTellsApart ==
  ASSUME NEW S, IsFiniteSet(S), NEW R, Orders(R, S), NEW x \in S, NEW y \in S
  PROVE  /\ Place(S, R, x) = Place(S, R, y) => x = y
         /\ Place(S, R, x) < Place(S, R, y) => <<x, y>> \in R
  <1>1. Place(S, R, x) \in Int /\ Place(S, R, y) \in Int
    BY PlaceType
  <1>2. x # y => <<x, y>> \in R \/ <<y, x>> \in R
    BY DEF Orders
  <1>3. <<x, y>> \in R => Place(S, R, x) < Place(S, R, y)
    BY PlaceGrows
  <1>4. <<y, x>> \in R => Place(S, R, y) < Place(S, R, x)
    BY PlaceGrows
  <1>5. QED
    BY <1>1, <1>2, <1>3, <1>4

\* Every place is taken.
LEMMA PlaceTaken ==
  ASSUME NEW S, IsFiniteSet(S), NEW R, Orders(R, S), NEW n \in 0 .. Cardinality(S) - 1
  PROVE  \E x \in S : Place(S, R, x) = n
  <1> DEFINE c == Cardinality(S)
             places == 0 .. c - 1
             f == [x \in S |-> Place(S, R, x)]
  <1>1. c \in Nat
    BY FS_CardinalityType
  <1> HIDE DEF c
  <1>2. IsFiniteSet(places) /\ Cardinality(places) = c
    BY <1>1, FS_Interval, 0 \in Int, c - 1 \in Int
  <1>3. f \in [S -> places]
    BY PlaceType DEF c
  <1>4. \A x, y \in S : f[x] = f[y] => x = y
    BY PlaceTellsApart
  <1>5. f \in Injection(S, places)
    BY <1>3, <1>4 DEF Injection, IsInjective
  <1>6. f \in Surjection(S, places)
    BY <1>2, <1>5, FS_Injection DEF c
  <1>7. \E x \in S : f[x] = n
    BY <1>6 DEF Surjection, c
  <1>8. QED
    BY <1>7

\* The arrangement holds every element once, in order.
LEMMA ArrangedInOrder ==
  ASSUME NEW S, IsFiniteSet(S), NEW R, Orders(R, S)
  PROVE  /\ Cardinality(S) \in Nat
         /\ Arranged(S, R) \in [1 .. Cardinality(S) -> S]
         /\ \A n \in 1 .. Cardinality(S) : Place(S, R, Arranged(S, R)[n]) = n - 1
         /\ \A x \in S : /\ Place(S, R, x) + 1 \in 1 .. Cardinality(S)
                         /\ Arranged(S, R)[Place(S, R, x) + 1] = x
         /\ \A m, n \in 1 .. Cardinality(S) :
              m < n <=> <<Arranged(S, R)[m], Arranged(S, R)[n]>> \in R
  <1> DEFINE c == Cardinality(S)
             order == Arranged(S, R)
  <1>1. c \in Nat
    BY FS_CardinalityType
  <1>2. ASSUME NEW n \in 1 .. c
        PROVE  order[n] \in S /\ Place(S, R, order[n]) = n - 1
    <2>1. n - 1 \in 0 .. c - 1
      BY <1>1
    <2>2. \E x \in S : Place(S, R, x) = n - 1
      BY <2>1, PlaceTaken
    <2>3. QED
      BY <2>2 DEF Arranged
  <1>3. order \in [1 .. c -> S]
    BY <1>2 DEF Arranged
  <1>4. ASSUME NEW x \in S
        PROVE  Place(S, R, x) + 1 \in 1 .. c /\ order[Place(S, R, x) + 1] = x
    <2>1. Place(S, R, x) \in 0 .. c - 1
      BY PlaceType
    <2>2. Place(S, R, x) + 1 \in 1 .. c
      BY <2>1, <1>1
    <2>3. /\ order[Place(S, R, x) + 1] \in S
          /\ Place(S, R, order[Place(S, R, x) + 1]) = (Place(S, R, x) + 1) - 1
      BY <2>2, <1>2
    <2>4. Place(S, R, order[Place(S, R, x) + 1]) = Place(S, R, x)
      BY <2>1, <2>3, <1>1
    <2>5. QED
      BY <2>2, <2>3, <2>4, PlaceTellsApart
  <1>5. ASSUME NEW m \in 1 .. c, NEW n \in 1 .. c
        PROVE  m < n <=> <<order[m], order[n]>> \in R
    <2>1. /\ order[m] \in S /\ Place(S, R, order[m]) = m - 1
          /\ order[n] \in S /\ Place(S, R, order[n]) = n - 1
      BY <1>2
    <2>2. m < n <=> Place(S, R, order[m]) < Place(S, R, order[n])
      BY <2>1
    <2>3. QED
      BY <2>1, <2>2, PlaceTellsApart, PlaceGrows
  <1>6. QED
    BY <1>1, <1>2, <1>3, <1>4, <1>5

\* As many come first as are asked for.
LEMMA FirstPlaces ==
  ASSUME NEW S, IsFiniteSet(S), NEW R, Orders(R, S), NEW k \in 0 .. Cardinality(S)
  PROVE  Cardinality({x \in S : Place(S, R, x) < k}) = k
  <1> DEFINE T == {x \in S : Place(S, R, x) < k}
             places == 0 .. k - 1
             f == [x \in T |-> Place(S, R, x)]
  <1>1. Cardinality(S) \in Nat
    BY FS_CardinalityType
  <1>2. k \in Nat /\ k <= Cardinality(S)
    BY <1>1
  <1>3. IsFiniteSet(places) /\ Cardinality(places) = k
    BY <1>2, FS_Interval, 0 \in Int, k - 1 \in Int
  <1>4. \A x \in T : Place(S, R, x) \in places
    BY <1>1, <1>2, PlaceType
  <1>5. f \in Injection(T, places)
    <2>1. f \in [T -> places]
      BY <1>4
    <2>2. \A x, y \in T : f[x] = f[y] => x = y
      BY PlaceTellsApart
    <2>3. QED
      BY <2>1, <2>2 DEF Injection, IsInjective
  <1>6. ASSUME NEW n \in places PROVE \E x \in T : f[x] = n
    <2>1. n \in 0 .. Cardinality(S) - 1 /\ n < k
      BY <1>1, <1>2
    <2>2. QED
      BY <2>1, PlaceTaken
  <1>7. f \in Surjection(T, places)
    BY <1>5, <1>6 DEF Surjection, Injection
  <1>8. QED
    BY <1>3, <1>5, <1>7, FS_Injection

LEMMA AscendingOrders ==
  ASSUME NEW I \in SUBSET Int
  PROVE  Orders(Ascending(I), I)
  BY DEF Orders, Ascending

\* The places picked, in ascending order.
Places(I) == Arranged(I, Ascending(I))

\* A sequence picks as many as there are places, in their order.
LEMMA PickedInOrder ==
  ASSUME NEW seq, NEW I \in SUBSET Int, IsFiniteSet(I)
  PROVE  /\ Cardinality(I) \in Nat
         /\ Places(I) \in [1 .. Cardinality(I) -> I]
         /\ Picked(seq, I) = [n \in 1 .. Cardinality(I) |-> seq[Places(I)[n]]]
         /\ \A i \in I : \E n \in 1 .. Cardinality(I) : Places(I)[n] = i
         /\ \A m, n \in 1 .. Cardinality(I) : m < n <=> Places(I)[m] < Places(I)[n]
  <1> DEFINE R == Ascending(I)
             order == Arranged(I, R)
  <1>1. Orders(R, I)
    BY AscendingOrders
  <1>2. /\ Cardinality(I) \in Nat /\ order \in [1 .. Cardinality(I) -> I]
        /\ \A i \in I : /\ Place(I, R, i) + 1 \in 1 .. Cardinality(I)
                        /\ order[Place(I, R, i) + 1] = i
        /\ \A m, n \in 1 .. Cardinality(I) : m < n <=> <<order[m], order[n]>> \in R
    BY <1>1, ArrangedInOrder
  <1>3. \A m, n \in 1 .. Cardinality(I) : m < n <=> order[m] < order[n]
    BY <1>2 DEF Ascending
  <1>4. Picked(seq, I) = [n \in 1 .. Cardinality(I) |-> seq[order[n]]]
    BY <1>2 DEF Picked
  <1>5. QED
    BY <1>2, <1>3, <1>4 DEF Places

\* What is picked from the start is a prefix.
LEMMA PickedPrefix ==
  ASSUME NEW seq, NEW c \in Nat
  PROVE  Picked(seq, 1 .. c) = [n \in 1 .. c |-> seq[n]]
  <1> DEFINE I == 1 .. c
             R == Ascending(I)
             order == Arranged(I, R)
  <1>1. I \in SUBSET Int /\ IsFiniteSet(I) /\ Cardinality(I) = c
    BY FS_Interval
  <1>2. ASSUME NEW n \in I
        PROVE  Place(I, R, n) = n - 1
    <2>1. {y \in I : <<y, n>> \in R} = 1 .. n - 1
      BY DEF Ascending
    <2>2. Cardinality(1 .. n - 1) = n - 1
      BY FS_Interval, 1 \in Int, n - 1 \in Int
    <2>3. QED
      BY <2>1, <2>2 DEF Place
  <1>3. Orders(R, I)
    BY <1>1, AscendingOrders
  <1>4. ASSUME NEW n \in I
        PROVE  order[n] = n
    <2>1. order[Place(I, R, n) + 1] = n
      BY <1>1, <1>3, ArrangedInOrder
    <2>2. QED
      BY <1>2, <2>1
  <1>5. DOMAIN order = I
    BY <1>1 DEF Arranged
  <1>6. QED
    BY <1>4, <1>5 DEF Picked

\* A finite set of numbers that is not empty has a least and a greatest.
LEMMA LeastAndGreatest ==
  ASSUME NEW I \in SUBSET Int, IsFiniteSet(I), I # {}
  PROVE  /\ \E i \in I : \A j \in I : i <= j
         /\ \E i \in I : \A j \in I : i >= j
  <1> DEFINE R == Ascending(I)
             c == Cardinality(I)
             order == Arranged(I, R)
  <1>1. Orders(R, I)
    BY AscendingOrders
  <1>2. /\ c \in Nat /\ order \in [1 .. c -> I]
        /\ \A i \in I : Place(I, R, i) + 1 \in 1 .. c /\ order[Place(I, R, i) + 1] = i
        /\ \A m, n \in 1 .. c : m < n <=> <<order[m], order[n]>> \in R
    BY <1>1, ArrangedInOrder
  <1>3. \A m, n \in 1 .. c : m < n => order[m] < order[n]
    BY <1>2 DEF Ascending
  <1>4. \A i \in I : \E n \in 1 .. c : order[n] = i
    BY <1>2
  <1>5. c \in Nat /\ order \in [1 .. c -> I]
    BY <1>2
  <1> HIDE DEF c, order, R
  <1>6. 1 \in 1 .. c /\ c \in 1 .. c
    <2>1. PICK i \in I : TRUE
      OBVIOUS
    <2>2. \E n \in 1 .. c : order[n] = i
      BY <1>4
    <2>3. QED
      BY <1>5, <2>2
  <1>7. ASSUME NEW j \in I
        PROVE  order[1] <= j /\ order[c] >= j
    <2>1. PICK n \in 1 .. c : order[n] = j
      BY <1>4
    <2>2. 1 < n => order[1] < order[n]
      BY <1>3, <1>6
    <2>3. n < c => order[n] < order[c]
      BY <1>3, <1>6
    <2>4. n \in Int /\ 1 <= n /\ n <= c
      BY <1>5
    <2>5. order[1] \in Int /\ order[c] \in Int /\ j \in Int
      BY <1>5, <1>6
    <2>6. QED
      BY <1>5, <2>1, <2>2, <2>3, <2>4, <2>5
  <1>8. order[1] \in I /\ order[c] \in I
    BY <1>5, <1>6
  <1>9. QED
    BY <1>7, <1>8
=============================================================================
