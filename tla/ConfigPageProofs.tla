-------------------------- MODULE ConfigPageProofs --------------------------
(***************************************************************************)
(* The files of the generator rank, keep and list what ConfigGen promises, *)
(* for any catalogue, measurements and file of the visitor's; and the      *)
(* builder below them reads and relays every address as Relay promises.    *)
(***************************************************************************)
EXTENDS ConfigGen, Relay, ArrangeProofs, TLAPS

-----------------------------------------------------------------------------
(* Candidates and what Select makes of them.                               *)

Mirrors == [row : Rows, address : Addresses, insecure : BOOLEAN,
            outcome : {"works", "fails", "unknown"}, bps : Nat]

Typed ==
  /\ enabled \in [Rows -> BOOLEAN]
  /\ latest \in [Rows -> Results \cup {Never}]

CatalogueRows == [address : Addresses, insecure : BOOLEAN, hub : BOOLEAN]

LEMMA ConstantsTyped ==
  /\ Catalogue \in Seq(CatalogueRows)
  /\ \A r \in Results \cup {Never} : r.bps \in Nat
  <1>1. Catalogue \in Seq(CatalogueRows)
    BY ConfigGenAssumption DEF CatalogueRows
  <1>2. Results \subseteq [status : STRING, bps : Nat]
    BY ConfigGenAssumption
  <1>3. Never.bps \in Nat
    BY DEF Never
  <1>4. QED
    BY <1>1, <1>2, <1>3

LEMMA RowsAreNumbers ==
  /\ Rows = 1 .. Len(Catalogue) /\ Rows \in SUBSET Int /\ IsFiniteSet(Rows)
  /\ \A i \in Rows : Catalogue[i] \in CatalogueRows
  <1>1. Rows = 1 .. Len(Catalogue) /\ Len(Catalogue) \in Nat
    BY ConstantsTyped DEF Rows
  <1>2. \A i \in Rows : Catalogue[i] \in CatalogueRows
    BY <1>1, ConstantsTyped
  <1>3. QED
    BY <1>1, <1>2, FS_Interval, 1 \in Int

LEMMA CandidateTyped ==
  ASSUME Typed, NEW i \in Rows
  PROVE  Candidate(i) \in Mirrors /\ Candidate(i).row = i
  <1>1. Catalogue[i] \in [address : Addresses, insecure : BOOLEAN, hub : BOOLEAN]
    BY RowsAreNumbers DEF CatalogueRows
  <1>2. latest[i].bps \in Nat
    BY ConstantsTyped DEF Typed
  <1>3. outcomeFrom(latest[i].status) \in {"works", "fails", "unknown"}
    BY DEF outcomeFrom
  <1>4. QED
    BY <1>1, <1>2, <1>3 DEF Candidate, Mirrors

\* The candidates are the rows listed, each once, in the order of the catalogue.
LEMMA CandidatesAreListed ==
  ASSUME Typed
  PROVE  /\ configCandidates \in Seq(Mirrors)
         /\ \A k \in DOMAIN configCandidates :
              /\ configCandidates[k].row \in Listed
              /\ configCandidates[k] = Candidate(configCandidates[k].row)
         /\ \A i \in Listed : \E k \in DOMAIN configCandidates : configCandidates[k].row = i
         /\ \A j, k \in DOMAIN configCandidates :
              j < k <=> configCandidates[j].row < configCandidates[k].row
  <1> DEFINE all == [i \in Rows |-> Candidate(i)]
             order == Places(Listed)
             c == Cardinality(Listed)
  <1>1. Listed \in SUBSET Int /\ Listed \in SUBSET Rows /\ IsFiniteSet(Listed)
    BY RowsAreNumbers, FS_Subset DEF Listed
  <1>2. configCandidates = Picked(all, Listed)
    BY DEF configCandidates, Listed
  <1>3. /\ c \in Nat /\ order \in [1 .. c -> Listed]
        /\ configCandidates = [n \in 1 .. c |-> all[order[n]]]
        /\ \A i \in Listed : \E n \in 1 .. c : order[n] = i
        /\ \A m, n \in 1 .. c : m < n <=> order[m] < order[n]
    BY <1>1, <1>2, PickedInOrder
  <1> HIDE DEF order, c
  <1>4. configCandidates = [n \in 1 .. c |-> Candidate(order[n])]
    BY <1>1, <1>3
  <1>5. \A n \in 1 .. c : Candidate(order[n]) \in Mirrors /\ Candidate(order[n]).row = order[n]
    BY <1>1, <1>3, CandidateTyped
  <1>6. configCandidates \in [1 .. c -> Mirrors]
    BY <1>4, <1>5
  <1>7. configCandidates \in Seq(Mirrors) /\ DOMAIN configCandidates = 1 .. c
    BY <1>3, <1>6, Sequence
  <1>8. \A n \in 1 .. c : /\ configCandidates[n] = Candidate(order[n])
                          /\ configCandidates[n].row = order[n]
    BY <1>4, <1>5
  <1> HIDE DEF all
  <1>9. QED
    BY <1>3, <1>7, <1>8

LEMMA MirrorRank ==
  ASSUME NEW m \in Mirrors PROVE rank(m) \in {0, 1, 2} /\ m.bps \in Nat
  BY DEF rank, Mirrors

LEMMA KeptIsFinite ==
  ASSUME NEW mirrors \in Seq(Mirrors)
  PROVE  /\ Kept(mirrors) \in SUBSET (1 .. Len(mirrors)) /\ IsFiniteSet(Kept(mirrors))
         /\ Kept(mirrors) \in SUBSET Int
         /\ \A k \in Kept(mirrors) : mirrors[k] \in Mirrors
  <1>1. Kept(mirrors) \in SUBSET (1 .. Len(mirrors)) /\ Len(mirrors) \in Nat
    BY DEF Kept
  <1>2. IsFiniteSet(1 .. Len(mirrors))
    BY FS_Interval, 1 \in Int, Len(mirrors) \in Int
  <1>3. QED
    BY <1>1, <1>2, FS_Subset

LEMMA OrderOrders ==
  ASSUME NEW mirrors \in Seq(Mirrors)
  PROVE  Orders(Order(mirrors), Kept(mirrors))
  <1> DEFINE K == Kept(mirrors)
             r == [k \in K |-> rank(mirrors[k])]
             b == [k \in K |-> mirrors[k].bps]
             Before(i, j) == \/ r[i] < r[j]
                             \/ r[i] = r[j] /\ b[i] > b[j]
                             \/ r[i] = r[j] /\ b[i] = b[j] /\ i < j
  <1>1. K \in SUBSET Int /\ r \in [K -> Int] /\ b \in [K -> Int]
    BY KeptIsFinite, MirrorRank
  <1>2. ASSUME NEW i \in K, NEW j \in K
        PROVE  <<i, j>> \in Order(mirrors) <=> Before(i, j)
    <2>1. <<i, j>> \in Order(mirrors) <=>
            \/ Better(mirrors[i], mirrors[j])
            \/ ~Better(mirrors[j], mirrors[i]) /\ i < j
      BY DEF Order
    <2>2. /\ Better(mirrors[i], mirrors[j]) <=> r[i] < r[j] \/ (r[i] = r[j] /\ b[i] > b[j])
          /\ Better(mirrors[j], mirrors[i]) <=> r[j] < r[i] \/ (r[j] = r[i] /\ b[j] > b[i])
      BY DEF Better
    <2>3. QED
      BY <1>1, <2>1, <2>2
  <1> HIDE DEF r, b, K
  <1>3. \A i \in K : ~Before(i, i)
    BY <1>1
  <1>4. \A i, j \in K : i # j => Before(i, j) \/ Before(j, i)
    BY <1>1
  <1>5. \A i, j, k \in K : Before(i, j) /\ Before(j, k) => Before(i, k)
    BY <1>1
  <1>6. QED
    BY <1>2, <1>3, <1>4, <1>5 DEF Orders, K

\* The places of the mirrors kept, in the order of Select.
Standings(mirrors) == Arranged(Kept(mirrors), Order(mirrors))

\* Select is the mirrors kept, each once, in their order.
LEMMA SelectInOrder ==
  ASSUME NEW mirrors \in Seq(Mirrors)
  PROVE  /\ Select(mirrors) \in Seq(Mirrors)
         /\ Standings(mirrors) \in [DOMAIN Select(mirrors) -> Kept(mirrors)]
         /\ \A n \in DOMAIN Select(mirrors) : Select(mirrors)[n] = mirrors[Standings(mirrors)[n]]
         /\ \A k \in Kept(mirrors) : \E n \in DOMAIN Select(mirrors) : Standings(mirrors)[n] = k
         /\ \A m, n \in DOMAIN Select(mirrors) :
              m < n <=> <<Standings(mirrors)[m], Standings(mirrors)[n]>> \in Order(mirrors)
  <1> DEFINE K == Kept(mirrors)
             R == Order(mirrors)
             order == Arranged(K, R)
             c == Cardinality(K)
  <1>1. IsFiniteSet(K) /\ Orders(R, K)
    BY KeptIsFinite, OrderOrders
  <1>2. /\ c \in Nat /\ order \in [1 .. c -> K]
        /\ \A k \in K : Place(K, R, k) + 1 \in 1 .. c /\ order[Place(K, R, k) + 1] = k
        /\ \A m, n \in 1 .. c : m < n <=> <<order[m], order[n]>> \in R
    BY <1>1, ArrangedInOrder
  <1>3. Select(mirrors) = [n \in 1 .. c |-> mirrors[order[n]]]
    BY <1>2 DEF Select
  <1>4. \A n \in 1 .. c : mirrors[order[n]] \in Mirrors
    BY <1>2, KeptIsFinite
  <1>5. Select(mirrors) \in Seq(Mirrors) /\ DOMAIN Select(mirrors) = 1 .. c
    BY <1>2, <1>3, <1>4
  <1>6. QED
    BY <1>2, <1>3, <1>5 DEF Standings

\* Of each host that is one, the first of its mirrors is kept and no other.
LEMMA KeptOnePerHost ==
  ASSUME NEW mirrors \in Seq(Mirrors)
  PROVE  /\ \A k \in DOMAIN mirrors : Host(mirrors[k]) # None =>
              \E j \in Kept(mirrors) : Host(mirrors[j]) = Host(mirrors[k])
         /\ \A j, k \in Kept(mirrors) : Host(mirrors[j]) = Host(mirrors[k]) => j = k
         /\ \A k \in Kept(mirrors) : Host(mirrors[k]) # None
  <1>1. ASSUME NEW k \in DOMAIN mirrors, Host(mirrors[k]) # None
        PROVE  \E j \in Kept(mirrors) : Host(mirrors[j]) = Host(mirrors[k])
    <2> DEFINE same == {j \in DOMAIN mirrors : Host(mirrors[j]) = Host(mirrors[k])}
    <2>1. DOMAIN mirrors = 1 .. Len(mirrors) /\ Len(mirrors) \in Nat
      OBVIOUS
    <2>2. same \in SUBSET Int /\ same # {} /\ IsFiniteSet(same)
      <3>1. same \in SUBSET (1 .. Len(mirrors)) /\ IsFiniteSet(1 .. Len(mirrors))
        BY <2>1, FS_Interval, 1 \in Int
      <3>2. k \in same
        OBVIOUS
      <3>3. QED
        BY <2>1, <3>1, <3>2, FS_Subset
    <2>3. PICK j \in same : \A i \in same : j <= i
      BY <2>2, LeastAndGreatest
    <2>4. ASSUME NEW i \in 1 .. j - 1 PROVE Host(mirrors[i]) # Host(mirrors[j])
      BY <2>1, <2>3
    <2>5. j \in Kept(mirrors)
      BY <1>1, <2>4 DEF Kept
    <2>6. QED
      BY <2>5
  <1>2. ASSUME NEW j \in Kept(mirrors), NEW k \in Kept(mirrors),
               Host(mirrors[j]) = Host(mirrors[k])
        PROVE  j = k
    <2>1. j \in 1 .. Len(mirrors) /\ k \in 1 .. Len(mirrors) /\ Len(mirrors) \in Nat
      BY KeptIsFinite
    <2>2. /\ \A i \in 1 .. j - 1 : Host(mirrors[i]) # Host(mirrors[j])
          /\ \A i \in 1 .. k - 1 : Host(mirrors[i]) # Host(mirrors[k])
      BY DEF Kept
    <2>3. QED
      BY <1>2, <2>1, <2>2
  <1>3. QED
    BY <1>1, <1>2 DEF Kept

\* What Select makes of the mirrors: each host once, none left out.
LEMMA SelectHosts ==
  ASSUME NEW mirrors \in Seq(Mirrors)
  PROVE  /\ {Host(Select(mirrors)[n]) : n \in DOMAIN Select(mirrors)} =
              {Host(mirrors[k]) : k \in DOMAIN mirrors} \ {None}
         /\ \A m, n \in DOMAIN Select(mirrors) :
              Host(Select(mirrors)[m]) = Host(Select(mirrors)[n]) => m = n
  <1> DEFINE ranked == Select(mirrors)
             order == Standings(mirrors)
             K == Kept(mirrors)
  <1>1. /\ order \in [DOMAIN ranked -> K]
        /\ \A n \in DOMAIN ranked : ranked[n] = mirrors[order[n]]
        /\ \A k \in K : \E n \in DOMAIN ranked : order[n] = k
    BY SelectInOrder
  <1>2. K \in SUBSET DOMAIN mirrors
    BY DEF Kept
  <1>3. /\ \A k \in DOMAIN mirrors : Host(mirrors[k]) # None =>
             \E j \in K : Host(mirrors[j]) = Host(mirrors[k])
        /\ \A j, k \in K : Host(mirrors[j]) = Host(mirrors[k]) => j = k
        /\ \A k \in K : Host(mirrors[k]) # None
    BY KeptOnePerHost
  <1>4. \A m, n \in DOMAIN ranked : order[m] = order[n] => m = n
    <2>1. DOMAIN ranked \in SUBSET Int
      BY SelectInOrder
    <2>2. \A m, n \in DOMAIN ranked : m < n <=> <<order[m], order[n]>> \in Order(mirrors)
      BY SelectInOrder
    <2>3. \A k \in K : <<k, k>> \notin Order(mirrors)
      BY OrderOrders DEF Orders
    <2> HIDE DEF ranked, order, K
    <2>4. ASSUME NEW m \in DOMAIN ranked, NEW n \in DOMAIN ranked, order[m] = order[n]
          PROVE  m = n
      <3>1. order[m] \in K
        BY <1>1
      <3>2. ~(m < n) /\ ~(n < m)
        BY <2>2, <2>3, <2>4, <3>1
      <3>3. m \in Int /\ n \in Int
        BY <2>1
      <3>4. QED
        BY <3>2, <3>3
    <2>5. QED
      BY <2>4
  <1> HIDE DEF ranked, order, K
  <1>5. {Host(ranked[n]) : n \in DOMAIN ranked} \subseteq
          {Host(mirrors[k]) : k \in DOMAIN mirrors} \ {None}
    BY <1>1, <1>2, <1>3
  <1>6. {Host(mirrors[k]) : k \in DOMAIN mirrors} \ {None} \subseteq
          {Host(ranked[n]) : n \in DOMAIN ranked}
    BY <1>1, <1>3
  <1>7. \A m, n \in DOMAIN ranked : Host(ranked[m]) = Host(ranked[n]) => m = n
    BY <1>1, <1>3, <1>4
  <1>8. QED
    BY <1>5, <1>6, <1>7 DEF ranked

\* The first of two ranked mirrors stands no lower, and between two of one
\* standing the rate decides, and then the catalogue.
LEMMA RankedByStanding ==
  ASSUME Typed,
         NEW j \in DOMAIN Select(configCandidates), NEW k \in DOMAIN Select(configCandidates),
         j < k
  PROVE  LET i == Select(configCandidates)[j].row
             l == Select(configCandidates)[k].row
         IN  /\ Standing(i) >= Standing(l)
             /\ Standing(i) = Standing(l) =>
                  IF Standing(i) = 3
                  THEN \/ latest[i].bps > latest[l].bps
                       \/ latest[i].bps = latest[l].bps /\ i < l
                  ELSE i < l
  <1> DEFINE mirrors == configCandidates
             ranked == Select(mirrors)
             m == ranked[j]
             n == ranked[k]
             p == Standings(mirrors)[j]
             q == Standings(mirrors)[k]
  <1>1. mirrors \in Seq(Mirrors)
    BY CandidatesAreListed
  <1>2. /\ p \in Kept(mirrors) /\ q \in Kept(mirrors)
        /\ m = mirrors[p] /\ n = mirrors[q] /\ <<p, q>> \in Order(mirrors)
    BY <1>1, SelectInOrder
  <1>3. \/ Better(m, n)
        \/ ~Better(n, m) /\ p < q
    BY <1>2 DEF Order
  <1>4. p \in DOMAIN mirrors /\ q \in DOMAIN mirrors
    BY <1>2 DEF Kept
  <1>5. /\ m.row \in Rows /\ n.row \in Rows
        /\ m = Candidate(m.row) /\ n = Candidate(n.row)
        /\ p < q <=> m.row < n.row
    BY <1>2, <1>4, CandidatesAreListed DEF Listed
  <1>6. ASSUME NEW r \in Rows
        PROVE  /\ rank(Candidate(r)) = 3 - Standing(r)
               /\ Candidate(r).bps = IF Standing(r) = 3 THEN latest[r].bps ELSE 0
               /\ latest[r].bps \in Nat
    <2>1. latest[r].bps \in Nat
      BY ConstantsTyped DEF Typed
    <2>2. Candidate(r).outcome = outcomeFrom(latest[r].status)
      BY DEF Candidate
    <2>3. Candidate(r).bps =
            IF outcomeFrom(latest[r].status) = "works" THEN latest[r].bps ELSE 0
      BY DEF Candidate
    <2>4. outcomeFrom(latest[r].status) = "works" <=> latest[r].status = "ok"
      BY DEF outcomeFrom
    <2>5. QED
      BY <2>1, <2>2, <2>3, <2>4 DEF rank, Works, outcomeFrom, Standing
  <1>7. /\ Standing(m.row) \in 1 .. 3 /\ Standing(n.row) \in 1 .. 3
        /\ rank(m) = 3 - Standing(m.row) /\ rank(n) = 3 - Standing(n.row)
    <2>1. \A r \in Rows : Standing(r) \in 1 .. 3
      BY DEF Standing
    <2>2. QED
      BY <1>5, <1>6, <2>1
  <1>8. /\ m.bps = IF Standing(m.row) = 3 THEN latest[m.row].bps ELSE 0
        /\ n.bps = IF Standing(n.row) = 3 THEN latest[n.row].bps ELSE 0
        /\ latest[m.row].bps \in Nat /\ latest[n.row].bps \in Nat
    BY <1>5, <1>6
  <1> HIDE DEF m, n, p, q
  <1>9. Better(m, n) <=> \/ Standing(m.row) > Standing(n.row)
                         \/ Standing(m.row) = Standing(n.row) /\ m.bps > n.bps
    BY <1>7 DEF Better
  <1>10. Better(n, m) <=> \/ Standing(n.row) > Standing(m.row)
                          \/ Standing(n.row) = Standing(m.row) /\ n.bps > m.bps
    BY <1>7 DEF Better
  <1>11. /\ Standing(m.row) >= Standing(n.row)
         /\ Standing(m.row) = Standing(n.row) =>
              IF Standing(m.row) = 3
              THEN \/ latest[m.row].bps > latest[n.row].bps
                   \/ latest[m.row].bps = latest[n.row].bps /\ m.row < n.row
              ELSE m.row < n.row
    BY <1>3, <1>5, <1>7, <1>8, <1>9, <1>10
  <1>12. QED
    BY <1>11 DEF m, n

\* The page names exactly the ranked mirrors that would fail.
LEMMA UnusableAreNamed ==
  ASSUME Typed, NEW k \in DOMAIN Select(configCandidates)
  PROVE  Select(configCandidates)[k].row \in Warnings(configCandidates).unusable
           <=> outcomeFrom(latest[Select(configCandidates)[k].row].status) = "fails"
  <1> DEFINE mirrors == configCandidates
             p == Standings(mirrors)[k]
  <1>1. mirrors \in Seq(Mirrors)
    BY CandidatesAreListed
  <1>2. p \in Kept(mirrors) /\ Select(mirrors)[k] = mirrors[p]
    BY <1>1, SelectInOrder
  <1>3. Kept(mirrors) \in SUBSET DOMAIN mirrors
    BY DEF Kept
  <1>4. ASSUME NEW j \in DOMAIN mirrors
        PROVE  mirrors[j].outcome = outcomeFrom(latest[mirrors[j].row].status)
    <2>1. mirrors[j] = Candidate(mirrors[j].row)
      BY CandidatesAreListed
    <2>2. Candidate(mirrors[j].row).outcome = outcomeFrom(latest[mirrors[j].row].status)
      BY DEF Candidate
    <2>3. QED
      BY <2>1, <2>2
  <1>5. Warnings(mirrors).unusable =
          {mirrors[j].row : j \in {i \in Kept(mirrors) : mirrors[i].outcome = "fails"}}
    BY DEF Warnings
  <1> HIDE DEF mirrors, p
  <1>6. QED
    BY <1>2, <1>3, <1>4, <1>5 DEF mirrors

-----------------------------------------------------------------------------
(* The objects of DaemonJSON.                                              *)

LEMMA ManagedSettings ==
  /\ "registry-mirrors" \in Settings /\ "insecure-registries" \in Settings
  /\ "registry-mirrors" # "insecure-registries"
  BY ConfigGenAssumption DEF Managed

LEMMA ObjectTyped ==
  ASSUME NEW o \in Objects
  PROVE  /\ o \in Seq([key : Settings, value : Values])
         /\ \A j, k \in DOMAIN o : o[j].key = o[k].key => j = k
         /\ \A k \in DOMAIN o :
              o[k].key = "insecure-registries" => o[k].value \in {Shapeless} \cup Seq(Addresses)
         /\ DOMAIN o = 1 .. Len(o) /\ Len(o) \in Nat
         /\ \A k \in DOMAIN o : o[k] = Member(o[k].key, o[k].value)
  <1> DEFINE T == [key : Settings, value : Values]
  <1>1. o \in Seq(T)
    BY DEF Objects
  <1>2. \A m \in T : m = Member(m.key, m.value)
    BY DEF Member
  <1> HIDE DEF T
  <1>3. \A k \in DOMAIN o : o[k] \in T
    BY <1>1
  <1>4. \A k \in DOMAIN o : o[k] = Member(o[k].key, o[k].value)
    BY <1>2, <1>3
  <1>5. DOMAIN o = 1 .. Len(o) /\ Len(o) \in Nat
    BY <1>1
  <1>6. QED
    BY <1>1, <1>4, <1>5 DEF Objects, T

\* A key names one value.
LEMMA GetIs ==
  ASSUME NEW o \in Objects, NEW k \in DOMAIN o
  PROVE  has(o, o[k].key) /\ get(o, o[k].key) = o[k].value
  <1> DEFINE c == CHOOSE j \in DOMAIN o : o[j].key = o[k].key
  <1>1. c \in DOMAIN o /\ o[c].key = o[k].key
    OBVIOUS
  <1>2. c = k
    BY <1>1, ObjectTyped
  <1>3. QED
    BY <1>2 DEF has, get

\* set gives its key its value and leaves the other members where they are.
LEMMA SetKeeps ==
  ASSUME NEW o \in Objects, NEW key \in Settings, NEW value \in Values,
         key = "insecure-registries" => value \in {Shapeless} \cup Seq(Addresses)
  PROVE  /\ set(o, key, value) \in Objects
         /\ Len(o) <= Len(set(o, key, value))
         /\ \A k \in DOMAIN o :
              /\ set(o, key, value)[k].key = o[k].key
              /\ o[k].key # key => set(o, key, value)[k] = o[k]
         /\ \A k \in DOMAIN set(o, key, value) :
              IF set(o, key, value)[k].key = key
              THEN set(o, key, value)[k].value = value
              ELSE k \in DOMAIN o /\ set(o, key, value)[k] = o[k]
         /\ \E k \in DOMAIN set(o, key, value) : set(o, key, value)[k].key = key
  <1> DEFINE new == set(o, key, value)
             T == [key : Settings, value : Values]
             m == Member(key, value)
  <1>1. /\ o \in Seq(T) /\ DOMAIN o = 1 .. Len(o) /\ Len(o) \in Nat
        /\ \A j, k \in DOMAIN o : o[j].key = o[k].key => j = k
        /\ \A k \in DOMAIN o :
             o[k].key = "insecure-registries" => o[k].value \in {Shapeless} \cup Seq(Addresses)
    BY ObjectTyped
  <1>2. m \in T /\ m.key = key /\ m.value = value
    BY DEF Member
  <1> HIDE DEF T, m
  <1>3. CASE has(o, key)
    <2>1. new = [k \in DOMAIN o |-> IF o[k].key = key THEN m ELSE o[k]]
      BY <1>3 DEF set, m
    <2>2. new \in [1 .. Len(o) -> T]
      BY <1>1, <1>2, <2>1
    <2>3. new \in Seq(T) /\ Len(new) = Len(o) /\ DOMAIN new = DOMAIN o
      BY <1>1, <2>2, Sequence
    <2>4. \A k \in DOMAIN o : /\ new[k] = IF o[k].key = key THEN m ELSE o[k]
                              /\ new[k].key = o[k].key
      BY <1>2, <2>1
    <2>5. \E k \in DOMAIN o : o[k].key = key
      BY <1>3 DEF has
    <2> HIDE DEF new
    <2>6. \A k \in DOMAIN new : new[k].key = "insecure-registries" =>
            new[k].value \in {Shapeless} \cup Seq(Addresses)
      BY <1>1, <1>2, <2>3, <2>4
    <2>7. \A j, k \in DOMAIN new : new[j].key = new[k].key => j = k
      BY <1>1, <2>3, <2>4
    <2>8. new \in Objects
      BY <2>3, <2>6, <2>7 DEF Objects, T
    <2>9. QED
      BY <1>1, <1>2, <2>3, <2>4, <2>5, <2>8 DEF new
  <1>4. CASE ~has(o, key)
    <2>1. new = Append(o, m)
      BY <1>4 DEF set, m
    <2>2. /\ new \in Seq(T) /\ Len(new) = Len(o) + 1 /\ DOMAIN new = 1 .. Len(o) + 1
          /\ new[Len(o) + 1] = m /\ \A k \in DOMAIN o : new[k] = o[k]
      BY <1>1, <1>2, <2>1
    <2>3. \A k \in DOMAIN o : o[k].key # key
      BY <1>4 DEF has
    <2> HIDE DEF new
    <2>4. \A k \in DOMAIN new : k \in DOMAIN o \/ k = Len(o) + 1
      BY <1>1, <2>2
    <2>5. \A k \in DOMAIN new : new[k].key = "insecure-registries" =>
            new[k].value \in {Shapeless} \cup Seq(Addresses)
      BY <1>1, <1>2, <2>2, <2>4
    <2>6. \A j, k \in DOMAIN new : new[j].key = new[k].key => j = k
      BY <1>1, <1>2, <2>2, <2>3, <2>4
    <2>7. new \in Objects
      BY <2>2, <2>5, <2>6 DEF Objects, T
    <2>8. Len(o) + 1 \in DOMAIN new
      BY <1>1, <2>2
    <2>9. QED
      BY <1>1, <1>2, <2>2, <2>3, <2>4, <2>7, <2>8 DEF new
  <1>5. QED
    BY <1>3, <1>4

\* What is set is what is read, and nothing else is read differently.
LEMMA SetIsRead ==
  ASSUME NEW o \in Objects, NEW key \in Settings, NEW value \in Values,
         key = "insecure-registries" => value \in {Shapeless} \cup Seq(Addresses)
  PROVE  /\ has(set(o, key, value), key) /\ get(set(o, key, value), key) = value
         /\ \A other \in Settings \ {key} :
              /\ has(set(o, key, value), other) <=> has(o, other)
              /\ has(o, other) => get(set(o, key, value), other) = get(o, other)
  <1> DEFINE new == set(o, key, value)
  <1>1. /\ new \in Objects /\ Len(o) <= Len(new)
        /\ \A k \in DOMAIN o : new[k].key = o[k].key /\ (o[k].key # key => new[k] = o[k])
        /\ \A k \in DOMAIN new : IF new[k].key = key THEN new[k].value = value
                                 ELSE k \in DOMAIN o /\ new[k] = o[k]
        /\ \E k \in DOMAIN new : new[k].key = key
    BY SetKeeps
  <1> HIDE DEF new
  <1>2. DOMAIN o \subseteq DOMAIN new
    BY <1>1, ObjectTyped
  <1>3. has(new, key) /\ get(new, key) = value
    <2>1. PICK k \in DOMAIN new : new[k].key = key
      BY <1>1
    <2>2. QED
      BY <1>1, <2>1, GetIs
  <1>4. ASSUME NEW other \in Settings \ {key}
        PROVE  /\ has(new, other) <=> has(o, other)
               /\ has(o, other) => get(new, other) = get(o, other)
    <2>1. has(new, other) => has(o, other)
      BY <1>1 DEF has
    <2>2. ASSUME has(o, other)
          PROVE  has(new, other) /\ get(new, other) = get(o, other)
      <3>1. PICK k \in DOMAIN o : o[k].key = other
        BY <2>2 DEF has
      <3>2. k \in DOMAIN new /\ new[k] = o[k]
        BY <1>1, <1>2, <3>1
      <3>3. QED
        BY <1>1, <3>1, <3>2, GetIs
    <2>3. QED
      BY <2>1, <2>2
  <1>5. QED
    BY <1>3, <1>4 DEF new

\* To set what is there changes nothing.
LEMMA SetAgain ==
  ASSUME NEW o \in Objects, NEW key, has(o, key)
  PROVE  set(o, key, get(o, key)) = o
  <1>1. PICK c \in DOMAIN o : o[c].key = key
    BY DEF has
  <1>2. get(o, key) = o[c].value
    BY <1>1, GetIs
  <1>3. ASSUME NEW k \in DOMAIN o, o[k].key = key
        PROVE  Member(key, get(o, key)) = o[k]
    <2>1. k = c
      BY <1>1, <1>3, ObjectTyped
    <2>2. o[k] = Member(o[k].key, o[k].value)
      BY ObjectTyped
    <2>3. QED
      BY <1>2, <1>3, <2>1, <2>2
  <1>4. set(o, key, get(o, key)) = [k \in DOMAIN o |-> o[k]]
    BY <1>3 DEF set
  <1>5. QED
    BY <1>4, ObjectTyped

-----------------------------------------------------------------------------
(* The lists of DaemonJSON.                                                *)

LEMMA HostOfTyped ==
  ASSUME NEW m \in Mirrors
  PROVE  /\ m.address \in Addresses
         /\ Host(m) # None => Authority[m.address] \in Addresses
                              /\ Lower[Authority[m.address]] = Host(m)
         /\ Authority[m.address] # None => Host(m) # None
  <1>1. m.address \in Addresses
    BY DEF Mirrors
  <1>2. /\ None \notin Addresses
        /\ \A u \in Addresses : Lower[u] \in Addresses /\ Authority[u] \in Addresses \cup {None}
    BY ConfigGenAssumption
  <1>3. Host(m) = IF Authority[m.address] = None THEN None ELSE Lower[Authority[m.address]]
    BY DEF Host, hostOf
  <1>4. QED
    BY <1>1, <1>2, <1>3

LEMMA EndpointsTyped ==
  ASSUME NEW mirrors \in Seq(Mirrors)
  PROVE  /\ endpoints(Select(mirrors)) \in Seq(Addresses)
         /\ DOMAIN endpoints(Select(mirrors)) = DOMAIN Select(mirrors)
  <1> DEFINE ranked == Select(mirrors)
             list == endpoints(ranked)
  <1>1. ranked \in Seq(Mirrors)
    BY SelectInOrder
  <1>2. \A k \in DOMAIN ranked : ranked[k].address \in Addresses
    BY <1>1, HostOfTyped
  <1>3. list = [k \in DOMAIN ranked |-> ranked[k].address]
    BY DEF endpoints
  <1>4. DOMAIN ranked = 1 .. Len(ranked) /\ Len(ranked) \in Nat
    BY <1>1
  <1> HIDE DEF ranked, list
  <1>5. list \in [1 .. Len(ranked) -> Addresses]
    BY <1>2, <1>3, <1>4
  <1>6. list \in Seq(Addresses) /\ DOMAIN list = DOMAIN ranked
    BY <1>4, <1>5, Sequence
  <1>7. QED
    BY <1>6 DEF ranked, list

Insecure(ranked) == {k \in DOMAIN ranked : ranked[k].insecure}

Plain(ranked) == {Host(ranked[k]) : k \in Insecure(ranked)}

\* insecureHosts names the host of every ranked mirror that speaks plain HTTP, as
\* its URL spells it.
LEMMA InsecureTyped ==
  ASSUME NEW mirrors \in Seq(Mirrors)
  PROVE  LET ranked == Select(mirrors)
             list   == insecureHosts(ranked)
         IN  /\ list \in Seq(Addresses)
             /\ Hosts(list) = Plain(ranked)
             /\ Entries(list) = {Authority[ranked[k].address] : k \in Insecure(ranked)}
  <1> DEFINE ranked == Select(mirrors)
             I == Insecure(ranked)
             some == Picked(ranked, I)
             list == insecureHosts(ranked)
             c == Cardinality(I)
             order == Places(I)
  <1>1. ranked \in Seq(Mirrors)
    BY SelectInOrder
  <1>2. DOMAIN ranked = 1 .. Len(ranked) /\ Len(ranked) \in Nat
    BY <1>1
  <1>3. I \in SUBSET Int /\ IsFiniteSet(I) /\ I \in SUBSET DOMAIN ranked
    <2> HIDE DEF ranked
    <2>1. I \in SUBSET (1 .. Len(ranked)) /\ IsFiniteSet(1 .. Len(ranked))
      BY <1>2, FS_Interval, 1 \in Int DEF Insecure
    <2>2. IsFiniteSet(I)
      BY <2>1, FS_Subset
    <2>3. QED
      BY <1>2, <2>1, <2>2
  <1>4. /\ c \in Nat /\ order \in [1 .. c -> I]
        /\ some = [n \in 1 .. c |-> ranked[order[n]]]
        /\ \A i \in I : \E n \in 1 .. c : order[n] = i
    BY <1>3, PickedInOrder
  <1>5. list = [n \in DOMAIN some |-> Authority[some[n].address]]
    BY DEF insecureHosts, Insecure
  <1>6. \A k \in DOMAIN ranked : /\ Authority[ranked[k].address] \in Addresses
                                 /\ Lower[Authority[ranked[k].address]] = Host(ranked[k])
    <2>1. \A k \in DOMAIN ranked : Host(ranked[k]) # None
      BY SelectHosts
    <2>2. \A k \in DOMAIN ranked : ranked[k] \in Mirrors
      BY <1>1
    <2>3. QED
      BY <2>1, <2>2, HostOfTyped
  <1>7. Plain(ranked) = {Host(ranked[k]) : k \in I}
    BY DEF Plain
  <1> HIDE DEF ranked, I, some, list, c, order
  <1>8. list = [n \in 1 .. c |-> Authority[ranked[order[n]].address]]
    BY <1>4, <1>5
  <1>9. list \in [1 .. c -> Addresses]
    BY <1>3, <1>4, <1>6, <1>8
  <1>10. list \in Seq(Addresses) /\ DOMAIN list = 1 .. c
    BY <1>4, <1>9, Sequence
  <1>11. \A n \in 1 .. c : Lower[list[n]] = Host(ranked[order[n]])
    BY <1>3, <1>4, <1>6, <1>8
  <1>12. {Lower[list[n]] : n \in 1 .. c} = {Host(ranked[k]) : k \in I}
    BY <1>4, <1>11
  <1>13. {list[n] : n \in 1 .. c} = {Authority[ranked[k].address] : k \in I}
    BY <1>4, <1>8
  <1>14. QED
    BY <1>7, <1>10, <1>12, <1>13 DEF Hosts, Entries, list, ranked, I

\* Of each host in a list the first entry stays, and no other.
LEMMA FirstsOnePerHost ==
  ASSUME NEW T, NEW list \in Seq(T)
  PROVE  /\ Firsts(list) \in SUBSET (1 .. Len(list))
         /\ Firsts(list) \in SUBSET Int /\ IsFiniteSet(Firsts(list))
         /\ \A k \in DOMAIN list : \E j \in Firsts(list) : Lower[list[j]] = Lower[list[k]]
         /\ \A j, k \in Firsts(list) : Lower[list[j]] = Lower[list[k]] => j = k
  <1>1. DOMAIN list = 1 .. Len(list) /\ Len(list) \in Nat
    OBVIOUS
  <1>2. IsFiniteSet(1 .. Len(list)) /\ Firsts(list) \in SUBSET (1 .. Len(list))
    BY <1>1, FS_Interval, 1 \in Int DEF Firsts
  <1>3. ASSUME NEW k \in DOMAIN list
        PROVE  \E j \in Firsts(list) : Lower[list[j]] = Lower[list[k]]
    <2> DEFINE same == {j \in DOMAIN list : Lower[list[j]] = Lower[list[k]]}
    <2>1. same \in SUBSET (1 .. Len(list)) /\ k \in same
      BY <1>1
    <2>2. same \in SUBSET Int /\ same # {} /\ IsFiniteSet(same)
      BY <1>1, <1>2, <2>1, FS_Subset
    <2>3. PICK j \in same : \A i \in same : j <= i
      BY <2>2, LeastAndGreatest
    <2>4. ASSUME NEW i \in 1 .. j - 1 PROVE Lower[list[i]] # Lower[list[j]]
      BY <1>1, <2>3
    <2>5. j \in Firsts(list)
      BY <2>4 DEF Firsts
    <2>6. QED
      BY <2>5
  <1>4. ASSUME NEW j \in Firsts(list), NEW k \in Firsts(list),
               Lower[list[j]] = Lower[list[k]]
        PROVE  j = k
    <2>1. j \in 1 .. Len(list) /\ k \in 1 .. Len(list)
      BY <1>2
    <2>2. /\ \A i \in 1 .. j - 1 : Lower[list[i]] # Lower[list[j]]
          /\ \A i \in 1 .. k - 1 : Lower[list[i]] # Lower[list[k]]
      BY DEF Firsts
    <2>3. QED
      BY <1>1, <1>4, <2>1, <2>2
  <1>5. QED
    BY <1>1, <1>2, <1>3, <1>4, FS_Subset

Single(list) == \A j, k \in DOMAIN list : Lower[list[j]] = Lower[list[k]] => j = k

\* A merged list has the hosts of both, each once.
LEMMA MergeHosts ==
  ASSUME NEW first \in Seq(Addresses), NEW extra \in Seq(Addresses)
  PROVE  /\ mergeUnique(first, extra) \in Seq(Addresses)
         /\ Hosts(mergeUnique(first, extra)) = Hosts(first) \cup Hosts(extra)
         /\ Entries(mergeUnique(first, extra)) \subseteq Entries(first) \cup Entries(extra)
         /\ Single(mergeUnique(first, extra))
  <1> DEFINE both == first \o extra
             I == Firsts(both)
             out == mergeUnique(first, extra)
             c == Cardinality(I)
             order == Places(I)
  <1>1. /\ both \in Seq(Addresses) /\ DOMAIN both = 1 .. Len(both)
        /\ Len(both) = Len(first) + Len(extra) /\ Len(first) \in Nat /\ Len(extra) \in Nat
        /\ DOMAIN first = 1 .. Len(first) /\ DOMAIN extra = 1 .. Len(extra)
        /\ \A k \in DOMAIN first : k \in DOMAIN both /\ both[k] = first[k]
        /\ \A k \in DOMAIN extra : /\ k + Len(first) \in DOMAIN both
                                   /\ both[k + Len(first)] = extra[k]
        /\ \A k \in DOMAIN both : k \in DOMAIN first
                                  \/ (k - Len(first) \in DOMAIN extra
                                      /\ both[k] = extra[k - Len(first)])
    OBVIOUS
  <1>2. /\ I \in SUBSET DOMAIN both /\ I \in SUBSET Int /\ IsFiniteSet(I)
        /\ \A k \in DOMAIN both : \E j \in I : Lower[both[j]] = Lower[both[k]]
        /\ \A j, k \in I : Lower[both[j]] = Lower[both[k]] => j = k
    BY <1>1, FirstsOnePerHost
  <1>3. /\ c \in Nat /\ order \in [1 .. c -> I]
        /\ out = [n \in 1 .. c |-> both[order[n]]]
        /\ \A i \in I : \E n \in 1 .. c : order[n] = i
        /\ \A m, n \in 1 .. c : m < n <=> order[m] < order[n]
    <2>1. out = Picked(both, I)
      BY DEF mergeUnique
    <2>2. I \in SUBSET Int /\ IsFiniteSet(I)
      BY <1>2
    <2> HIDE DEF both, I, out
    <2>3. QED
      BY <2>1, <2>2, PickedInOrder
  <1>4. Hosts(first) \cup Hosts(extra) = {Lower[both[k]] : k \in DOMAIN both}
    <2> HIDE DEF both
    <2>1. Hosts(first) \cup Hosts(extra) \subseteq {Lower[both[k]] : k \in DOMAIN both}
      BY <1>1 DEF Hosts
    <2>2. {Lower[both[k]] : k \in DOMAIN both} \subseteq Hosts(first) \cup Hosts(extra)
      BY <1>1 DEF Hosts
    <2>3. QED
      BY <2>1, <2>2
  <1>5. \A k \in DOMAIN both : both[k] \in Addresses
    BY <1>1
  <1> HIDE DEF both, I, out, c, order
  <1>6. out \in [1 .. c -> Addresses]
    BY <1>2, <1>3, <1>5
  <1>7. out \in Seq(Addresses) /\ DOMAIN out = 1 .. c
    BY <1>3, <1>6, Sequence
  <1>8. {Lower[out[n]] : n \in 1 .. c} = {Lower[both[k]] : k \in DOMAIN both}
    <2>1. ASSUME NEW n \in 1 .. c
          PROVE  order[n] \in DOMAIN both /\ Lower[out[n]] = Lower[both[order[n]]]
      BY <1>2, <1>3
    <2>2. ASSUME NEW k \in DOMAIN both
          PROVE  \E n \in 1 .. c : Lower[out[n]] = Lower[both[k]]
      <3>1. PICK j \in I : Lower[both[j]] = Lower[both[k]]
        BY <1>2
      <3>2. PICK n \in 1 .. c : order[n] = j
        BY <1>3
      <3>3. out[n] = both[j]
        BY <1>3, <3>2
      <3>4. QED
        BY <3>1, <3>3
    <2>3. QED
      BY <2>1, <2>2
  <1>9. ASSUME NEW m \in 1 .. c, NEW n \in 1 .. c, Lower[out[m]] = Lower[out[n]]
        PROVE  m = n
    <2>1. order[m] \in I /\ order[n] \in I /\ Lower[both[order[m]]] = Lower[both[order[n]]]
      BY <1>3, <1>9
    <2>2. order[m] = order[n] /\ order[m] \in Int
      BY <1>2, <2>1
    <2>3. ~(m < n) /\ ~(n < m)
      BY <1>3, <2>2
    <2>4. QED
      BY <1>3, <2>3
  <1>10. {out[n] : n \in 1 .. c} \subseteq {both[k] : k \in DOMAIN both}
    <2>1. ASSUME NEW n \in 1 .. c
          PROVE  order[n] \in DOMAIN both /\ out[n] = both[order[n]]
      BY <1>2, <1>3
    <2>2. QED
      BY <2>1
  <1>11. Entries(first) \cup Entries(extra) = {both[k] : k \in DOMAIN both}
    BY <1>1 DEF Entries
  <1>12. QED
    BY <1>4, <1>7, <1>8, <1>9, <1>10, <1>11 DEF Hosts, Entries, Single, out

\* A list that has every host already, each once, is left as it is.
LEMMA MergeAgain ==
  ASSUME NEW first \in Seq(Addresses), NEW extra \in Seq(Addresses),
         Single(first), Hosts(extra) \subseteq Hosts(first)
  PROVE  mergeUnique(first, extra) = first
  <1> DEFINE both == first \o extra
  <1>1. /\ DOMAIN both = 1 .. Len(first) + Len(extra)
        /\ Len(first) \in Nat /\ Len(extra) \in Nat
        /\ DOMAIN first = 1 .. Len(first) /\ DOMAIN extra = 1 .. Len(extra)
        /\ \A k \in DOMAIN first : both[k] = first[k]
        /\ \A k \in DOMAIN both \ DOMAIN first :
             k - Len(first) \in DOMAIN extra /\ both[k] = extra[k - Len(first)]
    OBVIOUS
  <1> HIDE DEF both
  <1>2. ASSUME NEW k \in DOMAIN first PROVE k \in Firsts(both)
    <2>1. ASSUME NEW j \in 1 .. k - 1 PROVE Lower[both[j]] # Lower[both[k]]
      <3>1. j \in DOMAIN first /\ j # k
        BY <1>1
      <3>2. Lower[first[j]] # Lower[first[k]]
        BY <3>1 DEF Single
      <3>3. QED
        BY <1>1, <3>1, <3>2
    <2>2. k \in DOMAIN both
      BY <1>1
    <2>3. QED
      BY <2>1, <2>2 DEF Firsts
  <1>3. ASSUME NEW k \in Firsts(both), k \notin DOMAIN first PROVE FALSE
    <2>1. k \in DOMAIN both /\ \A j \in 1 .. k - 1 : Lower[both[j]] # Lower[both[k]]
      BY DEF Firsts
    <2>2. k - Len(first) \in DOMAIN extra /\ both[k] = extra[k - Len(first)]
      BY <1>1, <1>3, <2>1
    <2>3. Lower[both[k]] \in Hosts(first)
      BY <2>2 DEF Hosts
    <2>4. PICK j \in DOMAIN first : Lower[first[j]] = Lower[both[k]]
      BY <2>3 DEF Hosts
    <2>5. j \in 1 .. k - 1 /\ both[j] = first[j]
      BY <1>1, <1>3, <2>1
    <2>6. QED
      BY <2>1, <2>4, <2>5
  <1>4. Firsts(both) = 1 .. Len(first)
    BY <1>1, <1>2, <1>3 DEF Firsts
  <1>5. mergeUnique(first, extra) = [n \in 1 .. Len(first) |-> both[n]]
    BY <1>1, <1>4, PickedPrefix DEF mergeUnique, both
  <1>6. QED
    BY <1>1, <1>5

-----------------------------------------------------------------------------
(* DaemonJSON.                                                             *)

Texts == Objects \cup {Blank, NotJSON}

LEMMA ValuesTyped ==
  /\ Seq(Addresses) \subseteq Values
  /\ Shapeless \notin Seq(Addresses) /\ None \notin Seq(Addresses)
  /\ Blank \notin Objects /\ NotJSON \notin Objects /\ Blank # NotJSON
  <1>1. Shapeless \notin Seq(Addresses) /\ None \notin Seq(Addresses)
    BY ConfigGenAssumption
  <1>2. Blank \notin Objects /\ NotJSON \notin Objects /\ Blank # NotJSON
    BY ConfigGenAssumption
  <1>3. Seq(Addresses) \subseteq Values
    BY DEF Values
  <1>4. QED
    BY <1>1, <1>2, <1>3

LEMMA NothingTyped == <<>> \in Objects
  BY DEF Objects

LEMMA ParsedTyped ==
  ASSUME NEW text \in Texts, text # NotJSON
  PROVE  parseObject(text) \in Objects
  BY NothingTyped DEF parseObject, Texts

LEMMA CarriedTyped ==
  ASSUME NEW o \in Objects
  PROVE  Carried(o) \in {Shapeless} \cup Seq(Addresses)
  <1>1. CASE has(o, "insecure-registries")
    <2>1. PICK k \in DOMAIN o : o[k].key = "insecure-registries"
      BY <1>1 DEF has
    <2>2. QED
      BY <1>1, <2>1, GetIs, ObjectTyped DEF Carried
  <1>2. CASE ~has(o, "insecure-registries")
    <2>1. <<>> \in Seq(Addresses)
      OBVIOUS
    <2>2. QED
      BY <1>2, <2>1 DEF Carried
  <1>3. QED
    BY <1>1, <1>2

\* The object that DaemonJSON writes: the visitor's, with the mirrors and, where
\* some speak plain HTTP, the list that names them too.
LEMMA DaemonWrites ==
  ASSUME NEW mirrors \in Seq(Mirrors), NEW text \in Texts, ~Refused(mirrors, text)
  PROVE  LET o    == parseObject(text)
             new  == DaemonJSON(mirrors, text)
             list == insecureHosts(Select(mirrors))
         IN  /\ o \in Objects /\ new \in Objects
             /\ Len(o) <= Len(new)
             /\ \A k \in DOMAIN o :
                  /\ new[k].key = o[k].key
                  /\ o[k].key \notin Managed => new[k] = o[k]
             /\ has(new, "registry-mirrors")
             /\ get(new, "registry-mirrors") = endpoints(Select(mirrors))
             /\ list = <<>> => Carried(new) = Carried(o)
             /\ list # <<>> =>
                  /\ Carried(o) \in Seq(Addresses) /\ list \in Seq(Addresses)
                  /\ has(new, "insecure-registries")
                  /\ Carried(new) = mergeUnique(Carried(o), list)
  <1> DEFINE o     == parseObject(text)
             new   == DaemonJSON(mirrors, text)
             list  == insecureHosts(Select(mirrors))
             ends  == endpoints(Select(mirrors))
             out   == set(o, "registry-mirrors", ends)
             merge == mergeUnique(Carried(o), list)
  <1>1. o \in Objects
    BY ParsedTyped DEF Refused
  <1>2. ends \in Values /\ list \in Seq(Addresses)
    BY EndpointsTyped, InsecureTyped, ValuesTyped
  <1>3. list # <<>> => Carried(o) # Shapeless
    BY DEF Refused
  <1>4. new = IF list = <<>> THEN out ELSE set(out, "insecure-registries", merge)
    BY DEF DaemonJSON
  <1>5. Carried(o) \in {Shapeless} \cup Seq(Addresses)
    BY <1>1, CarriedTyped
  <1>6. list # <<>> => merge \in Seq(Addresses) /\ merge \in Values
    BY <1>2, <1>3, <1>5, MergeHosts, ValuesTyped
  <1> HIDE DEF o, new, list, ends, merge
  <1>7. /\ out \in Objects /\ Len(o) <= Len(out)
        /\ \A k \in DOMAIN o : /\ out[k].key = o[k].key
                               /\ o[k].key # "registry-mirrors" => out[k] = o[k]
    BY <1>1, <1>2, SetKeeps, ManagedSettings
  <1>8. /\ has(out, "registry-mirrors") /\ get(out, "registry-mirrors") = ends
        /\ has(out, "insecure-registries") <=> has(o, "insecure-registries")
        /\ has(o, "insecure-registries") =>
             get(out, "insecure-registries") = get(o, "insecure-registries")
    BY <1>1, <1>2, SetIsRead, ManagedSettings
  <1>9. Carried(out) = Carried(o)
    BY <1>8 DEF Carried
  <1> HIDE DEF out
  <1>10. CASE list = <<>>
    BY <1>1, <1>4, <1>7, <1>8, <1>9, <1>10
    DEF Managed, o, new, list, ends
  <1>11. CASE list # <<>>
    <2>1. new = set(out, "insecure-registries", merge)
      BY <1>4, <1>11
    <2>2. /\ new \in Objects /\ Len(out) <= Len(new)
          /\ \A k \in DOMAIN out : /\ new[k].key = out[k].key
                                   /\ out[k].key # "insecure-registries" => new[k] = out[k]
      <3>1. out \in Objects /\ merge \in Values /\ merge \in {Shapeless} \cup Seq(Addresses)
        BY <1>6, <1>7, <1>11
      <3> DEFINE N == "insecure-registries"
      <3>2. N \in Settings
        BY ManagedSettings
      <3> HIDE DEF N
      <3>3. /\ set(out, N, merge) \in Objects /\ Len(out) <= Len(set(out, N, merge))
            /\ \A k \in DOMAIN out :
                 /\ set(out, N, merge)[k].key = out[k].key
                 /\ out[k].key # N => set(out, N, merge)[k] = out[k]
        BY <3>1, <3>2, SetKeeps
      <3>4. QED
        BY <2>1, <3>3 DEF N
    <2>3. /\ has(new, "insecure-registries") /\ get(new, "insecure-registries") = merge
          /\ has(new, "registry-mirrors") <=> has(out, "registry-mirrors")
          /\ has(out, "registry-mirrors") =>
               get(new, "registry-mirrors") = get(out, "registry-mirrors")
      BY <1>6, <1>7, <1>11, <2>1, SetIsRead, ManagedSettings
    <2>4. Carried(new) = merge
      BY <2>3 DEF Carried
    <2>5. Len(o) <= Len(new) /\ DOMAIN o \subseteq DOMAIN out
      BY <1>1, <1>7, <2>2, ObjectTyped
    <2>6. \A k \in DOMAIN o : /\ new[k].key = o[k].key
                              /\ o[k].key \notin Managed => new[k] = o[k]
      BY <1>7, <2>2, <2>5 DEF Managed
    <2>7. QED
      BY <1>1, <1>2, <1>3, <1>5, <1>8, <1>11, <2>2, <2>3, <2>4, <2>5, <2>6
      DEF o, new, list, ends, merge
  <1>12. QED
    BY <1>10, <1>11

-----------------------------------------------------------------------------
(* The invariant: what is open is the page of what there is.               *)

PageOf(text) ==
  [candidates |-> configCandidates, text |-> text,
   daemon |-> IF Refused(configCandidates, text) THEN None
              ELSE DaemonJSON(configCandidates, text),
   toml |-> ContainerdHostsTOML(configCandidates)]

PageIsCurrent == page # None => page.text \in Texts /\ page = PageOf(page.text)

Inv == Typed /\ file \in Texts /\ PageIsCurrent

LEMMA InitInv == Init => Inv
  <1>1. Files \subseteq Texts
    BY ConfigGenAssumption DEF Texts
  <1>2. QED
    BY <1>1 DEF Init, Inv, Typed, PageIsCurrent

LEMMA LoadedIsCurrent ==
  ASSUME NEW text \in Texts, loadConfigPage(text), UNCHANGED <<enabled, latest>>
  PROVE  PageIsCurrent'
  <1>1. configCandidates' = configCandidates
    BY DEF configCandidates, Candidate
  <1>2. page' = PageOf(text)
    BY DEF loadConfigPage, PageOf
  <1>3. page'.text = text
    BY <1>2 DEF PageOf
  <1>4. page' = PageOf(page.text)'
    BY <1>1, <1>2, <1>3 DEF PageOf
  <1>5. QED
    BY <1>3, <1>4 DEF PageIsCurrent

LEMMA StepInv == ASSUME Inv, [Next]_vars PROVE Inv'
  <1>1. ASSUME NEW i \in Rows, NEW result \in Results, Record(i, result) PROVE Inv'
    BY <1>1 DEF Inv, Typed, PageIsCurrent, Record
  <1>2. ASSUME NEW i \in Rows, Switch(i) PROVE Inv'
    BY <1>2 DEF Inv, Typed, PageIsCurrent, Switch
  <1>3. CASE handleConfig
    <2>1. Blank \in Texts
      BY DEF Texts
    <2>2. PageIsCurrent'
      BY <1>3, <2>1, LoadedIsCurrent DEF handleConfig
    <2>3. QED
      BY <1>3, <2>2 DEF Inv, Typed, handleConfig
  <1>4. CASE handleConfigMerge
    <2>1. PageIsCurrent'
      BY <1>4, LoadedIsCurrent DEF handleConfigMerge, Inv
    <2>2. QED
      BY <1>4, <2>1 DEF Inv, Typed, handleConfigMerge
  <1>5. CASE Paste
    <2>1. page # None /\ page.text \in Texts /\ page = PageOf(page.text)
      BY <1>5 DEF Paste, Inv, PageIsCurrent
    <2>2. ASSUME page.daemon # None PROVE page.daemon \in Texts
      <3>1. page.daemon = IF Refused(configCandidates, page.text) THEN None
                          ELSE DaemonJSON(configCandidates, page.text)
        BY <2>1 DEF PageOf
      <3>2. configCandidates \in Seq(Mirrors)
        BY CandidatesAreListed DEF Inv
      <3>3. QED
        BY <2>1, <2>2, <3>1, <3>2, DaemonWrites DEF Texts
    <2>3. file' \in Texts
      BY <1>5, <2>2 DEF Paste, Inv
    <2>4. QED
      BY <1>5, <2>3 DEF Inv, Typed, PageIsCurrent, Paste
  <1>6. CASE Edit
    <2>1. Files \subseteq Texts
      BY ConfigGenAssumption DEF Texts
    <2>2. QED
      BY <1>6, <2>1 DEF Inv, Typed, PageIsCurrent, Edit
  <1>7. CASE UNCHANGED vars
    <2>1. configCandidates' = configCandidates
      BY <1>7 DEF configCandidates, Candidate, vars
    <2>2. QED
      BY <1>7, <2>1 DEF Inv, Typed, PageIsCurrent, PageOf, vars
  <1>8. QED
    BY <1>1, <1>2, <1>3, <1>4, <1>5, <1>6, <1>7 DEF Next

\* What an open page shows.
LEMMA PageShows ==
  ASSUME Inv, page # None
  PROVE  /\ page.candidates = configCandidates /\ configCandidates \in Seq(Mirrors)
         /\ page.text \in Texts
         /\ page.toml = ContainerdHostsTOML(configCandidates)
         /\ page.daemon # None => /\ ~Refused(configCandidates, page.text)
                                  /\ page.daemon = DaemonJSON(configCandidates, page.text)
  <1>1. page.text \in Texts /\ page = PageOf(page.text)
    BY DEF Inv, PageIsCurrent
  <1>2. configCandidates \in Seq(Mirrors)
    BY CandidatesAreListed DEF Inv
  <1>3. QED
    BY <1>1, <1>2 DEF PageOf

-----------------------------------------------------------------------------
(* The theorems.                                                           *)

LEMMA RankedRightHolds == ASSUME Inv PROVE RankedRight
  <1> SUFFICES ASSUME page # None PROVE RankedRight
    BY DEF RankedRight
  <1> DEFINE ranked == Select(configCandidates)
  <1>1. /\ page.candidates = configCandidates /\ configCandidates \in Seq(Mirrors)
        /\ page.text \in Texts /\ page.toml = ContainerdHostsTOML(configCandidates)
        /\ page.daemon # None => /\ ~Refused(configCandidates, page.text)
                                 /\ page.daemon = DaemonJSON(configCandidates, page.text)
    BY PageShows
  <1>2. Typed
    BY DEF Inv
  <1>3. {Host(configCandidates[k]) : k \in DOMAIN configCandidates} =
          {hostOf(Catalogue[i].address) : i \in Listed}
    <2>1. ASSUME NEW k \in DOMAIN configCandidates
          PROVE  Host(configCandidates[k]) = hostOf(Catalogue[configCandidates[k].row].address)
      <3>1. configCandidates[k] = Candidate(configCandidates[k].row)
        BY <1>2, CandidatesAreListed
      <3>2. Candidate(configCandidates[k].row).address =
              Catalogue[configCandidates[k].row].address
        BY DEF Candidate
      <3>3. QED
        BY <3>1, <3>2 DEF Host
    <2>2. /\ \A k \in DOMAIN configCandidates : configCandidates[k].row \in Listed
          /\ \A i \in Listed : \E k \in DOMAIN configCandidates : configCandidates[k].row = i
      BY <1>2, CandidatesAreListed
    <2>3. QED
      BY <2>1, <2>2
  <1>4. {Host(ranked[k]) : k \in DOMAIN ranked} =
          {hostOf(Catalogue[i].address) : i \in Listed} \ {None}
    BY <1>1, <1>3, SelectHosts
  <1>5. DOMAIN ranked \in SUBSET Int
    BY <1>1, SelectInOrder
  <1>6. \A j, k \in DOMAIN ranked : j < k => Host(ranked[j]) # Host(ranked[k])
    BY <1>1, <1>5, SelectHosts
  <1>7. page.toml # None <=> ranked # <<>>
    <2>1. endpoints(ranked) \in Seq(Addresses)
      BY <1>1, EndpointsTyped
    <2>2. endpoints(ranked) # None
      BY <2>1, ValuesTyped
    <2>3. QED
      BY <1>1, <2>2 DEF ContainerdHostsTOML
  <1>8. page.daemon # None => get(page.daemon, "registry-mirrors") = page.toml
    <2>1. ASSUME page.daemon # None
          PROVE  get(page.daemon, "registry-mirrors") = endpoints(ranked) /\ ranked # <<>>
      BY <1>1, <2>1, DaemonWrites DEF Refused
    <2>2. QED
      BY <1>1, <2>1 DEF ContainerdHostsTOML
  <1>9. \A k \in DOMAIN ranked :
          ranked[k].row \in Warnings(configCandidates).unusable
            <=> outcomeFrom(latest[ranked[k].row].status) = "fails"
    BY <1>2, UnusableAreNamed
  <1>10. ASSUME NEW j \in DOMAIN ranked, NEW k \in DOMAIN ranked, j < k
         PROVE  LET i == ranked[j].row
                    l == ranked[k].row
                IN  /\ Standing(i) >= Standing(l)
                    /\ Standing(i) = Standing(l) =>
                         IF Standing(i) = 3
                         THEN \/ latest[i].bps > latest[l].bps
                              \/ latest[i].bps = latest[l].bps /\ i < l
                         ELSE i < l
    BY <1>2, <1>10, RankedByStanding
  <1> HIDE DEF ranked
  <1>11. Select(page.candidates) = ranked /\ Warnings(page.candidates) = Warnings(configCandidates)
    BY <1>1 DEF ranked
  <1>12. \A j, k \in DOMAIN ranked :
           j < k =>
             LET i == ranked[j].row
                 l == ranked[k].row
             IN  /\ Host(ranked[j]) # Host(ranked[k])
                 /\ Standing(i) >= Standing(l)
                 /\ Standing(i) = Standing(l) =>
                      IF Standing(i) = 3
                      THEN \/ latest[i].bps > latest[l].bps
                           \/ latest[i].bps = latest[l].bps /\ i < l
                      ELSE i < l
    BY <1>6, <1>10, Zenon
  <1>13. QED
    BY <1>4, <1>7, <1>8, <1>9, <1>11, <1>12 DEF RankedRight

LEMMA OwnSurvivesHolds == ASSUME Inv PROVE OwnSurvives
  <1> SUFFICES ASSUME page # None, page.daemon # None PROVE OwnSurvives
    BY DEF OwnSurvives
  <1> DEFINE mirrors == configCandidates
             list == insecureHosts(Select(mirrors))
  <1>1. /\ mirrors \in Seq(Mirrors) /\ page.text \in Texts /\ ~Refused(mirrors, page.text)
        /\ page.daemon = DaemonJSON(mirrors, page.text)
    BY PageShows
  <1>2. /\ Existing \in Objects /\ page.daemon \in Objects
        /\ Len(Existing) <= Len(page.daemon)
        /\ \A k \in DOMAIN Existing :
             /\ page.daemon[k].key = Existing[k].key
             /\ Existing[k].key \notin Managed => page.daemon[k] = Existing[k]
        /\ list = <<>> => Carried(page.daemon) = Carried(Existing)
        /\ list # <<>> => /\ Carried(Existing) \in Seq(Addresses) /\ list \in Seq(Addresses)
                          /\ Carried(page.daemon) = mergeUnique(Carried(Existing), list)
    BY <1>1, DaemonWrites DEF Existing
  <1>3. CASE list = <<>>
    BY <1>2, <1>3 DEF OwnSurvives
  <1>4. CASE list # <<>>
    <2>1. Hosts(Carried(Existing)) \subseteq Hosts(Carried(page.daemon))
      BY <1>2, <1>4, MergeHosts
    <2>2. Carried(Existing) # Shapeless
      BY <1>2, <1>4, ValuesTyped
    <2>3. QED
      BY <1>2, <2>1, <2>2 DEF OwnSurvives
  <1>5. QED
    BY <1>3, <1>4

\* A row that says its URL is plain HTTP.
Saying == {i \in Listed : Catalogue[i].insecure /\ Authority[Catalogue[i].address] # None}

\* A ranked mirror that speaks plain HTTP is a row that says so; and a row that
\* says so is ranked or named as a duplicate.
LEMMA SayingIsHeard ==
  ASSUME Typed
  PROVE  LET ranked == Select(configCandidates)
         IN  /\ \A k \in Insecure(ranked) :
                  \E i \in Saying : ranked[k].address = Catalogue[i].address
             /\ \A i \in Saying : \/ hostOf(Catalogue[i].address) \in Plain(ranked)
                                  \/ i \in Warnings(configCandidates).duplicated
  <1> DEFINE mirrors == configCandidates
             ranked == Select(mirrors)
             order == Standings(mirrors)
             K == Kept(mirrors)
  <1>1. /\ mirrors \in Seq(Mirrors)
        /\ \A k \in DOMAIN mirrors : mirrors[k].row \in Listed
                                     /\ mirrors[k] = Candidate(mirrors[k].row)
        /\ \A i \in Listed : \E k \in DOMAIN mirrors : mirrors[k].row = i
    BY CandidatesAreListed
  <1>2. /\ order \in [DOMAIN ranked -> K]
        /\ \A n \in DOMAIN ranked : ranked[n] = mirrors[order[n]]
        /\ \A k \in K : \E n \in DOMAIN ranked : order[n] = k
    BY <1>1, SelectInOrder
  <1>3. K \in SUBSET DOMAIN mirrors /\ \A k \in K : Host(mirrors[k]) # None
    BY <1>1, KeptOnePerHost DEF Kept
  <1>4. \A i \in Rows : /\ Candidate(i).insecure = Catalogue[i].insecure
                        /\ Candidate(i).address = Catalogue[i].address
                        /\ Candidate(i).row = i
    BY DEF Candidate
  <1>5. \A k \in DOMAIN mirrors : /\ mirrors[k].insecure = Catalogue[mirrors[k].row].insecure
                                  /\ mirrors[k].address = Catalogue[mirrors[k].row].address
    BY <1>1, <1>4 DEF Listed
  <1>6. Warnings(mirrors).duplicated =
          {mirrors[k].row : k \in {l \in DOMAIN mirrors \ K : Host(mirrors[l]) # None}}
    BY DEF Warnings
  <1>7. None \notin Addresses /\ \A u \in Addresses : Lower[u] \in Addresses
    BY ConfigGenAssumption
  <1>8. \A k \in DOMAIN mirrors : Host(mirrors[k]) # None <=> Authority[mirrors[k].address] # None
    <2>1. ASSUME NEW k \in DOMAIN mirrors
          PROVE  Host(mirrors[k]) # None <=> Authority[mirrors[k].address] # None
      <3>1. mirrors[k] \in Mirrors
        BY <1>1
      <3>2. Host(mirrors[k]) # None => Authority[mirrors[k].address] \in Addresses
        BY <3>1, HostOfTyped
      <3>3. Authority[mirrors[k].address] # None => Host(mirrors[k]) # None
        BY <3>1, HostOfTyped
      <3>4. QED
        BY <1>7, <3>2, <3>3
    <2>2. QED
      BY <2>1
  <1> HIDE DEF mirrors, ranked, order, K
  <1>9. ASSUME NEW k \in Insecure(ranked)
        PROVE  \E i \in Saying : ranked[k].address = Catalogue[i].address
    <2>1. k \in DOMAIN ranked /\ ranked[k].insecure
      BY DEF Insecure
    <2>2. order[k] \in DOMAIN mirrors /\ ranked[k] = mirrors[order[k]]
          /\ Host(mirrors[order[k]]) # None
      BY <1>2, <1>3, <2>1
    <2>3. mirrors[order[k]].row \in Saying
      BY <1>1, <1>5, <1>8, <2>1, <2>2 DEF Saying
    <2>4. QED
      BY <1>5, <2>2, <2>3
  <1>10. ASSUME NEW i \in Saying
         PROVE  \/ hostOf(Catalogue[i].address) \in Plain(ranked)
                \/ i \in Warnings(mirrors).duplicated
    <2>1. PICK k \in DOMAIN mirrors : mirrors[k].row = i
      BY <1>1 DEF Saying
    <2>2. /\ mirrors[k].insecure /\ mirrors[k].address = Catalogue[i].address
          /\ Host(mirrors[k]) # None
      BY <1>5, <1>8, <2>1 DEF Saying
    <2>3. CASE k \in K
      <3>1. PICK n \in DOMAIN ranked : order[n] = k
        BY <1>2, <2>3
      <3>2. n \in Insecure(ranked) /\ Host(ranked[n]) = hostOf(Catalogue[i].address)
        BY <1>2, <2>2, <3>1 DEF Insecure, Host
      <3>3. QED
        BY <3>2 DEF Plain
    <2>4. CASE k \notin K
      BY <1>6, <2>1, <2>2, <2>4
    <2>5. QED
      BY <2>3, <2>4
  <1>11. QED
    BY <1>9, <1>10 DEF mirrors, ranked

LEMMA InsecureListedHolds == ASSUME Inv PROVE InsecureListed
  <1> SUFFICES ASSUME page # None, page.daemon # None, Carried(page.daemon) # Shapeless
               PROVE  InsecureListed
    BY DEF InsecureListed
  <1> DEFINE mirrors == configCandidates
             ranked == Select(mirrors)
             list == insecureHosts(ranked)
             now == Carried(page.daemon)
             had == Carried(Existing)
  <1>1. /\ mirrors \in Seq(Mirrors) /\ page.text \in Texts /\ ~Refused(mirrors, page.text)
        /\ page.daemon = DaemonJSON(mirrors, page.text) /\ page.candidates = mirrors
    BY PageShows
  <1>2. /\ list = <<>> => now = had
        /\ list # <<>> => had \in Seq(Addresses) /\ list \in Seq(Addresses)
                          /\ now = mergeUnique(had, list)
    BY <1>1, DaemonWrites DEF Existing
  <1>3. /\ Hosts(list) = Plain(ranked)
        /\ Entries(list) = {Authority[ranked[k].address] : k \in Insecure(ranked)}
    BY <1>1, InsecureTyped
  <1>4. /\ Plain(ranked) \subseteq Hosts(now)
        /\ Entries(now) \subseteq Entries(had) \cup Entries(list)
        /\ Plain(ranked) # {} => Single(now)
    <2>1. CASE list = <<>>
      <3>1. Hosts(list) = {}
        BY <2>1 DEF Hosts
      <3>2. QED
        BY <1>2, <1>3, <2>1, <3>1
    <2>2. CASE list # <<>>
      <3>1. /\ Hosts(now) = Hosts(had) \cup Hosts(list) /\ Single(now)
            /\ Entries(now) \subseteq Entries(had) \cup Entries(list)
        BY <1>2, <2>2, MergeHosts
      <3>2. QED
        BY <1>3, <3>1
    <2>3. QED
      BY <2>1, <2>2
  <1>5. Plain(ranked) = {Host(ranked[k]) : k \in {j \in DOMAIN ranked : ranked[j].insecure}}
    BY DEF Plain, Insecure
  <1>6. /\ \A k \in Insecure(ranked) : \E i \in Saying : ranked[k].address = Catalogue[i].address
        /\ \A i \in Saying : \/ hostOf(Catalogue[i].address) \in Plain(ranked)
                             \/ i \in Warnings(mirrors).duplicated
    BY SayingIsHeard DEF Inv
  <1> HIDE DEF now, had, list, ranked, mirrors
  <1>7. \A j, k \in DOMAIN now :
          Lower[now[j]] = Lower[now[k]] /\ Lower[now[k]] \in Plain(ranked) => j = k
    BY <1>4 DEF Single
  <1>8. Entries(now) \subseteq Entries(had) \cup {Authority[Catalogue[i].address] : i \in Saying}
    BY <1>3, <1>4, <1>6
  <1>9. \A i \in Saying : \/ hostOf(Catalogue[i].address) \in Hosts(now)
                          \/ i \in Warnings(mirrors).duplicated
    BY <1>4, <1>6
  <1>10. Saying = {i \in Listed : Catalogue[i].insecure
                                  /\ Authority[Catalogue[i].address] # None}
    BY DEF Saying
  <1>11. Select(page.candidates) = ranked /\ Warnings(page.candidates) = Warnings(mirrors)
    BY <1>1 DEF ranked
  <1>12. QED
    BY <1>4, <1>5, <1>7, <1>8, <1>9, <1>10, <1>11 DEF InsecureListed, now, had

LEMMA MergeSettlesHolds == ASSUME Inv PROVE MergeSettles
  <1> SUFFICES ASSUME page # None, page.daemon # None PROVE MergeSettles
    BY DEF MergeSettles
  <1> DEFINE mirrors == configCandidates
             ranked == Select(mirrors)
             list == insecureHosts(ranked)
             ends == endpoints(ranked)
             new == page.daemon
  <1>1. /\ mirrors \in Seq(Mirrors) /\ page.text \in Texts /\ ~Refused(mirrors, page.text)
        /\ new = DaemonJSON(mirrors, page.text) /\ page.candidates = mirrors
    BY PageShows
  <1>2. /\ new \in Objects
        /\ has(new, "registry-mirrors") /\ get(new, "registry-mirrors") = ends
        /\ list # <<>> =>
             /\ Carried(Existing) \in Seq(Addresses) /\ list \in Seq(Addresses)
             /\ has(new, "insecure-registries")
             /\ Carried(new) = mergeUnique(Carried(Existing), list)
    BY <1>1, DaemonWrites DEF Existing
  <1>3. parseObject(new) = new /\ new # NotJSON
    BY <1>2, ValuesTyped DEF parseObject
  <1>4. ranked # <<>>
    BY <1>1 DEF Refused
  <1>5. list # <<>> =>
          /\ Carried(new) \in Seq(Addresses) /\ Single(Carried(new))
          /\ Hosts(list) \subseteq Hosts(Carried(new))
    BY <1>2, MergeHosts
  <1>6. list # <<>> => mergeUnique(Carried(new), list) = Carried(new)
    BY <1>2, <1>5, MergeAgain
  <1>7. ~Refused(mirrors, new)
    <2>1. list # <<>> => Carried(new) # Shapeless
      BY <1>5, ValuesTyped
    <2>2. QED
      BY <1>3, <1>4, <2>1 DEF Refused
  <1>8. set(new, "registry-mirrors", ends) = new
    BY <1>2, SetAgain
  <1>9. list # <<>> => set(new, "insecure-registries", Carried(new)) = new
    <2>1. list # <<>> => Carried(new) = get(new, "insecure-registries")
      BY <1>2 DEF Carried
    <2>2. QED
      BY <1>2, <2>1, SetAgain
  <1>10. DaemonJSON(mirrors, new) =
           IF list = <<>> THEN set(new, "registry-mirrors", ends)
           ELSE set(set(new, "registry-mirrors", ends), "insecure-registries",
                    mergeUnique(Carried(new), list))
    BY <1>3 DEF DaemonJSON
  <1> HIDE DEF mirrors, list, ends, ranked
  <1>11. DaemonJSON(mirrors, new) = new
    BY <1>6, <1>8, <1>9, <1>10
  <1>12. QED
    BY <1>1, <1>7, <1>11 DEF MergeSettles

LEMMA InvariantHolds == Spec => []Inv
  <1>1. QED
    BY InitInv, StepInv, PTL DEF Spec

\* Every file tries the hosts that are enabled, each once, what works before what
\* nobody has tried and that before what fails, and by rate among what works
\* (Select, in the stable order of its sort).
THEOREM RankingIsRight == Spec => []RankedRight
  BY RankedRightHolds, InvariantHolds, PTL

\* No merge loses or moves a setting of the visitor's or a registry they trust
\* (object.set, mergeUnique).
THEOREM OwnStays == Spec => []OwnSurvives
  BY OwnSurvivesHolds, InvariantHolds, PTL

\* The hosts of the mirrors that speak plain HTTP are listed as insecure, each
\* once, nothing is that no one said is, and a row whose word is not listed is
\* named (insecureHosts, mergeUnique, the warnings of Select).
THEOREM InsecureAreListed == Spec => []InsecureListed
  BY InsecureListedHolds, InvariantHolds, PTL

\* What was merged and pasted is what the next merge of the same mirrors writes
\* (DaemonJSON).
THEOREM MergesSettle == Spec => []MergeSettles
  BY MergeSettlesHolds, InvariantHolds, PTL

-----------------------------------------------------------------------------
(* How an address is read.                                                 *)

HubPart == Part(Hub, Absent)

LEMMA UpToIs ==
  ASSUME NEW S, NEW n \in Nat, NEW s
  PROVE  s \in UpTo(S, n) <=> s \in Seq(S) /\ Len(s) \in 1 .. n
  <1>1. ASSUME s \in UpTo(S, n)
        PROVE  s \in Seq(S) /\ Len(s) \in 1 .. n
    <2>1. PICK m \in 1 .. n : s \in [1 .. m -> S]
      BY <1>1 DEF UpTo
    <2>2. QED
      BY <2>1
  <1>2. ASSUME s \in Seq(S), Len(s) \in 1 .. n
        PROVE  s \in UpTo(S, n)
    <2>1. s \in [1 .. Len(s) -> S]
      BY <1>2
    <2>2. QED
      BY <1>2, <2>1 DEF UpTo
  <1>3. QED
    BY <1>1, <1>2

LEMMA OneMore ==
  ASSUME NEW S, NEW a \in S, NEW s \in Seq(S)
  PROVE  LET t == <<a>> \o s
         IN  /\ t \in Seq(S) /\ Len(t) = Len(s) + 1 /\ t[1] = a /\ Tail(t) = s
             /\ \A k \in 1 .. Len(s) : t[k + 1] = s[k]
  OBVIOUS

LEMMA FirstAndRest ==
  ASSUME NEW S, NEW s \in Seq(S), s # <<>>
  PROVE  s = <<s[1]>> \o Tail(s)
  <1>1. Len(s) \in Nat \ {0} /\ s[1] \in S /\ Tail(s) \in Seq(S) /\ Len(Tail(s)) = Len(s) - 1
    OBVIOUS
  <1>2. /\ <<s[1]>> \o Tail(s) \in Seq(S) /\ Len(<<s[1]>> \o Tail(s)) = Len(s)
        /\ \A k \in 1 .. Len(s) : (<<s[1]>> \o Tail(s))[k] = s[k]
    BY <1>1
  <1>3. QED
    BY <1>1, <1>2

\* What Parse cuts an address into.
Registered(parts) == Len(parts) >= 2 /\ looksLikeRegistry(parts[1])

Rest(parts) == IF Registered(parts) THEN Tail(parts) ELSE parts

Origin(parts) == IF Registered(parts) THEN parts[1] ELSE HubPart

Named(parts) == [k \in DOMAIN parts |-> parts[k].word]

Path(parts) ==
  IF Origin(parts) = HubPart /\ Len(Rest(parts)) = 1
  THEN <<Library>> \o Named(Rest(parts)) ELSE Named(Rest(parts))

Tag(parts) == Rest(parts)[Len(Rest(parts))].suffix

Read(parts, digest) ==
  [origin |-> Origin(parts), path |-> Path(parts), tag |-> Tag(parts), digest |-> digest]

Readable(parts, digest) ==
  /\ digest \in Digests \cup {Absent}
  /\ Tag(parts) \in Tags \cup {Absent}
  /\ \A k \in 1 .. Len(Rest(parts)) - 1 : Rest(parts)[k].suffix = Absent
  /\ \A k \in DOMAIN Path(parts) : Path(parts)[k] \in Segments

LEMMA ParseCuts ==
  ASSUME NEW text
  PROVE  Parse(text) = IF ~text.scheme /\ Readable(text.parts, text.digest)
                       THEN Read(text.parts, text.digest) ELSE Absent
  <1>1. ToSet(Path(text.parts)) \subseteq Segments
          <=> \A k \in DOMAIN Path(text.parts) : Path(text.parts)[k] \in Segments
    BY DEF ToSet
  <1>2. QED
    BY <1>1 DEF Parse, Readable, Read, Path, Tag, Named, Rest, Origin, Registered, HubPart, Last

LEMMA RestTyped ==
  ASSUME NEW parts \in Seq(Parts), parts # <<>>
  PROVE  /\ Rest(parts) \in Seq(Parts) /\ Len(Rest(parts)) >= 1
         /\ Len(Rest(parts)) = 1 \/ Len(Rest(parts)) >= 2
         /\ Registered(parts) => /\ Len(Rest(parts)) = Len(parts) - 1
                                 /\ \A k \in 1 .. Len(parts) - 1 : Rest(parts)[k] = parts[k + 1]
         /\ ~Registered(parts) => Rest(parts) = parts
         /\ Origin(parts) \in Parts
  <1>1. HubPart \in Parts
    BY RelayAssumption DEF HubPart, Part, Parts
  <1>2. Len(parts) >= 1
    OBVIOUS
  <1>3. /\ Rest(parts) \in Seq(Parts) /\ Len(Rest(parts)) >= 1
        /\ Registered(parts) => /\ Len(Rest(parts)) = Len(parts) - 1
                                /\ \A k \in 1 .. Len(parts) - 1 : Rest(parts)[k] = parts[k + 1]
        /\ ~Registered(parts) => Rest(parts) = parts
        /\ Origin(parts) \in Parts
    BY <1>1, <1>2 DEF Rest, Registered, Origin
  <1>4. \A n \in Nat : n >= 1 => n = 1 \/ n >= 2
    OBVIOUS
  <1>5. Len(Rest(parts)) \in Nat
    BY <1>3
  <1>6. QED
    BY <1>3, <1>4, <1>5

LEMMA NamedTyped ==
  ASSUME NEW rest \in Seq(Parts)
  PROVE  /\ Named(rest) \in Seq(Words) /\ Len(Named(rest)) = Len(rest)
         /\ \A k \in 1 .. Len(rest) : Named(rest)[k] = rest[k].word
  <1>1. /\ DOMAIN rest = 1 .. Len(rest) /\ Len(rest) \in Nat
        /\ \A k \in 1 .. Len(rest) : rest[k].word \in Words
    <2>1. /\ DOMAIN rest = 1 .. Len(rest) /\ Len(rest) \in Nat
          /\ \A k \in 1 .. Len(rest) : rest[k] \in Parts
      OBVIOUS
    <2>2. \A part \in Parts : part.word \in Words
      BY DEF Parts
    <2>3. QED
      BY <2>1, <2>2
  <1>2. /\ Named(rest) \in [1 .. Len(rest) -> Words]
        /\ \A k \in 1 .. Len(rest) : Named(rest)[k] = rest[k].word
    BY <1>1 DEF Named
  <1>3. QED
    BY <1>1, <1>2, Sequence

LEMMA PathTyped ==
  ASSUME NEW parts \in Seq(Parts), parts # <<>>
  PROVE  /\ Path(parts) \in Seq(Words)
         /\ IF Origin(parts) = HubPart /\ Len(Rest(parts)) = 1
            THEN Len(Path(parts)) = 2 /\ Path(parts)[1] = Library
                 /\ Path(parts)[2] = Rest(parts)[1].word
            ELSE Path(parts) = Named(Rest(parts))
  <1>1. Rest(parts) \in Seq(Parts)
    BY RestTyped
  <1>2. Library \in Words
    BY RelayAssumption
  <1>3. QED
    BY <1>1, <1>2, NamedTyped DEF Path

LEMMA HubIsRegistry == HubPart \in Parts /\ looksLikeRegistry(HubPart)
  BY RelayAssumption DEF HubPart, Part, Parts, looksLikeRegistry

LEMMA RegistryTyped ==
  ASSUME NEW part \in Parts, looksLikeRegistry(part)
  PROVE  part.word \in HostWords /\ part.word \in Segments
  BY RelayAssumption DEF looksLikeRegistry

-----------------------------------------------------------------------------
(* How a reference is written.                                             *)

Full(ref) ==
  [k \in DOMAIN ref.path |->
     Part(ref.path[k], IF k = Len(ref.path) THEN ref.tag ELSE Absent)]

LEMMA ReferenceTyped ==
  ASSUME NEW ref \in Readings
  PROVE  /\ ref.origin \in Parts /\ looksLikeRegistry(ref.origin)
         /\ ref.path \in Seq(Segments) /\ Len(ref.path) \in 1 .. MaxParts
         /\ ref.tag \in Tags \cup {Absent} /\ ref.digest \in Digests \cup {Absent}
         /\ ref.origin = HubPart => Len(ref.path) >= 2
         /\ ref.origin # HubPart => Len(ref.path) < MaxParts
         /\ ref = [origin |-> ref.origin, path |-> ref.path, tag |-> ref.tag,
                   digest |-> ref.digest]
  <1>1. ref.path \in UpTo(Segments, MaxParts)
    BY DEF Readings
  <1>2. ref.path \in Seq(Segments) /\ Len(ref.path) \in 1 .. MaxParts
    BY <1>1, UpToIs, RelayAssumption
  <1>3. QED
    BY <1>2 DEF Readings, HubPart

LEMMA FullTyped ==
  ASSUME NEW ref \in Readings
  PROVE  /\ Full(ref) \in Seq(Parts) /\ Len(Full(ref)) = Len(ref.path)
         /\ \A k \in 1 .. Len(ref.path) :
              /\ Full(ref)[k].word = ref.path[k]
              /\ Full(ref)[k].suffix = IF k = Len(ref.path) THEN ref.tag ELSE Absent
         /\ Named(Full(ref)) = ref.path
  <1>1. /\ ref.path \in Seq(Segments) /\ Segments \subseteq Words
        /\ ref.tag \in Afters \cup {Absent}
    BY ReferenceTyped, RelayAssumption
  <1>2. /\ Full(ref) \in Seq(Parts) /\ Len(Full(ref)) = Len(ref.path)
        /\ \A k \in 1 .. Len(ref.path) :
              /\ Full(ref)[k].word = ref.path[k]
              /\ Full(ref)[k].suffix = IF k = Len(ref.path) THEN ref.tag ELSE Absent
    <2>1. /\ DOMAIN ref.path = 1 .. Len(ref.path) /\ Len(ref.path) \in Nat
          /\ \A k \in 1 .. Len(ref.path) : ref.path[k] \in Words
      BY <1>1
    <2>2. \A w \in Words, s \in Afters \cup {Absent} :
            Part(w, s) \in Parts /\ Part(w, s).word = w /\ Part(w, s).suffix = s
      BY DEF Part, Parts
    <2>3. ASSUME NEW k \in 1 .. Len(ref.path)
          PROVE  /\ Full(ref)[k] \in Parts
                 /\ Full(ref)[k].word = ref.path[k]
                 /\ Full(ref)[k].suffix = IF k = Len(ref.path) THEN ref.tag ELSE Absent
      <3>1. (IF k = Len(ref.path) THEN ref.tag ELSE Absent) \in Afters \cup {Absent}
        BY <1>1
      <3>2. QED
        BY <2>1, <2>2, <3>1 DEF Full
    <2>4. Full(ref) \in [1 .. Len(ref.path) -> Parts]
      BY <2>1, <2>3 DEF Full
    <2>5. QED
      BY <2>1, <2>3, <2>4, Sequence
  <1>3. Named(Full(ref)) = ref.path
    BY <1>1, <1>2 DEF Named
  <1>4. QED
    BY <1>2, <1>3

\* Parts whose rest is Full(ref), or its last part alone, are read as ref.
LEMMA ReadAs ==
  ASSUME NEW ref \in Readings, NEW parts \in Seq(Parts), parts # <<>>,
         Origin(parts) = ref.origin,
         \/ Rest(parts) = Full(ref)
         \/ /\ Rest(parts) = <<Part(ref.path[Len(ref.path)], ref.tag)>>
            /\ ref.origin = HubPart /\ Len(ref.path) = 2 /\ ref.path[1] = Library
  PROVE  Parse(Text(parts, ref.digest)) = ref
  <1> DEFINE text == Text(parts, ref.digest)
             rest == Rest(parts)
  <1>1. /\ rest \in Seq(Parts) /\ Len(rest) >= 1
    BY RestTyped
  <1>2. /\ ref.path \in Seq(Segments) /\ Len(ref.path) >= 1
        /\ ref.tag \in Tags \cup {Absent} /\ ref.digest \in Digests \cup {Absent}
        /\ ref.origin = HubPart => Len(ref.path) >= 2
        /\ ref = [origin |-> ref.origin, path |-> ref.path, tag |-> ref.tag,
                  digest |-> ref.digest]
    BY ReferenceTyped
  <1>3. /\ Path(parts) = ref.path /\ Tag(parts) = ref.tag
        /\ \A k \in 1 .. Len(rest) - 1 : rest[k].suffix = Absent
    <2>1. CASE rest = Full(ref)
      <3>1. Path(parts) = Named(Full(ref))
        BY <1>2, <2>1, FullTyped, PathTyped
      <3>2. QED
        BY <1>2, <2>1, <3>1, FullTyped DEF Tag
    <2>2. CASE /\ rest = <<Part(ref.path[Len(ref.path)], ref.tag)>>
               /\ ref.origin = HubPart /\ Len(ref.path) = 2 /\ ref.path[1] = Library
      <3>1. /\ Len(rest) = 1 /\ rest[1].word = ref.path[2] /\ rest[1].suffix = ref.tag
        BY <2>2 DEF Part
      <3>2. /\ Path(parts) \in Seq(Words) /\ Len(Path(parts)) = 2
            /\ Path(parts)[1] = ref.path[1] /\ Path(parts)[2] = ref.path[2]
        BY <2>2, <3>1, PathTyped
      <3>3. Path(parts) = ref.path
        BY <1>2, <2>2, <3>2
      <3>4. QED
        BY <3>1, <3>3 DEF Tag
    <2>3. QED
      BY <2>1, <2>2
  <1>4. Readable(parts, ref.digest)
    BY <1>2, <1>3 DEF Readable
  <1>5. Parse(text) = Read(parts, ref.digest)
    BY <1>4, ParseCuts DEF Text
  <1>6. QED
    BY <1>2, <1>3, <1>5 DEF Read

\* In full, an address is read as what it says.
LEMMA FullIsRead ==
  ASSUME NEW ref \in Readings
  PROVE  /\ <<ref.origin>> \o Full(ref) \in Seq(Parts)
         /\ Parse(Text(<<ref.origin>> \o Full(ref), ref.digest)) = ref
  <1> DEFINE parts == <<ref.origin>> \o Full(ref)
  <1>1. /\ Full(ref) \in Seq(Parts) /\ Len(Full(ref)) >= 1
        /\ ref.origin \in Parts /\ looksLikeRegistry(ref.origin)
    BY FullTyped, ReferenceTyped
  <1>2. /\ parts \in Seq(Parts) /\ Len(parts) >= 2 /\ parts[1] = ref.origin
        /\ Tail(parts) = Full(ref)
    BY <1>1
  <1>3. Origin(parts) = ref.origin /\ Rest(parts) = Full(ref)
    BY <1>1, <1>2 DEF Origin, Rest, Registered
  <1>4. parts # <<>>
    BY <1>2
  <1> HIDE DEF parts
  <1>5. Parse(Text(parts, ref.digest)) = ref
    BY <1>2, <1>3, <1>4, ReadAs
  <1>6. QED
    BY <1>2, <1>5 DEF parts

LastPart(ref) == Part(ref.path[Len(ref.path)], ref.tag)

LEMMA LastPartTyped ==
  ASSUME NEW ref \in Readings
  PROVE  LastPart(ref) \in Parts
  <1>1. ref.path[Len(ref.path)] \in Words /\ ref.tag \in Afters \cup {Absent}
    BY ReferenceTyped, RelayAssumption
  <1>2. QED
    BY <1>1 DEF LastPart, Part, Parts

\* The ways to write a reference, one by one.
LEMMA WaysToWrite ==
  ASSUME NEW ref \in Readings, NEW image
  PROVE  image \in Written(ref) <=>
           \E parts \in Seq(Parts) :
             /\ image = Text(parts, ref.digest)
             /\ \/ parts = <<ref.origin>> \o Full(ref)
                \/ /\ ref.origin = HubPart
                   /\ ~looksLikeRegistry(Full(ref)[1]) /\ parts = Full(ref)
                \/ /\ ref.origin = HubPart
                   /\ Len(ref.path) = 2 /\ ref.path[1] = Library
                   /\ parts = <<LastPart(ref)>> \/ parts = <<HubPart>> \o <<LastPart(ref)>>
  <1> DEFINE last == Part(ref.path[Len(ref.path)], ref.tag)
             path == [k \in DOMAIN ref.path |-> Part(ref.path[k], Absent)]
             full == [path EXCEPT ![Len(path)] = last]
             P == {<<ref.origin>> \o full} \cup
                  (IF ref.origin # Part(Hub, Absent) THEN {}
                   ELSE (IF looksLikeRegistry(full[1]) THEN {} ELSE {full}) \cup
                        (IF Len(path) = 2 /\ path[1].word = Library
                         THEN {<<last>>, <<ref.origin>> \o <<last>>} ELSE {}))
  <1>1. /\ DOMAIN ref.path = 1 .. Len(ref.path) /\ Len(ref.path) \in Nat \ {0}
        /\ \A k \in 1 .. Len(ref.path) : ref.path[k] \in Words
        /\ ref.tag \in Afters \cup {Absent} /\ ref.origin \in Parts
    BY ReferenceTyped, RelayAssumption
  <1>2. \A w \in Words, s \in Afters \cup {Absent} : Part(w, s) \in Parts /\ Part(w, s).word = w
    BY DEF Part, Parts
  <1>3. path \in Seq(Parts) /\ Len(path) = Len(ref.path) /\ path[1].word = ref.path[1]
    <2>1. path \in [1 .. Len(ref.path) -> Parts]
      BY <1>1, <1>2
    <2>2. path[1].word = ref.path[1]
      BY <1>1, <1>2
    <2>3. QED
      BY <1>1, <2>1, <2>2, Sequence
  <1>4. full = Full(ref)
    <2>1. Len(path) = Len(ref.path)
      BY <1>3
    <2>2. \A k \in DOMAIN ref.path :
            full[k] = Part(ref.path[k], IF k = Len(ref.path) THEN ref.tag ELSE Absent)
      BY <1>1, <2>1
    <2>3. QED
      BY <2>2 DEF Full
  <1>5. Written(ref) = {Text(parts, ref.digest) : parts \in P}
    BY Zenon DEF Written, Last
  <1>6. last = LastPart(ref) /\ last \in Parts
    BY <1>1, <1>2 DEF LastPart
  <1>7. /\ <<ref.origin>> \o Full(ref) \in Seq(Parts) /\ Full(ref) \in Seq(Parts)
        /\ <<LastPart(ref)>> \in Seq(Parts) /\ <<HubPart>> \o <<LastPart(ref)>> \in Seq(Parts)
    <2>1. Full(ref) \in Seq(Parts) /\ LastPart(ref) \in Parts /\ HubPart \in Parts
      BY <1>6, FullTyped, HubIsRegistry
    <2>2. QED
      BY <1>1, <2>1
  <1> HIDE DEF last, path, full
  <1>8. \A parts : parts \in P <=>
          \/ parts = <<ref.origin>> \o Full(ref)
          \/ /\ ref.origin = HubPart
             /\ ~looksLikeRegistry(Full(ref)[1]) /\ parts = Full(ref)
          \/ /\ ref.origin = HubPart
             /\ Len(ref.path) = 2 /\ ref.path[1] = Library
             /\ parts = <<LastPart(ref)>> \/ parts = <<HubPart>> \o <<LastPart(ref)>>
    BY <1>3, <1>4, <1>6, Zenon DEF HubPart
  <1> HIDE DEF P
  <1>9. image \in Written(ref) <=> \E parts \in P : image = Text(parts, ref.digest)
    BY <1>5
  <1>10. QED
    BY <1>7, <1>8, <1>9

\* Whichever way a reference is written, it is read.
LEMMA SpellingIsRead ==
  ASSUME NEW ref \in Readings, NEW image \in Written(ref)
  PROVE  Parse(image) = ref
  <1>1. PICK parts \in Seq(Parts) :
             /\ image = Text(parts, ref.digest)
             /\ \/ parts = <<ref.origin>> \o Full(ref)
                \/ /\ ref.origin = HubPart
                   /\ ~looksLikeRegistry(Full(ref)[1]) /\ parts = Full(ref)
                \/ /\ ref.origin = HubPart
                   /\ Len(ref.path) = 2 /\ ref.path[1] = Library
                   /\ parts = <<LastPart(ref)>> \/ parts = <<HubPart>> \o <<LastPart(ref)>>
    BY WaysToWrite
  <1>2. CASE parts = <<ref.origin>> \o Full(ref)
    BY <1>1, <1>2, FullIsRead
  <1>3. CASE /\ ref.origin = HubPart
             /\ ~looksLikeRegistry(Full(ref)[1]) /\ parts = Full(ref)
    <2>1. /\ Origin(parts) = ref.origin /\ Rest(parts) = Full(ref)
      BY <1>3 DEF Origin, Rest, Registered
    <2>2. parts # <<>>
      BY <1>3, FullTyped, ReferenceTyped
    <2>3. QED
      BY <1>1, <2>1, <2>2, ReadAs
  <1>4. CASE /\ ref.origin = HubPart /\ Len(ref.path) = 2 /\ ref.path[1] = Library
             /\ parts = <<LastPart(ref)>>
    <2>1. /\ Origin(parts) = ref.origin /\ Rest(parts) = <<LastPart(ref)>> /\ parts # <<>>
      BY <1>4 DEF Origin, Rest, Registered
    <2>2. QED
      BY <1>1, <1>4, <2>1, ReadAs DEF LastPart
  <1>5. CASE /\ ref.origin = HubPart /\ Len(ref.path) = 2 /\ ref.path[1] = Library
             /\ parts = <<HubPart>> \o <<LastPart(ref)>>
    <2>1. Len(parts) = 2 /\ parts[1] = HubPart /\ Tail(parts) = <<LastPart(ref)>>
      <3> DEFINE last == <<LastPart(ref)>>
      <3>1. last \in Seq(Parts) /\ Len(last) = 1
        BY LastPartTyped
      <3>2. HubPart \in Parts /\ parts = <<HubPart>> \o last
        BY <1>5, HubIsRegistry
      <3> HIDE DEF last
      <3>3. Len(parts) = 2 /\ parts[1] = HubPart /\ Tail(parts) = last
        BY <3>1, <3>2, OneMore
      <3>4. QED
        BY <3>3 DEF last
    <2>2. /\ Origin(parts) = ref.origin /\ Rest(parts) = <<LastPart(ref)>> /\ parts # <<>>
      BY <1>5, <2>1, HubIsRegistry DEF Origin, Rest, Registered
    <2>3. QED
      BY <1>1, <1>5, <2>2, ReadAs DEF LastPart
  <1>6. QED
    BY <1>1, <1>2, <1>3, <1>4, <1>5

LEMMA ImageTyped ==
  ASSUME NEW image \in Images
  PROVE  image \in [scheme : BOOLEAN, parts : UpTo(Parts, MaxParts),
                   digest : Digests \cup {BadDigest, Absent}]
  BY RelayAssumption

\* Whatever is read is a reference.
LEMMA ReadIsReference ==
  ASSUME NEW image \in Images, Parse(image) # Absent
  PROVE  /\ image = Text(image.parts, image.digest)
         /\ image.parts \in Seq(Parts) /\ image.parts # <<>>
         /\ Readable(image.parts, image.digest)
         /\ Parse(image) = Read(image.parts, image.digest)
         /\ Parse(image) \in Readings
  <1> DEFINE parts == image.parts
             path  == Path(parts)
             rest  == Rest(parts)
  <1>1. /\ parts \in UpTo(Parts, MaxParts)
        /\ image = [scheme |-> image.scheme, parts |-> parts, digest |-> image.digest]
    BY ImageTyped
  <1>2. parts \in Seq(Parts) /\ Len(parts) \in 1 .. MaxParts /\ MaxParts \in Nat \ {0, 1}
    BY <1>1, UpToIs, RelayAssumption
  <1>3. ~image.scheme /\ Readable(parts, image.digest) /\ Parse(image) = Read(parts, image.digest)
    BY ParseCuts
  <1>4. image = Text(parts, image.digest)
    BY <1>1, <1>3, ImageTyped DEF Text
  <1>5. /\ rest \in Seq(Parts) /\ Len(rest) >= 1 /\ Origin(parts) \in Parts
        /\ Registered(parts) => Len(rest) = Len(parts) - 1
        /\ ~Registered(parts) => rest = parts /\ Origin(parts) = HubPart
    BY <1>2, RestTyped DEF Origin
  <1>6. looksLikeRegistry(Origin(parts))
    BY HubIsRegistry DEF Origin, Registered
  <1>7. /\ path \in Seq(Words)
        /\ Origin(parts) = HubPart /\ Len(rest) = 1 => Len(path) = 2
        /\ ~(Origin(parts) = HubPart /\ Len(rest) = 1) => Len(path) = Len(rest)
    BY <1>2, <1>5, PathTyped, NamedTyped
  <1> HIDE DEF path, rest, parts
  <1>8. Len(parts) \in Nat /\ Len(rest) \in Nat /\ Len(path) \in Nat
    BY <1>2, <1>5, <1>7
  <1>9. /\ 1 <= Len(rest) /\ Len(rest) <= Len(parts)
        /\ Origin(parts) # HubPart => Len(rest) = Len(parts) - 1
    BY <1>2, <1>5, <1>8
  <1>10. /\ 1 <= Len(path) /\ (Len(path) <= Len(parts) \/ Len(path) = 2)
         /\ Origin(parts) # HubPart => Len(path) = Len(parts) - 1
         /\ Origin(parts) = HubPart => Len(path) >= 2
    <2>1. CASE Origin(parts) = HubPart /\ Len(rest) = 1
      <3>1. Len(path) = 2
        BY <1>7, <2>1
      <3>2. QED
        BY <2>1, <3>1
    <2>2. CASE ~(Origin(parts) = HubPart /\ Len(rest) = 1)
      <3>1. Len(path) = Len(rest)
        BY <1>7, <2>2
      <3>2. QED
        BY <1>8, <1>9, <2>2, <3>1
    <2>3. QED
      BY <2>1, <2>2
  <1>11. path \in UpTo(Segments, MaxParts)
    <2>1. \A k \in DOMAIN path : path[k] \in Segments
      BY <1>3 DEF Readable, path
    <2>2. path \in Seq(Segments)
      BY <1>7, <2>1
    <2>3. Len(path) \in 1 .. MaxParts
      <3>1. MaxParts \in Nat /\ 2 <= MaxParts /\ Len(parts) <= MaxParts
        BY <1>2
      <3>2. QED
        BY <3>1, <1>8, <1>10
    <2>4. QED
      BY <1>2, <2>2, <2>3, UpToIs
  <1>12. IF Origin(parts) = HubPart THEN Len(path) >= 2 ELSE Len(path) < MaxParts
    BY <1>2, <1>8, <1>10
  <1>13. Tag(parts) \in Tags \cup {Absent} /\ image.digest \in Digests \cup {Absent}
    BY <1>3 DEF Readable
  <1>14. Read(parts, image.digest) \in Readings
    BY <1>5, <1>6, <1>11, <1>12, <1>13 DEF Read, Readings, HubPart, path
  <1>15. QED
    BY <1>2, <1>3, <1>4, <1>14 DEF parts

\* It is one of the spellings of what it is read as.
LEMMA ReadIsSpelling ==
  ASSUME NEW image \in Images, Parse(image) # Absent
  PROVE  image \in Written(Parse(image))
  <1> DEFINE parts == image.parts
             ref  == Parse(image)
             rest == Rest(parts)
  <1>1. /\ image = Text(parts, image.digest) /\ parts \in Seq(Parts) /\ parts # <<>>
        /\ Readable(parts, image.digest) /\ ref = Read(parts, image.digest)
        /\ ref \in Readings
    BY ReadIsReference
  <1>2. /\ ref.origin = Origin(parts) /\ ref.path = Path(parts) /\ ref.tag = Tag(parts)
        /\ ref.digest = image.digest
    BY <1>1 DEF Read
  <1>3. /\ rest \in Seq(Parts) /\ Len(rest) >= 1
        /\ Len(rest) = 1 \/ Len(rest) >= 2
        /\ \A k \in 1 .. Len(rest) - 1 : rest[k].suffix = Absent
        /\ rest[Len(rest)].suffix = ref.tag
    BY <1>1, <1>2, RestTyped DEF Readable, Tag
  <1>4. /\ Registered(parts) => /\ Len(parts) >= 2 /\ Tail(parts) = rest
                                /\ parts[1] = ref.origin
        /\ ~Registered(parts) => rest = parts /\ ref.origin = HubPart
    BY <1>2 DEF Rest, Origin, Registered
  <1>5. Registered(parts) => parts = <<ref.origin>> \o rest
    BY <1>1, <1>4, FirstAndRest
  <1>6. \A part \in Parts : part = Part(part.word, part.suffix)
    BY DEF Part, Parts
  <1>7. CASE ref.origin = HubPart /\ Len(rest) = 1
    <2>1. /\ Len(ref.path) = 2 /\ ref.path[1] = Library /\ ref.path[2] = rest[1].word
      BY <1>1, <1>2, <1>7, PathTyped
    <2>2. rest[1] = LastPart(ref)
      BY <1>3, <1>6, <1>7, <2>1 DEF LastPart
    <2>3. rest = <<LastPart(ref)>>
      BY <1>3, <1>7, <2>2
    <2>4. parts = <<LastPart(ref)>> \/ parts = <<HubPart>> \o <<LastPart(ref)>>
      BY <1>4, <1>5, <1>7, <2>3
    <2>5. QED
      BY <1>1, <1>2, <1>7, <2>1, <2>4, WaysToWrite
  <1>8. CASE ~(ref.origin = HubPart /\ Len(rest) = 1)
    <2>1. ref.path = Named(rest)
      BY <1>1, <1>2, <1>8, PathTyped
    <2>2. /\ Len(ref.path) = Len(rest)
          /\ \A k \in 1 .. Len(rest) : ref.path[k] = rest[k].word
      BY <1>3, <2>1, NamedTyped
    <2>3. rest = Full(ref)
      <3>1. Full(ref) \in Seq(Parts) /\ Len(Full(ref)) = Len(rest)
        BY <1>1, <2>2, FullTyped
      <3>2. ASSUME NEW k \in 1 .. Len(rest)
            PROVE  Full(ref)[k] = rest[k]
        <4>1. Full(ref)[k].word = rest[k].word /\ Full(ref)[k].suffix = rest[k].suffix
          BY <1>1, <1>3, <2>2, FullTyped
        <4>2. Full(ref)[k] \in Parts /\ rest[k] \in Parts
          BY <1>3, <3>1
        <4>3. QED
          BY <1>6, <4>1, <4>2
      <3>3. QED
        BY <1>3, <3>1, <3>2
    <2>4. CASE Registered(parts)
      BY <1>1, <1>2, <1>5, <2>3, <2>4, WaysToWrite
    <2>5. CASE ~Registered(parts)
      <3>1. ~looksLikeRegistry(parts[1])
        <4>1. rest = parts /\ Len(rest) # 1
          BY <1>4, <1>8, <2>5
        <4>2. Len(parts) >= 2
          BY <1>3, <4>1
        <4>3. QED
          BY <2>5, <4>2 DEF Registered
      <3>2. QED
        BY <1>1, <1>2, <1>4, <2>3, <2>5, <3>1, WaysToWrite
    <2>6. QED
      BY <2>4, <2>5
  <1>9. QED
    BY <1>7, <1>8

-----------------------------------------------------------------------------
(* What a reference looks like when it is written out again.               *)

LEMMA VersionedTyped ==
  ASSUME NEW ref \in Readings
  PROVE  /\ Versioned(ref) \in Readings
         /\ Versioned(ref).origin = ref.origin /\ Versioned(ref).path = ref.path
         /\ Versioned(ref).digest = ref.digest
         /\ Versioned(ref).tag = IF ref.digest = Absent THEN ref.tag ELSE Absent
         /\ Versioned(Versioned(ref)) = Versioned(ref)
  BY DEF Versioned, Readings

LEMMA SpelledInFull ==
  ASSUME NEW ref \in Readings
  PROVE  Spelled(ref) = Text(<<ref.origin>> \o Full(Versioned(ref)), ref.digest)
  <1>1. Full(Versioned(ref)) =
          [k \in DOMAIN ref.path |->
             Part(ref.path[k], IF k = Len(ref.path)
                               THEN IF ref.digest = Absent THEN ref.tag ELSE Absent
                               ELSE Absent)]
    BY VersionedTyped DEF Full
  <1>2. QED
    BY <1>1 DEF Spelled

LEMMA SpelledIsRead ==
  ASSUME NEW ref \in Readings
  PROVE  Parse(Spelled(ref)) = Versioned(ref)
  BY VersionedTyped, SpelledInFull, FullIsRead

\* A spelling of an image is a way to write it with any tag that its digest beats.
LEMMA SpellingsAre ==
  ASSUME NEW ref \in References, NEW image
  PROVE  image \in Spellings(ref)
           <=> \E r \in Readings : Versioned(r) = ref /\ image \in Written(r)
  <1> DEFINE tags == IF ref.digest = Absent THEN {ref.tag} ELSE Tags \cup {Absent}
             With(t) == [ref EXCEPT !.tag = t]
  <1>1. ref \in Readings /\ (ref.digest = Absent \/ ref.tag = Absent)
    BY DEF References
  <1>2. Spellings(ref) = UNION {Written(With(t)) : t \in tags}
    BY Zenon DEF Spellings
  <1>3. ASSUME NEW t \in tags
        PROVE  With(t) \in Readings /\ Versioned(With(t)) = ref
    <2>1. t \in Tags \cup {Absent}
      BY <1>1 DEF Readings
    <2>2. With(t) \in Readings
      BY <1>1, <2>1 DEF Readings
    <2>3. Versioned(With(t)) = ref
      <3>1. CASE ref.digest = Absent
        BY <1>1, <1>3, <3>1 DEF Versioned, Readings
      <3>2. CASE ref.digest # Absent
        <4>1. /\ ref = [origin |-> ref.origin, path |-> ref.path, tag |-> ref.tag,
                        digest |-> ref.digest]
              /\ ref.tag = Absent
          BY <1>1, <3>2 DEF Readings
        <4>2. With(t) = [origin |-> ref.origin, path |-> ref.path, tag |-> t,
                         digest |-> ref.digest]
          BY <4>1
        <4>3. Versioned(With(t)) = [origin |-> ref.origin, path |-> ref.path,
                                    tag |-> Absent, digest |-> ref.digest]
          <5> HIDE DEF With
          <5> QED
            BY <4>2, <3>2 DEF Versioned
        <4>4. QED
          BY <4>1, <4>3
      <3>3. QED
        BY <3>1, <3>2
    <2>4. QED
      BY <2>2, <2>3
  <1>4. ASSUME NEW r \in Readings, Versioned(r) = ref
        PROVE  r.tag \in tags /\ r = With(r.tag)
    <2>1. /\ r.origin = ref.origin /\ r.path = ref.path /\ r.digest = ref.digest
          /\ ref.tag = IF r.digest = Absent THEN r.tag ELSE Absent
      BY <1>4, VersionedTyped
    <2>2. r.tag \in tags
      BY <2>1 DEF Readings
    <2>3. /\ r = [origin |-> r.origin, path |-> r.path, tag |-> r.tag, digest |-> r.digest]
          /\ With(r.tag) = [origin |-> ref.origin, path |-> ref.path, tag |-> r.tag,
                            digest |-> ref.digest]
      BY <1>1 DEF Readings
    <2>4. QED
      BY <2>1, <2>2, <2>3
  <1> HIDE DEF tags, With
  <1>5. QED
    BY <1>2, <1>3, <1>4

\* What is read, is read as the image it is a spelling of.
LEMMA ReadIsMeant ==
  ASSUME NEW image \in Images, Parse(image) # Absent
  PROVE  /\ Parse(image) \in Readings
         /\ Versioned(Parse(image)) \in References
         /\ image \in Spellings(Versioned(Parse(image)))
  <1>1. Parse(image) \in Readings /\ image \in Written(Parse(image))
    BY ReadIsReference, ReadIsSpelling
  <1>2. Versioned(Parse(image)) \in References
    BY <1>1, VersionedTyped DEF References
  <1>3. QED
    BY <1>1, <1>2, SpellingsAre

LEMMA MeantIsRead ==
  ASSUME NEW ref \in References, NEW image \in Spellings(ref)
  PROVE  /\ Parse(image) \in Readings /\ Parse(image) # Absent
         /\ Versioned(Parse(image)) = ref
  <1>1. PICK r \in Readings : Versioned(r) = ref /\ image \in Written(r)
    BY SpellingsAre
  <1>2. Parse(image) = r
    BY <1>1, SpellingIsRead
  <1>3. r # Absent
    <2>1. r \in Reference
      BY ReferenceTyped, RelayAssumption DEF Reference
    <2>2. QED
      BY <2>1, RelayAssumption
  <1>4. QED
    BY <1>1, <1>2, <1>3

\* Parse takes every spelling of an image for that image and nothing else, and
\* what Reference.String writes is read as the image again.
THEOREM EveryImageIsRead == ImagesRead
  <1>1. ASSUME NEW ref \in References
        PROVE  Parse(Spelled(ref)) = ref
    <2>1. ref \in Readings /\ Versioned(ref) = ref
      BY DEF References, Readings, Versioned
    <2>2. QED
      BY <2>1, SpelledIsRead
  <1>2. QED
    BY <1>1, ReadIsMeant, MeantIsRead DEF ImagesRead

-----------------------------------------------------------------------------
(* What a relay's address may be, and an image behind it.                  *)

Solid(parts) == {k \in DOMAIN parts : parts[k] # Part(Gap, Absent)}

\* An address that Endpoint gives.
Base(base) ==
  /\ base \in Seq(Parts) /\ Len(base) >= 1
  /\ base[1].word \in HostWords /\ base[1].suffix \in Ports \cup {Absent}
  /\ \A k \in 2 .. Len(base) : base[k].word \in Segments /\ base[k].suffix = Absent

LEMMA TrimmedTyped ==
  ASSUME NEW parts \in Seq(Parts)
  PROVE  Trimmed(parts) \in Seq(Parts)
  <1> DEFINE solid == Solid(parts)
             first == CHOOSE k \in solid : \A l \in solid : k <= l
             last  == CHOOSE k \in solid : \A l \in solid : k >= l
  <1>1. Trimmed(parts) = IF solid = {} THEN <<>> ELSE SubSeq(parts, first, last)
    BY DEF Trimmed, Solid
  <1>2. ASSUME solid # {}
        PROVE  first \in 1 .. Len(parts) /\ last \in 1 .. Len(parts)
    <2>1. solid \in SUBSET (1 .. Len(parts)) /\ Len(parts) \in Nat
      BY DEF Solid
    <2>2. solid \in SUBSET Int /\ IsFiniteSet(solid)
      <3> HIDE DEF solid
      <3>1. IsFiniteSet(1 .. Len(parts))
        BY FS_Interval, <2>1, 1 \in Int
      <3>2. IsFiniteSet(solid)
        BY <2>1, <3>1, FS_Subset
      <3>3. QED
        BY <2>1, <3>2
    <2>3. /\ \E k \in solid : \A l \in solid : k <= l
          /\ \E k \in solid : \A l \in solid : k >= l
      BY <1>2, <2>2, LeastAndGreatest
    <2>4. first \in solid /\ last \in solid
      BY <2>3
    <2>5. QED
      BY <2>1, <2>4
  <1> HIDE DEF first, last, solid
  <1>3. QED
    BY <1>1, <1>2

\* A trimmed text is not trimmed any further.
LEMMA TrimmedStays ==
  ASSUME NEW base, Base(base)
  PROVE  Trimmed(base) = base
  <1> DEFINE solid == Solid(base)
             first == CHOOSE k \in solid : \A l \in solid : k <= l
             last  == CHOOSE k \in solid : \A l \in solid : k >= l
  <1>1. Trimmed(base) = IF solid = {} THEN <<>> ELSE SubSeq(base, first, last)
    BY DEF Trimmed, Solid
  <1>2. \A k \in 1 .. Len(base) : base[k].word \in Segments
    BY RelayAssumption DEF Base
  <1>3. Part(Gap, Absent).word \notin Segments
    BY RelayAssumption DEF Part
  <1>4. solid = 1 .. Len(base) /\ Len(base) \in Nat /\ Len(base) >= 1
    BY <1>2, <1>3 DEF Solid, Base
  <1>5. first = 1 /\ last = Len(base)
    <2>1. 1 \in solid /\ Len(base) \in solid
      BY <1>4
    <2>2. /\ \A k \in solid : (\A l \in solid : k <= l) <=> k = 1
          /\ \A k \in solid : (\A l \in solid : k >= l) <=> k = Len(base)
      BY <1>4, <2>1
    <2>3. QED
      BY <2>1, <2>2
  <1> HIDE DEF first, last, solid
  <1>6. SubSeq(base, 1, Len(base)) = base
    BY DEF Base
  <1>7. QED
    BY <1>1, <1>4, <1>5, <1>6

LEMMA EndpointGives ==
  ASSUME NEW text \in Typings, Endpoint(text) # Absent
  PROVE  Base(Endpoint(text))
  <1> DEFINE body == IF text.scheme THEN <<Head(text.parts)>> \o Trimmed(Tail(text.parts))
                     ELSE Trimmed(text.parts)
             base == [k \in DOMAIN body |-> Part(Small[body[k].word], body[k].suffix)]
  <1>1. text.parts \in Seq(Parts) /\ Len(text.parts) >= 1
    <2>1. text.parts \in Seq(Parts) /\ text.parts # <<>>
      BY RelayAssumption DEF AddressTexts
    <2>2. QED
      BY <2>1
  <1>2. body \in Seq(Parts)
    <2>1. Tail(text.parts) \in Seq(Parts) /\ Head(text.parts) \in Parts
      BY <1>1
    <2>2. Trimmed(Tail(text.parts)) \in Seq(Parts) /\ Trimmed(text.parts) \in Seq(Parts)
      BY <1>1, <2>1, TrimmedTyped
    <2>3. <<Head(text.parts)>> \o Trimmed(Tail(text.parts)) \in Seq(Parts)
      BY <2>1, <2>2, OneMore
    <2>4. QED
      BY <2>2, <2>3
  <1>3. /\ Endpoint(text) = base /\ body # <<>>
        /\ base[1].word \in HostWords /\ base[1].suffix \in Ports \cup {Absent}
        /\ \A k \in 2 .. Len(base) : base[k].word \in Segments /\ base[k].suffix = Absent
    BY Zenon DEF Endpoint
  <1> HIDE DEF body
  <1>4. /\ DOMAIN body = 1 .. Len(body) /\ Len(body) \in Nat /\ Len(body) >= 1
        /\ \A k \in 1 .. Len(body) : body[k] \in Parts
    BY <1>2, <1>3
  <1>5. \A part \in Parts : Part(Small[part.word], part.suffix) \in Parts
    BY RelayAssumption DEF Part, Parts
  <1>6. base \in [1 .. Len(body) -> Parts]
    BY <1>4, <1>5
  <1>7. base \in Seq(Parts) /\ Len(base) >= 1
    BY <1>4, <1>6, Sequence
  <1>8. QED
    BY <1>3, <1>7 DEF Base

\* What is stored is stored again as it is.
LEMMA EndpointStays ==
  ASSUME NEW base, Base(base)
  PROVE  /\ Endpoint(Text(base, Absent)) = base /\ base # Absent
         /\ Text(base, Absent) # Absent
  <1> DEFINE text == Text(base, Absent)
             small == [k \in DOMAIN base |-> Part(Small[base[k].word], base[k].suffix)]
  <1>1. /\ base \in Seq(Parts) /\ Len(base) >= 1 /\ base # <<>>
        /\ base[1].word \in HostWords /\ base[1].suffix \in Ports \cup {Absent}
        /\ \A k \in 2 .. Len(base) : base[k].word \in Segments /\ base[k].suffix = Absent
        /\ \A k \in 1 .. Len(base) : base[k].word \in Segments
    BY RelayAssumption DEF Base
  <1>2. text.scheme = FALSE /\ text.parts = base /\ text.digest = Absent
    BY DEF Text
  <1>3. small = base
    <2>1. \A part \in Parts : part = Part(part.word, part.suffix)
      BY DEF Part, Parts
    <2>2. \A k \in 1 .. Len(base) : base[k] \in Parts /\ Small[base[k].word] = base[k].word
      BY <1>1, RelayAssumption
    <2>3. \A k \in 1 .. Len(base) : Part(Small[base[k].word], base[k].suffix) = base[k]
      BY <2>1, <2>2
    <2>4. QED
      BY <1>1, <2>3
  <1>4. Endpoint(text) = IF /\ base # <<>> /\ text.digest = Absent
                            /\ small[1].word \in HostWords
                            /\ small[1].suffix \in Ports \cup {Absent}
                            /\ \A k \in 2 .. Len(small) :
                                 small[k].word \in Segments /\ small[k].suffix = Absent
                         THEN small ELSE Absent
    BY <1>2, TrimmedStays, Zenon DEF Endpoint
  <1> HIDE DEF small, text
  <1>5. Endpoint(text) = base
    BY <1>1, <1>2, <1>3, <1>4
  <1>6. base # Absent
    BY <1>1, RelayAssumption
  <1>7. text # Absent
    <2>1. text \in AddressTexts
      BY <1>1 DEF text, Text, AddressTexts
    <2>2. QED
      BY <2>1, RelayAssumption
  <1>8. QED
    BY <1>5, <1>6, <1>7 DEF text

LEMMA Joined ==
  ASSUME NEW S, NEW s \in Seq(S), NEW t \in Seq(S)
  PROVE  /\ s \o t \in Seq(S) /\ Len(s \o t) = Len(s) + Len(t)
         /\ \A k \in 1 .. Len(s) : (s \o t)[k] = s[k]
         /\ \A k \in 1 .. Len(t) : (s \o t)[Len(s) + k] = t[k]
  OBVIOUS

Behind(base, ref) == base \o (<<ref.origin>> \o Full(Versioned(ref)))

LEMMA RelayedIs ==
  ASSUME NEW base, Base(base), NEW ref \in Readings
  PROVE  Relayed(Text(base, Absent), ref) = Text(Behind(base, ref), ref.digest)
  <1> DEFINE stored == Text(base, Absent)
             v == Versioned(ref)
  <1>1. /\ Endpoint(stored) = base /\ base # Absent
    BY EndpointStays
  <1>2. Spelled(ref).parts = <<ref.origin>> \o Full(v)
    BY SpelledInFull DEF Text
  <1> HIDE DEF stored, v
  <1>3. Relayed(stored, ref) = Text(base \o (<<ref.origin>> \o Full(v)), ref.digest)
    BY <1>1, <1>2 DEF Relayed
  <1>4. QED
    BY <1>3 DEF stored, v, Behind

\* Its parts: those of the relay, the image's registry, the image's path.
LEMMA BehindTyped ==
  ASSUME NEW base, Base(base), NEW ref \in Readings
  PROVE  LET parts == Behind(base, ref)
             n == Len(base)
             m == Len(ref.path)
         IN  /\ parts \in Seq(Parts) /\ Len(parts) = n + 1 + m
             /\ n \in Nat \ {0} /\ m \in Nat \ {0}
             /\ \A k \in 1 .. n : parts[k] = base[k]
             /\ parts[n + 1] = ref.origin
             /\ \A k \in 1 .. m : /\ parts[n + 1 + k].word = ref.path[k]
                                  /\ k < m => parts[n + 1 + k].suffix = Absent
             /\ parts[n + 1 + m].suffix = Versioned(ref).tag
             /\ \A k \in 1 .. n + 1 + m : parts[k].word \in Segments
  <1> DEFINE v == Versioned(ref)
             full == Full(v)
             rest == <<ref.origin>> \o full
             parts == base \o rest
             n == Len(base)
             m == Len(ref.path)
  <1>1. /\ v \in Readings /\ v.path = ref.path
    BY VersionedTyped
  <1>2. /\ full \in Seq(Parts) /\ Len(full) = m
        /\ \A k \in 1 .. m : /\ full[k].word = ref.path[k]
                             /\ full[k].suffix = IF k = m THEN v.tag ELSE Absent
    BY <1>1, FullTyped
  <1>3. /\ ref.origin \in Parts /\ ref.origin.word \in Segments
        /\ ref.path \in Seq(Segments) /\ m \in Nat \ {0}
    BY ReferenceTyped, RegistryTyped
  <1>4. /\ base \in Seq(Parts) /\ n \in Nat \ {0}
        /\ \A k \in 1 .. n : base[k].word \in Segments
    BY RelayAssumption DEF Base
  <1> HIDE DEF full
  <1>5. /\ rest \in Seq(Parts) /\ Len(rest) = m + 1 /\ rest[1] = ref.origin
        /\ \A k \in 1 .. m : rest[k + 1] = full[k]
    BY <1>2, <1>3, OneMore
  <1> HIDE DEF rest
  <1>6. /\ parts \in Seq(Parts) /\ Len(parts) = n + 1 + m
        /\ \A k \in 1 .. n : parts[k] = base[k]
        /\ \A k \in 1 .. m + 1 : parts[n + k] = rest[k]
    <2>1. /\ parts \in Seq(Parts) /\ Len(parts) = n + Len(rest)
          /\ \A k \in 1 .. n : parts[k] = base[k]
          /\ \A k \in 1 .. Len(rest) : parts[n + k] = rest[k]
      <3>1. base \in Seq(Parts) /\ rest \in Seq(Parts)
        BY <1>4, <1>5
      <3>2. QED
        BY <3>1, Joined
    <2>2. Len(rest) = m + 1
      BY <1>5
    <2> HIDE DEF parts, n, m
    <2>3. n + (m + 1) = n + 1 + m
      BY <1>3, <1>4
    <2>4. QED
      BY <2>1, <2>2, <2>3
  <1>7. \A k \in 1 .. m : parts[n + 1 + k] = full[k]
    <2>1. ASSUME NEW k \in 1 .. m
          PROVE  parts[n + 1 + k] = full[k]
      <3>1. k + 1 \in 1 .. m + 1 /\ n + 1 + k = n + (k + 1)
        BY <1>3, <1>4
      <3>2. QED
        BY <1>5, <1>6, <3>1
    <2>2. QED
      BY <2>1
  <1>8. parts[n + 1] = ref.origin
    BY <1>3, <1>5, <1>6
  <1> HIDE DEF parts, n, m
  <1>9. /\ \A k \in 1 .. m : /\ parts[n + 1 + k].word = ref.path[k]
                             /\ k < m => parts[n + 1 + k].suffix = Absent
        /\ parts[n + 1 + m].suffix = v.tag
    BY <1>2, <1>3, <1>7
  <1>10. \A k \in 1 .. n + 1 + m : parts[k].word \in Segments
    <2>1. ASSUME NEW k \in 1 .. n + 1 + m
          PROVE  parts[k].word \in Segments
      <3>1. CASE k \in 1 .. n
        BY <1>4, <1>6, <3>1
      <3>2. CASE k = n + 1
        BY <1>3, <1>8, <3>2
      <3>3. CASE k > n + 1
        <4>1. k - (n + 1) \in 1 .. m /\ k = n + 1 + (k - (n + 1))
          BY <1>3, <1>4, <3>3
        <4>2. parts[k].word = ref.path[k - (n + 1)]
          BY <1>9, <4>1
        <4>3. QED
          BY <1>3, <4>1, <4>2 DEF m
      <3>4. QED
        BY <1>3, <1>4, <3>1, <3>2, <3>3
    <2>2. QED
      BY <2>1
  <1>11. Behind(base, ref) = parts
    BY DEF Behind, parts, rest, full
  <1>12. QED
    BY <1>3, <1>4, <1>6, <1>8, <1>9, <1>10, <1>11 DEF n, m

\* Behind any relay that can be stored, an image keeps its registry, its path and
\* its version, unless its registry has a port.
LEMMA RelayedNames ==
  ASSUME NEW base, Base(base), NEW ref \in Readings
  PROVE  LET pulled == Parse(Text(Behind(base, ref), ref.digest))
             below  == [k \in 1 .. Len(base) - 1 |-> base[k + 1].word]
         IN  /\ pulled = Absent <=> ref.origin.suffix # Absent
             /\ pulled # Absent /\ looksLikeRegistry(base[1]) =>
                  pulled = [origin |-> base[1],
                            path |-> below \o <<ref.origin.word>> \o ref.path,
                            tag |-> Versioned(ref).tag, digest |-> ref.digest]
  <1> DEFINE v == Versioned(ref)
             parts == Behind(base, ref)
             rest == Rest(parts)
             pulled == Parse(Text(parts, ref.digest))
             below  == [k \in 1 .. Len(base) - 1 |-> base[k + 1].word]
             n == Len(base)
             m == Len(ref.path)
  <1>4. pulled = IF Readable(parts, ref.digest) THEN Read(parts, ref.digest) ELSE Absent
    BY ParseCuts DEF Text
  <1>5. /\ parts \in Seq(Parts) /\ Len(parts) = n + 1 + m
        /\ n \in Nat \ {0} /\ m \in Nat \ {0}
        /\ \A k \in 1 .. n : parts[k] = base[k]
        /\ parts[n + 1] = ref.origin
        /\ \A k \in 1 .. m : /\ parts[n + 1 + k].word = ref.path[k]
                             /\ k < m => parts[n + 1 + k].suffix = Absent
        /\ parts[n + 1 + m].suffix = v.tag
        /\ \A k \in 1 .. n + 1 + m : parts[k].word \in Segments
    BY BehindTyped
  <1>6. /\ v \in Readings /\ v.origin = ref.origin /\ v.path = ref.path
        /\ v.digest = ref.digest /\ v.tag \in Tags \cup {Absent}
        /\ ref.digest \in Digests \cup {Absent} /\ ref.path \in Seq(Segments)
        /\ ref.origin.word \in Segments
    BY VersionedTyped, ReferenceTyped, RegistryTyped
  <1>7. /\ base \in Seq(Parts) /\ base[1].word \in HostWords
        /\ base[1].suffix \in Ports \cup {Absent}
        /\ \A k \in 2 .. n : base[k].suffix = Absent
    BY DEF Base
  <1> HIDE DEF parts, pulled, v, n, m
  <1>8. parts # <<>> /\ parts[1] = base[1] /\ Len(parts) >= 3
    BY <1>5
  <1>9. /\ rest \in Seq(Parts) /\ Origin(parts) \in Parts
        /\ Registered(parts) <=> looksLikeRegistry(base[1])
        /\ Registered(parts) => /\ Len(rest) = n + m
                                /\ \A k \in 1 .. n + m : rest[k] = parts[k + 1]
        /\ ~Registered(parts) => rest = parts
    <2>1. Registered(parts) <=> looksLikeRegistry(base[1])
      BY <1>8 DEF Registered
    <2>2. Len(parts) - 1 = n + m
      BY <1>5
    <2>3. QED
      BY <1>5, <1>8, <2>1, <2>2, RestTyped
  <1> HIDE DEF rest
  <1>10. Len(rest) \in Nat /\ Len(rest) >= 2
    BY <1>5, <1>8, <1>9
  <1>11. Path(parts) = Named(rest) /\ Named(rest) \in Seq(Words) /\ Len(Named(rest)) = Len(rest)
         /\ \A k \in 1 .. Len(rest) : Named(rest)[k] = rest[k].word
    <2>1. Path(parts) = Named(rest)
      <3>1. parts \in Seq(Parts) /\ parts # <<>> /\ Len(Rest(parts)) # 1
        <4>1. Len(rest) # 1
          <5>1. \A k \in Nat : k >= 2 => k # 1
            OBVIOUS
          <5>2. QED
            BY <1>10, <5>1
        <4>2. parts \in Seq(Parts) /\ parts # <<>>
          BY <1>5, <1>8
        <4>3. QED
          BY <4>1, <4>2 DEF rest
      <3>2. QED
        BY <3>1, PathTyped DEF rest
    <2>2. QED
      BY <1>9, <2>1, NamedTyped
  <1>12. \A k \in DOMAIN Path(parts) : Path(parts)[k] \in Segments
    <2>1. ASSUME NEW k \in 1 .. Len(rest)
          PROVE  rest[k].word \in Segments
      <3>1. CASE Registered(parts)
        <4>1. rest[k] = parts[k + 1] /\ k + 1 \in 1 .. n + 1 + m
          BY <1>5, <1>9, <3>1
        <4>2. QED
          BY <1>5, <4>1
      <3>2. CASE ~Registered(parts)
        BY <1>5, <1>9, <3>2
      <3>3. QED
        BY <3>1, <3>2
    <2>2. DOMAIN Path(parts) = 1 .. Len(rest)
      BY <1>11
    <2>3. QED
      BY <1>11, <2>1, <2>2
  <1>13. Tag(parts) = v.tag
    <2>1. CASE Registered(parts)
      <3>1. Len(rest) = n + m /\ n + m \in 1 .. n + m /\ n + m + 1 = n + 1 + m
        BY <1>5, <1>9, <2>1
      <3>2. QED
        BY <1>5, <1>9, <2>1, <3>1 DEF Tag, rest
    <2>2. CASE ~Registered(parts)
      BY <1>5, <1>9, <2>2 DEF Tag, rest
    <2>3. QED
      BY <2>1, <2>2
  <1>14. (\A k \in 1 .. Len(rest) - 1 : rest[k].suffix = Absent) <=> ref.origin.suffix = Absent
    <2>1. ~Registered(parts) => parts[1].suffix = Absent
      BY <1>7, <1>8, <1>9 DEF looksLikeRegistry
    <2>2. ASSUME NEW k \in 2 .. n + m, k # n + 1
          PROVE  parts[k].suffix = Absent
      <3>1. CASE k <= n
        BY <1>5, <1>7, <2>2, <3>1
      <3>2. CASE k > n + 1
        <4>1. /\ k - (n + 1) \in 1 .. m /\ k - (n + 1) < m
              /\ k = n + 1 + (k - (n + 1))
          BY <1>5, <3>2
        <4>2. QED
          BY <1>5, <4>1
      <3>3. QED
        BY <1>5, <2>2, <3>1, <3>2
    <2>3. CASE Registered(parts)
      <3>1. Len(rest) - 1 = n + m - 1
        BY <1>5, <1>9, <2>3
      <3>2. n \in 1 .. n + m - 1 /\ rest[n] = ref.origin
        BY <1>5, <1>9, <2>3
      <3>3. ASSUME NEW k \in 1 .. n + m - 1, k # n
            PROVE  rest[k].suffix = Absent
        <4>1. rest[k] = parts[k + 1] /\ k + 1 \in 2 .. n + m /\ k + 1 # n + 1
          BY <1>5, <1>9, <2>3, <3>3
        <4>2. QED
          BY <2>2, <4>1
      <3>4. QED
        BY <3>1, <3>2, <3>3
    <2>4. CASE ~Registered(parts)
      <3>1. Len(rest) - 1 = n + m /\ rest = parts
        BY <1>5, <1>9, <2>4
      <3>2. n + 1 \in 1 .. n + m /\ rest[n + 1] = ref.origin
        BY <1>5, <3>1
      <3>3. ASSUME NEW k \in 1 .. n + m, k # n + 1
            PROVE  rest[k].suffix = Absent
        <4>1. k = 1 \/ k \in 2 .. n + m
          BY <1>5
        <4>2. QED
          BY <2>1, <2>2, <2>4, <3>1, <3>3, <4>1
      <3>4. QED
        BY <3>1, <3>2, <3>3
    <2>5. QED
      BY <2>3, <2>4
  <1>15. Readable(parts, ref.digest) <=> ref.origin.suffix = Absent
    BY <1>6, <1>12, <1>13, <1>14 DEF Readable, rest
  <1>16. Read(parts, ref.digest) # Absent
    <2>1. Read(parts, ref.digest) \in Reference
      BY <1>6, <1>9, <1>11, <1>13, RelayAssumption DEF Read, Reference
    <2>2. QED
      BY <2>1, RelayAssumption
  <1>17. pulled = Absent <=> ref.origin.suffix # Absent
    BY <1>4, <1>15, <1>16
  <1>18. ASSUME pulled # Absent, looksLikeRegistry(base[1])
         PROVE  pulled = [origin |-> base[1],
                          path |-> below \o <<ref.origin.word>> \o ref.path,
                          tag |-> v.tag, digest |-> ref.digest]
    <2>1. n \in Nat \ {0} /\ m \in Nat \ {0}
      BY <1>5
    <2>2. pulled = Read(parts, ref.digest) /\ Origin(parts) = base[1]
      BY <1>4, <1>8, <1>9, <1>18 DEF Origin
    <2>3. below \o <<ref.origin.word>> \o ref.path = Named(rest)
      <3> DEFINE first == below \o <<ref.origin.word>>
                 all == first \o ref.path
      <3>1. /\ below \in Seq(Words) /\ Len(below) = n - 1
            /\ \A k \in 1 .. n - 1 : below[k] = rest[k].word
        <4>1. \A k \in 1 .. n - 1 : /\ rest[k] = parts[k + 1] /\ parts[k + 1] = base[k + 1]
                                    /\ rest[k].word \in Words
          <5>1. ASSUME NEW k \in 1 .. n - 1
                PROVE  /\ rest[k] = parts[k + 1] /\ parts[k + 1] = base[k + 1]
                       /\ rest[k].word \in Words
            <6>1. k \in 1 .. n + m /\ k + 1 \in 1 .. n /\ k + 1 \in 1 .. n + 1 + m
              BY <2>1
            <6>2. rest[k] = parts[k + 1] /\ parts[k + 1] = base[k + 1]
              BY <1>5, <1>9, <1>18, <6>1
            <6>3. parts[k + 1].word \in Words
              BY <1>5, <6>1, RelayAssumption
            <6>4. QED
              BY <6>2, <6>3
          <5>2. QED
            BY <5>1
        <4>2. below \in [1 .. n - 1 -> Words] /\ \A k \in 1 .. n - 1 : below[k] = rest[k].word
          BY <4>1 DEF n
        <4>3. QED
          <5>1. n - 1 \in Nat
            BY <2>1
          <5> HIDE DEF below
          <5>2. QED
            BY <4>2, <5>1, Sequence
      <3> HIDE DEF below
      <3>2. <<ref.origin.word>> \in Seq(Words) /\ Len(<<ref.origin.word>>) = 1
            /\ <<ref.origin.word>>[1] = rest[n].word
        BY <1>5, <1>6, <1>9, <1>18, RelayAssumption
      <3>3. /\ first \in Seq(Words) /\ Len(first) = n
            /\ \A k \in 1 .. n : first[k] = rest[k].word
        <4>1. /\ first \in Seq(Words) /\ Len(first) = n - 1 + 1
              /\ \A k \in 1 .. n - 1 : first[k] = below[k]
              /\ \A k \in 1 .. 1 : first[n - 1 + k] = <<ref.origin.word>>[k]
          BY <3>1, <3>2, Joined
        <4> HIDE DEF first
        <4>2. n - 1 + 1 = n /\ \A k \in 1 .. n : k \in 1 .. n - 1 \/ k = n
          BY <1>5
        <4>3. QED
          BY <3>1, <3>2, <4>1, <4>2
      <3> HIDE DEF first
      <3>4. ref.path \in Seq(Words) /\ \A k \in 1 .. m : ref.path[k] = rest[n + k].word
        <4>1. ref.path \in Seq(Words)
          BY <1>6, RelayAssumption
        <4>2. ASSUME NEW k \in 1 .. m
              PROVE  ref.path[k] = rest[n + k].word
          <5>1. n + k \in 1 .. n + m /\ n + k + 1 = n + 1 + k
            BY <2>1
          <5>2. QED
            BY <1>5, <1>9, <1>18, <5>1
        <4>3. QED
          BY <4>1, <4>2
      <3>5. /\ all \in Seq(Words) /\ Len(all) = n + m
            /\ \A k \in 1 .. n : all[k] = first[k]
            /\ \A k \in 1 .. m : all[n + k] = ref.path[k]
        <4>1. first \in Seq(Words) /\ ref.path \in Seq(Words)
          BY <3>3, <3>4
        <4>2. /\ all \in Seq(Words) /\ Len(all) = Len(first) + m
              /\ \A k \in 1 .. Len(first) : all[k] = first[k]
              /\ \A k \in 1 .. m : all[Len(first) + k] = ref.path[k]
          BY <4>1, Joined DEF m
        <4>3. Len(first) = n
          BY <3>3
        <4>4. QED
          BY <4>2, <4>3
      <3> HIDE DEF all
      <3>6. ASSUME NEW k \in 1 .. n + m
            PROVE  all[k] = rest[k].word
        <4>1. k \in 1 .. n \/ (k - n \in 1 .. m /\ k = n + (k - n))
          BY <1>5
        <4>2. QED
          BY <3>3, <3>4, <3>5, <4>1
      <3>7. Len(rest) = n + m
        BY <1>9, <1>18
      <3>8. all = Named(rest)
        BY <1>5, <1>11, <3>5, <3>6, <3>7
      <3>9. QED
        BY <3>8 DEF all, first
    <2>4. Read(parts, ref.digest) = [origin |-> base[1], path |-> Named(rest), tag |-> v.tag,
                                     digest |-> ref.digest]
      BY <1>6, <1>11, <1>13, <2>2 DEF Read
    <2>5. QED
      BY <2>2, <2>3, <2>4
  <1>19. QED
    BY <1>17, <1>18 DEF v, pulled, parts

LEMMA NothingIsUnread == Parse(Empty) = Absent
  <1> DEFINE parts == Empty.parts
             gap == Part(Gap, Absent)
  <1>1. parts = <<gap>> /\ gap.word = Gap
    BY DEF Empty, Text, Part
  <1>2. ~Registered(parts)
    BY <1>1 DEF Registered
  <1>3. Path(parts) = <<Library>> \o Named(parts) /\ Named(parts) = <<Gap>>
    BY <1>1, <1>2 DEF Path, Origin, Rest, Named
  <1>4. 2 \in DOMAIN Path(parts) /\ Path(parts)[2] = Gap
    BY <1>3
  <1>5. Gap \notin Segments
    BY RelayAssumption
  <1>6. ~Readable(parts, Empty.digest)
    BY <1>4, <1>5 DEF Readable
  <1>7. QED
    BY <1>6, ParseCuts

-----------------------------------------------------------------------------
(* The page of the builder.                                                *)

Stored(text) == text # Absent => \E base : Base(base) /\ text = Text(base, Absent)

\* The setting holds what Endpoint gives, and so did the page when it was built.
RelayInv ==
  /\ Stored(relay)
  /\ built # Absent => /\ Stored(built.relay) /\ built.image \in Images
                       /\ built.address = buildRelayAddress(built.relay, built.image)

LEMMA RelayInitInv == RelayInit => RelayInv
  BY DEF RelayInit, RelayInv, Stored

LEMMA RelayStepInv == ASSUME RelayInv, [RelayNext]_relayVars PROVE RelayInv'
  <1>1. ASSUME NEW text \in Typings, handleRelaySave(text)
        PROVE  RelayInv'
    <2>1. Stored(relay')
      <3>1. CASE relay' = Absent
        BY <3>1 DEF Stored
      <3>2. CASE Endpoint(text) # Absent /\ relay' = Text(Endpoint(text), Absent)
        BY <3>2, EndpointGives DEF Stored
      <3>3. CASE UNCHANGED relay
        BY <3>3 DEF RelayInv
      <3>4. QED
        BY <1>1, <3>1, <3>2, <3>3 DEF handleRelaySave
    <2>2. built' = Absent
      BY <1>1 DEF handleRelaySave
    <2>3. QED
      BY <2>1, <2>2 DEF RelayInv, Stored
  <1>2. ASSUME NEW image \in Images, BuildAddress(image)
        PROVE  RelayInv'
    <2>1. PICK read \in {relay, Absent} :
            built' = [relay |-> read, image |-> image,
                      address |-> buildRelayAddress(read, image)]
      BY <1>2 DEF BuildAddress
    <2>2. Stored(read) /\ relay' = relay
      BY <1>2, <2>1 DEF RelayInv, Stored, BuildAddress
    <2>3. /\ built'.relay = read /\ built'.image = image
          /\ built'.address = buildRelayAddress(read, image)
      BY <2>1
    <2>4. QED
      BY <2>2, <2>3 DEF RelayInv, Stored
  <1>3. CASE UNCHANGED relayVars
    BY <1>3 DEF RelayInv, relayVars, Stored
  <1>4. QED
    BY <1>1, <1>2, <1>3 DEF RelayNext

LEMMA AddressNamesImageHolds == ASSUME RelayInv PROVE AddressNamesImage
  <1> SUFFICES ASSUME built # Absent PROVE AddressNamesImage
    BY DEF AddressNamesImage
  <1> DEFINE stored == built.relay
             image == built.image
             base == stored.parts
             read == Parse(image)
             address == built.address
             pulled == Parse(address)
             below == [k \in 1 .. Len(base) - 1 |-> base[k + 1].word]
  <1>1. Stored(stored) /\ image \in Images /\ address = buildRelayAddress(stored, image)
    BY DEF RelayInv
  <1>2. stored # Absent => Base(base) /\ stored = Text(base, Absent) /\ Endpoint(stored) = base
    <2>1. ASSUME NEW b, Base(b), stored = Text(b, Absent)
          PROVE  base = b /\ Endpoint(stored) = base
      BY <2>1, EndpointStays DEF Text
    <2>2. QED
      BY <1>1, <2>1 DEF Stored
  <1>3. image \in Meaningful <=> read # Absent
    BY <1>1, ReadIsMeant, MeantIsRead DEF Meaningful
  <1>4. read # Absent => image # Empty
    BY NothingIsUnread
  <1> HIDE DEF stored, image, base, address
  <1>5. stored # Absent /\ read # Absent => address = Relayed(stored, read)
    BY <1>1, <1>4 DEF buildRelayAddress
  <1>6. stored = Absent \/ read = Absent => address = Absent
    BY <1>1 DEF buildRelayAddress
  <1>7. ASSUME stored # Absent, read # Absent
        PROVE  /\ read \in Readings /\ address = Text(Behind(base, read), read.digest)
               /\ address # Absent
    <2>1. read \in Readings
      BY <1>1, <1>7, ReadIsMeant
    <2>2. address = Text(Behind(base, read), read.digest)
      BY <1>2, <1>5, <1>7, <2>1, RelayedIs
    <2>3. address \in AddressTexts
      <3>1. Behind(base, read) \in Seq(Parts)
        BY <1>2, <1>7, <2>1, BehindTyped
      <3>2. read.digest \in Digests \cup {Absent}
        BY <2>1, ReferenceTyped
      <3>3. QED
        BY <2>2, <3>1, <3>2 DEF Text, AddressTexts
    <2>4. QED
      BY <2>1, <2>2, <2>3, RelayAssumption
  <1>8. address # Absent <=> stored # Absent /\ image \in Meaningful
    BY <1>3, <1>6, <1>7
  <1>9. ASSUME address # Absent, NEW ref \in References, image \in Spellings(ref)
        PROVE  /\ ref.origin.suffix = Absent => pulled # Absent
               /\ pulled # Absent /\ looksLikeRegistry(base[1]) =>
                    pulled = [origin |-> base[1],
                              path |-> below \o <<ref.origin.word>> \o ref.path,
                              tag |-> ref.tag, digest |-> ref.digest]
    <2>1. read \in Readings /\ Versioned(read) = ref
      BY <1>9, MeantIsRead
    <2>2. /\ read.origin = ref.origin /\ read.path = ref.path
          /\ read.digest = ref.digest /\ Versioned(read).tag = ref.tag
      BY <2>1, VersionedTyped
    <2>3. Base(base) /\ address = Text(Behind(base, read), read.digest)
      BY <1>2, <1>6, <1>7, <1>9
    <2> HIDE DEF read
    <2>4. /\ pulled = Absent <=> read.origin.suffix # Absent
          /\ pulled # Absent /\ looksLikeRegistry(base[1]) =>
               pulled = [origin |-> base[1],
                         path |-> below \o <<read.origin.word>> \o read.path,
                         tag |-> Versioned(read).tag, digest |-> read.digest]
      BY <2>1, <2>3, RelayedNames
    <2>5. QED
      BY <2>2, <2>4
  <1>10. QED
    BY <1>2, <1>8, <1>9 DEF AddressNamesImage, stored, image, base, address

\* Whatever relay was typed and stored, and whatever address was asked for, the
\* page builds one exactly for what is an image, and it names that image, at that
\* version, at that relay (handleRelaySave, Endpoint, Parse, Relayed).
THEOREM AddressesNameImages == RelaySpec => []AddressNamesImage
  <1>1. RelaySpec => []RelayInv
    BY RelayInitInv, RelayStepInv, PTL DEF RelaySpec
  <1>2. QED
    BY <1>1, AddressNamesImageHolds, PTL
=============================================================================
