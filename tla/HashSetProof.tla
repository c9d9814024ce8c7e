----------------------------- MODULE HashSetProof -----------------------------
(***************************************************************************)
(* Proofs about HashSet, for any values, keys, hashes and table sizes:     *)
(* what enlarging makes of a table, that values are where their hashes     *)
(* say, that they are freed when the set that frees them lets them go, and *)
(* that set_union and set_intersection make the union and the intersection.*)
(***************************************************************************)
EXTENDS HashSet, SequenceTheorems, FiniteSetTheorems, WellFoundedInduction, TLAPS

\* The numbers are well ordered: a set of them has a least element.
LEMMA LeastNatural ==
  ASSUME NEW S \in SUBSET Nat, S # {}
  PROVE  \E m \in S : \A n \in S : m <= n
<1> DEFINE Less == { p \in Nat \X Nat : p[1] < p[2] }
<1>1. IsWellFoundedOn(Less, Nat)
  BY NatLessThanWellFounded DEF OpToRel
<1>2. PICK m \in S : \A n \in S : << n, m >> \notin Less
  <2> HIDE DEF Less
  <2> QED BY <1>1, WFMin
<1>3. ASSUME NEW n \in S PROVE m <= n
  <2>1. << n, m >> \in Nat \X Nat /\ << n, m >>[1] = n /\ << n, m >>[2] = m
    OBVIOUS
  <2>2. ~ (n < m)
    BY <1>2, <2>1
  <2> QED BY <2>2
<1> QED BY <1>3

(***************************************************************************)
(* In a finite set with a strict total order every rank belongs to one     *)
(* element.                                                                *)
(***************************************************************************)
Above(S, R, x) == { z \in S : << x, z >> \in R }
Rank(S, R)     == [x \in S |-> Cardinality(Above(S, R, x))]

LEMMA RanksDiffer ==
  ASSUME NEW S, IsFiniteSet(S), NEW R,
         \A x \in S : << x, x >> \notin R,
         \A x, y, z \in S : << x, y >> \in R /\ << y, z >> \in R => << x, z >> \in R,
         NEW x \in S, NEW y \in S, << x, y >> \in R
  PROVE  /\ Cardinality(Above(S, R, y)) \in Nat
         /\ Cardinality(Above(S, R, x)) \in Nat
         /\ Cardinality(Above(S, R, y))
              < Cardinality(Above(S, R, x))
<1> DEFINE A == Above(S, R, y)
           B == Above(S, R, x)
<1>0. B \in SUBSET S
  BY DEF Above
<1>1. IsFiniteSet(B)
  BY <1>0, FS_Subset
<1>2. A \in SUBSET B /\ y \in B /\ y \notin A
  BY DEF Above
<1> HIDE DEF A, B
<1>3. IsFiniteSet(A) /\ Cardinality(A) <= Cardinality(B) /\ Cardinality(A) # Cardinality(B)
  BY <1>1, <1>2, FS_Subset
<1>4. Cardinality(A) \in Nat /\ Cardinality(B) \in Nat
  BY <1>1, <1>3, FS_CardinalityType
<1> QED
  BY <1>3, <1>4 DEF A, B

LEMMA Ranks ==
  ASSUME NEW S, IsFiniteSet(S), NEW R,
         \A x \in S : << x, x >> \notin R,
         \A x, y \in S : x # y => << x, y >> \in R \/ << y, x >> \in R,
         \A x, y, z \in S : << x, y >> \in R /\ << y, z >> \in R => << x, z >> \in R
  PROVE  /\ Rank(S, R) \in [S -> 0..(Cardinality(S) - 1)]
         /\ \A x, y \in S : Rank(S, R)[x] = Rank(S, R)[y] => x = y
         /\ \A r \in 0..(Cardinality(S) - 1) : \E x \in S : Rank(S, R)[x] = r
<1> DEFINE rank == [x \in S |-> Cardinality(Above(S, R, x))]
           N == Cardinality(S)
<1>1. N \in Nat
  BY FS_CardinalityType
<1>2. ASSUME NEW x \in S
      PROVE  Cardinality(Above(S, R, x)) \in 0..(N - 1)
  <2> DEFINE A == Above(S, R, x)
  <2>1. A \in SUBSET S /\ x \notin A
    BY DEF Above
  <2> HIDE DEF A
  <2>2. IsFiniteSet(A) /\ Cardinality(A) <= Cardinality(S) /\ Cardinality(A) # Cardinality(S)
    BY <2>1, FS_Subset
  <2>3. Cardinality(A) \in Nat
    BY <2>2, FS_CardinalityType
  <2> QED
    BY <2>2, <2>3, <1>1 DEF A
<1>3. rank \in [S -> 0..(N - 1)]
  BY <1>2
<1>4. \A x, y \in S : rank[x] = rank[y] => x = y
  <2> SUFFICES ASSUME NEW x \in S, NEW y \in S, x # y PROVE rank[x] # rank[y]
    OBVIOUS
  <2> DEFINE a == Cardinality(Above(S, R, x))
             b == Cardinality(Above(S, R, y))
  <2>1. rank[x] = a /\ rank[y] = b
    OBVIOUS
  <2>2. << x, y >> \in R => b \in Nat /\ a \in Nat /\ b < a
    BY RanksDiffer
  <2>3. << y, x >> \in R => b \in Nat /\ a \in Nat /\ a < b
    BY RanksDiffer
  <2>4. << x, y >> \in R \/ << y, x >> \in R
    OBVIOUS
  <2> HIDE DEF a, b
  <2>5. a # b
    BY <2>2, <2>3, <2>4
  <2> QED
    BY <2>1, <2>5
<1> DEFINE D == 0..(N - 1)
<1>6. IsFiniteSet(D) /\ Cardinality(D) = N
  <2>1. N - 1 \in Int /\ (N - 1) - 0 + 1 = N /\ (0 > N - 1 => N = 0)
    BY <1>1
  <2> QED
    BY <2>1, FS_Interval
<1> HIDE DEF rank, D
<1>5. rank \in Injection(S, D)
  <2>1. rank \in [S -> D]
    BY <1>3 DEF D
  <2> QED
    BY <2>1, <1>4 DEF Injection, IsInjective
<1>7. rank \in Surjection(S, D)
  BY <1>5, <1>6, FS_Injection
<1>8. \A r \in 0..(N - 1) : \E x \in S : rank[x] = r
  BY <1>7 DEF Surjection, D
<1> QED
  BY <1>3, <1>4, <1>8 DEF rank, Rank

-----------------------------------------------------------------------------
(***************************************************************************)
(* Sequences of values.                                                    *)
(***************************************************************************)
LEMMA SequenceFrom ==
  ASSUME NEW n \in Nat, NEW f \in [1..n -> Value]
  PROVE  f \in Seq(Value)
OBVIOUS

LEMMA HeadedIs ==
  ASSUME NEW m \in Seq(Value), NEW v \in Value
  PROVE  /\ << v >> \o m \in Seq(Value)
         /\ DOMAIN (<< v >> \o m) = 1..(Len(m) + 1) /\ (<< v >> \o m)[1] = v
         /\ \A n \in DOMAIN m : n + 1 \in DOMAIN (<< v >> \o m) /\ (<< v >> \o m)[n + 1] = m[n]
         /\ \A n \in DOMAIN (<< v >> \o m) : n # 1 =>
              n - 1 \in DOMAIN m /\ (<< v >> \o m)[n] = m[n - 1]
<1>1. << v >> \in Seq(Value) /\ Len(<< v >>) = 1 /\ << v >>[1] = v
  OBVIOUS
<1>2. /\ << v >> \o m \in Seq(Value) /\ Len(<< v >> \o m) = Len(m) + 1
      /\ \A n \in 1..(Len(m) + 1) : (<< v >> \o m)[n] = IF n = 1 THEN v ELSE m[n - 1]
  BY <1>1
<1> DEFINE h == << v >> \o m
<1> HIDE DEF h
<1>5. DOMAIN h = 1..(Len(m) + 1) /\ DOMAIN m = 1..Len(m) /\ Len(m) \in Nat
  BY <1>2 DEF h
<1>3. (<< v >> \o m)[1] = v
  <2>1. 1 \in 1..(Len(m) + 1)
    BY <1>5
  <2> QED
    BY <2>1, <1>2
<1>6. ASSUME NEW n \in DOMAIN m
      PROVE  n + 1 \in DOMAIN h /\ h[n + 1] = m[n]
  <2>1. n + 1 \in 1..(Len(m) + 1) /\ n + 1 # 1 /\ (n + 1) - 1 = n
    BY <1>5
  <2> QED
    BY <2>1, <1>2, <1>5 DEF h
<1>7. ASSUME NEW n \in DOMAIN h, n # 1
      PROVE  n - 1 \in DOMAIN m /\ h[n] = m[n - 1]
  <2>1. n - 1 \in DOMAIN m /\ (n - 1) + 1 = n
    BY <1>5, <1>7
  <2> QED
    BY <2>1, <1>6
<1> QED
  BY <1>2, <1>3, <1>5, <1>6, <1>7 DEF h

LEMMA ConcatIs ==
  ASSUME NEW a \in Seq(Value), NEW b \in Seq(Value)
  PROVE  /\ a \o b \in Seq(Value) /\ Len(a \o b) = Len(a) + Len(b)
         /\ \A n \in 1..(Len(a) + Len(b)) :
              (a \o b)[n] = IF n <= Len(a) THEN a[n] ELSE b[n - Len(a)]
OBVIOUS

LEMMA RemovedAtIs ==
  ASSUME NEW m \in Seq(Value), NEW p \in DOMAIN m
  PROVE  /\ RemoveAt(m, p) \in Seq(Value) /\ p \in Nat
         /\ DOMAIN RemoveAt(m, p) = 1..(Len(m) - 1)
         /\ \A n \in 1..(Len(m) - 1) : RemoveAt(m, p)[n] = IF n < p THEN m[n] ELSE m[n + 1]
<1>1. p \in 1..Len(m) /\ Len(m) \in Nat
  OBVIOUS
<1> DEFINE a == SubSeq(m, 1, p - 1)
           b == SubSeq(m, p + 1, Len(m))
<1>4. a \in Seq(Value) /\ Len(a) = p - 1 /\ \A n \in 1..(p - 1) : a[n] = m[n]
  BY <1>1
<1>5. b \in Seq(Value) /\ Len(b) = Len(m) - p /\ \A n \in 1..(Len(m) - p) : b[n] = m[p + n]
  BY <1>1
<1> HIDE DEF a, b
<1>6. a \o b \in Seq(Value) /\ Len(a \o b) = Len(m) - 1
  <2>1. Len(a \o b) = Len(a) + Len(b) /\ a \o b \in Seq(Value)
    BY <1>4, <1>5, ConcatIs
  <2>2. (p - 1) + (Len(m) - p) = Len(m) - 1
    BY <1>1
  <2> QED
    BY <2>1, <2>2, <1>4, <1>5
<1>7. ASSUME NEW n \in 1..(Len(m) - 1)
      PROVE  (a \o b)[n] = IF n < p THEN m[n] ELSE m[n + 1]
  <2>1. CASE n < p
    <3>1. n \in 1..(p - 1) /\ n \in 1..(Len(a) + Len(b)) /\ n <= Len(a)
      BY <2>1, <1>1, <1>4, <1>5
    <3>2. (a \o b)[n] = a[n]
      BY <3>1, <1>4, <1>5, ConcatIs
    <3> QED
      BY <3>1, <3>2, <2>1, <1>4
  <2>2. CASE ~ (n < p)
    <3>1. n - (p - 1) \in 1..(Len(m) - p) /\ p + (n - (p - 1)) = n + 1
      BY <2>2, <1>1
    <3>2. b[n - (p - 1)] = m[n + 1]
      BY <3>1, <1>5
    <3>3. n \in 1..(Len(a) + Len(b)) /\ ~ (n <= Len(a))
      BY <2>2, <1>1, <1>4, <1>5
    <3>4. (a \o b)[n] = b[n - Len(a)]
      BY <3>3, <1>4, <1>5, ConcatIs
    <3> QED
      BY <3>4, <3>2, <2>2, <1>4
  <2> QED
    BY <2>1, <2>2
<1>8. RemoveAt(m, p) = a \o b
  BY DEF RemoveAt, a, b
<1>9. DOMAIN (a \o b) = 1..(Len(m) - 1)
  <2> DEFINE r == a \o b
  <2>1. r \in Seq(Value) /\ Len(r) = Len(m) - 1
    BY <1>6
  <2> HIDE DEF r
  <2>2. DOMAIN r = 1..(Len(m) - 1)
    BY <2>1
  <2> QED
    BY <2>2 DEF r
<1> QED
  BY <1>1, <1>6, <1>7, <1>8, <1>9

\* What is left of a chain, and from where.
LEMMA RemainderIs ==
  ASSUME NEW m \in Seq(Value), NEW p \in DOMAIN m
  PROVE  /\ RemoveAt(m, p) \in Seq(Value)
         /\ \A n \in DOMAIN m : n # p =>
              \E k \in DOMAIN RemoveAt(m, p) : RemoveAt(m, p)[k] = m[n]
         /\ \A k \in DOMAIN RemoveAt(m, p) : \E n \in DOMAIN m :
              n # p /\ n = (IF k < p THEN k ELSE k + 1) /\ RemoveAt(m, p)[k] = m[n]
<1> DEFINE r == RemoveAt(m, p)
<1>1. /\ r \in Seq(Value) /\ p \in Nat /\ DOMAIN r = 1..(Len(m) - 1)
      /\ \A n \in 1..(Len(m) - 1) : r[n] = IF n < p THEN m[n] ELSE m[n + 1]
  BY RemovedAtIs
<1>2. DOMAIN m = 1..Len(m) /\ Len(m) \in Nat
  OBVIOUS
<1> HIDE DEF r
<1>3. ASSUME NEW n \in DOMAIN m, n # p
      PROVE  \E k \in DOMAIN r : r[k] = m[n]
  <2>1. CASE n < p
    <3>1. n \in 1..(Len(m) - 1)
      BY <2>1, <1>1, <1>2
    <3> QED
      BY <3>1, <2>1, <1>1
  <2>2. CASE n > p
    <3>1. n - 1 \in 1..(Len(m) - 1) /\ ~ (n - 1 < p) /\ (n - 1) + 1 = n
      BY <2>2, <1>1, <1>2
    <3> QED
      BY <3>1, <1>1
  <2>3. n < p \/ n > p
    BY <1>1, <1>2, <1>3
  <2> QED
    BY <2>1, <2>2, <2>3
<1>4. ASSUME NEW k \in DOMAIN r
      PROVE  \E n \in DOMAIN m : n # p /\ n = (IF k < p THEN k ELSE k + 1) /\ r[k] = m[n]
  <2>1. CASE k < p
    BY <2>1, <1>1, <1>2
  <2>2. CASE ~ (k < p)
    <3>1. k + 1 \in DOMAIN m /\ k + 1 # p
      BY <2>2, <1>1, <1>2
    <3> QED
      BY <3>1, <2>2, <1>1
  <2> QED
    BY <2>1, <2>2
<1> QED
  BY <1>1, <1>3, <1>4 DEF r


-----------------------------------------------------------------------------
(***************************************************************************)
(* One set.                                                                *)
(***************************************************************************)
\* What Struct says, field by field.
LEMMA Fields ==
  ASSUME NEW set, Struct(set)
  PROVE  /\ set.table_size \in Nat \ { 0 } /\ set.entries \in Nat
         /\ set.prime_index \in Nat \ { 0 }
         /\ set.table \in [0..(set.table_size - 1) -> Seq(Value)]
         /\ set = [table |-> set.table, table_size |-> set.table_size,
                   entries |-> set.entries, prime_index |-> set.prime_index]
         /\ set # NoSet
<1> DEFINE T == [0..(set.table_size - 1) -> Seq(Value)]
<1>1. set \in [table : T, table_size : { set.table_size }, entries : Nat, prime_index : Nat \ { 0 }]
  BY DEF Struct
<1>2. set.table_size \in Nat \ { 0 }
  BY DEF Struct
<1> HIDE DEF T
<1>3. /\ set.entries \in Nat /\ set.prime_index \in Nat \ { 0 } /\ set.table \in T
      /\ set = [table |-> set.table, table_size |-> set.table_size,
                entries |-> set.entries, prime_index |-> set.prime_index]
  BY <1>1
<1>4. set # NoSet
  BY <1>2 DEF NoSet
<1> QED
  BY <1>2, <1>3, <1>4 DEF T

Made(t, n, e, p) == [table |-> t, table_size |-> n, entries |-> e, prime_index |-> p]

LEMMA IsStruct ==
  ASSUME NEW n \in Nat \ { 0 }, NEW t \in [0..(n - 1) -> Seq(Value)], NEW e \in Nat,
         NEW p \in Nat \ { 0 }
  PROVE  /\ Struct(Made(t, n, e, p)) /\ Made(t, n, e, p).table = t
         /\ Made(t, n, e, p).table_size = n /\ Made(t, n, e, p).entries = e
BY DEF Struct, Made

\* The chain of a value.
LEMMA IndexIn ==
  ASSUME NEW n \in Nat \ { 0 }, NEW v \in Value
  PROVE  Hash[v] % n \in 0..(n - 1) /\ Hash[v] \in Nat
<1>1. Hash[v] \in Nat
  BY HashAssumption
<1> QED
  BY <1>1

LEMMA StoredIs ==
  ASSUME NEW set, Struct(set)
  PROVE  /\ Stored(set) \in SUBSET Value
         /\ \A v : v \in Stored(set) <=>
              \E c \in 0..(set.table_size - 1) : \E p \in DOMAIN set.table[c] : set.table[c][p] = v
<1>1. set.table \in [0..(set.table_size - 1) -> Seq(Value)]
  BY Fields
<1>2. \A c \in 0..(set.table_size - 1) : set.table[c] \in Seq(Value)
  BY <1>1
<1>3. \A v : v \in Stored(set) <=>
        \E c \in 0..(set.table_size - 1) : \E p \in DOMAIN set.table[c] : set.table[c][p] = v
  <2> SUFFICES ASSUME NEW v
               PROVE  v \in Stored(set) <=>
                 \E c \in 0..(set.table_size - 1) : \E p \in DOMAIN set.table[c] : set.table[c][p] = v
    OBVIOUS
  <2>1. v \in Stored(set) <=> \E c \in DOMAIN set.table : v \in ToSet(set.table[c])
    BY DEF Stored
  <2>2. DOMAIN set.table = 0..(set.table_size - 1)
    BY <1>1
  <2>3. \A c \in DOMAIN set.table :
          v \in ToSet(set.table[c]) <=> \E p \in DOMAIN set.table[c] : set.table[c][p] = v
    BY DEF ToSet
  <2> QED
    BY <2>1, <2>2, <2>3
<1>4. \A c \in 0..(set.table_size - 1) : \A p \in DOMAIN set.table[c] : set.table[c][p] \in Value
  BY <1>2
<1> QED
  BY <1>3, <1>4

\* A value that is stored has one place, in the chain of its hash.
LEMMA PlaceOf ==
  ASSUME NEW set, Good(set), NEW v \in Stored(set)
  PROVE  /\ index(set, v) \in 0..(set.table_size - 1)
         /\ \E p \in DOMAIN set.table[index(set, v)] : set.table[index(set, v)][p] = v
<1>1. Struct(set) /\ Chained(set)
  BY DEF Good
<1>2. PICK c \in 0..(set.table_size - 1) : \E p \in DOMAIN set.table[c] : set.table[c][p] = v
  BY <1>1, StoredIs
<1>3. DOMAIN set.table = 0..(set.table_size - 1)
  BY <1>1, Fields
<1>4. index(set, v) = c
  BY <1>1, <1>2, <1>3 DEF Chained
<1> QED
  BY <1>2, <1>4

LEMMA PlaceUnique ==
  ASSUME NEW set, Good(set), NEW c \in 0..(set.table_size - 1),
         NEW p \in DOMAIN set.table[c], NEW q \in DOMAIN set.table[c],
         Key[set.table[c][p]] = Key[set.table[c][q]]
  PROVE  p = q
<1>1. DOMAIN set.table = 0..(set.table_size - 1)
  BY Fields DEF Good
<1> QED
  BY <1>1 DEF Good, Chained

\* No two values are equal.
LEMMA KeysDiffer ==
  ASSUME NEW set, Good(set), NEW u \in Stored(set), NEW v \in Stored(set), Key[u] = Key[v]
  PROVE  u = v
<1>1. u \in Value /\ v \in Value
  BY StoredIs DEF Good
<1>2. index(set, u) = index(set, v)
  BY <1>1, HashAssumption DEF index
<1>3. /\ index(set, v) \in 0..(set.table_size - 1)
      /\ \E p \in DOMAIN set.table[index(set, v)] : set.table[index(set, v)][p] = v
      /\ \E p \in DOMAIN set.table[index(set, u)] : set.table[index(set, u)][p] = u
  BY PlaceOf
<1>4. PICK q \in DOMAIN set.table[index(set, v)] : set.table[index(set, v)][q] = v
  BY <1>3
<1>5. PICK p \in DOMAIN set.table[index(set, v)] : set.table[index(set, v)][p] = u
  BY <1>2, <1>3
<1>6. p = q
  BY <1>3, <1>4, <1>5, PlaceUnique
<1> QED
  BY <1>4, <1>5, <1>6


\* set_query finds a value that is equal to one that is stored.
LEMMA PlacesIs ==
  ASSUME NEW set, Good(set), NEW v \in Value
  PROVE  /\ index(set, v) \in 0..(set.table_size - 1)
         /\ \A p \in Places(set, v) :
              /\ p \in DOMAIN set.table[index(set, v)]
              /\ set.table[index(set, v)][p] \in Stored(set)
              /\ Key[set.table[index(set, v)][p]] = Key[v]
         /\ \A u \in Stored(set) : Key[u] = Key[v] =>
              \E p \in Places(set, v) : set.table[index(set, v)][p] = u
<1>1. Struct(set) /\ set.table_size \in Nat \ { 0 }
  BY Fields DEF Good
<1>2. index(set, v) \in 0..(set.table_size - 1)
  BY <1>1, IndexIn DEF index
<1>3. ASSUME NEW p \in Places(set, v)
      PROVE  /\ p \in DOMAIN set.table[index(set, v)]
             /\ set.table[index(set, v)][p] \in Stored(set)
             /\ Key[set.table[index(set, v)][p]] = Key[v]
  BY <1>1, <1>2, StoredIs DEF Places
<1>4. ASSUME NEW u \in Stored(set), Key[u] = Key[v]
      PROVE  \E p \in Places(set, v) : set.table[index(set, v)][p] = u
  <2>1. u \in Value
    BY <1>1, StoredIs
  <2>2. index(set, u) = index(set, v)
    BY <2>1, <1>4, HashAssumption DEF index
  <2>3. \E p \in DOMAIN set.table[index(set, u)] : set.table[index(set, u)][p] = u
    BY PlaceOf
  <2> QED
    BY <2>2, <2>3, <1>4 DEF Places
<1> QED
  BY <1>2, <1>3, <1>4

LEMMA QueryIs ==
  ASSUME NEW set, Good(set), NEW v \in Value
  PROVE  set_query(set, v) <=> \E u \in Stored(set) : Key[u] = Key[v]
BY PlacesIs DEF set_query

-----------------------------------------------------------------------------
(***************************************************************************)
(* The order of the loops over a table.                                    *)
(***************************************************************************)
At(set, v) == CHOOSE p \in DOMAIN set.table[index(set, v)] : set.table[index(set, v)][p] = v

LEMMA AtIs ==
  ASSUME NEW set, Good(set), NEW v \in Stored(set)
  PROVE  /\ index(set, v) \in 0..(set.table_size - 1)
         /\ set.table[index(set, v)] \in Seq(Value)
         /\ At(set, v) \in DOMAIN set.table[index(set, v)] /\ At(set, v) \in Nat
         /\ set.table[index(set, v)][At(set, v)] = v
         /\ \A p \in DOMAIN set.table[index(set, v)] : set.table[index(set, v)][p] = v => p = At(set, v)
<1> DEFINE chain == set.table[index(set, v)]
<1>1. /\ index(set, v) \in 0..(set.table_size - 1)
      /\ \E p \in DOMAIN chain : chain[p] = v
  BY PlaceOf
<1>2. At(set, v) \in DOMAIN chain /\ chain[At(set, v)] = v
  BY <1>1 DEF At
<1>3. \A p \in DOMAIN chain : chain[p] = v => p = At(set, v)
  BY <1>1, <1>2, PlaceUnique
<1>4. chain \in Seq(Value)
  BY <1>1, Fields DEF Good
<1>5. At(set, v) \in Nat
  BY <1>2, <1>4
<1> QED
  BY <1>1, <1>2, <1>3, <1>4, <1>5

LEMMA PrecedesIs ==
  ASSUME NEW set, Good(set), NEW u \in Stored(set), NEW v \in Stored(set)
  PROVE  Precedes(set, u, v) <=>
           \/ index(set, u) < index(set, v)
           \/ index(set, u) = index(set, v) /\ At(set, u) < At(set, v)
<1> DEFINE chain == set.table[index(set, u)]
<1>1. SUFFICES ASSUME index(set, u) = index(set, v)
               PROVE  (\E p, q \in DOMAIN chain : p < q /\ chain[p] = u /\ chain[q] = v)
                        <=> At(set, u) < At(set, v)
  BY DEF Precedes
<1>2. /\ At(set, u) \in DOMAIN chain /\ chain[At(set, u)] = u
      /\ \A p \in DOMAIN chain : chain[p] = u => p = At(set, u)
  BY AtIs
<1>3. /\ At(set, v) \in DOMAIN chain /\ chain[At(set, v)] = v
      /\ \A p \in DOMAIN chain : chain[p] = v => p = At(set, v)
  BY <1>1, AtIs
<1> HIDE DEF chain
<1> QED
  BY <1>2, <1>3

\* It is a strict total order.
LEMMA PrecedesOrders ==
  ASSUME NEW set, Good(set)
  PROVE  /\ \A u \in Stored(set) : ~ Precedes(set, u, u)
         /\ \A u, v \in Stored(set) : u # v => Precedes(set, u, v) \/ Precedes(set, v, u)
         /\ \A u, v, w \in Stored(set) :
              Precedes(set, u, v) /\ Precedes(set, v, w) => Precedes(set, u, w)
<1> DEFINE i(v) == index(set, v)
           a(v) == At(set, v)
<1>1. ASSUME NEW v \in Stored(set) PROVE i(v) \in Nat /\ a(v) \in Nat
  <2>1. i(v) \in 0..(set.table_size - 1)
    BY AtIs
  <2> QED
    BY <2>1, AtIs
<1>2. ASSUME NEW u \in Stored(set), NEW v \in Stored(set)
      PROVE  Precedes(set, u, v) <=> i(u) < i(v) \/ (i(u) = i(v) /\ a(u) < a(v))
  BY PrecedesIs
<1>3. ASSUME NEW u \in Stored(set), NEW v \in Stored(set), i(u) = i(v), a(u) = a(v)
      PROVE  u = v
  <2>1. set.table[index(set, u)][At(set, u)] = u
    BY AtIs
  <2>2. set.table[index(set, v)][At(set, v)] = v
    BY AtIs
  <2> QED
    BY <2>1, <2>2, <1>3
<1> HIDE DEF i, a
<1>4. \A u \in Stored(set) : ~ Precedes(set, u, u)
  BY <1>1, <1>2
<1>5. \A u, v \in Stored(set) : u # v => Precedes(set, u, v) \/ Precedes(set, v, u)
  <2> SUFFICES ASSUME NEW u \in Stored(set), NEW v \in Stored(set), u # v
               PROVE  Precedes(set, u, v) \/ Precedes(set, v, u)
    OBVIOUS
  <2>1. i(u) \in Nat /\ a(u) \in Nat /\ i(v) \in Nat /\ a(v) \in Nat
    BY <1>1
  <2>2. i(u) # i(v) \/ a(u) # a(v)
    BY <1>3
  <2> QED
    BY <2>1, <2>2, <1>2
<1>6. \A u, v, w \in Stored(set) :
        Precedes(set, u, v) /\ Precedes(set, v, w) => Precedes(set, u, w)
  <2> SUFFICES ASSUME NEW u \in Stored(set), NEW v \in Stored(set), NEW w \in Stored(set),
                      Precedes(set, u, v), Precedes(set, v, w)
               PROVE  Precedes(set, u, w)
    OBVIOUS
  <2>1. i(u) \in Nat /\ a(u) \in Nat /\ i(v) \in Nat /\ a(v) \in Nat /\ i(w) \in Nat /\ a(w) \in Nat
    BY <1>1
  <2>2. i(u) < i(v) \/ (i(u) = i(v) /\ a(u) < a(v))
    BY <1>2
  <2>3. i(v) < i(w) \/ (i(v) = i(w) /\ a(v) < a(w))
    BY <1>2
  <2>4. i(u) < i(w) \/ (i(u) = i(w) /\ a(u) < a(w))
    BY <2>1, <2>2, <2>3
  <2> QED
    BY <2>4, <1>2
<1> QED
  BY <1>4, <1>5, <1>6

-----------------------------------------------------------------------------
(***************************************************************************)
(* set_enlarge.                                                            *)
(***************************************************************************)
\* A new chain has the values of its hash, each once.
LEMMA RelinkedIs ==
  ASSUME NEW set, Good(set), NEW size, NEW c
  PROVE  /\ Relinked(set, size, c) \in Seq(Value)
         /\ ToSet(Relinked(set, size, c)) = Rehashed(set, size, c)
         /\ \A p, q \in DOMAIN Relinked(set, size, c) :
              Relinked(set, size, c)[p] = Relinked(set, size, c)[q] => p = q
<1> DEFINE S == Rehashed(set, size, c)
           R == { e \in S \X S : Precedes(set, e[1], e[2]) }
           N == Cardinality(S)
           new == Relinked(set, size, c)
<1>1. S \in SUBSET Stored(set) /\ S \in SUBSET Value
  BY StoredIs DEF Rehashed, Good
<1>2. IsFiniteSet(S) /\ N \in Nat
  BY <1>1, FS_Subset, FS_CardinalityType DEF Good
<1>3. \A x, y \in S : << x, y >> \in R <=> Precedes(set, x, y)
  OBVIOUS
<1>4. ASSUME NEW x \in S
      PROVE  { w \in S : Precedes(set, x, w) } = Above(S, R, x)
  BY <1>3 DEF Above
<1> HIDE DEF S, R
<1>5. /\ \A x \in S : << x, x >> \notin R
      /\ \A x, y \in S : x # y => << x, y >> \in R \/ << y, x >> \in R
      /\ \A x, y, z \in S : << x, y >> \in R /\ << y, z >> \in R => << x, z >> \in R
  BY <1>1, <1>3, PrecedesOrders
<1> DEFINE rank == Rank(S, R)
<1>6. /\ rank \in [S -> 0..(N - 1)]
      /\ \A x, y \in S : rank[x] = rank[y] => x = y
      /\ \A r \in 0..(N - 1) : \E x \in S : rank[x] = r
  <2>1. IsFiniteSet(S)
    BY <1>2
  <2>2. \A x \in S : << x, x >> \notin R
    BY <1>5
  <2>3. \A x, y \in S : x # y => << x, y >> \in R \/ << y, x >> \in R
    BY <1>5
  <2>4. \A x, y, z \in S : << x, y >> \in R /\ << y, z >> \in R => << x, z >> \in R
    BY <1>5
  <2>5. Rank(S, R) \in [S -> 0..(Cardinality(S) - 1)]
    BY ONLY <2>1, <2>2, <2>3, <2>4, Ranks
  <2>6. \A x, y \in S : Rank(S, R)[x] = Rank(S, R)[y] => x = y
    BY ONLY <2>1, <2>2, <2>3, <2>4, Ranks
  <2>7. \A r \in 0..(Cardinality(S) - 1) : \E x \in S : Rank(S, R)[x] = r
    BY ONLY <2>1, <2>2, <2>3, <2>4, Ranks
  <2> QED
    BY <2>5, <2>6, <2>7
<1>7. new = [n \in 1..N |-> CHOOSE v \in S : Cardinality({ w \in S : Precedes(set, v, w) }) = n - 1]
  BY DEF Relinked, S
<1>8. ASSUME NEW n \in 1..N
      PROVE  new[n] \in S /\ rank[new[n]] = n - 1
  <2>1. n - 1 \in 0..(N - 1)
    BY <1>2
  <2>2. PICK x \in S : rank[x] = n - 1
    BY <2>1, <1>6
  <2>3. Cardinality({ w \in S : Precedes(set, x, w) }) = n - 1
    BY <2>2, <1>4 DEF Rank
  <2> DEFINE P(v) == Cardinality({ w \in S : Precedes(set, v, w) }) = n - 1
  <2>4. new[n] = CHOOSE v \in S : P(v)
    BY <1>7
  <2>5. new[n] \in S /\ P(new[n])
    <3> HIDE DEF P
    <3>1. P(x)
      BY <2>3 DEF P
    <3> QED
      BY <2>4, <3>1
  <2> QED
    BY <2>5, <1>4 DEF Rank
<1> HIDE DEF rank
<1>9. DOMAIN new = 1..N
  BY <1>7
<1>10. new \in Seq(Value)
  <2>1. new = [n \in 1..N |-> new[n]]
    BY <1>7
  <2>2. \A n \in 1..N : new[n] \in Value
    BY <1>1, <1>8
  <2> HIDE DEF new
  <2>3. new \in [1..N -> Value]
    BY <2>1, <2>2
  <2> QED
    BY <2>3, <1>2, SequenceFrom
<1>11. ASSUME NEW p \in 1..N, NEW q \in 1..N, new[p] = new[q]
       PROVE  p = q
  <2>1. p - 1 = q - 1
    BY <1>8, <1>11
  <2> QED
    BY <2>1, <1>2
<1>12. ASSUME NEW x \in S
       PROVE  \E n \in 1..N : new[n] = x
  <2>1. rank[x] \in 0..(N - 1)
    BY <1>6
  <2>2. rank[x] + 1 \in 1..N /\ (rank[x] + 1) - 1 = rank[x]
    BY <2>1, <1>2
  <2>3. new[rank[x] + 1] \in S /\ rank[new[rank[x] + 1]] = rank[x]
    BY <2>2, <1>8
  <2> QED
    BY <2>2, <2>3, <1>6
<1>13. ToSet(new) = S
  BY <1>8, <1>9, <1>12 DEF ToSet
<1> QED
  BY <1>9, <1>10, <1>11, <1>13 DEF S


LEMMA NewSizeIs ==
  ASSUME NEW set, Struct(set), Full(set)
  PROVE  NewSize(set) \in Nat \ { 0 }
<1>1. /\ set.table_size \in Nat \ { 0 } /\ set.entries \in Nat /\ set.prime_index \in Nat \ { 0 }
  BY Fields
<1>2. CASE set.prime_index + 1 <= Len(Primes)
  <2>1. set.prime_index + 1 \in 1..Len(Primes)
    BY <1>1, <1>2, PrimesAssumption
  <2> QED
    BY <2>1, <1>2, PrimesAssumption DEF NewSize
<1>3. CASE ~ (set.prime_index + 1 <= Len(Primes))
  <2>1. set.entries # 0
    <3>1. (0 * 3) \div set.table_size = 0
      BY <1>1
    <3> QED
      BY <3>1 DEF Full
  <2>2. set.entries * 10 \in Nat \ { 0 }
    BY <2>1, <1>1
  <2> QED
    BY <2>2, <1>3 DEF NewSize
<1> QED
  BY <1>2, <1>3

\* What makes a set good, said of its fields: the table holds the values S.
Holding(t, n, S) ==
  /\ t \in [0..(n - 1) -> Seq(Value)]
  /\ \A v : v \in S <=> \E c \in 0..(n - 1) : \E i \in DOMAIN t[c] : t[c][i] = v
  /\ \A c \in 0..(n - 1) : \A i \in DOMAIN t[c] : Hash[t[c][i]] % n = c
  /\ \A c \in 0..(n - 1) : \A i, j \in DOMAIN t[c] : Key[t[c][i]] = Key[t[c][j]] => i = j

LEMMA IsGood ==
  ASSUME NEW n \in Nat \ { 0 }, NEW t, NEW e \in Nat, NEW p \in Nat \ { 0 }, NEW S,
         Holding(t, n, S), IsFiniteSet(S), e = Cardinality(S)
  PROVE  Good(Made(t, n, e, p)) /\ Stored(Made(t, n, e, p)) = S
<1> DEFINE set == Made(t, n, e, p)
<1>1. Struct(set) /\ set.table = t /\ set.table_size = n /\ set.entries = e
  <2>1. /\ t \in [0..(n - 1) -> Seq(Value)] /\ n \in Nat \ { 0 } /\ e \in Nat
        /\ p \in Nat \ { 0 }
    BY DEF Holding
  <2> QED
    BY ONLY <2>1, IsStruct
<1> HIDE DEF set
<1>2. Stored(set) = S
  <2>1. \A v : v \in Stored(set) <=>
          \E c \in 0..(set.table_size - 1) : \E i \in DOMAIN set.table[c] : set.table[c][i] = v
    BY ONLY <1>1, StoredIs
  <2>2. \A v : v \in Stored(set) <=>
          \E c \in 0..(n - 1) : \E i \in DOMAIN t[c] : t[c][i] = v
    BY ONLY <1>1, <2>1
  <2>3. \A v : v \in S <=> \E c \in 0..(n - 1) : \E i \in DOMAIN t[c] : t[c][i] = v
    BY DEF Holding
  <2>4. \A v : v \in Stored(set) <=> v \in S
    BY ONLY <2>2, <2>3
  <2> QED
    BY ONLY <2>4
<1>3. DOMAIN set.table = 0..(n - 1)
  BY <1>1 DEF Holding
<1>4. Chained(set)
  BY <1>1, <1>2, <1>3 DEF Chained, index, Holding
<1> QED
  BY <1>1, <1>2, <1>4 DEF Good, set

LEMMA GoodHolds ==
  ASSUME NEW set, Good(set)
  PROVE  /\ Holding(set.table, set.table_size, Stored(set))
         /\ set.table_size \in Nat \ { 0 } /\ set.entries \in Nat
         /\ set.prime_index \in Nat \ { 0 }
         /\ set = Made(set.table, set.table_size, set.entries, set.prime_index)
         /\ IsFiniteSet(Stored(set)) /\ set.entries = Cardinality(Stored(set))
         /\ set # NoSet
<1>1. Struct(set) /\ Chained(set) /\ IsFiniteSet(Stored(set))
  BY DEF Good
<1>2. /\ set.table_size \in Nat \ { 0 } /\ set.entries \in Nat
      /\ set.prime_index \in Nat \ { 0 }
      /\ set = Made(set.table, set.table_size, set.entries, set.prime_index)
      /\ set.table \in [0..(set.table_size - 1) -> Seq(Value)]
      /\ set # NoSet
  BY <1>1, Fields DEF Made
<1>3. DOMAIN set.table = 0..(set.table_size - 1)
  BY <1>2
<1>4. Holding(set.table, set.table_size, Stored(set))
  BY <1>1, <1>2, <1>3, StoredIs DEF Holding, Chained, index
<1> QED
  BY <1>1, <1>2, <1>4 DEF Chained

LEMMA EmptyGood ==
  Good(EmptySet) /\ Stored(EmptySet) = {} /\ EmptySet # NoSet
<1>1. Primes[1] \in Nat \ { 0 }
  BY PrimesAssumption
<1>2. NoEntries(Primes[1]) \in [0..(Primes[1] - 1) -> Seq(Value)]
  BY DEF NoEntries
<1>3. \A c \in 0..(Primes[1] - 1) : NoEntries(Primes[1])[c] = << >>
  BY DEF NoEntries
<1>4. IsFiniteSet({}) /\ 0 = Cardinality({})
  BY FS_EmptySet
<1>5. \A c \in 0..(Primes[1] - 1) : DOMAIN NoEntries(Primes[1])[c] = {}
  BY <1>3
<1>6. Good(EmptySet) /\ Stored(EmptySet) = {}
  <2> DEFINE n == Primes[1]
             t == NoEntries(Primes[1])
  <2>1. EmptySet = Made(t, n, 0, 1)
    BY DEF EmptySet, Made
  <2>2. \A c \in 0..(n - 1) : DOMAIN t[c] = {}
    BY <1>5
  <2>3. n \in Nat \ { 0 } /\ t \in [0..(n - 1) -> Seq(Value)]
    BY <1>1, <1>2
  <2> HIDE DEF n, t
  <2>4. Holding(t, n, {})
    BY <2>2, <2>3 DEF Holding
  <2>6. Good(Made(t, n, 0, 1)) /\ Stored(Made(t, n, 0, 1)) = {}
    BY <2>3, <2>4, <1>4, IsGood
  <2> QED
    BY <2>1, <2>6
<1> QED
  BY <1>6, Fields DEF Good

\* Enlarging keeps the values.
LEMMA EnlargedIs ==
  ASSUME NEW set, Good(set), Full(set)
  PROVE  Good(Enlarged(set)) /\ Stored(Enlarged(set)) = Stored(set)
<1> DEFINE n == NewSize(set)
           t == [c \in 0..(n - 1) |-> Relinked(set, n, c)]
<1>1. /\ Struct(set) /\ set.entries \in Nat /\ set.prime_index \in Nat \ { 0 }
      /\ set = [table |-> set.table, table_size |-> set.table_size,
                entries |-> set.entries, prime_index |-> set.prime_index]
      /\ n \in Nat \ { 0 }
  BY Fields, NewSizeIs DEF Good
<1>2. t \in [0..(n - 1) -> Seq(Value)]
  BY RelinkedIs
<1>3. Enlarged(set) = Made(t, n, set.entries, set.prime_index + 1)
  <2>1. Enlarged(set) = [set EXCEPT !.prime_index = @ + 1, !.table_size = n, !.table = t]
    BY DEF Enlarged
  <2> HIDE DEF t, n
  <2> DEFINE table == set.table
             table_size == set.table_size
             entries == set.entries
             prime_index == set.prime_index
  <2>2. set = [table |-> table, table_size |-> table_size, entries |-> entries,
               prime_index |-> prime_index]
    BY <1>1
  <2>3. Enlarged(set) = [set EXCEPT !.prime_index = prime_index + 1, !.table_size = n, !.table = t]
    BY <2>1
  <2> HIDE DEF table, table_size, entries, prime_index
  <2>4. Enlarged(set) = [table |-> t, table_size |-> n, entries |-> entries,
                         prime_index |-> prime_index + 1]
    BY <2>2, <2>3
  <2> QED
    BY <2>4 DEF Made, entries, prime_index
<1>4. \A c \in 0..(n - 1) : ToSet(t[c]) = Rehashed(set, n, c)
  BY RelinkedIs
<1>5. \A c \in 0..(n - 1) : \A i, j \in DOMAIN t[c] : t[c][i] = t[c][j] => i = j
  BY RelinkedIs
<1> HIDE DEF t, n
<1>6. \A c \in 0..(n - 1) : \A i \in DOMAIN t[c] : t[c][i] \in Rehashed(set, n, c)
  BY <1>4 DEF ToSet
<1>7. \A c \in 0..(n - 1) : \A i \in DOMAIN t[c] : t[c][i] \in Stored(set) /\ Hash[t[c][i]] % n = c
  BY <1>6 DEF Rehashed
<1>8. ASSUME NEW v \in Stored(set)
      PROVE  \E c \in 0..(n - 1) : \E i \in DOMAIN t[c] : t[c][i] = v
  <2>1. v \in Value
    BY <1>1, StoredIs
  <2>2. Hash[v] % n \in 0..(n - 1)
    BY <2>1, <1>1, IndexIn
  <2>3. v \in ToSet(t[Hash[v] % n])
    BY <2>2, <1>4 DEF Rehashed
  <2> QED
    BY <2>2, <2>3 DEF ToSet
<1>9. \A c \in 0..(n - 1) : \A i, j \in DOMAIN t[c] : Key[t[c][i]] = Key[t[c][j]] => i = j
  BY <1>5, <1>7, KeysDiffer
<1>10. \A v : v \in Stored(set) <=> \E c \in 0..(n - 1) : \E i \in DOMAIN t[c] : t[c][i] = v
  BY <1>7, <1>8
<1>11. IsFiniteSet(Stored(set)) /\ set.entries = Cardinality(Stored(set))
  BY DEF Good, Chained
<1>12. set.prime_index + 1 \in Nat \ { 0 }
  BY <1>1
<1>13. \A c \in 0..(n - 1) : \A i \in DOMAIN t[c] : Hash[t[c][i]] % n = c
  BY <1>7
<1>14. Holding(t, n, Stored(set))
  BY <1>2, <1>9, <1>10, <1>13 DEF Holding
<1>15. /\ Good(Made(t, n, set.entries, set.prime_index + 1))
       /\ Stored(Made(t, n, set.entries, set.prime_index + 1)) = Stored(set)
  BY <1>1, <1>11, <1>12, <1>14, IsGood
<1> QED
  BY <1>3, <1>15


-----------------------------------------------------------------------------
(***************************************************************************)
(* One value more or less.                                                 *)
(***************************************************************************)
LEMMA AddedIs ==
  ASSUME NEW set, Good(set), NEW v \in Value, \A u \in Stored(set) : Key[u] # Key[v]
  PROVE  Good(Added(set, v)) /\ Stored(Added(set, v)) = Stored(set) \cup { v }
<1> DEFINE n == set.table_size
           old == set.table
           i == index(set, v)
           t == [old EXCEPT ![i] = << v >> \o old[i]]
           S == Stored(set)
<1>1. /\ Holding(old, n, S) /\ n \in Nat \ { 0 } /\ set.entries \in Nat
      /\ set.prime_index \in Nat \ { 0 }
      /\ set = Made(old, n, set.entries, set.prime_index)
      /\ IsFiniteSet(S) /\ set.entries = Cardinality(S)
  BY GoodHolds
<1>2. i \in 0..(n - 1) /\ Hash[v] % n = i
  BY <1>1, IndexIn DEF index
<1>3. Added(set, v) = Made(t, n, set.entries + 1, set.prime_index)
  <2> DEFINE entries == set.entries
             prime_index == set.prime_index
  <2>1. Added(set, v) = [set EXCEPT !.table = t, !.entries = entries + 1]
    BY DEF Added
  <2>2. set = Made(old, n, entries, prime_index)
    BY <1>1
  <2> HIDE DEF t, old, n, entries, prime_index
  <2>3. Added(set, v) = Made(t, n, entries + 1, prime_index)
    BY <2>1, <2>2 DEF Made
  <2> QED
    BY <2>3 DEF entries, prime_index
<1>4. old \in [0..(n - 1) -> Seq(Value)]
  BY <1>1 DEF Holding
<1> DEFINE chain == old[i]
           new == << v >> \o chain
<1>5. chain \in Seq(Value)
  BY <1>2, <1>4
<1>6. /\ new \in Seq(Value) /\ 1 \in DOMAIN new /\ new[1] = v
      /\ \A p \in DOMAIN chain : p + 1 \in DOMAIN new /\ new[p + 1] = chain[p]
      /\ \A p \in DOMAIN new : p # 1 => p - 1 \in DOMAIN chain /\ new[p] = chain[p - 1]
  <2>1. 1 \in 1..(Len(chain) + 1)
    BY <1>5
  <2> HIDE DEF chain
  <2> QED
    BY <2>1, <1>5, HeadedIs
<1>7. /\ t \in [0..(n - 1) -> Seq(Value)] /\ t[i] = new
      /\ \A c \in 0..(n - 1) : c # i => t[c] = old[c]
  <2> HIDE DEF new, n, i
  <2>1. t = [old EXCEPT ![i] = new]
    BY DEF new
  <2>2. new \in Seq(Value) /\ i \in 0..(n - 1) /\ old \in [0..(n - 1) -> Seq(Value)]
    BY <1>2, <1>4, <1>6
  <2> HIDE DEF t, old
  <2> QED
    BY ONLY <2>1, <2>2
<1>8. /\ \A u : u \in S <=> \E c \in 0..(n - 1) : \E p \in DOMAIN old[c] : old[c][p] = u
      /\ \A c \in 0..(n - 1) : \A p \in DOMAIN old[c] : Hash[old[c][p]] % n = c
      /\ \A c \in 0..(n - 1) : \A p, q \in DOMAIN old[c] : Key[old[c][p]] = Key[old[c][q]] => p = q
  BY <1>1 DEF Holding
<1>9. \A u \in S : Key[u] # Key[v]
  OBVIOUS
<1>10. \A p \in DOMAIN new : p \in Nat
  BY <1>6
<1> HIDE DEF S, n, t, old, i, new
<1>11. DOMAIN old[i] = DOMAIN chain
  OBVIOUS
<1>12. \A p \in DOMAIN chain : chain[p] \in S /\ Hash[chain[p]] % n = i
  BY <1>2, <1>8
<1>13. \A p \in DOMAIN new : new[p] = v \/ (p # 1 /\ new[p] \in S /\ Hash[new[p]] % n = i)
  <2> HIDE DEF chain
  <2> QED
    BY <1>6, <1>12
<1>14. ASSUME NEW u
       PROVE  u \in S \cup { v } <=>
                \E c \in 0..(n - 1) : \E p \in DOMAIN t[c] : t[c][p] = u
  <2>1. ASSUME u \in S PROVE \E c \in 0..(n - 1) : \E p \in DOMAIN t[c] : t[c][p] = u
    <3>1. PICK c \in 0..(n - 1) : \E p \in DOMAIN old[c] : old[c][p] = u
      BY <2>1, <1>8
    <3>2. PICK p \in DOMAIN old[c] : old[c][p] = u
      BY <3>1
    <3>3. CASE c # i
      BY <3>2, <3>3, <1>7
    <3>4. CASE c = i
      BY <3>2, <3>4, <1>7, <1>6, <1>2
    <3> QED
      BY <3>3, <3>4
  <2>2. ASSUME u = v PROVE \E c \in 0..(n - 1) : \E p \in DOMAIN t[c] : t[c][p] = u
    BY <2>2, <1>2, <1>6, <1>7
  <2>3. ASSUME NEW c \in 0..(n - 1), NEW p \in DOMAIN t[c]
        PROVE  t[c][p] \in S \cup { v }
    <3>1. CASE c # i
      BY <3>1, <1>7, <1>8
    <3>2. CASE c = i
      BY <3>2, <1>7, <1>13
    <3> QED
      BY <3>1, <3>2
  <2> QED
    BY <2>1, <2>2, <2>3
<1>15. ASSUME NEW c \in 0..(n - 1), NEW p \in DOMAIN t[c]
       PROVE  Hash[t[c][p]] % n = c
  <2>1. CASE c # i
    <3>1. t[c] = old[c] /\ p \in DOMAIN old[c]
      BY <2>1, <1>7
    <3> QED
      BY <3>1, <1>8
  <2>2. CASE c = i
    BY <2>2, <1>2, <1>7, <1>13
  <2> QED
    BY <2>1, <2>2
<1>16. ASSUME NEW c \in 0..(n - 1), NEW p \in DOMAIN t[c], NEW q \in DOMAIN t[c],
              Key[t[c][p]] = Key[t[c][q]]
       PROVE  p = q
  <2>1. CASE c # i
    <3>1. t[c] = old[c] /\ p \in DOMAIN old[c] /\ q \in DOMAIN old[c]
      BY <2>1, <1>7
    <3> QED
      BY <3>1, <1>8, <1>16
  <2>2. CASE c = i
    <3>1. p \in DOMAIN new /\ q \in DOMAIN new /\ Key[new[p]] = Key[new[q]]
      BY <2>2, <1>7, <1>16
    <3>2. CASE p = 1 /\ q = 1
      BY <3>2
    <3>3. CASE p = 1 /\ q # 1
      <4>1. new[q] \in S /\ new[p] = v
        BY <3>1, <3>3, <1>6, <1>12
      <4> QED
        BY <4>1, <3>1, <1>9
    <3>4. CASE p # 1 /\ q = 1
      <4>1. new[p] \in S /\ new[q] = v
        BY <3>1, <3>4, <1>6, <1>12
      <4> QED
        BY <4>1, <3>1, <1>9
    <3>5. CASE p # 1 /\ q # 1
      <4>1. /\ p - 1 \in DOMAIN chain /\ q - 1 \in DOMAIN chain
            /\ Key[chain[p - 1]] = Key[chain[q - 1]]
        BY <3>1, <3>5, <1>6
      <4>2. p - 1 = q - 1
        BY <4>1, <1>2, <1>8
      <4> QED
        BY <4>2, <3>1, <1>10
    <3> QED
      BY <3>2, <3>3, <3>4, <3>5
  <2> QED
    BY <2>1, <2>2
<1>17. IsFiniteSet(S \cup { v }) /\ Cardinality(S \cup { v }) = set.entries + 1
  BY <1>1, <1>9, FS_AddElement
<1>18. Holding(t, n, S \cup { v })
  BY <1>7, <1>14, <1>15, <1>16 DEF Holding
<1>19. /\ Good(Made(t, n, set.entries + 1, set.prime_index))
       /\ Stored(Made(t, n, set.entries + 1, set.prime_index)) = S \cup { v }
  BY <1>1, <1>17, <1>18, IsGood
<1> QED
  BY <1>3, <1>19 DEF S


LEMMA RemovedIs ==
  ASSUME NEW set, Good(set), NEW v \in Value, NEW p \in Places(set, v)
  PROVE  /\ Good(Removed(set, v, p))
         /\ set.table[index(set, v)][p] \in Stored(set)
         /\ Key[set.table[index(set, v)][p]] = Key[v]
         /\ Stored(Removed(set, v, p)) = Stored(set) \ { set.table[index(set, v)][p] }
<1> DEFINE n == set.table_size
           old == set.table
           i == index(set, v)
           chain == old[i]
           gone == chain[p]
           new == RemoveAt(chain, p)
           t == [old EXCEPT ![i] = new]
           S == Stored(set)
<1>1. /\ Holding(old, n, S) /\ n \in Nat \ { 0 } /\ set.entries \in Nat
      /\ set.prime_index \in Nat \ { 0 }
      /\ set = Made(old, n, set.entries, set.prime_index)
      /\ IsFiniteSet(S) /\ set.entries = Cardinality(S)
  BY GoodHolds
<1>2. i \in 0..(n - 1) /\ p \in DOMAIN chain /\ gone \in S /\ Key[gone] = Key[v]
  BY PlacesIs
<1>3. Removed(set, v, p) = Made(t, n, set.entries - 1, set.prime_index)
  <2> DEFINE entries == set.entries
             prime_index == set.prime_index
  <2>1. Removed(set, v, p) = [set EXCEPT !.table = t, !.entries = entries - 1]
    BY DEF Removed
  <2>2. set = Made(old, n, entries, prime_index)
    BY <1>1
  <2> HIDE DEF t, old, n, entries, prime_index
  <2>3. Removed(set, v, p) = Made(t, n, entries - 1, prime_index)
    BY <2>1, <2>2 DEF Made
  <2> QED
    BY <2>3 DEF entries, prime_index
<1>4. old \in [0..(n - 1) -> Seq(Value)]
  BY <1>1 DEF Holding
<1>5. chain \in Seq(Value)
  BY <1>2, <1>4
<1>6. /\ new \in Seq(Value)
      /\ \A k \in DOMAIN chain : k # p => \E j \in DOMAIN new : new[j] = chain[k]
      /\ \A j \in DOMAIN new : \E k \in DOMAIN chain :
           k # p /\ k = (IF j < p THEN j ELSE j + 1) /\ new[j] = chain[k]
  <2>1. chain \in Seq(Value) /\ p \in DOMAIN chain
    BY <1>2, <1>5
  <2> HIDE DEF chain
  <2> QED
    BY ONLY <2>1, RemainderIs DEF new
<1>7. /\ t \in [0..(n - 1) -> Seq(Value)] /\ t[i] = new
      /\ \A c \in 0..(n - 1) : c # i => t[c] = old[c]
  <2>1. t = [old EXCEPT ![i] = new]
    OBVIOUS
  <2>2. new \in Seq(Value) /\ i \in 0..(n - 1) /\ old \in [0..(n - 1) -> Seq(Value)]
    BY <1>2, <1>4, <1>6
  <2> HIDE DEF t, old, new, n, i
  <2> QED
    BY ONLY <2>1, <2>2
<1>8. /\ \A u : u \in S <=> \E c \in 0..(n - 1) : \E q \in DOMAIN old[c] : old[c][q] = u
      /\ \A c \in 0..(n - 1) : \A q \in DOMAIN old[c] : Hash[old[c][q]] % n = c
      /\ \A c \in 0..(n - 1) : \A q, r \in DOMAIN old[c] : Key[old[c][q]] = Key[old[c][r]] => q = r
  BY <1>1 DEF Holding
<1>10. /\ p \in Nat /\ \A j \in DOMAIN new : j \in Nat
       /\ \A j \in DOMAIN chain : j \in Nat
  <2>1. chain \in Seq(Value) /\ p \in DOMAIN chain /\ new \in Seq(Value)
    BY <1>2, <1>5, <1>6
  <2> HIDE DEF chain, new
  <2> QED
    BY ONLY <2>1
<1>11. old[i] = chain /\ gone = chain[p]
  OBVIOUS
<1> HIDE DEF S, n, t, old, i, new, chain, gone
<1>12. ASSUME NEW c \in 0..(n - 1), NEW q \in DOMAIN old[c], old[c][q] = gone
       PROVE  c = i /\ q = p
  <2>1. Hash[old[c][q]] % n = c /\ Hash[gone] % n = i
    BY <1>2, <1>8, <1>11
  <2>2. c = i
    BY <2>1, <1>12
  <2> QED
    BY <2>2, <1>2, <1>8, <1>11, <1>12
<1>13. \A j \in DOMAIN new : \E k \in DOMAIN chain : k # p /\ new[j] = chain[k]
  BY <1>6
<1>14. ASSUME NEW u
       PROVE  u \in S \ { gone } <=>
                \E c \in 0..(n - 1) : \E q \in DOMAIN t[c] : t[c][q] = u
  <2>1. ASSUME u \in S, u # gone PROVE \E c \in 0..(n - 1) : \E q \in DOMAIN t[c] : t[c][q] = u
    <3>1. PICK c \in 0..(n - 1) : \E q \in DOMAIN old[c] : old[c][q] = u
      BY <2>1, <1>8
    <3>2. PICK q \in DOMAIN old[c] : old[c][q] = u
      BY <3>1
    <3>3. CASE c # i
      BY <3>2, <3>3, <1>7
    <3>4. CASE c = i
      <4>1. q \in DOMAIN chain /\ chain[q] = u /\ q # p
        BY <3>2, <3>4, <2>1, <1>11
      <4>2. \E j \in DOMAIN new : new[j] = u
        BY <4>1, <1>6
      <4> QED
        BY <4>2, <1>2, <1>7
    <3> QED
      BY <3>3, <3>4
  <2>3. ASSUME NEW c \in 0..(n - 1), NEW q \in DOMAIN t[c]
        PROVE  t[c][q] \in S /\ t[c][q] # gone
    <3>1. CASE c # i
      <4>1. t[c] = old[c] /\ q \in DOMAIN old[c]
        BY <3>1, <1>7
      <4> QED
        BY <4>1, <3>1, <1>8, <1>12
    <3>2. CASE c = i
      <4>1. t[c] = new /\ q \in DOMAIN new
        BY <3>2, <1>7
      <4>2. PICK k \in DOMAIN chain : k # p /\ new[q] = chain[k]
        BY <4>1, <1>13
      <4>3. chain[k] \in S /\ chain[k] # gone
        BY <4>2, <1>2, <1>8, <1>11, <1>12
      <4> QED
        BY <4>1, <4>2, <4>3
    <3> QED
      BY <3>1, <3>2
  <2> QED
    BY <2>1, <2>3
<1>15. ASSUME NEW c \in 0..(n - 1), NEW q \in DOMAIN t[c]
       PROVE  Hash[t[c][q]] % n = c
  <2>1. CASE c # i
    <3>1. t[c] = old[c] /\ q \in DOMAIN old[c]
      BY <2>1, <1>7
    <3> QED
      BY <3>1, <1>8
  <2>2. CASE c = i
    <3>1. t[c] = new /\ q \in DOMAIN new
      BY <2>2, <1>7
    <3>2. PICK k \in DOMAIN chain : k # p /\ new[q] = chain[k]
      BY <3>1, <1>13
    <3> QED
      BY <3>1, <3>2, <2>2, <1>2, <1>8, <1>11
  <2> QED
    BY <2>1, <2>2
<1>16. ASSUME NEW c \in 0..(n - 1), NEW q \in DOMAIN t[c], NEW r \in DOMAIN t[c],
              Key[t[c][q]] = Key[t[c][r]]
       PROVE  q = r
  <2>1. CASE c # i
    <3>1. t[c] = old[c] /\ q \in DOMAIN old[c] /\ r \in DOMAIN old[c]
      BY <2>1, <1>7
    <3> QED
      BY <3>1, <1>8, <1>16
  <2>2. CASE c = i
    <3>1. t[c] = new /\ q \in DOMAIN new /\ r \in DOMAIN new /\ q \in Nat /\ r \in Nat
      BY <2>2, <1>7, <1>10
    <3>2. PICK k \in DOMAIN chain : k = (IF q < p THEN q ELSE q + 1) /\ k # p /\ new[q] = chain[k]
      BY <3>1, <1>6
    <3>3. PICK l \in DOMAIN chain : l = (IF r < p THEN r ELSE r + 1) /\ l # p /\ new[r] = chain[l]
      BY <3>1, <1>6
    <3>4. Key[chain[k]] = Key[chain[l]]
      BY <3>1, <3>2, <3>3, <1>16
    <3>5. k = l
      BY <3>4, <1>2, <1>8, <1>11
    <3> QED
      BY <3>1, <3>2, <3>3, <3>5, <1>10
  <2> QED
    BY <2>1, <2>2
<1>17. IsFiniteSet(S \ { gone }) /\ Cardinality(S \ { gone }) = set.entries - 1
  BY <1>1, <1>2, FS_RemoveElement
<1>18. Holding(t, n, S \ { gone })
  BY <1>7, <1>14, <1>15, <1>16 DEF Holding
<1>19. set.entries - 1 \in Nat
  BY <1>17, FS_CardinalityType
<1>20. /\ Good(Made(t, n, set.entries - 1, set.prime_index))
       /\ Stored(Made(t, n, set.entries - 1, set.prime_index)) = S \ { gone }
  BY <1>1, <1>17, <1>18, <1>19, IsGood
<1> QED
  BY <1>2, <1>3, <1>20 DEF S, gone, chain, old, i


-----------------------------------------------------------------------------
(***************************************************************************)
(* set_insert: what it returns says whether the value is now in the set.   *)
(***************************************************************************)
Expected(set, v, out) ==
  /\ Good(out.set) /\ out.ok \in BOOLEAN /\ out.oom \in BOOLEAN
  /\ out.ok => /\ \A u \in Stored(set) : Key[u] # Key[v]
               /\ Stored(out.set) = Stored(set) \cup { v }
  /\ ~ out.ok => Stored(out.set) = Stored(set)
  /\ ~ out.ok /\ ~ out.oom => \E u \in Stored(set) : Key[u] = Key[v]

LEMMA LinkedIs ==
  ASSUME NEW set, Good(set), NEW v \in Value, NEW out \in Linked(set, v)
  PROVE  Expected(set, v, out)
<1>1. CASE set_query(set, v)
  <2>1. out = Outcome(set, FALSE, FALSE)
    BY <1>1 DEF Linked
  <2>2. out.set = set /\ out.ok = FALSE /\ out.oom = FALSE
    BY ONLY <2>1 DEF Outcome
  <2>3. \E u \in Stored(set) : Key[u] = Key[v]
    BY <1>1, QueryIs
  <2> QED
    BY <2>2, <2>3 DEF Expected
<1>2. CASE ~ set_query(set, v)
  <2>1. out = Outcome(Added(set, v), TRUE, FALSE) \/ out = Outcome(set, FALSE, TRUE)
    BY <1>2 DEF Linked
  <2>2. \A u \in Stored(set) : Key[u] # Key[v]
    BY <1>2, QueryIs
  <2>3. Good(Added(set, v)) /\ Stored(Added(set, v)) = Stored(set) \cup { v }
    BY <2>2, AddedIs
  <2>4. CASE out = Outcome(Added(set, v), TRUE, FALSE)
    <3>1. out.set = Added(set, v) /\ out.ok = TRUE /\ out.oom = FALSE
      BY ONLY <2>4 DEF Outcome
    <3> QED
      BY <3>1, <2>2, <2>3 DEF Expected
  <2>5. CASE out = Outcome(set, FALSE, TRUE)
    <3>1. out.set = set /\ out.ok = FALSE /\ out.oom = TRUE
      BY ONLY <2>5 DEF Outcome
    <3> QED
      BY <3>1 DEF Expected
  <2> QED
    BY <2>1, <2>4, <2>5
<1> QED
  BY <1>1, <1>2

LEMMA InsertIs ==
  ASSUME NEW set, Good(set), NEW v \in Value, NEW out \in set_insert(set, v)
  PROVE  Expected(set, v, out)
<1>1. CASE ~ Full(set)
  BY <1>1, LinkedIs DEF set_insert
<1>2. CASE Full(set) /\ out = Outcome(set, FALSE, TRUE)
  <2>0. out = Outcome(set, FALSE, TRUE)
    BY <1>2
  <2>1. out.set = set /\ out.ok = FALSE /\ out.oom = TRUE
    BY ONLY <2>0 DEF Outcome
  <2> QED
    BY <2>1 DEF Expected
<1>3. CASE Full(set) /\ out \in Linked(Enlarged(set), v)
  <2>1. Good(Enlarged(set)) /\ Stored(Enlarged(set)) = Stored(set)
    BY <1>3, EnlargedIs
  <2>2. Expected(Enlarged(set), v, out)
    BY <1>3, <2>1, LinkedIs
  <2> QED
    BY <2>1, <2>2 DEF Expected
<1> QED
  BY <1>1, <1>2, <1>3 DEF set_insert


-----------------------------------------------------------------------------
(***************************************************************************)
(* The iterator.                                                           *)
(***************************************************************************)
PointsInto(set, s, it) ==
  /\ it \in [set : { s }, next_chain : Nat, next_entry : Value \cup { NULL }]
  /\ it.next_entry # NULL =>
       it.next_entry \in Stored(set) /\ it.next_chain = index(set, it.next_entry)

\* The values before the next entry, all of them at the end.
Before(set, e) == { v \in Stored(set) : e # NULL => Precedes(set, v, e) }

\* The next entry is the first in the order of the loops from a chain on.
LEMMA FirstIs ==
  ASSUME NEW s, Good(sets[s]), NEW c \in Nat
  PROVE  /\ PointsInto(sets[s], s, FirstFrom(s, c))
         /\ FirstFrom(s, c).next_entry = NULL => \A v \in Stored(sets[s]) : index(sets[s], v) < c
         /\ FirstFrom(s, c).next_entry # NULL =>
              /\ index(sets[s], FirstFrom(s, c).next_entry) >= c
              /\ \A v \in Stored(sets[s]) : index(sets[s], v) >= c =>
                   v = FirstFrom(s, c).next_entry \/ Precedes(sets[s], FirstFrom(s, c).next_entry, v)
<1> DEFINE set == sets[s]
           n == set.table_size
           table == set.table
           used == { d \in DOMAIN table : d >= c /\ table[d] # << >> }
           d == CHOOSE a \in used : \A b \in used : a <= b
           it == FirstFrom(s, c)
<1>1. /\ n \in Nat \ { 0 } /\ table \in [0..(n - 1) -> Seq(Value)]
  BY Fields DEF Good
<1>2. it = [set |-> s, next_chain |-> IF used = {} THEN n ELSE d,
            next_entry |-> IF used = {} THEN NULL ELSE Head(table[d])]
  BY DEF FirstFrom
<1> HIDE DEF it
<1>3. ASSUME NEW v \in Stored(set)
      PROVE  /\ index(set, v) \in 0..(n - 1) /\ table[index(set, v)] \in Seq(Value)
             /\ At(set, v) \in DOMAIN table[index(set, v)] /\ At(set, v) \in Nat
             /\ table[index(set, v)][At(set, v)] = v
             /\ table[index(set, v)] # << >> /\ index(set, v) \in Nat
  <2>1. /\ index(set, v) \in 0..(n - 1) /\ table[index(set, v)] \in Seq(Value)
        /\ At(set, v) \in DOMAIN table[index(set, v)] /\ At(set, v) \in Nat
        /\ table[index(set, v)][At(set, v)] = v
    BY AtIs
  <2>2. table[index(set, v)] # << >>
    BY <2>1
  <2>3. index(set, v) \in Nat
    BY <2>1
  <2> QED
    BY <2>1, <2>2, <2>3
<1>4. DOMAIN table = 0..(n - 1)
  BY <1>1
<1>5. used \in SUBSET Nat
  BY <1>4
<1>6. ASSUME NEW v \in Stored(set), index(set, v) >= c
      PROVE  index(set, v) \in used
  BY <1>3, <1>4, <1>6
<1>7. CASE used = {}
  <2>1. it = [set |-> s, next_chain |-> n, next_entry |-> NULL]
    BY <1>2, <1>7
  <2>2. it.next_entry = NULL /\ PointsInto(set, s, it)
    BY <2>1, <1>1 DEF PointsInto
  <2>3. ASSUME NEW v \in Stored(set) PROVE index(set, v) < c
    BY <1>3, <1>6, <1>7
  <2> QED
    BY <2>2, <2>3 DEF it
<1>8. CASE used # {}
  <2>1. d \in used /\ \A b \in used : d <= b
    <3> HIDE DEF used
    <3>1. \E a \in used : \A b \in used : a <= b
      BY <1>5, <1>8, LeastNatural
    <3> QED
      BY <3>1
  <2> HIDE DEF d
  <2> DEFINE e == Head(table[d])
  <2>2. d \in 0..(n - 1) /\ d >= c /\ table[d] # << >> /\ table[d] \in Seq(Value) /\ d \in Nat
    <3>1. d \in 0..(n - 1) /\ d >= c /\ table[d] # << >>
      BY <2>1, <1>4
    <3>2. table[d] \in Seq(Value) /\ d \in Nat
      BY <3>1, <1>1
    <3> QED
      BY <3>1, <3>2
  <2>3. 1 \in DOMAIN table[d] /\ e = table[d][1] /\ e \in Value
    BY <2>2
  <2>4. e \in Stored(set)
    BY <2>2, <2>3, StoredIs DEF Good
  <2>5. index(set, e) = d
    BY <2>2, <2>3, <1>4 DEF Good, Chained
  <2> HIDE DEF e
  <2>6. it = [set |-> s, next_chain |-> d, next_entry |-> e]
    BY <1>2, <1>8 DEF e
  <2>7. it.next_entry = e /\ it.next_chain = d /\ e # NULL
    BY <2>6, <2>3, NullAssumption
  <2>8. PointsInto(set, s, it)
    BY <2>2, <2>3, <2>4, <2>5, <2>6, <2>7 DEF PointsInto
  <2>9. ASSUME NEW v \in Stored(set), index(set, v) >= c
        PROVE  v = e \/ Precedes(set, e, v)
    <3>1. index(set, v) \in Nat /\ d <= index(set, v)
      BY <1>3, <1>6, <2>1, <2>9
    <3>2. CASE index(set, v) = d
      <4>1. At(set, v) \in DOMAIN table[d] /\ table[d][At(set, v)] = v /\ At(set, v) \in Nat
        BY <1>3, <3>2
      <4>2. At(set, v) = 1 \/ 1 < At(set, v)
        BY <4>1, <2>2
      <4> QED
        BY <4>1, <4>2, <2>3, <2>5, <3>2 DEF Precedes
    <3>3. CASE index(set, v) # d
      BY <3>1, <3>3, <2>2, <2>5 DEF Precedes
    <3> QED
      BY <3>2, <3>3
  <2> QED
    BY <2>2, <2>5, <2>7, <2>8, <2>9 DEF it
<1> QED
  BY <1>7, <1>8

LEMMA IterateIs ==
  ASSUME NEW s, Good(sets[s])
  PROVE  /\ PointsInto(sets[s], s, set_iterate(s))
         /\ Before(sets[s], set_iterate(s).next_entry) = {}
<1> DEFINE set == sets[s]
           it == FirstFrom(s, 0)
<1>1. /\ PointsInto(set, s, it)
      /\ it.next_entry = NULL => \A v \in Stored(set) : index(set, v) < 0
      /\ it.next_entry # NULL =>
           \A v \in Stored(set) : index(set, v) >= 0 =>
             v = it.next_entry \/ Precedes(set, it.next_entry, v)
  BY FirstIs
<1>2. set_iterate(s) = it
  BY DEF set_iterate
<1>3. ASSUME NEW v \in Stored(set) PROVE index(set, v) \in Nat
  <2>1. index(set, v) \in 0..(set.table_size - 1)
    BY AtIs
  <2> QED
    BY <2>1
<1> DEFINE e == it.next_entry
<1> HIDE DEF it
<1>4. e # NULL => e \in Stored(set)
  BY <1>1 DEF PointsInto
<1>5. ASSUME NEW v \in Stored(set), e # NULL, Precedes(set, v, e) PROVE FALSE
  <2>1. index(set, v) >= 0
    BY <1>3
  <2>2. v = e \/ Precedes(set, e, v)
    BY <1>1, <2>1, <1>5
  <2>3. e \in Stored(set)
    BY <1>4, <1>5
  <2> HIDE DEF e
  <2> QED
    BY <2>2, <2>3, <1>5, PrecedesOrders
<1>6. e = NULL => Stored(set) = {}
  <2> SUFFICES ASSUME e = NULL, NEW v \in Stored(set) PROVE FALSE
    OBVIOUS
  <2>1. index(set, v) < 0
    BY <1>1
  <2> QED
    BY <2>1, <1>3
<1>7. Before(set, e) = {}
  BY <1>5, <1>6 DEF Before
<1> QED
  BY <1>1, <1>2, <1>7

\* set_iter_next goes to the next value in the order of the loops.
LEMMA NextEntryIs ==
  ASSUME NEW s, iterator.set = s, Good(sets[s]), PointsInto(sets[s], s, iterator),
         set_iter_has_more
  PROVE  /\ PointsInto(sets[s], s, set_iter_next)
         /\ iterator.next_entry \in Stored(sets[s])
         /\ set_iter_next.next_entry # iterator.next_entry
         /\ Before(sets[s], set_iter_next.next_entry)
              = Before(sets[s], iterator.next_entry) \cup { iterator.next_entry }
<1> DEFINE set == sets[s]
           e == iterator.next_entry
           i == iterator.next_chain
           chain == set.table[i]
           a == At(set, e)
           it == set_iter_next
           f == it.next_entry
<1>1. /\ e \in Stored(set) /\ i = index(set, e) /\ e # NULL
      /\ iterator = [set |-> s, next_chain |-> i, next_entry |-> e] /\ i \in Nat
  BY DEF PointsInto, set_iter_has_more
<1>2. /\ i \in 0..(set.table_size - 1) /\ chain \in Seq(Value)
      /\ a \in DOMAIN chain /\ a \in Nat /\ chain[a] = e
      /\ \A p \in DOMAIN chain : chain[p] = e => p = a
  BY <1>1, AtIs
<1>3. (CHOOSE p \in DOMAIN chain : chain[p] = e) = a
  BY <1>1 DEF At
<1>4. it = IF a < Len(chain) THEN [iterator EXCEPT !.next_entry = chain[a + 1]]
           ELSE FirstFrom(s, i + 1)
  <2> DEFINE p == CHOOSE p \in DOMAIN chain : chain[p] = e
  <2>1. it = IF p < Len(chain) THEN [iterator EXCEPT !.next_entry = chain[p + 1]]
             ELSE FirstFrom(s, i + 1)
    BY ONLY iterator.set = s DEF set_iter_next
  <2>2. p = a
    BY <1>3
  <2> HIDE DEF p, a, it, chain
  <2> QED
    BY ONLY <2>1, <2>2
<1>5. /\ \A u \in Stored(set) : ~ Precedes(set, u, u)
      /\ \A u, v \in Stored(set) : u # v => Precedes(set, u, v) \/ Precedes(set, v, u)
      /\ \A u, v, w \in Stored(set) :
           Precedes(set, u, v) /\ Precedes(set, v, w) => Precedes(set, u, w)
  BY PrecedesOrders
<1>6. \A u, v \in Stored(set) :
        /\ Precedes(set, u, v) <=>
             \/ index(set, u) < index(set, v)
             \/ index(set, u) = index(set, v) /\ At(set, u) < At(set, v)
  BY PrecedesIs
<1>7. ASSUME NEW v \in Stored(set)
      PROVE  /\ index(set, v) \in Nat /\ At(set, v) \in Nat
             /\ At(set, v) \in DOMAIN set.table[index(set, v)]
             /\ set.table[index(set, v)][At(set, v)] = v
  <2>1. index(set, v) \in 0..(set.table_size - 1)
    BY AtIs
  <2> QED
    BY <2>1, AtIs
<1> HIDE DEF it, a
<1>8. PointsInto(set, s, it) /\
      (f = NULL => \A v \in Stored(set) : v = e \/ Precedes(set, v, e)) /\
      (f # NULL => /\ Precedes(set, e, f)
                   /\ \A v \in Stored(set) : v = e \/ Precedes(set, v, e) \/ v = f \/ Precedes(set, f, v))
  <2>1. CASE a < Len(chain)
    <3> DEFINE g == chain[a + 1]
    <3>1. a + 1 \in DOMAIN chain /\ g \in Value
      BY <2>1, <1>2
    <3>2. g \in Stored(set)
      BY <3>1, <1>2, StoredIs DEF Good
    <3>3. index(set, g) = i
      <4>1. DOMAIN set.table = 0..(set.table_size - 1)
        BY Fields DEF Good
      <4> QED
        BY <4>1, <3>1, <1>2 DEF Good, Chained
    <3>4. At(set, g) = a + 1
      BY <3>1, <3>2, <3>3, AtIs
    <3> HIDE DEF g
    <3>5. it = [set |-> s, next_chain |-> i, next_entry |-> g]
      <4> HIDE DEF i, e
      <4> QED
        BY <2>1, <1>4, <1>1 DEF g
    <3>6. f = g /\ it.next_chain = i /\ g # NULL
      BY <3>1, <3>5, NullAssumption
    <3>7. PointsInto(set, s, it)
      BY <3>1, <3>2, <3>3, <3>5, <3>6, <1>1 DEF PointsInto
    <3>8. Precedes(set, e, g)
      BY <3>1, <3>2, <3>3, <3>4, <1>1, <1>2, <1>6 DEF a
    <3>9. ASSUME NEW v \in Stored(set)
          PROVE  v = e \/ Precedes(set, v, e) \/ v = g \/ Precedes(set, g, v)
      <4>1. CASE index(set, v) < i
        BY <4>1, <1>1, <1>6
      <4>2. CASE index(set, v) > i
        BY <4>2, <3>2, <3>3, <1>6, <1>7, <1>1
      <4>3. CASE index(set, v) = i
        <5>1. At(set, v) < a \/ At(set, v) = a \/ At(set, v) = a + 1 \/ At(set, v) > a + 1
          <6> DEFINE b == At(set, v)
          <6>1. b \in Nat /\ a \in Nat
            BY <1>2, <1>7
          <6> HIDE DEF b
          <6>2. b < a \/ b = a \/ b = a + 1 \/ b > a + 1
            BY ONLY <6>1
          <6> QED
            BY <6>2 DEF b
        <5>2. At(set, v) < a => Precedes(set, v, e)
          BY <4>3, <1>1, <1>6 DEF a
        <5>3. At(set, v) = a => v = e
          BY <4>3, <1>2, <1>7
        <5>4. At(set, v) = a + 1 => v = g
          BY <4>3, <1>7 DEF g
        <5>5. At(set, v) > a + 1 => Precedes(set, g, v)
          BY <4>3, <3>2, <3>3, <3>4, <1>2, <1>6, <1>7
        <5> QED
          BY <5>1, <5>2, <5>3, <5>4, <5>5
      <4> QED
        BY <4>1, <4>2, <4>3, <1>7, <1>1
    <3> QED
      BY <3>6, <3>7, <3>8, <3>9
  <2>2. CASE ~ (a < Len(chain))
    <3>1. it = FirstFrom(s, i + 1)
      BY <2>2, <1>4
    <3>2. i + 1 \in Nat
      BY <1>1
    <3>3. /\ PointsInto(set, s, it)
          /\ f = NULL => \A v \in Stored(set) : index(set, v) < i + 1
          /\ f # NULL =>
               /\ index(set, f) >= i + 1
               /\ \A v \in Stored(set) : index(set, v) >= i + 1 => v = f \/ Precedes(set, f, v)
      BY <3>1, <3>2, FirstIs
    <3>4. ASSUME NEW v \in Stored(set), index(set, v) < i + 1
          PROVE  v = e \/ Precedes(set, v, e)
      <4>1. CASE index(set, v) < i
        BY <4>1, <1>1, <1>6
      <4>2. CASE index(set, v) = i
        <5>1. At(set, v) < a \/ At(set, v) = a
          BY <4>2, <2>2, <1>2, <1>7
        <5>2. At(set, v) < a => Precedes(set, v, e)
          BY <4>2, <1>1, <1>6 DEF a
        <5>3. At(set, v) = a => v = e
          BY <4>2, <1>2, <1>7
        <5> QED
          BY <5>1, <5>2, <5>3
      <4> QED
        BY <4>1, <4>2, <3>4, <1>7, <1>1
    <3>5. f # NULL => f \in Stored(set)
      BY <3>3 DEF PointsInto
    <3>6. f # NULL => Precedes(set, e, f)
      BY <3>3, <3>5, <1>1, <1>6, <1>7
    <3> QED
      BY <3>3, <3>4, <3>6, <1>7, <1>1
  <2> QED
    BY <2>1, <2>2
<1>9. f # NULL => f \in Stored(set)
  BY <1>8 DEF PointsInto
<1> HIDE DEF f, e, set
<1>10. f # e
  BY <1>1, <1>5, <1>8
<1>11. Before(set, f) = Before(set, e) \cup { e }
  <2>1. CASE f = NULL
    BY <2>1, <1>1, <1>8 DEF Before
  <2>2. CASE f # NULL
    <3>1. ASSUME NEW v \in Stored(set)
          PROVE  Precedes(set, v, f) <=> v = e \/ Precedes(set, v, e)
      <4>1. v = f => ~ Precedes(set, v, f)
        BY <1>5
      <4>2. Precedes(set, f, v) => ~ Precedes(set, v, f)
        BY <2>2, <1>5, <1>9
      <4>3. Precedes(set, v, e) => Precedes(set, v, f)
        BY <2>2, <1>1, <1>5, <1>8, <1>9
      <4> QED
        BY <4>1, <4>2, <4>3, <2>2, <1>8
    <3> QED
      BY <3>1, <2>2, <1>1 DEF Before
  <2> QED
    BY <2>1, <2>2
<1> QED
  BY <1>1, <1>8, <1>10, <1>11 DEF f, e, set, it


-----------------------------------------------------------------------------
(***************************************************************************)
(* The invariant, one action at a time.                                    *)
(***************************************************************************)
LEMMA Kinds ==
  /\ NULL \notin Value /\ NULL # TRUE /\ NULL # FALSE
  /\ TRUE \notin Value /\ FALSE \notin Value /\ \A b \in BOOLEAN : b \notin Value
  /\ \A values \in SUBSET Value : values # NULL
<1>1. NULL \notin BOOLEAN /\ Value \cap BOOLEAN = {}
  BY NullAssumption
<1>2. TRUE \in BOOLEAN /\ FALSE \in BOOLEAN
  OBVIOUS
<1> QED
  BY <1>1, <1>2, NullAssumption


Scalars ==
  /\ pc \in { "ready", "iterate", "union1", "union2", "intersect" }
  /\ owners \subseteq Names /\ freed \subseteq Value /\ given \subseteq Value
  /\ oom \in BOOLEAN /\ result \in BOOLEAN \cup Value \cup { NULL }
  /\ DOMAIN sets = Names

AllGood == \A s \in Live : Good(sets[s])

LEMMA Parts ==
  ASSUME IInv
  PROVE  Scalars /\ AllGood /\ Positioned /\ Returned /\ Owned /\ HalfMade
BY DEF IInv, TypeOK, Scalars, AllGood

LEMMA PartsPrime ==
  ASSUME Scalars', AllGood', Positioned', Returned', Owned', HalfMade'
  PROVE  IInv'
<1>1. TypeOK'
  BY DEF Scalars, AllGood, TypeOK, Good
<1> QED
  BY <1>1 DEF IInv, AllGood

\* Between calls only the values and their owners matter.
LEMMA ReadyPrime ==
  ASSUME Scalars', AllGood', Owned', pc' = "ready", result' \notin Value
  PROVE  IInv'
<1>1. Positioned' /\ Returned' /\ HalfMade'
  BY DEF Positioned, Returned, HalfMade
<1> QED
  BY <1>1, PartsPrime

\* One of the sets is replaced.
LEMMA PutIs ==
  ASSUME DOMAIN sets = Names, NEW s \in Names, NEW x, sets' = [sets EXCEPT ![s] = x]
  PROVE  /\ DOMAIN sets' = Names /\ sets'[s] = x
         /\ \A t \in Names : t # s => sets'[t] = sets[t]
         /\ x # NoSet => Live' = Live \cup { s }
         /\ x = NoSet => Live' = Live \ { s }
<1>1. DOMAIN sets' = Names /\ sets'[s] = x /\ \A t \in Names : t # s => sets'[t] = sets[t]
  OBVIOUS
<1> QED
  BY <1>1 DEF Live

LEMMA StaysGood ==
  ASSUME DOMAIN sets = Names, AllGood, NEW s \in Names, NEW x, Good(x),
         sets' = [sets EXCEPT ![s] = x]
  PROVE  /\ DOMAIN sets' = Names /\ sets'[s] = x /\ AllGood' /\ Live' = Live \cup { s }
         /\ \A t \in Names : t # s => sets'[t] = sets[t]
<1>1. x # NoSet
  BY Fields DEF Good
<1>2. /\ DOMAIN sets' = Names /\ sets'[s] = x
      /\ \A t \in Names : t # s => sets'[t] = sets[t]
      /\ Live' = Live \cup { s }
  BY <1>1, PutIs
<1>3. AllGood'
  BY <1>2 DEF AllGood, Live
<1> QED
  BY <1>2, <1>3

LEMMA NewIInv ==
  ASSUME IInv, NEW s \in Operands, New(s)
  PROVE  IInv'
<1>1. Scalars /\ AllGood /\ Owned
  BY Parts
<1>2. /\ pc' = "ready" /\ s \in Names /\ s \notin Live
      /\ UNCHANGED << owners, freed, given >>
  BY DEF New, ownVars, Names, Operands
<1>3. CASE sets' = [sets EXCEPT ![s] = EmptySet] /\ result' = TRUE /\ oom' = FALSE
  <2>1. /\ DOMAIN sets' = Names /\ sets'[s] = EmptySet /\ AllGood' /\ Live' = Live \cup { s }
        /\ \A t \in Names : t # s => sets'[t] = sets[t]
    BY <1>1, <1>2, <1>3, EmptyGood, StaysGood DEF Scalars
  <2>2. Scalars' /\ result' \notin Value
    BY <1>1, <1>2, <1>3, <2>1, Kinds DEF Scalars
  <2>3. Owned'
    BY <1>1, <1>2, <2>1, EmptyGood DEF Owned, Live
  <2> QED
    BY <1>2, <2>1, <2>2, <2>3, ReadyPrime
<1>4. CASE sets' = sets /\ result' = NULL /\ oom' = TRUE
  <2>1. Scalars' /\ result' \notin Value
    BY <1>1, <1>2, <1>4, Kinds DEF Scalars
  <2>2. AllGood' /\ Owned'
    BY <1>1, <1>2, <1>4 DEF AllGood, Owned, Live
  <2> QED
    BY <1>2, <2>1, <2>2, ReadyPrime
<1> QED
  BY <1>3, <1>4 DEF New

LEMMA LiveStored ==
  ASSUME AllGood, NEW s \in Live
  PROVE  s \in Names /\ Good(sets[s]) /\ Stored(sets[s]) \in SUBSET Value
BY StoredIs DEF AllGood, Live, Good

\* Owned, said of the values of each set, the live sets and the history.
Contents == [s \in Names |-> Stored(sets[s])]

Together(C, own) == UNION { C[s] : s \in own }

Split(C, live, own, gone, all) ==
  /\ own \subseteq live
  /\ \A s \in live : C[s] \cap gone = {}
  /\ all = gone \cup Together(C, own)
  /\ \A s \in own : \A t \in live \ { s, "new_set" } : C[s] \cap C[t] = {}

LEMMA OwnedSplit ==
  ASSUME Owned
  PROVE  Split(Contents, Live, owners, freed, given)
<1>1. Live \subseteq Names /\ \A s \in Names : Contents[s] = Stored(sets[s])
  BY DEF Live, Contents
<1>2. owners \subseteq Live
  BY DEF Owned
<1>3. { Contents[s] : s \in owners } = { Stored(sets[s]) : s \in owners }
  BY <1>1, <1>2
<1> QED
  BY <1>1, <1>2, <1>3 DEF Owned, Split, Together

LEMMA SplitOwned ==
  ASSUME Split(Contents', Live', owners', freed', given')
  PROVE  Owned'
<1>1. Live' \subseteq Names /\ \A s \in Names : Contents'[s] = Stored(sets'[s])
  BY DEF Live, Contents
<1>2. owners' \subseteq Live'
  BY DEF Split
<1>3. { Contents'[s] : s \in owners' } = { Stored(sets'[s]) : s \in owners' }
  BY <1>1, <1>2
<1> QED
  BY <1>1, <1>2, <1>3 DEF Owned, Split, Together

LEMMA TogetherIs ==
  ASSUME NEW C, NEW own
  PROVE  \A x : x \in Together(C, own) <=> \E s \in own : x \in C[s]
BY DEF Together

\* A value that is nowhere goes into a set.
LEMMA SplitAdds ==
  ASSUME NEW C, NEW D, NEW live, NEW own, NEW gone, NEW all, NEW s \in live, NEW v,
         Split(C, live, own, gone, all),
         v \notin gone, \A t \in live : v \notin C[t],
         D[s] = C[s] \cup { v }, \A t \in live : t # s => D[t] = C[t]
  PROVE  Split(D, live, own, gone, all \cup (IF s \in own THEN { v } ELSE {}))
<1>1. /\ own \subseteq live
      /\ \A t \in live : C[t] \cap gone = {}
      /\ all = gone \cup Together(C, own)
      /\ \A o \in own : \A t \in live \ { o, "new_set" } : C[o] \cap C[t] = {}
  BY DEF Split
<1>2. \A t \in live : D[t] \cap gone = {}
  BY <1>1
<1>3. \A x : (\E t \in own : x \in D[t]) <=> (\E t \in own : x \in C[t]) \/ (s \in own /\ x = v)
  BY <1>1
<1>4. Together(D, own) = Together(C, own) \cup (IF s \in own THEN { v } ELSE {})
  <2>1. /\ \A x : x \in Together(C, own) <=> \E t \in own : x \in C[t]
        /\ \A x : x \in Together(D, own) <=> \E t \in own : x \in D[t]
    BY TogetherIs
  <2> QED
    BY <2>1, <1>3
<1>5. ASSUME NEW o \in own, NEW t \in live \ { o, "new_set" }
      PROVE  D[o] \cap D[t] = {}
  <2>1. C[o] \cap C[t] = {} /\ v \notin C[o] /\ v \notin C[t] /\ o \in live
    BY <1>1
  <2>2. D[o] = C[o] \/ (o = s /\ D[o] = C[o] \cup { v })
    BY <2>1
  <2>3. D[t] = C[t] \/ (t = s /\ D[t] = C[t] \cup { v })
    OBVIOUS
  <2> QED
    BY <2>1, <2>2, <2>3
<1> QED
  BY <1>1, <1>2, <1>4, <1>5 DEF Split

\* An owner lets values go that no other set has.
LEMMA SplitMoves ==
  ASSUME NEW C, NEW D, NEW live, NEW own, NEW gone, NEW all, NEW s \in live, NEW lost,
         Split(C, live, own, gone, all),
         lost \subseteq C[s], D[s] = C[s] \ lost,
         \A t \in live : t # s => D[t] = C[t],
         s \in own => \A t \in live : t # s => lost \cap C[t] = {}
  PROVE  Split(D, live, own, gone \cup (IF s \in own THEN lost ELSE {}), all)
<1>1. /\ own \subseteq live
      /\ \A t \in live : C[t] \cap gone = {}
      /\ all = gone \cup Together(C, own)
      /\ \A o \in own : \A t \in live \ { o, "new_set" } : C[o] \cap C[t] = {}
  BY DEF Split
<1>2. \A t \in live : D[t] \subseteq C[t]
  OBVIOUS
<1>3. \A t \in live : D[t] \cap (gone \cup (IF s \in own THEN lost ELSE {})) = {}
  BY <1>1
<1>4. s \in own => \A x : (\E t \in own : x \in C[t]) <=> (\E t \in own : x \in D[t]) \/ x \in lost
  BY <1>1
<1>5. s \notin own => \A x : (\E t \in own : x \in C[t]) <=> (\E t \in own : x \in D[t])
  BY <1>1
<1>6. all = (gone \cup (IF s \in own THEN lost ELSE {})) \cup Together(D, own)
  <2>1. /\ \A x : x \in Together(C, own) <=> \E t \in own : x \in C[t]
        /\ \A x : x \in Together(D, own) <=> \E t \in own : x \in D[t]
    BY TogetherIs
  <2>2. all = gone \cup Together(C, own)
    BY <1>1
  <2>3. s \in own => Together(C, own) = Together(D, own) \cup lost
    BY <2>1, <1>4
  <2>4. s \notin own => Together(C, own) = Together(D, own)
    BY <2>1, <1>5
  <2> QED
    BY <2>2, <2>3, <2>4
<1>7. \A o \in own : \A t \in live \ { o, "new_set" } : D[o] \cap D[t] = {}
  BY <1>1, <1>2
<1> QED
  BY <1>1, <1>3, <1>6, <1>7 DEF Split

LEMMA ContentsPrime ==
  ASSUME NEW s \in Names, \A t \in Names : t # s => sets'[t] = sets[t]
  PROVE  /\ Contents[s] = Stored(sets[s]) /\ Contents'[s] = Stored(sets'[s])
         /\ \A t \in Names : t # s => Contents'[t] = Contents[t]
BY DEF Contents

LEMMA InsertIInv ==
  ASSUME IInv, NEW s \in Names, NEW v \in Value, Insert(s, v)
  PROVE  IInv'
<1>1. Scalars /\ AllGood /\ Owned
  BY Parts
<1>2. /\ pc' = "ready" /\ s \in Live /\ v \notin freed
      /\ \A t \in Live : v \notin Stored(sets[t])
      /\ UNCHANGED << owners, freed >>
  BY DEF Insert, Current, Fresh
<1>3. PICK out \in set_insert(sets[s], v) :
        /\ sets' = [sets EXCEPT ![s] = out.set]
        /\ result' = out.ok /\ oom' = out.oom
        /\ given' = given \cup (IF out.ok /\ s \in owners THEN { v } ELSE {})
  BY DEF Insert
<1>4. Expected(sets[s], v, out)
  BY <1>1, <1>2, InsertIs, LiveStored
<1>5. /\ DOMAIN sets' = Names /\ sets'[s] = out.set /\ AllGood' /\ Live' = Live
      /\ \A t \in Names : t # s => sets'[t] = sets[t]
  <2>1. s \in Names /\ DOMAIN sets = Names /\ Good(out.set) /\ AllGood /\ Live \cup { s } = Live
    BY <1>1, <1>2, <1>4 DEF Scalars, Expected
  <2> QED
    BY <2>1, <1>3, StaysGood
<1>6. Scalars' /\ result' \notin Value
  BY <1>1, <1>2, <1>3, <1>4, <1>5, Kinds DEF Scalars, Expected
<1>7. /\ Contents[s] = Stored(sets[s]) /\ Contents'[s] = Stored(sets'[s])
      /\ \A t \in Live : t # s => Contents'[t] = Contents[t]
  BY <1>5, ContentsPrime DEF Live
<1>8. Split(Contents, Live, owners, freed, given)
  BY <1>1, OwnedSplit
<1>9. \A t \in Live : v \notin Contents[t]
  BY <1>2 DEF Contents, Live
<1>10. Split(Contents', Live, owners, freed, given')
  <2>1. CASE out.ok
    <3>1. Contents'[s] = Contents[s] \cup { v }
      BY <2>1, <1>4, <1>5, <1>7 DEF Expected
    <3>2. given' = given \cup (IF s \in owners THEN { v } ELSE {})
      BY <2>1, <1>3
    <3> QED
      BY <3>1, <3>2, <1>2, <1>7, <1>8, <1>9, SplitAdds
  <2>2. CASE ~ out.ok
    <3>1. Contents'[s] = Contents[s] /\ given' = given
      BY <2>2, <1>3, <1>4, <1>5, <1>7 DEF Expected
    <3>2. Contents' = Contents
      BY <3>1, <1>5, ContentsPrime DEF Contents
    <3> QED
      BY <3>1, <3>2, <1>8
  <2> QED
    BY <2>1, <2>2
<1>11. Owned'
  BY <1>2, <1>5, <1>10, SplitOwned
<1> QED
  BY <1>2, <1>5, <1>6, <1>11, ReadyPrime

\* What remains of a set is still in its chains.
LEMMA RemovedIndex ==
  ASSUME NEW set, NEW v, NEW p, Good(set), NEW u
  PROVE  index(Removed(set, v, p), u) = index(set, u)
<1>1. set = Made(set.table, set.table_size, set.entries, set.prime_index)
  BY GoodHolds
<1>2. Removed(set, v, p).table_size = set.table_size
  BY <1>1 DEF Removed, Made
<1> QED
  BY <1>2 DEF index

LEMMA RemoveIInv ==
  ASSUME IInv, NEW s \in Names, NEW v \in Value, set_remove(s, v)
  PROVE  IInv'
<1>1. Scalars /\ AllGood /\ Owned /\ Positioned /\ Returned
  BY Parts
<1>2. /\ s \in Live /\ MayRemove(s, v) /\ UNCHANGED << owners, given, iterator, pc, oom >>
      /\ Good(sets[s]) /\ pc \in { "ready", "iterate" }
  BY <1>1, LiveStored DEF set_remove, Current, MayRemove
<1>3. result' \in BOOLEAN /\ result' \notin Value
  BY Kinds DEF set_remove
<1>4. CASE Places(sets[s], v) = {}
  <2>1. UNCHANGED << sets, freed >>
    BY <1>4 DEF set_remove
  <2>2. Scalars' /\ AllGood' /\ Owned'
    BY <1>1, <1>2, <1>3, <2>1 DEF Scalars, AllGood, Owned, Live
  <2>3. Positioned' /\ Returned' /\ HalfMade'
    BY <1>1, <1>2, <1>3, <2>1 DEF Positioned, Returned, HalfMade, Live, set_iter_has_more
  <2> QED
    BY <2>2, <2>3, PartsPrime
<1>5. CASE Places(sets[s], v) # {}
  <2>1. PICK p \in Places(sets[s], v) :
          /\ sets' = [sets EXCEPT ![s] = Removed(sets[s], v, p)]
          /\ freed' = freed \cup
               (IF s \in owners THEN { sets[s].table[index(sets[s], v)][p] } ELSE {})
    BY <1>5 DEF set_remove
  <2> DEFINE gone == sets[s].table[index(sets[s], v)][p]
             set == Removed(sets[s], v, p)
  <2>2. /\ Good(set) /\ gone \in Stored(sets[s]) /\ Key[gone] = Key[v]
        /\ Stored(set) = Stored(sets[s]) \ { gone }
    BY <1>2, RemovedIs
  <2>3. /\ DOMAIN sets' = Names /\ sets'[s] = set /\ AllGood' /\ Live' = Live
        /\ \A t \in Names : t # s => sets'[t] = sets[t]
    <3>1. DOMAIN sets = Names /\ Live \cup { s } = Live
      BY <1>1, <1>2 DEF Scalars
    <3> HIDE DEF set
    <3> QED
      BY <3>1, <2>1, <2>2, <1>1, StaysGood DEF set
  <2>4. gone \in Value
    BY <1>1, <1>2, <2>2, LiveStored
  <2>5. freed' = freed \cup (IF s \in owners THEN { gone } ELSE {})
    BY <2>1
  <2> HIDE DEF gone
  <2>6. Scalars'
    BY <1>1, <1>2, <1>3, <2>3, <2>4, <2>5 DEF Scalars
  <2>7. Owned'
    <3>1. /\ Contents[s] = Stored(sets[s]) /\ Contents'[s] = Stored(sets'[s])
          /\ \A t \in Live : t # s => Contents'[t] = Contents[t]
      BY <2>3, ContentsPrime DEF Live
    <3>2. Split(Contents, Live, owners, freed, given)
      BY <1>1, OwnedSplit
    <3>3. { gone } \subseteq Contents[s] /\ Contents'[s] = Contents[s] \ { gone }
      BY <2>2, <2>3, <3>1
    <3>4. s \in owners => \A t \in Live : t # s => { gone } \cap Contents[t] = {}
      BY <1>2, <2>2 DEF MayRemove, Shared, Contents, Live
    <3>5. Split(Contents', Live, owners, freed', given)
      BY <3>1, <3>2, <3>3, <3>4, <2>5, <1>2, SplitMoves, ZenonT(40)
    <3> QED
      BY <3>5, <2>3, <1>2, SplitOwned
  <2>8. Positioned'
    <3>1. SUFFICES ASSUME pc = "iterate"
                   PROVE  Positioned'
      BY <1>2 DEF Positioned
    <3>2. /\ iterator \in [set : Live, next_chain : Nat, next_entry : Value \cup { NULL }]
          /\ iterator.set = s /\ result = v
          /\ iterator.next_entry # NULL =>
               /\ iterator.next_entry \in Stored(sets[s])
               /\ iterator.next_chain = index(sets[s], iterator.next_entry)
          /\ v \in Stored(sets[s]) /\ v # iterator.next_entry
      BY <1>1, <1>2, <3>1 DEF Positioned, Returned, MayRemove, set_iter_has_more
    <3>3. gone = v
      BY <1>2, <2>2, <3>2, KeysDiffer
    <3>4. iterator.next_entry # NULL =>
            /\ iterator.next_entry \in Stored(set)
            /\ iterator.next_chain = index(set, iterator.next_entry)
      BY <3>2, <3>3, <2>2, <1>2, RemovedIndex
    <3> HIDE DEF set
    <3> QED
      BY <3>2, <3>4, <2>3, <1>2 DEF Positioned, set_iter_has_more
  <2>9. Returned' /\ HalfMade'
    BY <1>2, <1>3 DEF Returned, HalfMade
  <2> QED
    BY <2>3, <2>6, <2>7, <2>8, <2>9, PartsPrime
<1> QED
  BY <1>4, <1>5


\* A set without values more or less, or with or without a free function.
LEMMA SplitGrows ==
  ASSUME NEW C, NEW D, NEW live, NEW own, NEW gone, NEW all, NEW s, s \notin live,
         Split(C, live, own, gone, all), \A t \in live : D[t] = C[t], D[s] = {}
  PROVE  Split(D, live \cup { s }, own, gone, all)
<1>1. Together(D, own) = Together(C, own)
  <2>1. \A t \in own : D[t] = C[t]
    BY DEF Split
  <2>2. { D[t] : t \in own } = { C[t] : t \in own }
    BY <2>1
  <2> QED
    BY <2>2 DEF Together
<1> QED
  BY <1>1 DEF Split

LEMMA SplitDrops ==
  ASSUME NEW C, NEW live, NEW own, NEW gone, NEW all, NEW s,
         Split(C, live, own, gone, all), C[s] = {}
  PROVE  Split(C, live \ { s }, own \ { s }, gone, all)
<1>1. Together(C, own \ { s }) = Together(C, own)
  <2>1. /\ \A x : x \in Together(C, own) <=> \E t \in own : x \in C[t]
        /\ \A x : x \in Together(C, own \ { s }) <=> \E t \in own \ { s } : x \in C[t]
    BY TogetherIs
  <2> QED
    BY <2>1
<1> QED
  BY <1>1 DEF Split

LEMMA SplitOwns ==
  ASSUME NEW C, NEW live, NEW own, NEW gone, NEW all, NEW s \in live,
         Split(C, live, own, gone, all), C[s] = {}
  PROVE  Split(C, live, own \cup { s }, gone, all)
<1>1. Together(C, own \cup { s }) = Together(C, own)
  <2>1. /\ \A x : x \in Together(C, own) <=> \E t \in own : x \in C[t]
        /\ \A x : x \in Together(C, own \cup { s }) <=> \E t \in own \cup { s } : x \in C[t]
    BY TogetherIs
  <2> QED
    BY <2>1
<1> QED
  BY <1>1 DEF Split

LEMMA RegisterIInv ==
  ASSUME IInv, NEW s \in Names, set_register_free_function(s)
  PROVE  IInv'
<1>1. Scalars /\ AllGood /\ Owned /\ Returned
  BY Parts
<1>2. /\ pc = "ready" /\ s \in Live /\ sets[s].entries = 0 /\ owners' = owners \cup { s }
      /\ UNCHANGED << sets, freed, given, pc, result, oom >>
  BY DEF set_register_free_function, Current
<1>3. Stored(sets[s]) = {}
  BY <1>1, <1>2, LiveStored, GoodHolds, FS_EmptySet
<1>4. Split(Contents, Live, owners \cup { s }, freed, given)
  <2>1. Contents[s] = {}
    BY <1>2, <1>3 DEF Contents, Live
  <2> QED
    BY <2>1, <1>1, <1>2, OwnedSplit, SplitOwns
<1>5. Owned'
  <2>1. Contents' = Contents /\ Live' = Live
    BY <1>2 DEF Contents, Live
  <2> QED
    BY <2>1, <1>2, <1>4, SplitOwned
<1>6. Scalars' /\ AllGood' /\ result' \notin Value /\ pc' = "ready"
  BY <1>1, <1>2 DEF Scalars, AllGood, Live, Returned
<1> QED
  BY <1>5, <1>6, ReadyPrime

LEMMA FreeSetIs ==
  ASSUME Scalars, AllGood, Owned, NEW s \in Live, "new_set" \in Live => s = "new_set",
         FreeSet(s), given' = given
  PROVE  /\ DOMAIN sets' = Names /\ AllGood' /\ Owned' /\ Live' = Live \ { s }
         /\ freed' \subseteq Value /\ owners' \subseteq Names
         /\ \A t \in Names : t # s => sets'[t] = sets[t]
<1>1. /\ sets' = [sets EXCEPT ![s] = NoSet] /\ owners' = owners \ { s } /\ s \in Names
      /\ freed' = freed \cup (IF s \in owners THEN Stored(sets[s]) ELSE {})
  BY DEF FreeSet, Live
<1>2. /\ DOMAIN sets' = Names /\ sets'[s] = NoSet /\ Live' = Live \ { s }
      /\ \A t \in Names : t # s => sets'[t] = sets[t]
  BY <1>1, PutIs DEF Scalars
<1>3. AllGood'
  BY <1>2 DEF AllGood, Live
<1>4. /\ Contents[s] = Stored(sets[s]) /\ Contents'[s] = Stored(sets'[s])
      /\ \A t \in Live : t # s => Contents'[t] = Contents[t]
  BY <1>1, <1>2, ContentsPrime DEF Live
<1>5. Contents'[s] = {}
  BY <1>2, <1>4 DEF Stored, NoSet
<1>6. Split(Contents, Live, owners, freed, given)
  BY OwnedSplit
<1>7. s \in owners => \A t \in Live : t # s => Contents[s] \cap Contents[t] = {}
  BY <1>6 DEF Split
<1>8. Split(Contents', Live, owners, freed', given)
  BY <1>1, <1>4, <1>5, <1>6, <1>7, SplitMoves
<1>9. Split(Contents', Live', owners', freed', given')
  BY <1>1, <1>2, <1>5, <1>8, SplitDrops
<1>10. freed' \subseteq Value /\ owners' \subseteq Names
  BY <1>1, LiveStored DEF Scalars
<1> QED
  BY <1>2, <1>3, <1>9, <1>10, SplitOwned

LEMMA FreeIInv ==
  ASSUME IInv, NEW s \in Names, Free(s)
  PROVE  IInv'
<1>1. Scalars /\ AllGood /\ Owned /\ Returned
  BY Parts
<1>2. /\ pc = "ready" /\ s \in Live /\ ("new_set" \in Live => s = "new_set")
  BY DEF Free, Current
<1>3. FreeSet(s) /\ given' = given /\ pc' = pc /\ result' = result /\ oom' = oom
  BY DEF Free
<1>4. /\ DOMAIN sets' = Names /\ AllGood' /\ Owned'
      /\ freed' \subseteq Value /\ owners' \subseteq Names
  BY <1>1, <1>2, <1>3, FreeSetIs
<1>5. Scalars' /\ result' \notin Value /\ pc' = "ready"
  BY <1>1, <1>2, <1>3, <1>4 DEF Scalars, Returned
<1> QED
  BY <1>4, <1>5, ReadyPrime

LEMMA KeepIInv ==
  ASSUME IInv, Keep
  PROVE  /\ IInv' /\ sets'["set1"] = sets["new_set"] /\ Live' = Live \ { "new_set" }
         /\ sets'["set2"] = sets["set2"]
<1>1. Scalars /\ AllGood /\ Owned /\ Returned
  BY Parts
<1>2. /\ pc = "ready" /\ "set1" \in Live /\ "new_set" \in Live /\ owners = {}
      /\ sets' = [sets EXCEPT !["set1"] = sets["new_set"], !["new_set"] = NoSet]
      /\ UNCHANGED << owners, freed, given, pc, result, oom >>
  BY DEF Keep, ownVars
<1>3. /\ DOMAIN sets' = Names /\ sets'["set1"] = sets["new_set"] /\ sets'["new_set"] = NoSet
      /\ sets'["set2"] = sets["set2"]
  BY <1>1, <1>2 DEF Scalars, Names
<1>4. Live' = Live \ { "new_set" }
  BY <1>2, <1>3 DEF Live, Names
<1>5. AllGood'
  BY <1>1, <1>2, <1>3, <1>4 DEF AllGood, Live, Names
<1>6. Owned'
  <2>1. \A t \in Live' : Stored(sets'[t]) \cap freed' = {}
    BY <1>1, <1>2, <1>3, <1>4 DEF Owned, Live, Names
  <2>2. given' = freed' \cup UNION { Stored(sets'[t]) : t \in owners' }
    BY <1>1, <1>2 DEF Owned
  <2> QED
    BY <2>1, <2>2, <1>2 DEF Owned
<1>7. Scalars' /\ result' \notin Value /\ pc' = "ready"
  BY <1>1, <1>2, <1>3 DEF Scalars, Returned
<1> QED
  BY <1>3, <1>4, <1>5, <1>6, <1>7, ReadyPrime

LEMMA PositionedPoints ==
  ASSUME Positioned, pc # "ready"
  PROVE  iterator.set \in Live /\ PointsInto(sets[iterator.set], iterator.set, iterator)
BY DEF Positioned, PointsInto, set_iter_has_more

LEMMA PositionedPrime ==
  ASSUME NEW s, s \in Live', PointsInto(sets'[s], s, iterator')
  PROVE  Positioned' /\ iterator'.set = s
<1>1. iterator' \in [set : { s }, next_chain : Nat, next_entry : Value \cup { NULL }]
  BY DEF PointsInto
<1>2. iterator'.set = s /\ iterator' \in [set : Live', next_chain : Nat, next_entry : Value \cup { NULL }]
  BY <1>1
<1> QED
  BY <1>2 DEF PointsInto, Positioned, set_iter_has_more

LEMMA IterateIInv ==
  ASSUME IInv, NEW s \in Names, Iterate(s)
  PROVE  IInv'
<1>1. Scalars /\ AllGood /\ Owned /\ Returned
  BY Parts
<1>2. /\ pc = "ready" /\ s \in Live /\ iterator' = set_iterate(s) /\ pc' = "iterate"
      /\ UNCHANGED << sets, owners, freed, given, result, oom >>
  BY DEF Iterate, Current, ownVars
<1>3. PointsInto(sets[s], s, set_iterate(s))
  BY <1>1, <1>2, LiveStored, IterateIs
<1>4. Scalars' /\ AllGood' /\ Owned' /\ Returned' /\ HalfMade' /\ Live' = Live
  BY <1>1, <1>2 DEF Scalars, AllGood, Owned, Live, Returned, HalfMade
<1>5. Positioned'
  BY <1>2, <1>3, <1>4, PositionedPrime
<1> QED
  BY <1>4, <1>5, PartsPrime

LEMMA IterNextIInv ==
  ASSUME IInv, IterNext
  PROVE  IInv'
<1>1. Scalars /\ AllGood /\ Owned /\ Positioned
  BY Parts
<1>2. /\ pc = "iterate" /\ result' = iterator.next_entry
      /\ UNCHANGED << sets, owners, freed, given, oom >>
  BY DEF IterNext, ownVars
<1> DEFINE s == iterator.set
<1>3. /\ s \in Live /\ Good(sets[s]) /\ PointsInto(sets[s], s, iterator)
  BY <1>1, <1>2, PositionedPoints, LiveStored
<1>4. AllGood' /\ Owned' /\ Live' = Live
  BY <1>1, <1>2 DEF AllGood, Owned, Live
<1>5. CASE set_iter_has_more
  <2>1. iterator' = set_iter_next /\ pc' = pc
    BY <1>5 DEF IterNext
  <2>2. /\ PointsInto(sets[s], s, set_iter_next) /\ iterator.next_entry \in Stored(sets[s])
        /\ set_iter_next.next_entry # iterator.next_entry
    BY <1>3, <1>5, NextEntryIs
  <2>3. Positioned' /\ iterator'.set = s
    BY <1>2, <1>3, <1>4, <2>1, <2>2, PositionedPrime
  <2>4. Stored(sets[s]) \in SUBSET Value
    BY <1>1, <1>3, LiveStored
  <2>5. Scalars' /\ Returned' /\ HalfMade'
    BY <1>1, <1>2, <2>1, <2>2, <2>3, <2>4 DEF Scalars, Returned, HalfMade
  <2> QED
    BY <1>4, <2>3, <2>5, PartsPrime
<1>6. CASE ~ set_iter_has_more
  <2>1. pc' = "ready" /\ result' = NULL
    BY <1>2, <1>6 DEF IterNext, set_iter_has_more
  <2>2. Scalars' /\ result' \notin Value
    BY <1>1, <1>2, <2>1, Kinds DEF Scalars
  <2> QED
    BY <1>4, <2>1, <2>2, ReadyPrime
<1> QED
  BY <1>5, <1>6


-----------------------------------------------------------------------------
(***************************************************************************)
(* set_union and set_intersection.                                         *)
(***************************************************************************)
Combinations == { "union1", "union2", "intersect" }

LEMMA PassedIs == Passed = Before(sets[iterator.set], iterator.next_entry)
BY DEF Passed, Before, set_iter_has_more

LEMMA PassedPrime == Passed' = Before(sets'[iterator'.set], iterator'.next_entry)
BY DEF Passed, Before, set_iter_has_more

\* What a loop of a combination works with.
LEMMA Combining ==
  ASSUME IInv, pc \in Combinations
  PROVE  /\ Live = Names /\ "new_set" \notin owners
         /\ iterator.set \in Operands /\ iterator.set \in Names /\ iterator.set # "new_set"
         /\ \A s \in Names : Good(sets[s])
         /\ PointsInto(sets[iterator.set], iterator.set, iterator)
<1>1. /\ Live = Names /\ "new_set" \notin owners
      /\ iterator.set = "set1" \/ iterator.set = "set2"
  BY Parts DEF HalfMade, Combinations
<1>2. \A s \in Names : Good(sets[s])
  BY <1>1, Parts DEF AllGood
<1>3. PointsInto(sets[iterator.set], iterator.set, iterator)
  BY Parts, PositionedPoints DEF Combinations
<1> QED
  BY <1>1, <1>2, <1>3 DEF Operands, Names

LEMMA CombineIInv ==
  ASSUME IInv, NEW phase \in { "union1", "intersect" }, Combine(phase)
  PROVE  IInv'
<1>1. Scalars /\ AllGood /\ Owned /\ Returned
  BY Parts
<1>2. /\ pc = "ready" /\ Operands \subseteq Live /\ "new_set" \notin Live /\ Start(phase)
      /\ UNCHANGED << owners, freed, given >>
  BY DEF Combine, Start, ownVars
<1>3. CASE /\ sets' = [sets EXCEPT !["new_set"] = EmptySet]
           /\ iterator' = set_iterate("set1") /\ pc' = phase /\ oom' = FALSE
           /\ UNCHANGED result
  <2>1. /\ DOMAIN sets' = Names /\ sets'["new_set"] = EmptySet /\ AllGood'
        /\ Live' = Live \cup { "new_set" }
        /\ \A t \in Names : t # "new_set" => sets'[t] = sets[t]
    BY <1>1, <1>3, EmptyGood, StaysGood DEF Scalars, Names
  <2>2. Live' = Names
    BY <1>2, <2>1 DEF Names, Operands, Live
  <2>3. sets'["set1"] = sets["set1"] /\ "set1" \in Live /\ "set1" \in Live' /\ Good(sets["set1"])
    BY <1>1, <1>2, <2>1, <2>2, LiveStored DEF Names, Operands
  <2>4. /\ PointsInto(sets["set1"], "set1", set_iterate("set1"))
        /\ Before(sets["set1"], set_iterate("set1").next_entry) = {}
    BY <2>3, IterateIs
  <2>5. Positioned' /\ iterator'.set = "set1"
    BY <1>3, <2>3, <2>4, PositionedPrime
  <2>6. Owned'
    <3>1. /\ Contents'["new_set"] = Stored(sets'["new_set"])
          /\ \A t \in Live : Contents'[t] = Contents[t]
      BY <1>2, <2>1, ContentsPrime DEF Live, Names
    <3>2. Contents'["new_set"] = {}
      BY <2>1, <3>1, EmptyGood
    <3>3. Split(Contents, Live, owners, freed, given)
      BY <1>1, OwnedSplit
    <3>4. Split(Contents', Live \cup { "new_set" }, owners, freed, given)
      BY <3>1, <3>2, <3>3, <1>2, SplitGrows
    <3> QED
      BY <3>4, <1>2, <2>1, SplitOwned
  <2>7. Scalars' /\ Returned'
    BY <1>1, <1>2, <1>3, <2>1 DEF Scalars, Returned
  <2>8. HalfMade'
    <3>1. Passed' = {}
      BY <1>3, <2>3, <2>4, <2>5, PassedPrime
    <3>2. Stored(sets'["new_set"]) = {}
      BY <2>1, EmptyGood
    <3>3. "new_set" \notin owners'
      BY <1>1, <1>2 DEF Owned
    <3>4. Algebra!Intersection({}, Stored(sets'["set2"])) = {}
      BY DEF Algebra!Intersection
    <3> QED
      BY <3>1, <3>2, <3>3, <3>4, <2>2, <2>5, <1>3 DEF HalfMade
  <2> QED
    BY <2>1, <2>5, <2>6, <2>7, <2>8, PartsPrime
<1>4. CASE result' = NULL /\ oom' = TRUE /\ UNCHANGED << sets, iterator, pc >>
  <2>1. Scalars' /\ AllGood' /\ Owned' /\ pc' = "ready" /\ result' \notin Value
    BY <1>1, <1>2, <1>4, Kinds DEF Scalars, AllGood, Owned, Live
  <2> QED
    BY <2>1, ReadyPrime
<1> QED
  BY <1>2, <1>3, <1>4 DEF Start

\* A value is copied, and the loop goes on.
LEMMA CopiedIs ==
  ASSUME IInv, pc \in Combinations, set_iter_has_more,
         NEW out \in set_insert(sets["new_set"], iterator.next_entry), out.ok, oom' = out.oom,
         sets' = [sets EXCEPT !["new_set"] = out.set], iterator' = set_iter_next,
         UNCHANGED << ownVars, pc, result >>
  PROVE  /\ Scalars' /\ AllGood' /\ Positioned' /\ Returned' /\ Owned'
         /\ Live' = Names /\ "new_set" \notin owners' /\ iterator'.set = iterator.set
         /\ \A s \in Operands : sets'[s] = sets[s]
         /\ Stored(sets'["new_set"]) = Stored(sets["new_set"]) \cup { iterator.next_entry }
         /\ Passed' = Passed \cup { iterator.next_entry }
         /\ \A u \in Stored(sets["new_set"]) : Key[u] # Key[iterator.next_entry]
<1> DEFINE s == iterator.set
           e == iterator.next_entry
<1>1. /\ Scalars /\ AllGood /\ Owned /\ Returned
      /\ Live = Names /\ "new_set" \notin owners
      /\ s \in Names /\ s # "new_set" /\ \A t \in Names : Good(sets[t])
      /\ PointsInto(sets[s], s, iterator)
  BY Parts, Combining
<1>2. /\ PointsInto(sets[s], s, set_iter_next) /\ e \in Stored(sets[s])
      /\ Before(sets[s], set_iter_next.next_entry) = Before(sets[s], e) \cup { e }
  BY <1>1, NextEntryIs
<1>3. e \in Value
  BY <1>1, <1>2, LiveStored
<1>4. Expected(sets["new_set"], e, out)
  BY <1>1, <1>3, InsertIs DEF Names
<1>5. /\ DOMAIN sets' = Names /\ sets'["new_set"] = out.set /\ AllGood' /\ Live' = Live
      /\ \A t \in Names : t # "new_set" => sets'[t] = sets[t]
  <2>1. /\ "new_set" \in Names /\ DOMAIN sets = Names /\ Good(out.set) /\ AllGood
        /\ Live \cup { "new_set" } = Live
    BY <1>1, <1>4 DEF Scalars, Expected, Names
  <2> QED
    BY <2>1, StaysGood
<1>6. Stored(sets'["new_set"]) = Stored(sets["new_set"]) \cup { e } /\ out.oom \in BOOLEAN
      /\ \A u \in Stored(sets["new_set"]) : Key[u] # Key[e]
  BY <1>4, <1>5 DEF Expected
<1>7. sets'[s] = sets[s]
  BY <1>1, <1>5
<1>8. Positioned' /\ iterator'.set = s
  BY <1>1, <1>2, <1>5, <1>7, PositionedPrime
<1>9. Passed' = Passed \cup { e }
  BY <1>2, <1>7, <1>8, PassedIs, PassedPrime
<1>10. UNCHANGED << owners, freed, given, pc, result >>
  BY DEF ownVars
<1>11. Scalars' /\ Returned'
  BY <1>1, <1>5, <1>6, <1>10 DEF Scalars, Returned, Combinations
<1>12. Owned'
  <2>1. owners \subseteq Live
    BY <1>1 DEF Owned
  <2>2. \A t \in owners : sets'[t] = sets[t]
    BY <2>1, <1>1, <1>5
  <2>3. \A t \in Live' : Stored(sets'[t]) \cap freed' = {}
    <3>1. \A t \in Live : Stored(sets[t]) \cap freed = {}
      BY <1>1 DEF Owned
    <3>2. e \notin freed
      BY <3>1, <1>1, <1>2
    <3>3. Stored(sets'["new_set"]) \cap freed = {}
      BY <3>1, <3>2, <1>1, <1>6 DEF Names
    <3> QED
      BY <3>1, <3>3, <1>1, <1>5, <1>10
  <2>4. { Stored(sets'[t]) : t \in owners } = { Stored(sets[t]) : t \in owners }
    BY <2>2
  <2>5. given' = freed' \cup UNION { Stored(sets'[t]) : t \in owners' }
    BY <2>4, <1>1, <1>10 DEF Owned
  <2>6. \A o \in owners' : \A t \in Live' \ { o, "new_set" } :
          Stored(sets'[o]) \cap Stored(sets'[t]) = {}
    BY <2>1, <2>2, <1>1, <1>5, <1>10 DEF Owned
  <2> QED
    BY <2>1, <2>3, <2>5, <2>6, <1>5, <1>10 DEF Owned
<1>13. \A t \in Operands : sets'[t] = sets[t]
  BY <1>5 DEF Operands, Names
<1> QED
  BY <1>1, <1>5, <1>6, <1>8, <1>9, <1>10, <1>11, <1>12, <1>13

\* A value could not be copied: nothing is left of the new set.
LEMMA GivenUpIInv ==
  ASSUME IInv, pc \in Combinations, FreeSet("new_set"), Return(NULL), given' = given,
         oom' \in BOOLEAN
  PROVE  IInv' /\ Live' = Operands /\ \A s \in Operands : sets'[s] = sets[s]
<1>1. Scalars /\ AllGood /\ Owned /\ Live = Names /\ "new_set" \in Live
  BY Parts, Combining DEF Names
<1>2. /\ DOMAIN sets' = Names /\ AllGood' /\ Owned' /\ Live' = Live \ { "new_set" }
      /\ freed' \subseteq Value /\ owners' \subseteq Names
      /\ \A t \in Names : t # "new_set" => sets'[t] = sets[t]
  BY <1>1, FreeSetIs
<1>3. Scalars' /\ pc' = "ready" /\ result' \notin Value
  BY <1>1, <1>2, Kinds DEF Scalars, Return
<1>4. IInv'
  BY <1>2, <1>3, ReadyPrime
<1> QED
  BY <1>1, <1>2, <1>4 DEF Operands, Names

\* The iterator goes on, and no set changes.
LEMMA SkippedIs ==
  ASSUME IInv, pc \in Combinations, set_iter_has_more, Skip
  PROVE  /\ Scalars' /\ AllGood' /\ Positioned' /\ Returned' /\ Owned'
         /\ Live' = Names /\ "new_set" \notin owners' /\ iterator'.set = iterator.set
         /\ iterator.next_entry \in Stored(sets[iterator.set])
         /\ Passed' = Passed \cup { iterator.next_entry }
<1> DEFINE s == iterator.set
           e == iterator.next_entry
<1>1. /\ Scalars /\ AllGood /\ Owned /\ Returned
      /\ Live = Names /\ "new_set" \notin owners
      /\ s \in Names /\ \A t \in Names : Good(sets[t])
      /\ PointsInto(sets[s], s, iterator)
  BY Parts, Combining
<1>2. /\ PointsInto(sets[s], s, set_iter_next) /\ e \in Stored(sets[s])
      /\ Before(sets[s], set_iter_next.next_entry) = Before(sets[s], e) \cup { e }
  BY <1>1, NextEntryIs
<1>3. /\ iterator' = set_iter_next
      /\ UNCHANGED << sets, owners, freed, given, pc, result, oom >>
  BY DEF Skip, ownVars
<1>4. Scalars' /\ AllGood' /\ Returned' /\ Owned' /\ Live' = Names
  BY <1>1, <1>3 DEF Scalars, AllGood, Returned, Owned, Live, Combinations
<1>5. Positioned' /\ iterator'.set = s
  BY <1>1, <1>2, <1>3, <1>4, PositionedPrime
<1>6. Passed' = Passed \cup { e }
  BY <1>2, <1>3, <1>5, PassedIs, PassedPrime
<1> QED
  BY <1>1, <1>2, <1>3, <1>4, <1>5, <1>6


LEMMA UnionHas ==
  ASSUME NEW A, NEW P
  PROVE  A \subseteq Algebra!Union(A, P) /\ Algebra!Union(A, P) \subseteq A \cup P
BY DEF Algebra!Union

LEMMA IntersectionHas ==
  ASSUME NEW P, NEW B
  PROVE  Algebra!Intersection(P, B) \subseteq P
BY DEF Algebra!Intersection

\* No value that the loop has passed is equal to the next one.
LEMMA NotPassed ==
  ASSUME IInv, pc \in Combinations, set_iter_has_more
  PROVE  /\ iterator.next_entry \in Value
         /\ iterator.next_entry \in Stored(sets[iterator.set])
         /\ Passed \subseteq Stored(sets[iterator.set])
         /\ \A u \in Passed : Key[u] # Key[iterator.next_entry]
<1> DEFINE set == sets[iterator.set]
           e == iterator.next_entry
<1>1. Good(set) /\ e \in Stored(set) /\ e # NULL
  BY Combining DEF PointsInto, set_iter_has_more
<1>2. e \in Value
  BY <1>1, StoredIs DEF Good
<1>3. Passed = Before(set, e)
  BY PassedIs
<1> HIDE DEF set, e
<1>4. Passed \subseteq Stored(set) /\ \A u \in Passed : Precedes(set, u, e)
  BY <1>1, <1>3 DEF Before
<1>5. ASSUME NEW u \in Passed, Key[u] = Key[e] PROVE FALSE
  <2>1. u = e
    BY <1>1, <1>4, <1>5, KeysDiffer
  <2> QED
    BY <2>1, <1>1, <1>4, PrecedesOrders
<1> QED
  BY <1>1, <1>2, <1>4, <1>5 DEF set, e

\* Copying fails only for want of memory where nothing in the new set is equal.
LEMMA CopyIs ==
  ASSUME IInv, pc \in Combinations, set_iter_has_more, Copy,
         \A u \in Stored(sets["new_set"]) : Key[u] # Key[iterator.next_entry]
  PROVE  \/ /\ Scalars' /\ AllGood' /\ Positioned' /\ Returned' /\ Owned'
            /\ Live' = Names /\ "new_set" \notin owners' /\ iterator'.set = iterator.set
            /\ \A s \in Operands : sets'[s] = sets[s]
            /\ Stored(sets'["new_set"]) = Stored(sets["new_set"]) \cup { iterator.next_entry }
            /\ Passed' = Passed \cup { iterator.next_entry }
            /\ UNCHANGED << pc, result >>
         \/ /\ IInv' /\ Live' = Operands /\ \A s \in Operands : sets'[s] = sets[s]
            /\ pc' = "ready" /\ result' = NULL /\ oom' = TRUE
<1>1. PICK out \in set_insert(sets["new_set"], iterator.next_entry) :
        /\ oom' = out.oom
        /\ IF out.ok
             THEN /\ sets' = [sets EXCEPT !["new_set"] = out.set]
                  /\ iterator' = set_iter_next
                  /\ UNCHANGED << ownVars, pc, result >>
             ELSE /\ FreeSet("new_set")
                  /\ Return(NULL)
                  /\ UNCHANGED given
  BY DEF Copy
<1>2. Expected(sets["new_set"], iterator.next_entry, out)
  <2>1. iterator.next_entry \in Value /\ Good(sets["new_set"])
    BY NotPassed, Combining DEF Names
  <2> QED
    BY <2>1, InsertIs
<1>3. out.oom \in BOOLEAN /\ out.ok \in BOOLEAN
  BY <1>2 DEF Expected
<1>4. CASE out.ok
  <2>1. /\ oom' = out.oom /\ sets' = [sets EXCEPT !["new_set"] = out.set]
        /\ iterator' = set_iter_next /\ UNCHANGED << ownVars, pc, result >>
    BY <1>1, <1>4
  <2>2. UNCHANGED << pc, result >>
    BY <2>1
  <2> QED
    BY <2>1, <2>2, <1>4, CopiedIs
<1>5. CASE ~ out.ok
  <2>1. FreeSet("new_set") /\ Return(NULL) /\ given' = given /\ oom' = out.oom
    BY <1>1, <1>5
  <2>2. oom' = TRUE
    BY <2>1, <1>2, <1>3, <1>5 DEF Expected
  <2>3. oom' \in BOOLEAN
    BY <2>2
  <2>4. IInv' /\ Live' = Operands /\ \A s \in Operands : sets'[s] = sets[s]
    BY <2>1, <2>3, GivenUpIInv
  <2>5. pc' = "ready" /\ result' = NULL
    BY <2>1 DEF Return
  <2> QED
    BY <2>2, <2>4, <2>5
<1> QED
  BY <1>4, <1>5

\* What a step of a loop of a combination does: it goes on, with the same
\* operands and result, or it gives up for want of memory.
GoesOn ==
  /\ IInv' /\ pc' \in Combinations /\ result' = result /\ (pc' = "intersect") = (pc = "intersect")
  /\ \A s \in Operands : sets'[s] = sets[s]

GivesUp ==
  /\ IInv' /\ pc' = "ready" /\ result' = NULL /\ oom' = TRUE
  /\ Live' = Operands /\ \A s \in Operands : sets'[s] = sets[s]

LEMMA UnionFirstIs ==
  ASSUME IInv, UnionFirst
  PROVE  GoesOn \/ GivesUp
<1>1. pc = "union1" /\ pc \in Combinations /\ set_iter_has_more /\ Copy
  BY DEF UnionFirst, Combinations
<1>2. iterator.set = "set1" /\ Stored(sets["new_set"]) = Passed
  BY <1>1, Parts DEF HalfMade
<1>3. \A u \in Stored(sets["new_set"]) : Key[u] # Key[iterator.next_entry]
  BY <1>1, <1>2, NotPassed
<1>4. ASSUME /\ Scalars' /\ AllGood' /\ Positioned' /\ Returned' /\ Owned'
             /\ Live' = Names /\ "new_set" \notin owners' /\ iterator'.set = iterator.set
             /\ \A s \in Operands : sets'[s] = sets[s]
             /\ Stored(sets'["new_set"]) = Stored(sets["new_set"]) \cup { iterator.next_entry }
             /\ Passed' = Passed \cup { iterator.next_entry }
             /\ UNCHANGED << pc, result >>
      PROVE  GoesOn
  <2>1. HalfMade'
    BY <1>1, <1>2, <1>4 DEF HalfMade
  <2>2. IInv'
    BY <2>1, <1>4, PartsPrime
  <2> QED
    BY <2>2, <1>1, <1>4 DEF GoesOn
<1> QED
  BY <1>1, <1>3, <1>4, CopyIs DEF GivesUp

LEMMA UnionSecondIs ==
  ASSUME IInv, UnionSecond
  PROVE  GoesOn \/ GivesUp
<1> DEFINE e == iterator.next_entry
           S == Stored(sets["set1"])
<1>1. pc = "union2" /\ pc \in Combinations /\ set_iter_has_more
  BY DEF UnionSecond, Combinations
<1>2. /\ iterator.set = "set2"
      /\ Stored(sets["new_set"]) = Algebra!Union(S, Passed)
  BY <1>1, Parts DEF HalfMade
<1>3. e \in Value /\ \A u \in Passed : Key[u] # Key[e]
  BY <1>1, NotPassed
<1>4. set_query(sets["new_set"], e) <=> \E u \in Stored(sets["new_set"]) : Key[u] = Key[e]
  <2>1. Good(sets["new_set"])
    BY <1>1, Combining DEF Names
  <2> QED
    BY <2>1, <1>3, QueryIs
<1>5. (\E u \in Stored(sets["new_set"]) : Key[u] = Key[e]) <=> \E u \in S : Key[u] = Key[e]
  BY <1>2, <1>3, UnionHas
<1>6. CASE set_query(sets["new_set"], e)
  <2>1. Skip
    BY <1>6 DEF UnionSecond
  <2>2. /\ Scalars' /\ AllGood' /\ Positioned' /\ Returned' /\ Owned'
        /\ Live' = Names /\ "new_set" \notin owners' /\ iterator'.set = iterator.set
        /\ Passed' = Passed \cup { e }
    BY <2>1, <1>1, SkippedIs
  <2>3. sets' = sets /\ pc' = pc /\ result' = result
    BY <2>1 DEF Skip
  <2>4. Algebra!Union(S, Passed \cup { e }) = Algebra!Union(S, Passed)
    <3> DEFINE P == Passed
    <3>1. \E u \in S : Key[u] = Key[e]
      BY <1>4, <1>5, <1>6
    <3> HIDE DEF S, e, P
    <3>2. Algebra!Union(S, P \cup { e }) = Algebra!Union(S, P)
      BY ONLY <3>1 DEF Algebra!Union, Algebra!Equals
    <3> QED
      BY <3>2 DEF P
  <2>5. HalfMade'
    BY <2>2, <2>3, <2>4, <1>1, <1>2 DEF HalfMade
  <2>6. IInv'
    BY <2>2, <2>5, PartsPrime
  <2> QED
    BY <2>3, <2>6, <1>1 DEF GoesOn
<1>7. CASE ~ set_query(sets["new_set"], e)
  <2>1. Copy /\ \A u \in Stored(sets["new_set"]) : Key[u] # Key[e]
    BY <1>4, <1>7 DEF UnionSecond
  <2>2. Algebra!Union(S, Passed \cup { e }) = Algebra!Union(S, Passed) \cup { e }
    <3> DEFINE P == Passed
    <3>1. \A u \in S : Key[u] # Key[e]
      BY <1>4, <1>5, <1>7
    <3> HIDE DEF S, e, P
    <3>2. Algebra!Union(S, P \cup { e }) = Algebra!Union(S, P) \cup { e }
      BY ONLY <3>1 DEF Algebra!Union, Algebra!Equals
    <3> QED
      BY <3>2 DEF P
  <2>3. ASSUME /\ Scalars' /\ AllGood' /\ Positioned' /\ Returned' /\ Owned'
               /\ Live' = Names /\ "new_set" \notin owners' /\ iterator'.set = iterator.set
               /\ \A s \in Operands : sets'[s] = sets[s]
               /\ Stored(sets'["new_set"]) = Stored(sets["new_set"]) \cup { e }
               /\ Passed' = Passed \cup { e }
               /\ UNCHANGED << pc, result >>
        PROVE  GoesOn
    <3>1. Stored(sets'["set1"]) = S
      BY <2>3 DEF Operands
    <3>2. Stored(sets'["new_set"]) = Algebra!Union(Stored(sets'["set1"]), Passed')
      BY <3>1, <2>2, <2>3, <1>2
    <3>3. HalfMade'
      BY <3>2, <1>1, <1>2, <2>3 DEF HalfMade
    <3>4. IInv'
      BY <3>3, <2>3, PartsPrime
    <3> QED
      BY <3>4, <1>1, <2>3 DEF GoesOn
  <2> QED
    BY <2>1, <2>3, <1>1, CopyIs DEF GivesUp
<1> QED
  BY <1>6, <1>7

LEMMA IntersectIs ==
  ASSUME IInv, Intersect
  PROVE  GoesOn \/ GivesUp
<1> DEFINE e == iterator.next_entry
           S == Stored(sets["set2"])
<1>1. pc = "intersect" /\ pc \in Combinations /\ set_iter_has_more
  BY DEF Intersect, Combinations
<1>2. /\ iterator.set = "set1"
      /\ Stored(sets["new_set"]) = Algebra!Intersection(Passed, S)
  BY <1>1, Parts DEF HalfMade
<1>3. e \in Value /\ \A u \in Passed : Key[u] # Key[e]
  BY <1>1, NotPassed
<1>4. set_query(sets["set2"], e) <=> \E u \in S : Key[u] = Key[e]
  <2>1. Good(sets["set2"])
    BY <1>1, Combining DEF Names
  <2> QED
    BY <2>1, <1>3, QueryIs
<1>5. CASE ~ set_query(sets["set2"], e)
  <2>1. Skip
    BY <1>5 DEF Intersect
  <2>2. /\ Scalars' /\ AllGood' /\ Positioned' /\ Returned' /\ Owned'
        /\ Live' = Names /\ "new_set" \notin owners' /\ iterator'.set = iterator.set
        /\ Passed' = Passed \cup { e }
    BY <2>1, <1>1, SkippedIs
  <2>3. sets' = sets /\ pc' = pc /\ result' = result
    BY <2>1 DEF Skip
  <2>4. Algebra!Intersection(Passed \cup { e }, S) = Algebra!Intersection(Passed, S)
    <3> DEFINE P == Passed
    <3>1. \A u \in S : Key[u] # Key[e]
      BY <1>4, <1>5
    <3> HIDE DEF S, e, P
    <3>2. Algebra!Intersection(P \cup { e }, S) = Algebra!Intersection(P, S)
      BY ONLY <3>1 DEF Algebra!Intersection, Algebra!Equals
    <3> QED
      BY <3>2 DEF P
  <2>5. HalfMade'
    BY <2>2, <2>3, <2>4, <1>1, <1>2 DEF HalfMade
  <2>6. IInv'
    BY <2>2, <2>5, PartsPrime
  <2> QED
    BY <2>3, <2>6, <1>1 DEF GoesOn
<1>6. CASE set_query(sets["set2"], e)
  <2>1. Copy
    BY <1>6 DEF Intersect
  <2>2. \A u \in Stored(sets["new_set"]) : Key[u] # Key[e]
    BY <1>2, <1>3, IntersectionHas
  <2>3. Algebra!Intersection(Passed \cup { e }, S) = Algebra!Intersection(Passed, S) \cup { e }
    <3> DEFINE P == Passed
    <3>1. \E u \in S : Key[u] = Key[e]
      BY <1>4, <1>6
    <3> HIDE DEF S, e, P
    <3>2. Algebra!Intersection(P \cup { e }, S) = Algebra!Intersection(P, S) \cup { e }
      BY ONLY <3>1 DEF Algebra!Intersection, Algebra!Equals
    <3> QED
      BY <3>2 DEF P
  <2>4. ASSUME /\ Scalars' /\ AllGood' /\ Positioned' /\ Returned' /\ Owned'
               /\ Live' = Names /\ "new_set" \notin owners' /\ iterator'.set = iterator.set
               /\ \A s \in Operands : sets'[s] = sets[s]
               /\ Stored(sets'["new_set"]) = Stored(sets["new_set"]) \cup { e }
               /\ Passed' = Passed \cup { e }
               /\ UNCHANGED << pc, result >>
        PROVE  GoesOn
    <3>1. Stored(sets'["set2"]) = S
      BY <2>4 DEF Operands
    <3>2. Stored(sets'["new_set"]) = Algebra!Intersection(Passed', Stored(sets'["set2"]))
      BY <3>1, <2>3, <2>4, <1>2
    <3>3. HalfMade'
      BY <3>2, <1>1, <1>2, <2>4 DEF HalfMade
    <3>4. IInv'
      BY <3>3, <2>4, PartsPrime
    <3> QED
      BY <3>4, <1>1, <2>4 DEF GoesOn
  <2> QED
    BY <2>1, <2>2, <2>4, <1>1, CopyIs DEF GivesUp
<1> QED
  BY <1>5, <1>6

\* At the end of a loop everything has been passed.
LEMMA AllPassed ==
  ASSUME IInv, pc \in Combinations, ~ set_iter_has_more
  PROVE  Passed = Stored(sets[iterator.set])
BY DEF Passed

LEMMA UnionTurnIs ==
  ASSUME IInv, UnionTurn
  PROVE  GoesOn
<1>1. /\ pc = "union1" /\ pc \in Combinations /\ ~ set_iter_has_more
      /\ iterator' = set_iterate("set2") /\ pc' = "union2"
      /\ UNCHANGED << sets, owners, freed, given, result, oom >>
  BY DEF UnionTurn, Combinations, ownVars
<1>2. /\ Live = Names /\ "new_set" \notin owners /\ Good(sets["set2"])
      /\ Scalars /\ AllGood /\ Owned /\ Returned
  BY <1>1, Combining, Parts DEF Names
<1>3. iterator.set = "set1" /\ Stored(sets["new_set"]) = Passed
  BY <1>1, Parts DEF HalfMade
<1>4. Stored(sets["new_set"]) = Stored(sets["set1"])
  BY <1>1, <1>3, AllPassed
<1>5. /\ PointsInto(sets["set2"], "set2", set_iterate("set2"))
      /\ Before(sets["set2"], set_iterate("set2").next_entry) = {}
  BY <1>2, IterateIs
<1>6. Scalars' /\ AllGood' /\ Owned' /\ Returned' /\ Live' = Names
  BY <1>1, <1>2 DEF Scalars, AllGood, Owned, Returned, Live
<1>7. Positioned' /\ iterator'.set = "set2"
  <2>1. "set2" \in Live' /\ PointsInto(sets'["set2"], "set2", iterator')
    BY <1>1, <1>5, <1>6 DEF Names
  <2> QED
    BY <2>1, PositionedPrime
<1>8. Passed' = {}
  BY <1>1, <1>5, <1>7, PassedPrime
<1>9. Algebra!Union(Stored(sets["set1"]), {}) = Stored(sets["set1"])
  BY DEF Algebra!Union
<1>10. HalfMade'
  BY <1>1, <1>2, <1>4, <1>6, <1>7, <1>8, <1>9 DEF HalfMade
<1>11. IInv'
  BY <1>6, <1>7, <1>10, PartsPrime
<1> QED
  BY <1>1, <1>11 DEF GoesOn, Combinations

\* The new set is what set.h promises.
LEMMA CombinedIs ==
  ASSUME IInv, Combined
  PROVE  /\ IInv' /\ pc \in { "union2", "intersect" } /\ pc' = "ready" /\ result' = TRUE
         /\ sets' = sets /\ Live = Names
         /\ Stored(sets["new_set"]) =
              IF pc = "union2"
                THEN Algebra!Union(Stored(sets["set1"]), Stored(sets["set2"]))
                ELSE Algebra!Intersection(Stored(sets["set1"]), Stored(sets["set2"]))
<1>1. /\ pc \in { "union2", "intersect" } /\ pc \in Combinations /\ ~ set_iter_has_more
      /\ pc' = "ready" /\ result' = TRUE
      /\ UNCHANGED << sets, owners, freed, given, oom >>
  BY DEF Combined, Return, Combinations, ownVars
<1>2. Live = Names /\ Scalars /\ AllGood /\ Owned
  BY <1>1, Combining, Parts
<1>3. Passed = Stored(sets[iterator.set])
  BY <1>1, AllPassed
<1>4. Scalars' /\ AllGood' /\ Owned' /\ result' \notin Value
  BY <1>1, <1>2, Kinds, ZenonT(40) DEF Scalars, AllGood, Owned, Live
<1>5. IInv'
  BY <1>1, <1>4, ReadyPrime
<1>6. /\ pc = "union2" => /\ iterator.set = "set2"
                          /\ Stored(sets["new_set"]) = Algebra!Union(Stored(sets["set1"]), Passed)
      /\ pc = "intersect" => /\ iterator.set = "set1"
                             /\ Stored(sets["new_set"]) =
                                  Algebra!Intersection(Passed, Stored(sets["set2"]))
  BY Parts DEF HalfMade
<1> QED
  BY <1>1, <1>2, <1>3, <1>5, <1>6


-----------------------------------------------------------------------------
LEMMA InitIInv == Init => IInv
<1> SUFFICES ASSUME Init PROVE IInv
  OBVIOUS
<1>1. /\ sets = [s \in Names |-> NoSet] /\ owners = {} /\ freed = {} /\ given = {}
      /\ pc = "ready" /\ result = NULL /\ oom = FALSE
  BY DEF Init
<1>2. Live = {} /\ DOMAIN sets = Names
  BY <1>1 DEF Live
<1>3. TypeOK
  BY <1>1, <1>2 DEF TypeOK
<1>4. Positioned /\ Returned /\ HalfMade
  BY <1>1, Kinds DEF Positioned, Returned, HalfMade
<1>5. Owned
  BY <1>1, <1>2 DEF Owned
<1> QED
  BY <1>2, <1>3, <1>4, <1>5 DEF IInv

LEMMA StutterIInv ==
  ASSUME IInv, UNCHANGED vars
  PROVE  IInv'
<1>1. UNCHANGED << sets, owners, freed, given, iterator, pc, result, oom >>
  BY DEF vars, ownVars
<1>2. sets' = sets /\ iterator' = iterator /\ pc' = pc /\ Live' = Live /\ Passed' = Passed
  BY <1>1 DEF Live, Passed, set_iter_has_more
<1>3. Scalars' /\ AllGood' /\ Positioned' /\ Returned' /\ Owned'
  BY <1>1, <1>2, Parts DEF Scalars, AllGood, Positioned, Returned, Owned, set_iter_has_more
<1>4. HalfMade'
  BY <1>1, <1>2, Parts DEF HalfMade
<1> QED
  BY <1>3, <1>4, PartsPrime

LEMMA NextIInv == IInv /\ [Next]_vars => IInv'
<1> SUFFICES ASSUME IInv, [Next]_vars PROVE IInv'
  OBVIOUS
<1>1. ASSUME NEW s \in Operands, New(s) PROVE IInv'
  BY <1>1, NewIInv
<1>2. ASSUME NEW s \in Names, set_register_free_function(s) PROVE IInv'
  BY <1>2, RegisterIInv
<1>3. ASSUME NEW s \in Names, Free(s) PROVE IInv'
  BY <1>3, FreeIInv
<1>4. ASSUME NEW s \in Names, Iterate(s) PROVE IInv'
  BY <1>4, IterateIInv
<1>5. ASSUME NEW s \in Names, NEW v \in Value, Insert(s, v) PROVE IInv'
  BY <1>5, InsertIInv
<1>6. ASSUME NEW s \in Names, NEW v \in Value, set_remove(s, v) PROVE IInv'
  BY <1>6, RemoveIInv
<1>7. CASE IterNext
  BY <1>7, IterNextIInv
<1>8. CASE Combine("union1") \/ Combine("intersect")
  BY <1>8, CombineIInv
<1>9. CASE UnionFirst
  BY <1>9, UnionFirstIs DEF GoesOn, GivesUp
<1>10. CASE UnionTurn
  BY <1>10, UnionTurnIs DEF GoesOn
<1>11. CASE UnionSecond
  BY <1>11, UnionSecondIs DEF GoesOn, GivesUp
<1>12. CASE Intersect
  BY <1>12, IntersectIs DEF GoesOn, GivesUp
<1>13. CASE Combined
  BY <1>13, CombinedIs
<1>14. CASE Keep
  BY <1>14, KeepIInv
<1>15. CASE UNCHANGED vars
  BY <1>15, StutterIInv
<1> QED
  BY <1>1, <1>2, <1>3, <1>4, <1>5, <1>6, <1>7, <1>8, <1>9, <1>10, <1>11, <1>12, <1>13,
     <1>14, <1>15 DEF Next

(* Every reachable state is one of those that IInv describes.              *)
THEOREM Invariant == Spec => []IInv
BY InitIInv, NextIInv, PTL DEF Spec

(* However set_enlarge has moved them, the values of a set are in the      *)
(* chains of their hashes, no two of them equal, and an iterator is at one *)
(* that its set still has.                                                 *)
THEOREM SetsCorrect == Spec => []SetsRight
<1>1. IInv => SetsRight
  BY PositionedPoints DEF IInv, Good, SetsRight, PointsInto, set_iter_has_more
<1> QED
  BY <1>1, Invariant, PTL

(* A set with a free function frees a value when it lets it go, and no     *)
(* union or intersection frees the values that it was made of.             *)
THEOREM ValuesFreedCorrect == Spec => []ValuesFreed
<1>1. IInv => ValuesFreed
  BY DEF IInv, Owned, ValuesFreed
<1> QED
  BY <1>1, Invariant, PTL

(* set_union and set_intersection return SET_NULL only if an allocation    *)
(* failed: no value they copy is equal to one they have copied.            *)
THEOREM NullOnlyWithoutMemory == Spec => NullWithoutMemory
<1>1. ASSUME IInv, [Next]_vars, pc \in Combinations, pc' = "ready", result' = NULL
      PROVE  oom' = TRUE
  <2>1. ASSUME GoesOn PROVE FALSE
    BY <2>1, <1>1 DEF GoesOn, Combinations
  <2>2. ASSUME GivesUp PROVE oom' = TRUE
    BY <2>2 DEF GivesUp
  <2>3. CASE UnionFirst
    BY <2>1, <2>2, <2>3, <1>1, UnionFirstIs
  <2>4. CASE UnionTurn
    BY <2>1, <2>4, <1>1, UnionTurnIs
  <2>5. CASE UnionSecond
    BY <2>1, <2>2, <2>5, <1>1, UnionSecondIs
  <2>6. CASE Intersect
    BY <2>1, <2>2, <2>6, <1>1, IntersectIs
  <2>7. CASE Combined
    BY <2>7, <1>1, CombinedIs, Kinds
  <2>8. CASE UNCHANGED vars
    BY <2>8, <1>1 DEF vars, Combinations
  <2>9. pc # "ready" /\ pc # "iterate"
    BY <1>1 DEF Combinations
  <2> QED
    BY <2>3, <2>4, <2>5, <2>6, <2>7, <2>8, <2>9, <1>1
    DEF Next, New, Insert, set_remove, MayRemove, set_register_free_function, Free, Iterate,
        IterNext, Combine, Start, Keep
<1>2. IInv /\ [Next]_vars =>
        ((pc \in { "union1", "union2", "intersect" } /\ pc' = "ready" /\ result' = NULL) => oom')
  BY <1>1 DEF Combinations
<1>3. IInv /\ [Next]_vars =>
        [ (pc \in { "union1", "union2", "intersect" } /\ pc' = "ready" /\ result' = NULL) => oom' ]_vars
  BY <1>2
<1> QED
  BY <1>3, Invariant, PTL DEF Spec, NullWithoutMemory


-----------------------------------------------------------------------------
(***************************************************************************)
(* The three sets implement the abstract ones.                             *)
(***************************************************************************)
\* What SetAlgebra sees of the sets, and of the combination under way.
Shown ==
  [s \in Names |->
     IF s \notin Live \/ (s = "new_set" /\ pc \in { "union1", "union2", "intersect" })
       THEN NULL ELSE Stored(sets[s])]

Under ==
  IF pc \in { "union1", "union2" } THEN "union"
  ELSE IF pc = "intersect" THEN "intersection" ELSE NULL

LEMMA ShownIs ==
  ASSUME AllGood, NEW s \in Names
  PROVE  /\ s \in Live /\ (s # "new_set" \/ pc \notin Combinations) =>
              Shown[s] = Stored(sets[s]) /\ Shown[s] # NULL /\ s \in Algebra!Live
         /\ ~ (s \in Live /\ (s # "new_set" \/ pc \notin Combinations)) =>
              Shown[s] = NULL /\ s \notin Algebra!Live
<1>1. s \in Live => Stored(sets[s]) # NULL
  BY LiveStored, Kinds
<1>2. s \in Algebra!Live <=> Shown[s] # NULL
  BY DEF Algebra!Live, Shown
<1>3. Shown[s] = IF s \notin Live \/ (s = "new_set" /\ pc \in Combinations)
                   THEN NULL ELSE Stored(sets[s])
  BY DEF Shown, Combinations
<1> QED
  BY <1>1, <1>2, <1>3

LEMMA ShownPrime ==
  ASSUME NEW s \in Names
  PROVE  Shown'[s] = IF s \notin Live' \/ (s = "new_set" /\ pc' \in Combinations)
                       THEN NULL ELSE Stored(sets'[s])
BY DEF Shown, Combinations

LEMMA ShownChanges ==
  ASSUME NEW s \in Names, NEW x, Shown'[s] = x,
         \A t \in Names : t # s => Shown'[t] = Shown[t]
  PROVE  Shown' = [Shown EXCEPT ![s] = x]
<1>1. /\ DOMAIN Shown = Names /\ DOMAIN Shown' = Names
      /\ Shown' = [t \in Names |-> Shown'[t]]
  BY DEF Shown
<1> QED
  BY <1>1

LEMMA ShownStays ==
  ASSUME \A t \in Names : Shown'[t] = Shown[t]
  PROVE  Shown' = Shown
<1>1. Shown' = [t \in Names |-> Shown'[t]] /\ Shown = [t \in Names |-> Shown[t]]
  BY DEF Shown
<1> QED
  BY <1>1

\* A call that concerns one set, while nothing is combined.
LEMMA OneSetStep ==
  ASSUME pc \notin Combinations, pc' \notin Combinations, NEW s, s \in Algebra!Live,
         Algebra!OneSet(s)
  PROVE  Algebra!Next
<1>1. Algebra!Plain
  BY DEF Algebra!Plain
<1>2. /\ (IF pc \in { "union1", "union2" } THEN "union"
          ELSE IF pc = "intersect" THEN "intersection" ELSE NULL) = NULL
      /\ (IF pc' \in { "union1", "union2" } THEN "union"
          ELSE IF pc' = "intersect" THEN "intersection" ELSE NULL) = NULL
  BY DEF Combinations
<1> QED
  BY <1>1, <1>2 DEF Algebra!Next

LEMMA SameShown ==
  ASSUME Shown' = Shown, Under' = Under, result' = result
  PROVE  UNCHANGED Algebra!vars
BY DEF Algebra!vars, Shown, Under

LEMMA NewStep ==
  ASSUME IInv, NEW s \in Operands, New(s)
  PROVE  Algebra!Next
<1>1. Scalars /\ AllGood
  BY Parts
<1>2. /\ pc = "ready" /\ pc' = "ready" /\ s \in Names /\ s \notin Live
  BY DEF New, Names, Operands
<1>3. pc \notin Combinations /\ pc' \notin Combinations
  BY <1>2 DEF Combinations
<1>4. s \notin Algebra!Live /\ \A t \in Names : t \in Live => Shown[t] = Stored(sets[t])
  BY <1>1, <1>2, <1>3, ShownIs
<1>5. \A t \in Names : t \notin Live => Shown[t] = NULL
  BY <1>1, ShownIs
<1>6. CASE sets' = [sets EXCEPT ![s] = EmptySet] /\ result' = TRUE /\ oom' = FALSE
  <2>1. /\ sets'[s] = EmptySet /\ Live' = Live \cup { s }
        /\ \A t \in Names : t # s => sets'[t] = sets[t]
    BY <1>1, <1>2, <1>6, EmptyGood, StaysGood DEF Scalars
  <2>2. Shown'[s] = {}
    BY <1>2, <1>3, <2>1, EmptyGood, ShownPrime
  <2>3. \A t \in Names : t # s => Shown'[t] = Shown[t]
    BY <1>3, <1>4, <1>5, <2>1, ShownPrime
  <2>4. Shown' = [Shown EXCEPT ![s] = {}]
    BY <1>2, <2>2, <2>3, ShownChanges
  <2> QED
    BY <2>4, <1>2, <1>4, <1>6 DEF Algebra!Next, Algebra!Plain, Algebra!New, Shown
<1>7. CASE sets' = sets /\ result' = NULL /\ oom' = TRUE
  <2>1. Shown' = Shown
    BY <1>2, <1>7 DEF Shown, Live
  <2> QED
    BY <2>1, <1>2, <1>4, <1>7 DEF Algebra!Next, Algebra!Plain, Algebra!New, Shown
<1> QED
  BY <1>6, <1>7 DEF New

LEMMA InsertStep ==
  ASSUME IInv, NEW s \in Names, NEW v \in Value, Insert(s, v)
  PROVE  Algebra!Next
<1>1. Scalars /\ AllGood
  BY Parts
<1>2. pc = "ready" /\ pc' = "ready" /\ s \in Live
  BY DEF Insert, Current
<1>3. pc \notin Combinations /\ pc' \notin Combinations
  BY <1>2 DEF Combinations
<1>4. PICK out \in set_insert(sets[s], v) :
        sets' = [sets EXCEPT ![s] = out.set] /\ result' = out.ok /\ oom' = out.oom
  BY DEF Insert
<1>5. Expected(sets[s], v, out)
  BY <1>1, <1>2, InsertIs, LiveStored
<1>6. /\ sets'[s] = out.set /\ Live' = Live
      /\ \A t \in Names : t # s => sets'[t] = sets[t]
  <2>1. s \in Names /\ DOMAIN sets = Names /\ Good(out.set) /\ AllGood /\ Live \cup { s } = Live
    BY <1>1, <1>2, <1>5 DEF Scalars, Expected
  <2> QED
    BY <2>1, <1>4, StaysGood
<1>7. /\ Shown[s] = Stored(sets[s]) /\ s \in Algebra!Live
      /\ Shown'[s] = Stored(sets'[s])
      /\ \A t \in Names : t # s => Shown'[t] = Shown[t]
  BY <1>1, <1>2, <1>3, <1>6, ShownIs, ShownPrime
<1>8. Algebra!Insert(s, v)
  <2>1. CASE out.ok
    <3>1. /\ Shown'[s] = Shown[s] \cup { v } /\ result' = TRUE
          /\ \A u \in Shown[s] : Key[u] # Key[v]
      BY <2>1, <1>4, <1>5, <1>6, <1>7 DEF Expected
    <3>2. Shown' = [Shown EXCEPT ![s] = Shown[s] \cup { v }]
      BY <3>1, <1>7, ShownChanges
    <3>3. Algebra!Equals(v, Shown[s]) = {}
      BY <3>1 DEF Algebra!Equals
    <3> QED
      BY <3>1, <3>2, <3>3 DEF Algebra!Insert, Shown
  <2>2. CASE ~ out.ok
    <3>1. Shown'[s] = Shown[s] /\ result' = FALSE
      BY <2>2, <1>4, <1>5, <1>6, <1>7 DEF Expected
    <3>2. Shown' = Shown
      BY <3>1, <1>7, ShownStays
    <3> QED
      BY <3>1, <3>2 DEF Algebra!Insert, Shown
  <2> QED
    BY <2>1, <2>2
<1>9. Algebra!OneSet(s)
  BY <1>8 DEF Algebra!OneSet
<1> QED
  BY <1>3, <1>7, <1>9, OneSetStep

LEMMA RemoveStep ==
  ASSUME IInv, NEW s \in Names, NEW v \in Value, set_remove(s, v)
  PROVE  Algebra!Next
<1>1. Scalars /\ AllGood
  BY Parts
<1>2. s \in Live /\ pc' = pc /\ pc \in { "ready", "iterate" }
  BY DEF set_remove, Current, MayRemove
<1>3. pc \notin Combinations /\ pc' \notin Combinations
  BY <1>2 DEF Combinations
<1>4. Good(sets[s]) /\ Shown[s] = Stored(sets[s]) /\ s \in Algebra!Live
  BY <1>1, <1>2, <1>3, LiveStored, ShownIs
<1>5. Algebra!Remove(s, v)
  <2>1. CASE Places(sets[s], v) = {}
    <3>1. sets' = sets /\ result' = FALSE
      BY <2>1 DEF set_remove
    <3>2. Shown' = Shown
      BY <1>2, <3>1 DEF Shown, Live
    <3>3. \A u \in Stored(sets[s]) : Key[u] # Key[v]
      BY <2>1, <1>4, PlacesIs
    <3>4. Algebra!Equals(v, Shown[s]) = {}
      BY <3>3, <1>4 DEF Algebra!Equals
    <3>5. Shown' = [Shown EXCEPT ![s] = Shown[s] \ Algebra!Equals(v, Shown[s])]
      BY <3>2, <3>4, ShownChanges
    <3> QED
      BY <3>1, <3>4, <3>5 DEF Algebra!Remove, Shown
  <2>2. CASE Places(sets[s], v) # {}
    <3>1. PICK p \in Places(sets[s], v) :
            sets' = [sets EXCEPT ![s] = Removed(sets[s], v, p)] /\ result' = TRUE
      BY <2>2 DEF set_remove
    <3> DEFINE gone == sets[s].table[index(sets[s], v)][p]
               set == Removed(sets[s], v, p)
    <3>2. /\ Good(set) /\ gone \in Stored(sets[s]) /\ Key[gone] = Key[v]
          /\ Stored(set) = Stored(sets[s]) \ { gone }
      BY <1>4, RemovedIs
    <3> HIDE DEF set, gone
    <3>3. /\ sets'[s] = set /\ Live' = Live
          /\ \A t \in Names : t # s => sets'[t] = sets[t]
      <4>1. DOMAIN sets = Names /\ Live \cup { s } = Live
        BY <1>1, <1>2 DEF Scalars
      <4> QED
        BY <4>1, <3>1, <3>2, <1>1, StaysGood DEF set
    <3>4. Algebra!Equals(v, Shown[s]) = { gone }
      <4>1. ASSUME NEW u \in Stored(sets[s]), Key[u] = Key[v] PROVE u = gone
        BY <4>1, <3>2, <1>4, KeysDiffer
      <4> QED
        BY <4>1, <3>2, <1>4 DEF Algebra!Equals
    <3>5. /\ Shown'[s] = Shown[s] \ Algebra!Equals(v, Shown[s])
          /\ \A t \in Names : t # s => Shown'[t] = Shown[t]
      BY <1>1, <1>2, <1>3, <1>4, <3>2, <3>3, <3>4, ShownIs, ShownPrime
    <3>6. Shown' = [Shown EXCEPT ![s] = Shown[s] \ Algebra!Equals(v, Shown[s])]
      BY <3>5, ShownChanges
    <3>7. Algebra!Equals(v, Shown[s]) # {}
      BY <3>4
    <3> QED
      BY <3>1, <3>6, <3>7 DEF Algebra!Remove, Shown
  <2> QED
    BY <2>1, <2>2
<1>6. Algebra!OneSet(s)
  BY <1>5 DEF Algebra!OneSet
<1> QED
  BY <1>3, <1>4, <1>6, OneSetStep


LEMMA FreeStep ==
  ASSUME IInv, NEW s \in Names, Free(s)
  PROVE  Algebra!Next
<1>1. Scalars /\ AllGood /\ Owned
  BY Parts
<1>2. /\ pc = "ready" /\ pc' = "ready" /\ s \in Live /\ ("new_set" \in Live => s = "new_set")
      /\ FreeSet(s) /\ given' = given /\ result' = result
  BY DEF Free, Current
<1>3. pc \notin Combinations /\ pc' \notin Combinations
  BY <1>2 DEF Combinations
<1>4. Live' = Live \ { s } /\ \A t \in Names : t # s => sets'[t] = sets[t]
  BY <1>1, <1>2, FreeSetIs
<1>5. s \in Algebra!Live /\ Shown'[s] = NULL /\ \A t \in Names : t # s => Shown'[t] = Shown[t]
  BY <1>1, <1>2, <1>3, <1>4, ShownIs, ShownPrime
<1>6. Shown' = [Shown EXCEPT ![s] = NULL]
  BY <1>5, ShownChanges
<1>7. Algebra!Free(s)
  BY <1>2, <1>6 DEF Algebra!Free, Shown
<1>8. Algebra!OneSet(s)
  BY <1>7 DEF Algebra!OneSet
<1> QED
  BY <1>3, <1>5, <1>8, OneSetStep

LEMMA IterNextStep ==
  ASSUME IInv, IterNext
  PROVE  Algebra!Next
<1>1. Scalars /\ AllGood /\ Positioned
  BY Parts
<1>2. /\ pc = "iterate" /\ pc' \in { "ready", "iterate" } /\ result' = iterator.next_entry
      /\ sets' = sets
  BY DEF IterNext
<1>3. pc \notin Combinations /\ pc' \notin Combinations
  BY <1>2 DEF Combinations
<1>4. PICK s \in Live : s = iterator.set
  BY <1>1, <1>2 DEF Positioned
<1>5. s \in Algebra!Live /\ Shown[s] = Stored(sets[s])
  BY <1>1, <1>3, ShownIs DEF Live
<1>6. result' \in Shown[s] \cup { NULL }
  BY <1>1, <1>2, <1>4, <1>5 DEF Positioned, set_iter_has_more
<1>7. Shown' = Shown
  BY <1>2, <1>3 DEF Shown, Live, Combinations
<1>8. Algebra!IterNext(s)
  BY <1>6, <1>7 DEF Algebra!IterNext, Shown
<1>9. Algebra!OneSet(s)
  BY <1>8 DEF Algebra!OneSet
<1> QED
  BY <1>3, <1>5, <1>9, OneSetStep

LEMMA KeepStep ==
  ASSUME IInv, Keep
  PROVE  Algebra!Next
<1>1. Scalars /\ AllGood
  BY Parts
<1>2. pc = "ready" /\ pc' = "ready" /\ result' = result /\ "set1" \in Live /\ "new_set" \in Live
  BY DEF Keep
<1>3. pc \notin Combinations /\ pc' \notin Combinations
  BY <1>2 DEF Combinations
<1>4. /\ sets'["set1"] = sets["new_set"] /\ Live' = Live \ { "new_set" }
      /\ sets'["set2"] = sets["set2"]
  BY KeepIInv
<1>5. "set1" \in Names /\ "set2" \in Names /\ "new_set" \in Names
  BY DEF Names
<1>6. /\ "set1" \in Algebra!Live /\ "new_set" \in Algebra!Live
      /\ Shown["new_set"] = Stored(sets["new_set"])
  BY <1>1, <1>2, <1>3, <1>5, ShownIs
<1>7. Shown'["set1"] = Shown["new_set"] /\ Shown'["new_set"] = NULL
  BY <1>2, <1>3, <1>4, <1>5, <1>6, ShownPrime
<1>8. Shown'["set2"] = Shown["set2"]
  BY <1>1, <1>3, <1>4, <1>5, ShownIs, ShownPrime
<1>9. Shown' = [Shown EXCEPT !["set1"] = Shown["new_set"], !["new_set"] = NULL]
  <2>1. Shown' = [t \in Names |-> Shown'[t]] /\ DOMAIN Shown = Names
    BY DEF Shown
  <2> QED
    BY <2>1, <1>7, <1>8 DEF Names
<1>10. Algebra!Keep("set1", "new_set")
  BY <1>2, <1>9 DEF Algebra!Keep, Shown
<1>11. Algebra!Plain
  BY <1>6, <1>10 DEF Algebra!Plain
<1> QED
  BY <1>2, <1>11 DEF Algebra!Next

LEMMA CombineStep ==
  ASSUME IInv, NEW phase \in { "union1", "intersect" }, Combine(phase)
  PROVE  Algebra!Next
<1>1. Scalars /\ AllGood
  BY Parts
<1>2. pc = "ready" /\ "new_set" \notin Live /\ Start(phase)
  BY DEF Combine, Start
<1>3. pc \notin Combinations /\ "new_set" \in Names
  BY <1>2 DEF Combinations, Names
<1>4. Under = NULL
  BY <1>2 DEF Under
<1>5. CASE /\ sets' = [sets EXCEPT !["new_set"] = EmptySet] /\ pc' = phase /\ UNCHANGED result
  <2>1. /\ Live' = Live \cup { "new_set" }
        /\ \A t \in Names : t # "new_set" => sets'[t] = sets[t]
    BY <1>1, <1>3, <1>5, EmptyGood, StaysGood DEF Scalars
  <2>2. pc' \in Combinations
    BY <1>5 DEF Combinations
  <2>3. Shown'["new_set"] = NULL /\ Shown["new_set"] = NULL
    BY <1>1, <1>2, <1>3, <2>2, ShownIs, ShownPrime
  <2>4. \A t \in Names : t # "new_set" => Shown'[t] = Shown[t]
    BY <1>1, <1>3, <2>1, ShownIs, ShownPrime
  <2>5. Shown' = Shown
    BY <2>3, <2>4, ShownStays
  <2>6. \E op \in { "union", "intersection" } : Under' = op
    BY <1>5 DEF Under
  <2>7. \E op \in { "union", "intersection" } : Algebra!Begin(op)
    BY <2>5, <2>6, <1>2, <1>5 DEF Algebra!Begin, Shown, Under
  <2> QED
    BY <2>7 DEF Algebra!Next
<1>6. CASE result' = NULL /\ UNCHANGED << sets, pc >>
  <2>1. Shown' = Shown
    BY <1>6 DEF Shown, Live
  <2>2. Algebra!Begin("union")
    BY <2>1, <1>2, <1>6 DEF Algebra!Begin, Shown
  <2> QED
    BY <2>2 DEF Algebra!Next
<1> QED
  BY <1>2, <1>5, <1>6 DEF Start

\* While a combination is under way, its operands are what is seen.
LEMMA OperandsShown ==
  ASSUME IInv, pc \in Combinations
  PROVE  /\ Shown["set1"] = Stored(sets["set1"]) /\ "set1" \in Algebra!Live
         /\ Shown["set2"] = Stored(sets["set2"]) /\ "set2" \in Algebra!Live
         /\ Shown["new_set"] = NULL /\ "new_set" \in Names \ Algebra!Live
<1>1. AllGood /\ Live = Names
  BY Parts, Combining
<1>2. "set1" \in Names /\ "set2" \in Names /\ "new_set" \in Names
  BY DEF Names
<1> QED
  BY <1>1, <1>2, ShownIs

LEMMA GoesOnStep ==
  ASSUME IInv, pc \in Combinations, GoesOn
  PROVE  UNCHANGED Algebra!vars
<1>1. IInv' /\ pc' \in Combinations /\ result' = result
  BY DEF GoesOn
<1>2. Live = Names /\ \A s \in Operands : sets'[s] = sets[s]
  BY Combining DEF GoesOn
<1>3. Live' = Names
  BY <1>1 DEF IInv, HalfMade, Combinations
<1>4. Under' = Under
  BY <1>1 DEF GoesOn, Under, Combinations
<1>5. /\ Shown'["set1"] = Stored(sets["set1"]) /\ Shown'["set2"] = Stored(sets["set2"])
      /\ Shown'["new_set"] = NULL
  BY <1>1, <1>2, <1>3, ShownPrime DEF Operands, Names
<1>6. \A t \in Names : Shown'[t] = Shown[t]
  BY <1>5, OperandsShown DEF Names
<1>7. Shown' = Shown
  BY <1>6, ShownStays
<1> QED
  BY <1>1, <1>4, <1>7, SameShown

LEMMA GivesUpStep ==
  ASSUME IInv, pc \in Combinations, GivesUp
  PROVE  Algebra!Next
<1>1. /\ pc' = "ready" /\ result' = NULL /\ Live' = Operands
      /\ \A s \in Operands : sets'[s] = sets[s]
  BY DEF GivesUp
<1>2. /\ Shown'["set1"] = Stored(sets["set1"]) /\ Shown'["set2"] = Stored(sets["set2"])
      /\ Shown'["new_set"] = NULL
  BY <1>1, ShownPrime DEF Operands, Names, Combinations
<1>3. \A t \in Names : Shown'[t] = Shown[t]
  BY <1>2, OperandsShown DEF Names
<1>4. Shown' = Shown
  BY <1>3, ShownStays
<1>5. Under # NULL /\ Under' = NULL
  BY <1>1, NullAssumption DEF Under, Combinations
<1>6. Algebra!End("set1", "set2", "new_set")
  BY <1>1, <1>4, <1>5 DEF Algebra!End, Shown, Under
<1> QED
  BY <1>6, OperandsShown DEF Algebra!Next

LEMMA CombinedStep ==
  ASSUME IInv, Combined
  PROVE  Algebra!Next
<1>1. /\ pc \in { "union2", "intersect" } /\ pc' = "ready" /\ result' = TRUE
      /\ sets' = sets /\ Live = Names
      /\ Stored(sets["new_set"]) =
           IF pc = "union2"
             THEN Algebra!Union(Stored(sets["set1"]), Stored(sets["set2"]))
             ELSE Algebra!Intersection(Stored(sets["set1"]), Stored(sets["set2"]))
  BY CombinedIs
<1>2. pc \in Combinations /\ pc' \notin Combinations /\ Live' = Names
  BY <1>1 DEF Combinations, Live
<1>3. /\ Shown["set1"] = Stored(sets["set1"]) /\ Shown["set2"] = Stored(sets["set2"])
      /\ "set1" \in Algebra!Live /\ "set2" \in Algebra!Live /\ "new_set" \in Names \ Algebra!Live
  BY <1>2, OperandsShown
<1>4. \A t \in Names : Shown'[t] = Stored(sets[t])
  BY <1>1, <1>2, ShownPrime
<1> DEFINE values == IF Under = "union" THEN Algebra!Union(Shown["set1"], Shown["set2"])
                     ELSE Algebra!Intersection(Shown["set1"], Shown["set2"])
<1>5. Stored(sets["new_set"]) = values
  <2>1. CASE pc = "union2"
    BY <2>1, <1>1, <1>3 DEF Under
  <2>2. CASE pc = "intersect"
    BY <2>2, <1>1, <1>3 DEF Under
  <2> QED
    BY <2>1, <2>2, <1>1
<1>6. Shown' = [Shown EXCEPT !["new_set"] = values]
  <2>1. Shown'["new_set"] = values /\ \A t \in Names : t # "new_set" => Shown'[t] = Shown[t]
    BY <1>3, <1>4, <1>5 DEF Names
  <2> HIDE DEF values
  <2> QED
    BY <2>1, ShownChanges DEF Names
<1>7. Under # NULL /\ Under' = NULL
  BY <1>1, NullAssumption DEF Under
<1>8. Algebra!End("set1", "set2", "new_set")
  BY <1>1, <1>6, <1>7 DEF Algebra!End, Shown, Under
<1> QED
  BY <1>3, <1>8 DEF Algebra!Next

LEMMA StepSets == IInv /\ [Next]_vars => [Algebra!Next]_(Algebra!vars)
<1> SUFFICES ASSUME IInv, [Next]_vars PROVE Algebra!Next \/ UNCHANGED Algebra!vars
  OBVIOUS
<1>1. ASSUME NEW s \in Operands, New(s) PROVE Algebra!Next
  BY <1>1, NewStep
<1>2. ASSUME NEW s \in Names, set_register_free_function(s) \/ Iterate(s)
      PROVE  UNCHANGED Algebra!vars
  <2>1. /\ sets' = sets /\ result' = result /\ pc = "ready" /\ pc' \in { "ready", "iterate" }
    BY <1>2 DEF set_register_free_function, Iterate
  <2>2. Shown' = Shown /\ Under' = Under
    BY <2>1 DEF Shown, Under, Live
  <2> QED
    BY <2>1, <2>2, SameShown
<1>3. ASSUME NEW s \in Names, Free(s) PROVE Algebra!Next
  BY <1>3, FreeStep
<1>4. ASSUME NEW s \in Names, NEW v \in Value, Insert(s, v) PROVE Algebra!Next
  BY <1>4, InsertStep
<1>5. ASSUME NEW s \in Names, NEW v \in Value, set_remove(s, v) PROVE Algebra!Next
  BY <1>5, RemoveStep
<1>6. CASE IterNext
  BY <1>6, IterNextStep
<1>7. CASE Combine("union1") \/ Combine("intersect")
  BY <1>7, CombineStep
<1>8. ASSUME pc \in Combinations, GoesOn \/ GivesUp PROVE Algebra!Next \/ UNCHANGED Algebra!vars
  BY <1>8, GoesOnStep, GivesUpStep
<1>9. CASE UnionFirst
  BY <1>8, <1>9, UnionFirstIs DEF UnionFirst, Combinations
<1>10. CASE UnionTurn
  BY <1>8, <1>10, UnionTurnIs DEF UnionTurn, Combinations
<1>11. CASE UnionSecond
  BY <1>8, <1>11, UnionSecondIs DEF UnionSecond, Combinations
<1>12. CASE Intersect
  BY <1>8, <1>12, IntersectIs DEF Intersect, Combinations
<1>13. CASE Combined
  BY <1>13, CombinedStep
<1>14. CASE Keep
  BY <1>14, KeepStep
<1>15. CASE UNCHANGED vars
  <2>1. Shown' = Shown /\ Under' = Under /\ result' = result
    BY <1>15 DEF vars, Shown, Under, Live
  <2> QED
    BY <2>1, SameShown
<1> QED
  BY <1>1, <1>2, <1>3, <1>4, <1>5, <1>6, <1>7, <1>9, <1>10, <1>11, <1>12, <1>13, <1>14,
     <1>15 DEF Next

(* The sets implement those of SetAlgebra: growth and the loops are not    *)
(* visible, a refused call changes nothing, and a combination ends with    *)
(* the union or the intersection, or without a new set.                    *)
THEOREM ImplementsSets == Spec => SetSpec
<1>1. Init => Algebra!Init
  <2> SUFFICES ASSUME Init PROVE Algebra!Init
    OBVIOUS
  <2>1. sets = [s \in Names |-> NoSet] /\ pc = "ready" /\ result = NULL
    BY DEF Init
  <2>2. Shown = [s \in Names |-> NULL] /\ Under = NULL
    BY <2>1 DEF Shown, Under, Live
  <2> QED
    BY <2>1, <2>2 DEF Algebra!Init, Shown, Under
<1> QED
  BY <1>1, Invariant, StepSets, PTL DEF Spec, SetSpec, Algebra!Spec
=============================================================================
