--------------------------- MODULE StringSetsProof ---------------------------
(***************************************************************************)
(* Proofs about StringSets: the lists are those of the strings that were   *)
(* added and not removed, for every number of strings and sets, and no     *)
(* freed string is used by callers that leave what they passed to a tree   *)
(* to it.                                                                  *)
(***************************************************************************)
EXTENDS StringSets, SequenceTheorems, FiniteSetTheorems, WellFoundedInduction, TLAPS

\* The numbers are well ordered: a set of them has a least element.
LEMMA LeastNatural ==
  ASSUME NEW S \in SUBSET Nat, S # {}
  PROVE  \E m \in S : \A n \in S : m <= n
<1> DEFINE Less == { p \in Nat \X Nat : p[1] < p[2] }
<1>1. IsWellFoundedOn(Less, Nat)
  BY NatLessThanWellFounded DEF OpToRel
<1>2. PICK m \in S : \A n \in S : << n, m >> \notin Less
  <2> HIDE DEF Less
  <2> QED BY <1>1, WFMin
<1>3. ASSUME NEW n \in S PROVE m <= n
  <2>1. << n, m >> \in Nat \X Nat /\ << n, m >>[1] = n /\ << n, m >>[2] = m
    OBVIOUS
  <2>2. ~ (n < m)
    BY <1>2, <2>1
  <2> QED BY <2>2
<1> QED BY <1>3

USE NullAssumption, CleansUpAssumption

-----------------------------------------------------------------------------
(***************************************************************************)
(* Sequences of strings.                                                   *)
(***************************************************************************)
LEMMA ConcatIs ==
  ASSUME NEW a \in Seq(String), NEW b \in Seq(String)
  PROVE  /\ a \o b \in Seq(String) /\ Len(a \o b) = Len(a) + Len(b)
         /\ \A n \in 1..(Len(a) + Len(b)) :
              (a \o b)[n] = IF n <= Len(a) THEN a[n] ELSE b[n - Len(a)]
  OBVIOUS

LEMMA FrontIs ==
  ASSUME NEW m \in Seq(String), NEW k \in Nat, k <= Len(m)
  PROVE  /\ SubSeq(m, 1, k) \in Seq(String) /\ Len(SubSeq(m, 1, k)) = k
         /\ \A n \in 1..k : SubSeq(m, 1, k)[n] = m[n]
  OBVIOUS

LEMMA WholeIs ==
  ASSUME NEW m \in Seq(String)
  PROVE  SubSeq(m, 1, Len(m)) = m
<1>1. Len(m) \in Nat /\ Len(m) <= Len(m)
  OBVIOUS
<1>2. /\ SubSeq(m, 1, Len(m)) \in Seq(String) /\ Len(SubSeq(m, 1, Len(m))) = Len(m)
      /\ \A n \in 1..Len(m) : SubSeq(m, 1, Len(m))[n] = m[n]
  BY <1>1, FrontIs
<1> QED
  BY <1>2, SeqEqual

LEMMA WithoutIs ==
  ASSUME NEW m \in Seq(String), NEW p \in DOMAIN m,
         \A i, j \in DOMAIN m : m[i] = m[j] => i = j
  PROVE  /\ Without(m, m[p]) \in Seq(String)
         /\ Len(Without(m, m[p])) = Len(m) - 1
         /\ \A n \in 1..(Len(m) - 1) :
              Without(m, m[p])[n] = IF n < p THEN m[n] ELSE m[n + 1]
<1>1. p \in 1..Len(m) /\ Len(m) \in Nat
  OBVIOUS
<1>2. (CHOOSE n \in DOMAIN m : m[n] = m[p]) = p
  <2> DEFINE c == CHOOSE n \in DOMAIN m : m[n] = m[p]
  <2>1. c \in DOMAIN m /\ m[c] = m[p]
    OBVIOUS
  <2> QED
    BY <2>1
<1>3. Without(m, m[p]) = SubSeq(m, 1, p - 1) \o SubSeq(m, p + 1, Len(m))
  BY <1>2 DEF Without, RemoveAt
<1> DEFINE a == SubSeq(m, 1, p - 1)
           b == SubSeq(m, p + 1, Len(m))
<1>4. a \in Seq(String) /\ Len(a) = p - 1 /\ \A n \in 1..(p - 1) : a[n] = m[n]
  BY <1>1
<1>5. b \in Seq(String) /\ Len(b) = Len(m) - p /\ \A n \in 1..(Len(m) - p) : b[n] = m[p + n]
  BY <1>1
<1> HIDE DEF a, b
<1>6. a \o b \in Seq(String) /\ Len(a \o b) = Len(m) - 1
  <2>1. Len(a \o b) = Len(a) + Len(b) /\ a \o b \in Seq(String)
    BY <1>4, <1>5, ConcatIs
  <2>2. (p - 1) + (Len(m) - p) = Len(m) - 1
    BY <1>1
  <2> QED
    BY <2>1, <2>2, <1>4, <1>5
<1>7. ASSUME NEW n \in 1..(Len(m) - 1)
      PROVE  (a \o b)[n] = IF n < p THEN m[n] ELSE m[n + 1]
  <2>1. CASE n < p
    <3>1. n \in 1..(p - 1) /\ n \in 1..(Len(a) + Len(b)) /\ n <= Len(a)
      BY <2>1, <1>1, <1>4, <1>5
    <3>2. (a \o b)[n] = a[n]
      BY <3>1, <1>4, <1>5, ConcatIs
    <3> QED
      BY <3>1, <3>2, <2>1, <1>4
  <2>2. CASE ~ (n < p)
    <3>1. n - (p - 1) \in 1..(Len(m) - p) /\ p + (n - (p - 1)) = n + 1
      BY <2>2, <1>1
    <3>2. b[n - (p - 1)] = m[n + 1]
      BY <3>1, <1>5
    <3>3. n \in 1..(Len(a) + Len(b)) /\ ~ (n <= Len(a))
      BY <2>2, <1>1, <1>4, <1>5
    <3>4. (a \o b)[n] = b[n - Len(a)]
      BY <3>3, <1>4, <1>5, ConcatIs, ZenonT(40)
    <3> QED
      BY <3>4, <3>2, <2>2, <1>4
  <2> QED
    BY <2>1, <2>2
<1> QED
  BY <1>3, <1>6, <1>7 DEF a, b

LEMMA TailIs ==
  ASSUME NEW m \in Seq(String), m # << >>
  PROVE  /\ Tail(m) \in Seq(String) /\ Len(Tail(m)) = Len(m) - 1
         /\ \A n \in 1..(Len(m) - 1) : Tail(m)[n] = m[n + 1]
  OBVIOUS

LEMMA HeadedIs ==
  ASSUME NEW m \in Seq(String), NEW s \in String
  PROVE  /\ << s >> \o m \in Seq(String) /\ Len(<< s >> \o m) = Len(m) + 1
         /\ \A n \in 1..(Len(m) + 1) : (<< s >> \o m)[n] = IF n = 1 THEN s ELSE m[n - 1]
<1>1. << s >> \in Seq(String) /\ Len(<< s >>) = 1 /\ << s >>[1] = s
  OBVIOUS
<1> QED
  BY <1>1

\* The first string of a list, and that it has one.
LEMMA FirstOfList ==
  ASSUME TypeOK, Chains, NEW l \in Set
  PROVE  /\ members[l] \in Seq(String) /\ Len(members[l]) \in Nat
         /\ lh_first[l] = NULL <=> Len(members[l]) = 0
         /\ lh_first[l] # NULL => 1 \in DOMAIN members[l] /\ lh_first[l] = members[l][1]
<1>1. members[l] \in Seq(String) /\ Len(members[l]) \in Nat
  BY DEF TypeOK
<1>2. lh_first[l] = IF 0 < Len(members[l]) THEN members[l][1] ELSE NULL
  BY DEF Chains, Chain, After
<1>3. 0 < Len(members[l]) => 1 \in DOMAIN members[l] /\ members[l][1] \in String
  BY <1>1
<1> QED
  BY <1>1, <1>2, <1>3

\* A loop over a list comes to the members of the set.
LEMMA StringsAreMembers ==
  ASSUME TypeOK, Chains, NEW l \in Set
  PROVE  Strings(l) = ToSet(members[l])
<1> DEFINE m == members[l]
           S == { m[n] : n \in DOMAIN m }
<1>1. m \in Seq(String) /\ Len(m) \in Nat /\ DOMAIN m = 1..Len(m)
  BY DEF TypeOK
<1>2. Chain(l, m)
  BY DEF Chains
<1>3. S \in SUBSET String
  BY <1>1
<1>4. Holds(S, l)
  <2>1. lh_first[l] \in S \cup { NULL }
    BY <1>1, <1>2 DEF Chain, After
  <2>2. ASSUME NEW s \in S PROVE le_next[s] \in S \cup { NULL }
    <3>1. PICK n \in DOMAIN m : s = m[n]
      OBVIOUS
    <3>2. le_next[s] = IF n < Len(m) THEN m[n + 1] ELSE NULL
      BY <3>1, <1>2 DEF Chain, After
    <3>3. n < Len(m) => n + 1 \in DOMAIN m
      BY <1>1
    <3> QED
      BY <3>2, <3>3
  <2> QED
    BY <2>1, <2>2 DEF Holds
<1>5. ASSUME NEW T \in SUBSET String, Holds(T, l), NEW n \in DOMAIN m
      PROVE  m[n] \in T
  <2> DEFINE Out == { i \in DOMAIN m : m[i] \notin T }
  <2>1. SUFFICES ASSUME Out # {} PROVE FALSE
    OBVIOUS
  <2>2. Out \in SUBSET Nat
    BY <1>1
  <2>3. PICK i \in Out : \A j \in Out : i <= j
    <3> HIDE DEF Out
    <3> QED
      BY <2>1, <2>2, LeastNatural
  <2>4. i \in 1..Len(m) /\ m[i] \notin T /\ m[i] \in String
    BY <2>3, <1>1
  <2>5. CASE i = 1
    <3>1. lh_first[l] = m[1]
      BY <2>4, <2>5, <1>1, <1>2 DEF Chain, After
    <3> QED
      BY <3>1, <2>4, <2>5, <1>5 DEF Holds
  <2>6. CASE i # 1
    <3>1. i - 1 \in DOMAIN m /\ i - 1 < Len(m) /\ ~ (i <= i - 1) /\ (i - 1) + 1 = i
      BY <2>4, <2>6, <1>1
    <3>2. i - 1 \notin Out
      BY <3>1, <2>3
    <3>3. m[i - 1] \in T
      BY <3>1, <3>2
    <3>4. le_next[m[i - 1]] = m[i]
      BY <3>1, <1>2 DEF Chain, After
    <3> QED
      BY <3>3, <3>4, <2>4, <1>5 DEF Holds
  <2> QED
    BY <2>5, <2>6
<1>6. Strings(l) \subseteq S
  BY <1>3, <1>4 DEF Strings
<1>7. S \subseteq Strings(l)
  <2> SUFFICES ASSUME NEW n \in DOMAIN m PROVE m[n] \in Strings(l)
    OBVIOUS
  <2>1. m[n] \in String
    BY <1>1
  <2> QED
    BY <2>1, <1>5 DEF Strings
<1> QED
  BY <1>6, <1>7 DEF ToSet


-----------------------------------------------------------------------------
(***************************************************************************)
(* What a step does to the lists.                                          *)
(***************************************************************************)
\* The members of sets that exist are all the members.
LEMMA AllLinked ==
  ASSUME TypeOK, Sizes, NEW l \in Set, NEW n \in DOMAIN members[l]
  PROVE  l \in sets /\ members[l][n] \in String /\ Linked(members[l][n])
<1>1. members[l] \in Seq(String) /\ n \in 1..Len(members[l]) /\ Len(members[l]) \in Nat
  BY DEF TypeOK
<1>2. l \in sets
  <2>1. SUFFICES ASSUME l \notin sets PROVE FALSE
    OBVIOUS
  <2>2. members[l] = << >>
    BY <2>1 DEF Sizes
  <2> QED
    BY <2>2, <1>1
<1>3. Contains(members[l], members[l][n])
  BY <1>1 DEF Contains
<1> QED
  BY <1>1, <1>2, <1>3 DEF Linked

LEMMA LinkedMember ==
  ASSUME TypeOK, NEW s, Linked(s)
  PROVE  \E l \in sets : \E n \in DOMAIN members[l] : members[l][n] = s
<1>1. PICK l \in sets : Contains(members[l], s)
  BY DEF Linked
<1>2. members[l] \in Seq(String)
  BY DEF TypeOK
<1> QED
  BY <1>1, <1>2 DEF Contains

\* A string is added in front of a list.
LEMMA Inserts ==
  ASSUME TypeOK, Apart, Chains, Sizes, NEW l \in sets, NEW s \in String, ~ Linked(s),
         LIST_INSERT_HEAD(l, s),
         members' = [members EXCEPT ![l] = << s >> \o @]
  PROVE  /\ le_next' \in [String -> String \cup { NULL }]
         /\ le_prev' \in [String -> String \cup Set \cup { NULL }]
         /\ lh_first' \in [Set -> String \cup { NULL }]
         /\ members' \in [Set -> Seq(String)] /\ Len(members'[l]) = Len(members[l]) + 1
         /\ Apart' /\ Chains'
<1> DEFINE m == members[l]
           h == << s >> \o m
           old == lh_first[l]
<1>1. l \in Set /\ m \in Seq(String) /\ Len(m) \in Nat /\ DOMAIN m = 1..Len(m)
  BY DEF TypeOK
<1>2. /\ h \in Seq(String) /\ Len(h) = Len(m) + 1 /\ DOMAIN h = 1..(Len(m) + 1)
      /\ \A n \in 1..(Len(m) + 1) : h[n] = IF n = 1 THEN s ELSE m[n - 1]
  <2>1. /\ h \in Seq(String) /\ Len(h) = Len(m) + 1
        /\ \A n \in 1..(Len(m) + 1) : h[n] = IF n = 1 THEN s ELSE m[n - 1]
    BY <1>1, HeadedIs
  <2> QED
    BY <2>1
<1> HIDE DEF h
<1>3. members'[l] = h /\ \A k \in Set : k # l => members'[k] = members[k]
  BY <1>1 DEF TypeOK, h
<1>4. members' \in [Set -> Seq(String)]
  BY <1>1, <1>2 DEF TypeOK, h
<1>5. \A k \in Set : \A n \in DOMAIN members[k] : members[k][n] \in String /\ members[k][n] # s
  BY AllLinked
<1>6. /\ le_next' = [le_next EXCEPT ![s] = old]
      /\ le_prev' = [t \in String |-> IF t = s THEN l
                                      ELSE IF t = old THEN s ELSE le_prev[t]]
      /\ lh_first' = [lh_first EXCEPT ![l] = s]
  BY DEF LIST_INSERT_HEAD
<1>7. old \in String \cup { NULL }
  BY <1>1 DEF TypeOK
<1>8. /\ le_next' \in [String -> String \cup { NULL }]
      /\ le_prev' \in [String -> String \cup Set \cup { NULL }]
      /\ lh_first' \in [Set -> String \cup { NULL }]
  BY <1>1, <1>6, <1>7 DEF TypeOK
<1>9. Apart'
  <2> SUFFICES ASSUME NEW j \in Set, NEW k \in Set,
                      NEW a \in DOMAIN members'[j], NEW b \in DOMAIN members'[k],
                      members'[j][a] = members'[k][b]
               PROVE  j = k /\ a = b
    BY DEF Apart
  <2>1. CASE j = l /\ k = l
    <3>1. a \in 1..(Len(m) + 1) /\ b \in 1..(Len(m) + 1) /\ h[a] = h[b]
      BY <2>1, <1>2, <1>3
    <3>2. a # 1 => a - 1 \in DOMAIN m /\ h[a] = m[a - 1]
      BY <3>1, <1>1, <1>2
    <3>3. b # 1 => b - 1 \in DOMAIN m /\ h[b] = m[b - 1]
      BY <3>1, <1>1, <1>2
    <3>4. h[1] = s
      BY <1>1, <1>2
    <3>5. CASE a # 1 /\ b # 1
      <4>1. a - 1 = b - 1
        BY <3>1, <3>2, <3>3, <3>5, <1>1 DEF Apart
      <4> QED
        BY <4>1, <3>1, <2>1
    <3> QED
      BY <3>1, <3>2, <3>3, <3>4, <3>5, <2>1, <1>1, <1>5
  <2>2. CASE j = l /\ k # l
    <3>1. a \in 1..(Len(m) + 1) /\ members'[k] = members[k] /\ h[a] = members[k][b]
      BY <2>2, <1>2, <1>3
    <3>2. a # 1 => a - 1 \in DOMAIN m /\ h[a] = m[a - 1]
      BY <3>1, <1>1, <1>2
    <3>3. a = 1 => h[a] = s
      BY <3>1, <1>2
    <3>4. b \in DOMAIN members[k]
      BY <3>1
    <3> QED
      BY <3>1, <3>2, <3>3, <3>4, <2>2, <1>1, <1>5 DEF Apart
  <2>3. CASE j # l /\ k = l
    <3>1. b \in 1..(Len(m) + 1) /\ members'[j] = members[j] /\ h[b] = members[j][a]
      BY <2>3, <1>2, <1>3
    <3>2. b # 1 => b - 1 \in DOMAIN m /\ h[b] = m[b - 1]
      BY <3>1, <1>1, <1>2
    <3>3. b = 1 => h[b] = s
      BY <3>1, <1>2
    <3>4. a \in DOMAIN members[j]
      BY <3>1
    <3> QED
      BY <3>1, <3>2, <3>3, <3>4, <2>3, <1>1, <1>5 DEF Apart
  <2>4. CASE j # l /\ k # l
    BY <2>4, <1>3 DEF Apart
  <2> QED
    BY <2>1, <2>2, <2>3, <2>4
<1>10. \A k \in Set : \A n \in DOMAIN members[k] : le_next'[members[k][n]] = After(members[k], n)
  BY <1>5, <1>6 DEF TypeOK, Chains, Chain
<1>11. ASSUME NEW k \in Set, NEW n \in DOMAIN members[k], k # l \/ n # 1
       PROVE  le_prev'[members[k][n]] = Before(k, members[k], n)
  <2>1. members[k][n] # old
    <3>1. old # NULL => 1 \in DOMAIN m /\ old = m[1]
      BY <1>1, FirstOfList
    <3>2. members[k][n] # NULL
      BY <1>5
    <3> QED
      BY <3>1, <3>2, <1>11, <1>1 DEF Apart
  <2>2. le_prev'[members[k][n]] = le_prev[members[k][n]]
    BY <2>1, <1>5, <1>6
  <2> QED
    BY <2>2 DEF Chains, Chain
<1>12. /\ lh_first'[l] = After(h, 0)
       /\ \A n \in DOMAIN h : le_next'[h[n]] = After(h, n) /\ le_prev'[h[n]] = Before(l, h, n)
  <2>1. lh_first'[l] = After(h, 0)
    <3>1. lh_first'[l] = s
      BY <1>1, <1>6 DEF TypeOK
    <3>2. h[0 + 1] = s /\ 0 < Len(h)
      BY <1>1, <1>2
    <3> QED
      BY <3>1, <3>2 DEF After
  <2>2. ASSUME NEW n \in DOMAIN h
        PROVE  le_next'[h[n]] = After(h, n) /\ le_prev'[h[n]] = Before(l, h, n)
    <3>1. CASE n = 1
      <4>1. h[1] = s
        BY <1>1, <1>2
      <4>2. le_next'[s] = old /\ le_prev'[s] = l
        BY <1>6 DEF TypeOK
      <4>3. old = IF 0 < Len(m) THEN m[1] ELSE NULL
        BY <1>1 DEF Chains, Chain, After
      <4>4. After(h, 1) = IF 0 < Len(m) THEN m[1] ELSE NULL
        BY <1>1, <1>2 DEF After
      <4> QED
        BY <4>1, <4>2, <4>3, <4>4, <3>1 DEF Before
    <3>2. CASE n # 1
      <4>1. n - 1 \in 1..Len(m) /\ n \in 1..(Len(m) + 1) /\ h[n] = m[n - 1]
        BY <3>2, <1>1, <1>2
      <4>2. After(h, n) = After(m, n - 1)
        BY <4>1, <1>1, <1>2 DEF After
      <4>3. le_next'[m[n - 1]] = After(m, n - 1)
        BY <4>1, <1>1, <1>10
      <4>4. CASE n = 2
        <5>1. h[2] = m[1] /\ h[1] = s /\ old = m[1] /\ m[1] \in String /\ m[1] # s
          <6>1. 1 \in DOMAIN m /\ 0 < Len(m)
            BY <4>1, <1>1
          <6> QED
            BY <6>1, <4>1, <4>4, <1>1, <1>2, <1>5 DEF Chains, Chain, After
        <5>2. le_prev'[m[1]] = s
          BY <5>1, <1>6
        <5>3. Before(l, h, 2) = s
          BY <5>1 DEF Before
        <5> QED
          BY <5>1, <5>2, <5>3, <4>1, <4>2, <4>3, <4>4
      <4>5. CASE n # 2
        <5>1. (n - 1) - 1 \in 1..Len(m) /\ n - 1 # 1 /\ n - 1 \in 1..(Len(m) + 1)
          BY <4>1, <4>5, <3>2, <1>1
        <5>2. le_prev'[m[n - 1]] = m[(n - 1) - 1]
          BY <5>1, <4>1, <1>1, <1>11 DEF Before
        <5>3. h[n - 1] = m[(n - 1) - 1]
          BY <5>1, <1>2
        <5>4. Before(l, h, n) = h[n - 1]
          BY <3>2 DEF Before
        <5> QED
          BY <5>2, <5>3, <5>4, <4>1, <4>2, <4>3
      <4> QED
        BY <4>4, <4>5
    <3> QED
      BY <3>1, <3>2
  <2> QED
    BY <2>1, <2>2
<1>13. Chains'
  <2> SUFFICES ASSUME NEW k \in Set PROVE Chain(k, members[k])'
    BY DEF Chains
  <2>1. CASE k = l
    <3>1. /\ lh_first'[k] = After(members'[k], 0)
          /\ \A n \in DOMAIN members'[k] : /\ le_next'[members'[k][n]] = After(members'[k], n)
                                           /\ le_prev'[members'[k][n]] = Before(k, members'[k], n)
      BY <2>1, <1>3, <1>12
    <3> QED
      BY <3>1 DEF Chain, After, Before
  <2>2. CASE k # l
    <3>1. members'[k] = members[k] /\ lh_first'[k] = lh_first[k]
      BY <2>2, <1>3, <1>6 DEF TypeOK
    <3>2. lh_first[k] = After(members[k], 0)
      BY DEF Chains, Chain
    <3>3. \A n \in DOMAIN members[k] : /\ le_next'[members[k][n]] = After(members[k], n)
                                       /\ le_prev'[members[k][n]] = Before(k, members[k], n)
      BY <2>2, <1>10, <1>11
    <3>4. /\ lh_first'[k] = After(members'[k], 0)
          /\ \A n \in DOMAIN members'[k] : /\ le_next'[members'[k][n]] = After(members'[k], n)
                                           /\ le_prev'[members'[k][n]] = Before(k, members'[k], n)
      BY <3>1, <3>2, <3>3
    <3> QED
      BY <3>4 DEF Chain, After, Before
  <2> QED
    BY <2>1, <2>2
<1> QED
  BY <1>2, <1>3, <1>4, <1>8, <1>9, <1>13


\* The string at a place of a list is taken out.
LEMMA Removes ==
  ASSUME TypeOK, Apart, Chains, NEW l \in Set, NEW p \in DOMAIN members[l],
         LIST_REMOVE(members[l][p]),
         members' \in [Set -> Seq(String)],
         \A k \in Set : k # l => members'[k] = members[k],
         Len(members'[l]) = Len(members[l]) - 1,
         \A n \in 1..(Len(members[l]) - 1) :
           members'[l][n] = IF n < p THEN members[l][n] ELSE members[l][n + 1]
  PROVE  /\ le_next' \in [String -> String \cup { NULL }]
         /\ le_prev' \in [String -> String \cup Set \cup { NULL }]
         /\ lh_first' \in [Set -> String \cup { NULL }]
         /\ Apart' /\ Chains'
<1> DEFINE m == members[l]
           r == members'[l]
           s == m[p]
           next == le_next[s]
           prev == le_prev[s]
<1>1. /\ m \in Seq(String) /\ Len(m) \in Nat /\ DOMAIN m = 1..Len(m)
      /\ p \in 1..Len(m) /\ s \in String
  BY DEF TypeOK
<1>2. /\ r \in Seq(String) /\ Len(r) = Len(m) - 1 /\ DOMAIN r = 1..(Len(m) - 1)
      /\ \A n \in 1..(Len(m) - 1) : r[n] = IF n < p THEN m[n] ELSE m[n + 1]
  <2>1. r \in Seq(String)
    OBVIOUS
  <2> QED
    BY <2>1
<1>3. /\ le_prev' = [t \in String |-> IF t = next THEN prev ELSE le_prev[t]]
      /\ lh_first' = [k \in Set |-> IF k = prev THEN next ELSE lh_first[k]]
      /\ le_next' = [t \in String |-> IF t = prev THEN next ELSE le_next[t]]
  BY DEF LIST_REMOVE
<1>4. next \in String \cup { NULL } /\ prev \in String \cup Set \cup { NULL }
  BY <1>1 DEF TypeOK
<1>5. /\ le_next' \in [String -> String \cup { NULL }]
      /\ le_prev' \in [String -> String \cup Set \cup { NULL }]
      /\ lh_first' \in [Set -> String \cup { NULL }]
  BY <1>3, <1>4 DEF TypeOK
<1>6. /\ next = IF p < Len(m) THEN m[p + 1] ELSE NULL
      /\ prev = IF p = 1 THEN l ELSE m[p - 1]
  BY <1>1 DEF Chains, Chain, After, Before
<1>7. \A k \in Set : \A n \in DOMAIN members[k] : members[k][n] \in String
  BY DEF TypeOK
<1>8. \A i, j \in DOMAIN m : m[i] = m[j] => i = j
  BY DEF Apart
<1>9. ASSUME NEW n \in DOMAIN r
      PROVE  \E i \in DOMAIN m : r[n] = m[i] /\ i = IF n < p THEN n ELSE n + 1
  BY <1>1, <1>2
<1> HIDE DEF m, r, s, next, prev
<1>10. Apart'
  <2> SUFFICES ASSUME NEW j \in Set, NEW k \in Set,
                      NEW a \in DOMAIN members'[j], NEW b \in DOMAIN members'[k],
                      members'[j][a] = members'[k][b]
               PROVE  j = k /\ a = b
    BY DEF Apart
  <2>1. CASE j = l /\ k = l
    <3>1. a \in DOMAIN r /\ b \in DOMAIN r /\ r[a] = r[b]
      BY <2>1 DEF r
    <3>2. PICK i \in DOMAIN m : r[a] = m[i] /\ i = IF a < p THEN a ELSE a + 1
      BY <3>1, <1>9
    <3>3. PICK i2 \in DOMAIN m : r[b] = m[i2] /\ i2 = IF b < p THEN b ELSE b + 1
      BY <3>1, <1>9
    <3>4. i = i2
      BY <3>1, <3>2, <3>3, <1>8
    <3>5. a \in Nat /\ b \in Nat /\ p \in Nat
      BY <3>1, <1>1, <1>2, SMTT(30)
    <3> QED
      BY <3>2, <3>3, <3>4, <3>5, <2>1
  <2>2. CASE j = l /\ k # l
    <3>1. a \in DOMAIN r /\ r[a] = members[k][b] /\ b \in DOMAIN members[k]
      BY <2>2 DEF r
    <3>2. PICK i \in DOMAIN m : r[a] = m[i]
      BY <3>1, <1>9
    <3>3. members[l][i] = members[k][b] /\ i \in DOMAIN members[l]
      BY <3>1, <3>2 DEF m
    <3> QED
      BY <3>1, <3>3, <2>2 DEF Apart
  <2>3. CASE j # l /\ k = l
    <3>1. b \in DOMAIN r /\ r[b] = members[j][a] /\ a \in DOMAIN members[j]
      BY <2>3 DEF r
    <3>2. PICK i \in DOMAIN m : r[b] = m[i]
      BY <3>1, <1>9
    <3> QED
      BY <3>1, <3>2, <2>3, SMTT(30) DEF Apart, m
  <2>4. CASE j # l /\ k # l
    <3>1. members'[j] = members[j] /\ members'[k] = members[k]
      BY <2>4
    <3>2. a \in DOMAIN members[j] /\ b \in DOMAIN members[k] /\ members[j][a] = members[k][b]
      BY <3>1
    <3> QED
      BY <3>2 DEF Apart
  <2> QED
    BY <2>1, <2>2, <2>3, <2>4
<1>11. lh_first'[l] = After(r, 0)
  <2>1. CASE p = 1
    <3>1. lh_first'[l] = next
      BY <2>1, <1>3, <1>6
    <3>2. 1 < Len(m) => r[0 + 1] = m[2]
      BY <2>1, <1>1, <1>2
    <3>3. next = IF 1 < Len(m) THEN m[2] ELSE NULL
      BY <2>1, <1>6
    <3>4. 0 < Len(r) <=> 1 < Len(m)
      BY <1>1, <1>2
    <3> QED
      BY <3>1, <3>2, <3>3, <3>4 DEF After
  <2>2. CASE p # 1
    <3>1. p - 1 \in DOMAIN m /\ prev = m[p - 1]
      BY <2>2, <1>1, <1>6
    <3>2. prev \in String
      BY <3>1, <1>7 DEF m
    <3>3. lh_first'[l] = lh_first[l]
      BY <3>2, <1>3
    <3>4. 0 < Len(m) /\ 0 < Len(r) /\ r[0 + 1] = m[1]
      BY <2>2, <1>1, <1>2
    <3>5. lh_first[l] = m[1]
      BY <3>4 DEF Chains, Chain, After, m
    <3> QED
      BY <3>3, <3>4, <3>5 DEF After
  <2> QED
    BY <2>1, <2>2
<1>12. ASSUME NEW n \in DOMAIN r
       PROVE  le_next'[r[n]] = After(r, n)
  <2>1. n \in 1..(Len(m) - 1) /\ n \in Nat /\ p \in Nat
    BY <1>1, <1>2
  <2>2. CASE n < p - 1
    <3>1. /\ n \in DOMAIN m /\ p - 1 \in DOMAIN m /\ n # p - 1 /\ n < Len(m) /\ n < Len(r)
          /\ r[n] = m[n] /\ r[n + 1] = m[n + 1] /\ prev = m[p - 1]
      BY <2>1, <2>2, <1>1, <1>2, <1>6, SMTT(30)
    <3>2. m[n] # prev /\ m[n] \in String
      BY <3>1, <1>7, <1>8 DEF m
    <3>3. le_next'[m[n]] = le_next[m[n]]
      BY <3>2, <1>3
    <3>4. le_next[m[n]] = m[n + 1]
      BY <3>1 DEF Chains, Chain, After, m
    <3> QED
      BY <3>1, <3>3, <3>4 DEF After
  <2>3. CASE n = p - 1
    <3>1. n \in DOMAIN m /\ r[n] = m[n] /\ prev = m[n] /\ n + 1 = p
      BY <2>1, <2>3, <1>1, <1>2, <1>6
    <3>2. m[n] \in String
      BY <3>1, <1>7 DEF m
    <3>3. le_next'[m[n]] = next
      BY <3>1, <3>2, <1>3
    <3>4. p < Len(m) => r[p] = m[p + 1]
      BY <1>1, <1>2
    <3>5. n < Len(r) <=> p < Len(m)
      BY <3>1, <1>1, <1>2
    <3> QED
      BY <3>1, <3>3, <3>4, <3>5, <1>6 DEF After
  <2>4. CASE n >= p
    <3>1. /\ n + 1 \in DOMAIN m /\ r[n] = m[n + 1] /\ n + 1 # p - 1
          /\ p - 1 \in DOMAIN m \/ p = 1
      BY <2>1, <2>4, <1>1, <1>2
    <3>2. m[n + 1] # prev /\ m[n + 1] \in String
      BY <3>1, <1>6, <1>7, <1>8 DEF m
    <3>3. le_next'[m[n + 1]] = le_next[m[n + 1]]
      BY <3>2, <1>3
    <3>4. le_next[m[n + 1]] = IF n + 1 < Len(m) THEN m[(n + 1) + 1] ELSE NULL
      BY <3>1 DEF Chains, Chain, After, m
    <3>5. n < Len(r) <=> n + 1 < Len(m)
      BY <2>1, <1>1, <1>2
    <3>6. n + 1 < Len(m) => r[n + 1] = m[(n + 1) + 1]
      BY <2>1, <2>4, <1>1, <1>2
    <3> QED
      BY <3>1, <3>3, <3>4, <3>5, <3>6 DEF After
  <2> QED
    BY <2>1, <2>2, <2>3, <2>4
<1>13. ASSUME NEW n \in DOMAIN r
       PROVE  le_prev'[r[n]] = Before(l, r, n)
  <2>1. n \in 1..(Len(m) - 1) /\ n \in Nat /\ p \in Nat
    BY <1>1, <1>2
  <2>2. CASE n < p
    <3>1. /\ n \in DOMAIN m /\ r[n] = m[n] /\ n # p + 1
          /\ p < Len(m) => p + 1 \in DOMAIN m
      BY <2>1, <2>2, <1>1, <1>2
    <3>2. m[n] # next /\ m[n] \in String
      BY <3>1, <1>6, <1>7, <1>8 DEF m
    <3>3. le_prev'[m[n]] = le_prev[m[n]]
      BY <3>2, <1>3
    <3>4. le_prev[m[n]] = IF n = 1 THEN l ELSE m[n - 1]
      BY <3>1 DEF Chains, Chain, Before, m
    <3>5. n # 1 => r[n - 1] = m[n - 1]
      BY <2>1, <2>2, <1>1, <1>2
    <3> QED
      BY <3>1, <3>3, <3>4, <3>5 DEF Before
  <2>3. CASE n = p
    <3>1. p < Len(m) /\ p + 1 \in DOMAIN m /\ r[n] = m[p + 1] /\ next = m[p + 1]
      BY <2>1, <2>3, <1>1, <1>2, <1>6
    <3>2. next \in String
      BY <3>1, <1>7 DEF m
    <3>3. le_prev'[next] = prev
      BY <3>2, <1>3
    <3>4. n # 1 => r[n - 1] = m[p - 1]
      BY <2>1, <2>3, <1>1, <1>2
    <3> QED
      BY <3>1, <3>3, <3>4, <2>3, <1>6 DEF Before
  <2>4. CASE n > p
    <3>1. /\ n + 1 \in DOMAIN m /\ r[n] = m[n + 1] /\ n + 1 # p + 1 /\ n # 1 /\ n + 1 # 1
          /\ (n + 1) - 1 = n /\ p + 1 \in DOMAIN m
      BY <2>1, <2>4, <1>1, <1>2, SMTT(30)
    <3>2. m[n + 1] # next /\ m[n + 1] \in String
      BY <3>1, <1>6, <1>7, <1>8 DEF m
    <3>3. le_prev'[m[n + 1]] = le_prev[m[n + 1]]
      BY <3>2, <1>3
    <3>4. le_prev[m[n + 1]] = m[n]
      BY <3>1 DEF Chains, Chain, Before, m
    <3>5. r[n - 1] = m[n]
      <4>1. n - 1 \in 1..(Len(m) - 1) /\ ~ (n - 1 < p) /\ (n - 1) + 1 = n
        BY <2>1, <2>4, <1>1
      <4> QED
        BY <4>1, <1>2
    <3> QED
      BY <3>1, <3>3, <3>4, <3>5 DEF Before
  <2> QED
    BY <2>1, <2>2, <2>3, <2>4
<1>14. Chains'
  <2> SUFFICES ASSUME NEW k \in Set PROVE Chain(k, members[k])'
    BY DEF Chains
  <2>1. CASE k = l
    <3>1. /\ lh_first'[k] = After(members'[k], 0)
          /\ \A n \in DOMAIN members'[k] : /\ le_next'[members'[k][n]] = After(members'[k], n)
                                           /\ le_prev'[members'[k][n]] = Before(k, members'[k], n)
      BY <2>1, <1>11, <1>12, <1>13 DEF r
    <3> QED
      BY <3>1 DEF Chain, After, Before
  <2>2. CASE k # l
    <3>1. ASSUME NEW n \in DOMAIN members[k]
          PROVE  members[k][n] \in String /\ members[k][n] # next /\ members[k][n] # prev
      <4>1. members[k][n] \in String /\ \A i \in DOMAIN m : members[k][n] # m[i]
        BY <2>2, <1>7 DEF Apart, m
      <4>2. members[k][n] # next
        <5>1. p < Len(m) => p + 1 \in DOMAIN m
          BY <1>1
        <5> QED
          BY <4>1, <5>1, <1>6
      <4>3. members[k][n] # prev
        <5>1. p # 1 => p - 1 \in DOMAIN m
          BY <1>1
        <5> QED
          BY <4>1, <5>1, <1>6
      <4> QED
        BY <4>1, <4>2, <4>3
    <3>2. prev # k
      <4>1. p # 1 => p - 1 \in DOMAIN m
        BY <1>1
      <4>2. p # 1 => prev \in String
        BY <4>1, <1>6, <1>7 DEF m
      <4> QED
        BY <4>2, <2>2, <1>6
    <3>3. lh_first'[k] = lh_first[k] /\ members'[k] = members[k]
      BY <3>2, <2>2, <1>3
    <3>4. lh_first[k] = After(members[k], 0)
      BY DEF Chains, Chain
    <3>5. \A n \in DOMAIN members[k] : /\ le_next'[members[k][n]] = le_next[members[k][n]]
                                       /\ le_prev'[members[k][n]] = le_prev[members[k][n]]
      BY <3>1, <1>3
    <3>6. \A n \in DOMAIN members[k] : /\ le_next'[members[k][n]] = After(members[k], n)
                                       /\ le_prev'[members[k][n]] = Before(k, members[k], n)
      BY <3>5 DEF Chains, Chain
    <3>7. /\ lh_first'[k] = After(members'[k], 0)
          /\ \A n \in DOMAIN members'[k] : /\ le_next'[members'[k][n]] = After(members'[k], n)
                                           /\ le_prev'[members'[k][n]] = Before(k, members'[k], n)
      BY <3>3, <3>4, <3>6
    <3> QED
      BY <3>7 DEF Chain, After, Before
  <2> QED
    BY <2>1, <2>2
<1> QED
  BY <1>5, <1>10, <1>14


-----------------------------------------------------------------------------
(***************************************************************************)
(* Every step keeps the lists.                                             *)
(***************************************************************************)
Lists == /\ TypeOK /\ Apart /\ Chains /\ Sizes
         /\ pc = "free_set" => cursor \in sets
         /\ pc = "clear" => tree \in SUBSET String

\* A step that leaves the links and the sets alone.
LEMMA ListsUntouched ==
  ASSUME Lists, UNCHANGED << linkVars, size, sets, members >>, TypeOK',
         pc' = "free_set" => cursor' \in sets,
         pc' = "clear" => tree' \in SUBSET String,
         pc # "free_set"
  PROVE  Lists'
<1> USE DEF Lists, linkVars
<1>1. Apart'
  BY DEF Apart
<1>2. Chains'
  BY DEF Chains, Chain, After, Before
<1>3. Sizes'
  BY DEF Sizes
<1> QED
  BY <1>1, <1>2, <1>3

LEMMA ListsOfStrings ==
  ASSUME Lists, NEW s \in String,
         lst_string_new(s) \/ lst_string_free(s) \/ lst_stree_add_string(s)
  PROVE  Lists'
<1> USE DEF Lists
<1>1. CASE lst_string_new(s)
  <2>1. TypeOK'
    BY <1>1 DEF lst_string_new, TypeOK, linkVars, histVars
  <2> QED
    BY <2>1, <1>1, ListsUntouched DEF lst_string_new, MayCall, linkVars, histVars
<1>2. CASE lst_string_free(s)
  <2>1. TypeOK'
    BY <1>2 DEF lst_string_free, TypeOK, linkVars, histVars
  <2> QED
    BY <2>1, <1>2, ListsUntouched DEF lst_string_free, linkVars, histVars
<1>3. CASE lst_stree_add_string(s)
  <2>1. TypeOK'
    BY <1>3 DEF lst_stree_add_string, TypeOK, linkVars, histVars
  <2> QED
    BY <2>1, <1>3, ListsUntouched DEF lst_stree_add_string, linkVars, histVars
<1> QED
  BY <1>1, <1>2, <1>3

LEMMA ListsOfTree ==
  ASSUME Lists,
         \/ \E l \in Set : lst_stree_new(l)
         \/ lst_stree_clear \/ ClearString \/ TreeCleared
  PROVE  Lists'
<1> USE DEF Lists
<1>1. CASE \E l \in Set : lst_stree_new(l)
  <2>1. PICK l \in Set : lst_stree_new(l)
    BY <1>1
  <2>2. tree' \in SUBSET String
    BY <2>1 DEF lst_stree_new, Strings
  <2>3. touched' \in BOOLEAN
    BY <2>1 DEF lst_stree_new, TypeOK, Freed
  <2>4. TypeOK'
    BY <2>1, <2>2, <2>3 DEF lst_stree_new, TypeOK, linkVars, histVars
  <2> QED
    BY <2>1, <2>4, ListsUntouched DEF lst_stree_new, linkVars, histVars
<1>2. CASE lst_stree_clear
  <2>1. TypeOK'
    BY <1>2 DEF lst_stree_clear, TypeOK, linkVars, histVars
  <2>2. tree' \in SUBSET String
    BY <1>2 DEF lst_stree_clear, TypeOK
  <2> QED
    BY <2>1, <2>2, <1>2, ListsUntouched DEF lst_stree_clear, linkVars, histVars
<1>3. CASE ClearString
  <2>1. PICK s \in tree :
          /\ tree' = tree \ { s }
          /\ status' = [status EXCEPT ![s] = "freed"]
          /\ touched' = (touched \/ Freed({ s }))
    BY <1>3 DEF ClearString
  <2>2. touched' \in BOOLEAN
    BY <2>1 DEF TypeOK, Freed
  <2>3. status' \in [String -> { "none", "live", "freed" }]
    BY <2>1 DEF TypeOK
  <2>4. tree' = NULL \/ tree' \in SUBSET String
    BY <2>1, <1>3 DEF ClearString
  <2>5. TypeOK'
    BY <1>3, <2>2, <2>3, <2>4 DEF ClearString, TypeOK, linkVars, histVars
  <2> QED
    BY <2>5, <1>3, ListsUntouched DEF ClearString, linkVars, histVars
<1>4. CASE TreeCleared
  <2>1. TypeOK'
    BY <1>4 DEF TreeCleared, TypeOK, linkVars, histVars
  <2> QED
    BY <2>1, <1>4, ListsUntouched DEF TreeCleared, linkVars, histVars
<1> QED
  BY <1>1, <1>2, <1>3, <1>4

LEMMA CursorInForeach ==
  ASSUME TypeOK, Ahead, pc = "foreach"
  PROVE  cursor \in String \cup { NULL }
<1>1. todo \in Seq(String) /\ seen \in Seq(String) /\ Len(seen) \in Nat /\ Len(todo) \in Nat
  BY DEF TypeOK
<1>2. After(todo, Len(seen)) \in String \cup { NULL }
  BY <1>1 DEF After
<1>3. seen # << >> => todo[Len(seen)] \in String
  <2>1. Len(seen) <= Len(todo)
    BY DEF Ahead
  <2> QED
    BY <2>1, <1>1
<1> QED
  BY <1>2, <1>3 DEF Ahead

LEMMA ListsOfForeach ==
  ASSUME Lists, Ahead,
         \/ \E l \in Set : lst_stringset_foreach(l)
         \/ Callback \/ NextString \/ EndForeach
  PROVE  Lists'
<1> USE DEF Lists
<1>1. CASE \E l \in Set : lst_stringset_foreach(l)
  <2>1. PICK l \in Set : lst_stringset_foreach(l)
    BY <1>1
  <2>2. cursor' \in String \cup Set \cup { NULL } /\ todo' \in Seq(String) /\ seen' \in Seq(String)
    BY <2>1 DEF lst_stringset_foreach, TypeOK
  <2>3. TypeOK'
    BY <2>1, <2>2 DEF lst_stringset_foreach, TypeOK, linkVars
  <2> QED
    BY <2>1, <2>3, ListsUntouched DEF lst_stringset_foreach, linkVars
<1>2. CASE Callback
  <2> cursor \in String
    BY <1>2, CursorInForeach DEF Callback
  <2>1. seen' \in Seq(String)
    BY <1>2 DEF Callback, TypeOK
  <2>2. TypeOK'
    BY <1>2, <2>1 DEF Callback, TypeOK, linkVars
  <2> QED
    BY <1>2, <2>2, ListsUntouched DEF Callback, linkVars
<1>3. CASE NextString
  <2> cursor \in String
    BY <1>3, CursorInForeach DEF NextString
  <2>1. cursor' \in String \cup { NULL } /\ touched' \in BOOLEAN
    BY <1>3 DEF NextString, TypeOK, Freed
  <2>2. TypeOK'
    BY <1>3, <2>1 DEF NextString, TypeOK, linkVars, histVars
  <2> QED
    BY <1>3, <2>2, ListsUntouched DEF NextString, linkVars, histVars
<1>4. CASE EndForeach
  <2>1. TypeOK'
    BY <1>4 DEF EndForeach, TypeOK, linkVars
  <2> QED
    BY <1>4, <2>1, ListsUntouched DEF EndForeach, linkVars
<1> QED
  BY <1>1, <1>2, <1>3, <1>4


LEMMA ListsOfSets ==
  ASSUME Lists, NEW l \in Set, lst_stringset_new(l) \/ FreeSet(l)
  PROVE  Lists'
<1> USE DEF Lists
<1>1. CASE lst_stringset_new(l)
  <2>1. members[l] = << >> /\ Len(members[l]) = 0
    BY <1>1 DEF lst_stringset_new, Sizes
  <2>2. lh_first[l] = NULL
    BY <2>1, FirstOfList
  <2>3. lh_first' = lh_first
    BY <2>2, <1>1 DEF lst_stringset_new, TypeOK
  <2>4. TypeOK'
    BY <1>1, <2>3 DEF lst_stringset_new, TypeOK, histVars
  <2>5. Apart'
    BY <1>1 DEF lst_stringset_new, Apart, histVars
  <2>6. Chains'
    BY <1>1, <2>3 DEF lst_stringset_new, Chains, Chain, After, Before, histVars
  <2>7. Sizes'
    <3>1. size' \in [Set -> Int] /\ size'[l] = 0 /\ \A k \in Set : k # l => size'[k] = size[k]
      BY <1>1 DEF lst_stringset_new, TypeOK
    <3>2. sets' = sets \cup { l } /\ members' = members /\ pc' = pc /\ cursor' = cursor
      BY <1>1 DEF lst_stringset_new, histVars
    <3> QED
      BY <3>1, <3>2, <2>1 DEF Sizes
  <2> QED
    BY <1>1, <2>4, <2>5, <2>6, <2>7 DEF lst_stringset_new
<1>2. CASE FreeSet(l)
  <2>1. TypeOK'
    BY <1>2 DEF FreeSet, TypeOK, linkVars, histVars
  <2> QED
    BY <1>2, <2>1, ListsUntouched DEF FreeSet, linkVars, histVars
<1> QED
  BY <1>1, <1>2

LEMMA ListsOfAdd ==
  ASSUME Lists, NEW l \in Set, NEW s \in String, lst_stringset_add(l, s)
  PROVE  Lists'
<1> USE DEF Lists
<1>1. l \in sets /\ ~ Linked(s) /\ LIST_INSERT_HEAD(l, s)
  BY DEF lst_stringset_add, Usable
<1>2. members' = [members EXCEPT ![l] = << s >> \o @] /\ size' = [size EXCEPT ![l] = @ + 1]
  BY DEF lst_stringset_add
<1>3. /\ le_next' \in [String -> String \cup { NULL }]
      /\ le_prev' \in [String -> String \cup Set \cup { NULL }]
      /\ lh_first' \in [Set -> String \cup { NULL }]
      /\ members' \in [Set -> Seq(String)] /\ Len(members'[l]) = Len(members[l]) + 1
      /\ Apart' /\ Chains'
  BY <1>1, <1>2, Inserts
<1>4. size' \in [Set -> Int] /\ size'[l] = size[l] + 1 /\ \A k \in Set : k # l => size'[k] = size[k]
  BY <1>2 DEF TypeOK
<1>5. UNCHANGED << status, sets, tree, pc, cursor, seen, todo >>
  BY DEF lst_stringset_add
<1>6. touched' \in BOOLEAN
  BY <1>1 DEF LIST_INSERT_HEAD, Freed, TypeOK
<1>7. TypeOK'
  BY <1>3, <1>4, <1>5, <1>6 DEF TypeOK
<1>8. Sizes'
  <2>1. \A k \in Set : k # l => members'[k] = members[k]
    BY <1>2 DEF TypeOK
  <2> QED
    BY <2>1, <1>1, <1>3, <1>4, <1>5 DEF Sizes
<1> QED
  BY <1>3, <1>5, <1>7, <1>8

\* The place of a string that is in the list, and the members without it.
LEMMA MembersWithout ==
  ASSUME TypeOK, Apart, Chains, NEW l \in Set, NEW s \in Strings(l),
         members' = [members EXCEPT ![l] = Without(@, s)]
  PROVE  /\ members' \in [Set -> Seq(String)]
         /\ \A k \in Set : k # l => members'[k] = members[k]
         /\ Len(members'[l]) = Len(members[l]) - 1
         /\ \E p \in DOMAIN members[l] :
              /\ s = members[l][p]
              /\ \A n \in 1..(Len(members[l]) - 1) :
                   members'[l][n] = IF n < p THEN members[l][n] ELSE members[l][n + 1]
<1> DEFINE m == members[l]
<1>1. PICK p \in DOMAIN m : s = m[p]
  BY StringsAreMembers DEF ToSet
<1>2. m \in Seq(String)
  BY DEF TypeOK
<1>3. \A i, j \in DOMAIN m : m[i] = m[j] => i = j
  BY DEF Apart
<1>4. /\ Without(m, m[p]) \in Seq(String)
      /\ Len(Without(m, m[p])) = Len(m) - 1
      /\ \A n \in 1..(Len(m) - 1) :
           Without(m, m[p])[n] = IF n < p THEN m[n] ELSE m[n + 1]
  <2> HIDE DEF m
  <2> QED
    BY <1>2, <1>3, WithoutIs
<1>5. members' = [members EXCEPT ![l] = Without(m, m[p])]
  BY <1>1
<1>6. members'[l] = Without(m, m[p]) /\ \A k \in Set : k # l => members'[k] = members[k]
  BY <1>5 DEF TypeOK
<1>7. members' \in [Set -> Seq(String)]
  BY <1>4, <1>5 DEF TypeOK
<1> QED
  BY <1>1, <1>4, <1>6, <1>7

LEMMA ListsOfRemove ==
  ASSUME Lists, NEW l \in Set, NEW s \in String, lst_stringset_remove(l, s)
  PROVE  Lists'
<1> USE DEF Lists
<1>1. /\ pc \in { "ready", "foreach" } /\ l \in sets
      /\ UNCHANGED << status, sets, tree, pc, cursor, seen, todo >>
  BY DEF lst_stringset_remove, Usable
<1>2. CASE s \notin Strings(l)
  <2>1. UNCHANGED << linkVars, size, touched, members >>
    BY <1>2 DEF lst_stringset_remove
  <2>2. TypeOK'
    BY <1>1, <2>1 DEF TypeOK, linkVars
  <2> QED
    BY <1>1, <2>1, <2>2, ListsUntouched
<1>3. CASE s \in Strings(l)
  <2>1. /\ LIST_REMOVE(s) /\ size' = [size EXCEPT ![l] = @ - 1]
        /\ members' = [members EXCEPT ![l] = Without(@, s)]
    BY <1>3 DEF lst_stringset_remove
  <2>2. /\ members' \in [Set -> Seq(String)]
        /\ \A k \in Set : k # l => members'[k] = members[k]
        /\ Len(members'[l]) = Len(members[l]) - 1
        /\ \E p \in DOMAIN members[l] :
             /\ s = members[l][p]
             /\ \A n \in 1..(Len(members[l]) - 1) :
                  members'[l][n] = IF n < p THEN members[l][n] ELSE members[l][n + 1]
    BY <1>3, <2>1, MembersWithout
  <2>3. /\ le_next' \in [String -> String \cup { NULL }]
        /\ le_prev' \in [String -> String \cup Set \cup { NULL }]
        /\ lh_first' \in [Set -> String \cup { NULL }]
        /\ Apart' /\ Chains'
    <3>1. PICK p \in DOMAIN members[l] :
            /\ s = members[l][p]
            /\ \A n \in 1..(Len(members[l]) - 1) :
                 members'[l][n] = IF n < p THEN members[l][n] ELSE members[l][n + 1]
      BY <2>2
    <3>2. LIST_REMOVE(members[l][p])
      BY <2>1, <3>1
    <3> QED
      BY <2>2, <3>1, <3>2, Removes
  <2>4. size' \in [Set -> Int] /\ size'[l] = size[l] - 1 /\ \A k \in Set : k # l => size'[k] = size[k]
    BY <2>1 DEF TypeOK
  <2>5. touched' \in BOOLEAN
    BY <2>1 DEF LIST_REMOVE, Freed, TypeOK
  <2>6. TypeOK'
    BY <1>1, <2>2, <2>3, <2>4, <2>5 DEF TypeOK
  <2>7. Sizes'
    BY <1>1, <2>2, <2>4 DEF Sizes
  <2> QED
    BY <1>1, <2>3, <2>6, <2>7
<1> QED
  BY <1>2, <1>3

\* The list that is freed loses its first string.
LEMMA FreesFirst ==
  ASSUME Lists, FreeFirst
  PROVE  /\ cursor \in sets /\ 1 \in DOMAIN members[cursor]
         /\ LIST_REMOVE(members[cursor][1])
         /\ status' = [status EXCEPT ![members[cursor][1]] = "freed"]
         /\ members' \in [Set -> Seq(String)]
         /\ \A k \in Set : k # cursor => members'[k] = members[k]
         /\ Len(members'[cursor]) = Len(members[cursor]) - 1
         /\ \A n \in 1..(Len(members[cursor]) - 1) : members'[cursor][n] = members[cursor][n + 1]
<1> USE DEF Lists
<1>1. PICK l \in Set : cursor = l
  BY DEF FreeFirst, TypeOK
<1>2. cursor \in sets /\ lh_first[l] # NULL
  BY <1>1 DEF FreeFirst
<1>3. 1 \in DOMAIN members[l] /\ lh_first[l] = members[l][1] /\ members[l] \in Seq(String)
  BY <1>2, FirstOfList
<1>4. members[l] # << >>
  BY <1>3
<1>5. members' = [members EXCEPT ![l] = Tail(members[l])]
  BY <1>1, <1>4 DEF FreeFirst
<1>6. /\ Tail(members[l]) \in Seq(String) /\ Len(Tail(members[l])) = Len(members[l]) - 1
      /\ \A n \in 1..(Len(members[l]) - 1) : Tail(members[l])[n] = members[l][n + 1]
  BY <1>3, <1>4, TailIs
<1>7. members'[l] = Tail(members[l]) /\ \A k \in Set : k # l => members'[k] = members[k]
  BY <1>5 DEF TypeOK
<1>8. members' \in [Set -> Seq(String)]
  BY <1>5, <1>6 DEF TypeOK
<1>9. /\ LIST_REMOVE(members[l][1])
      /\ status' = [status EXCEPT ![members[l][1]] = "freed"]
  BY <1>1, <1>3 DEF FreeFirst
<1> QED
  BY <1>1, <1>2, <1>3, <1>6, <1>7, <1>8, <1>9

LEMMA ListsOfFree ==
  ASSUME Lists, FreeFirst \/ SetFreed
  PROVE  Lists'
<1> USE DEF Lists
<1>1. CASE FreeFirst
  <2>1. PICK l \in sets : cursor = l
    BY <1>1 DEF FreeFirst
  <2>2. /\ l \in Set /\ 1 \in DOMAIN members[l]
        /\ LIST_REMOVE(members[l][1])
        /\ status' = [status EXCEPT ![members[l][1]] = "freed"]
        /\ members' \in [Set -> Seq(String)]
        /\ \A k \in Set : k # l => members'[k] = members[k]
        /\ Len(members'[l]) = Len(members[l]) - 1
        /\ \A n \in 1..(Len(members[l]) - 1) : members'[l][n] = members[l][n + 1]
    BY <1>1, <2>1, FreesFirst DEF TypeOK
  <2>3. \A n \in 1..(Len(members[l]) - 1) :
          members'[l][n] = IF n < 1 THEN members[l][n] ELSE members[l][n + 1]
    BY <2>2
  <2>4. /\ le_next' \in [String -> String \cup { NULL }]
        /\ le_prev' \in [String -> String \cup Set \cup { NULL }]
        /\ lh_first' \in [Set -> String \cup { NULL }]
        /\ Apart' /\ Chains'
    BY <2>2, <2>3, Removes
  <2>5. UNCHANGED << size, sets, tree, pc, cursor, seen, todo >> /\ pc = "free_set"
    BY <1>1 DEF FreeFirst
  <2>6. status' \in [String -> { "none", "live", "freed" }] /\ touched' \in BOOLEAN
    BY <2>2 DEF TypeOK, LIST_REMOVE, Freed
  <2>7. TypeOK'
    BY <2>2, <2>4, <2>5, <2>6 DEF TypeOK
  <2>8. Sizes'
    BY <2>1, <2>2, <2>5 DEF Sizes
  <2> QED
    BY <2>4, <2>5, <2>7, <2>8
<1>2. CASE SetFreed
  <2>1. PICK l \in sets : cursor = l
    BY <1>2 DEF SetFreed
  <2>2. /\ sets' = sets \ { l } /\ pc' = "ready" /\ pc = "free_set" /\ lh_first[l] = NULL
        /\ UNCHANGED << linkVars, size, members >>
    BY <1>2, <2>1 DEF SetFreed, histVars
  <2>3. l \in Set /\ members[l] \in Seq(String) /\ Len(members[l]) = 0
    BY <2>1, <2>2, FirstOfList DEF TypeOK
  <2>4. members[l] = << >>
    BY <2>3
  <2>5. Sizes'
    BY <2>1, <2>2, <2>4 DEF Sizes
  <2>6. TypeOK'
    BY <1>2 DEF SetFreed, TypeOK, linkVars, histVars
  <2>7. Apart' /\ Chains'
    BY <2>2 DEF Apart, Chains, Chain, After, Before, linkVars
  <2> QED
    BY <2>2, <2>5, <2>6, <2>7
<1> QED
  BY <1>1, <1>2


-----------------------------------------------------------------------------
(***************************************************************************)
(* Every step keeps what lies ahead of lst_stringset_foreach.              *)
(***************************************************************************)
\* Ahead for a loop that goes on: what it says of the links and the sets.
LEMMA AheadKept ==
  ASSUME TypeOK, Ahead, pc = "foreach", UNCHANGED << cursor, seen, todo >>,
         \A s \in String : status[s] # "freed" => status'[s] # "freed",
         \A n \in DOMAIN todo : n >= Len(seen) => le_next'[todo[n]] = le_next[todo[n]],
         \A n \in DOMAIN todo : n > Len(seen) => Linked(todo[n])'
  PROVE  Ahead'
<1>1. \A n \in DOMAIN todo : todo[n] \in String
  BY DEF TypeOK
<1>2. \A n \in DOMAIN todo : status'[todo[n]] # "freed"
  BY <1>1 DEF Ahead
<1>3. \A n \in DOMAIN todo : n >= Len(seen) => le_next'[todo[n]] = After(todo, n)
  BY DEF Ahead
<1> QED
  BY <1>2, <1>3 DEF Ahead, After

\* The string after the last one that was seen, or the one the cursor left.
LEMMA Placed ==
  ASSUME TypeOK, Ahead, pc = "foreach"
  PROVE  /\ todo \in Seq(String) /\ seen \in Seq(String)
         /\ Len(seen) \in Nat /\ Len(todo) \in Nat /\ Len(seen) <= Len(todo)
         /\ DOMAIN todo = 1..Len(todo) /\ DOMAIN seen = 1..Len(seen)
         /\ \A n \in DOMAIN seen : n \in DOMAIN todo /\ seen[n] = todo[n]
         /\ cursor # NULL /\ ~ Contains(seen, cursor) =>
              Len(seen) < Len(todo) /\ cursor = todo[Len(seen) + 1]
         /\ cursor # NULL /\ Contains(seen, cursor) =>
              Len(seen) \in DOMAIN todo /\ cursor = todo[Len(seen)]
         /\ cursor = NULL => Len(seen) = Len(todo)
<1>1. /\ todo \in Seq(String) /\ seen \in Seq(String)
      /\ Len(seen) \in Nat /\ Len(todo) \in Nat /\ Len(seen) <= Len(todo)
      /\ DOMAIN todo = 1..Len(todo) /\ DOMAIN seen = 1..Len(seen)
  BY DEF TypeOK, Ahead
<1>2. \A n \in DOMAIN seen : n \in DOMAIN todo /\ seen[n] = todo[n]
  BY <1>1 DEF Ahead
<1>3. \/ cursor = IF Len(seen) < Len(todo) THEN todo[Len(seen) + 1] ELSE NULL
      \/ seen # << >> /\ cursor = todo[Len(seen)]
  BY DEF Ahead, After
<1>4. seen # << >> => Len(seen) \in DOMAIN todo /\ Len(seen) \in DOMAIN seen
  BY <1>1
<1>5. seen # << >> => todo[Len(seen)] \in String /\ Contains(seen, todo[Len(seen)])
  BY <1>1, <1>2, <1>4 DEF Contains
<1>6. Len(seen) < Len(todo) =>
        todo[Len(seen) + 1] \in String /\ ~ Contains(seen, todo[Len(seen) + 1])
  <2> SUFFICES ASSUME Len(seen) < Len(todo), NEW i \in 1..Len(seen)
               PROVE  todo[Len(seen) + 1] \in String /\ seen[i] # todo[Len(seen) + 1]
    BY <1>1 DEF Contains
  <2>1. Len(seen) + 1 \in DOMAIN todo /\ i \in DOMAIN todo /\ i # Len(seen) + 1
    BY <1>1
  <2> QED
    BY <2>1, <1>1, <1>2 DEF Ahead
<1>7. cursor # NULL /\ ~ Contains(seen, cursor) =>
        Len(seen) < Len(todo) /\ cursor = todo[Len(seen) + 1]
  BY <1>3, <1>5
<1>8. cursor # NULL /\ Contains(seen, cursor) =>
        Len(seen) \in DOMAIN todo /\ cursor = todo[Len(seen)]
  BY <1>3, <1>4, <1>6
<1>9. cursor = NULL => Len(seen) = Len(todo)
  <2>1. cursor = NULL => ~ (Len(seen) < Len(todo))
    BY <1>3, <1>5, <1>6
  <2>2. Len(seen) \in Nat /\ Len(todo) \in Nat /\ Len(seen) <= Len(todo)
    BY <1>1
  <2>3. ~ (Len(seen) < Len(todo)) => Len(seen) = Len(todo)
    BY <2>2
  <2> QED
    BY <2>1, <2>3
<1> QED
  BY <1>1, <1>2, <1>7, <1>8, <1>9

LEMMA AheadOfStart ==
  ASSUME Lists, NEW l \in Set, lst_stringset_foreach(l)
  PROVE  Ahead'
<1> USE DEF Lists
<1> DEFINE m == members[l]
<1>1. l \in sets /\ m \in Seq(String) /\ Len(m) \in Nat /\ DOMAIN m = 1..Len(m)
  BY DEF TypeOK, lst_stringset_foreach, Usable
<1>2. /\ cursor' = lh_first[l] /\ seen' = << >> /\ todo' = m
      /\ UNCHANGED << status, le_next, sets, members >>
  BY DEF lst_stringset_foreach, linkVars
<1>3. \A n \in DOMAIN m : status[m[n]] # "freed" /\ m[n] \in String
  BY <1>1 DEF lst_stringset_foreach, Usable, Freed, ToSet
<1>4. \A i, j \in DOMAIN m : m[i] = m[j] => i = j
  BY DEF Apart
<1>5. \A n \in DOMAIN m : Linked(m[n])
  BY AllLinked
<1>6. \A n \in DOMAIN m : \E k \in sets' : Contains(members'[k], m[n])
  BY <1>2, <1>5 DEF Linked
<1>7. lh_first[l] = After(m, 0) /\ \A n \in DOMAIN m : le_next[m[n]] = After(m, n)
  BY DEF Chains, Chain
<1> HIDE DEF m
<1>8. Len(seen') = 0 /\ DOMAIN seen' = {}
  BY <1>2
<1>9. cursor' = After(todo, Len(seen))'
  BY <1>2, <1>7, <1>8 DEF After
<1>10. \A n \in DOMAIN todo' : le_next'[todo'[n]] = After(todo, n)'
  BY <1>2, <1>7 DEF After
<1>11. /\ \A i, j \in DOMAIN todo' : todo'[i] = todo'[j] => i = j
       /\ \A n \in DOMAIN todo' : status'[todo'[n]] # "freed"
       /\ Len(seen') <= Len(todo') /\ \A n \in DOMAIN seen' : seen'[n] = todo'[n]
  BY <1>1, <1>2, <1>3, <1>4, <1>8
<1>12. \A n \in DOMAIN todo' : Linked(todo[n])'
  BY <1>2, <1>6 DEF Linked
<1> QED
  BY <1>9, <1>10, <1>11, <1>12 DEF Ahead

LEMMA AheadOfLoop ==
  ASSUME Lists, Ahead, Callback \/ NextString
  PROVE  Ahead'
<1> USE DEF Lists
<1>1. CASE Callback
  <2>1. /\ pc = "foreach" /\ cursor # NULL /\ ~ Contains(seen, cursor)
        /\ seen' = Append(seen, cursor)
        /\ UNCHANGED << status, le_next, sets, cursor, members, todo, pc >>
    BY <1>1 DEF Callback, linkVars
  <2>2. /\ todo \in Seq(String) /\ seen \in Seq(String)
        /\ Len(seen) \in Nat /\ Len(todo) \in Nat
        /\ DOMAIN todo = 1..Len(todo) /\ DOMAIN seen = 1..Len(seen)
        /\ \A n \in DOMAIN seen : n \in DOMAIN todo /\ seen[n] = todo[n]
        /\ Len(seen) < Len(todo) /\ cursor = todo[Len(seen) + 1]
    BY <2>1, Placed
  <2>3. cursor \in String
    BY <2>1, CursorInForeach
  <2>4. /\ Len(seen') = Len(seen) + 1 /\ seen' \in Seq(String)
        /\ DOMAIN seen' = 1..(Len(seen) + 1)
        /\ \A n \in 1..(Len(seen) + 1) : seen'[n] = IF n <= Len(seen) THEN seen[n] ELSE cursor
    BY <2>1, <2>2, <2>3
  <2>5. \A n \in DOMAIN seen' : seen'[n] = todo'[n]
    <3> SUFFICES ASSUME NEW n \in 1..(Len(seen) + 1) PROVE seen'[n] = todo[n]
      BY <2>1, <2>4
    <3>1. CASE n <= Len(seen)
      BY <3>1, <2>2, <2>4
    <3>2. CASE n = Len(seen) + 1
      BY <3>2, <2>2, <2>4
    <3> QED
      BY <3>1, <3>2, <2>2
  <2>6. seen' # << >> /\ cursor' = todo'[Len(seen')] /\ Len(seen') <= Len(todo')
    BY <2>1, <2>2, <2>4
  <2>7. /\ \A n \in DOMAIN todo : n >= Len(seen) + 1 => n >= Len(seen)
        /\ \A n \in DOMAIN todo : n > Len(seen) + 1 => n > Len(seen)
    BY <2>2
  <2>8. /\ \A n \in DOMAIN todo : n >= Len(seen') => le_next[todo[n]] = After(todo, n)
        /\ \A n \in DOMAIN todo : n > Len(seen') => Linked(todo[n])
    BY <2>1, <2>4, <2>7 DEF Ahead
  <2>9. /\ \A n \in DOMAIN todo' : n >= Len(seen') => le_next'[todo'[n]] = After(todo, n)'
        /\ \A n \in DOMAIN todo' : n > Len(seen') => Linked(todo[n])'
    BY <2>1, <2>8 DEF After, Linked
  <2>10. /\ \A i, j \in DOMAIN todo' : todo'[i] = todo'[j] => i = j
         /\ \A n \in DOMAIN todo' : status'[todo'[n]] # "freed"
    BY <2>1 DEF Ahead
  <2> QED
    BY <2>5, <2>6, <2>9, <2>10 DEF Ahead
<1>2. CASE NextString
  <2>1. /\ pc = "foreach" /\ cursor # NULL /\ Contains(seen, cursor)
        /\ cursor' = le_next[cursor]
        /\ UNCHANGED << status, le_next, sets, members, todo, seen, pc >>
    BY <1>2 DEF NextString, linkVars, histVars
  <2>2. Len(seen) \in DOMAIN todo /\ cursor = todo[Len(seen)] /\ Len(seen) \in Nat
    BY <2>1, Placed
  <2>3. le_next[todo[Len(seen)]] = After(todo, Len(seen))
    BY <2>1, <2>2 DEF Ahead
  <2>4. cursor' = After(todo, Len(seen))
    BY <2>1, <2>2, <2>3
  <2>5. cursor' = After(todo, Len(seen))'
    BY <2>1, <2>4 DEF After
  <2>6. /\ \A n \in DOMAIN todo' : n >= Len(seen') => le_next'[todo'[n]] = After(todo, n)'
        /\ \A n \in DOMAIN todo' : n > Len(seen') => Linked(todo[n])'
    BY <2>1 DEF After, Linked, Ahead
  <2>7. /\ \A i, j \in DOMAIN todo' : todo'[i] = todo'[j] => i = j
        /\ \A n \in DOMAIN todo' : status'[todo'[n]] # "freed"
        /\ Len(seen') <= Len(todo') /\ \A n \in DOMAIN seen' : seen'[n] = todo'[n]
    BY <2>1 DEF Ahead
  <2> QED
    BY <2>5, <2>6, <2>7 DEF Ahead
<1> QED
  BY <1>1, <1>2

LEMMA AheadOfNew ==
  ASSUME Lists, Ahead, pc = "foreach",
         \/ \E s \in String : lst_string_new(s)
         \/ \E l \in Set : lst_stringset_new(l)
  PROVE  Ahead'
<1> USE DEF Lists
<1>1. \A n \in DOMAIN todo : n > Len(seen) => Linked(todo[n])
  BY DEF Ahead
<1>2. CASE \E s \in String : lst_string_new(s)
  <2>1. PICK s \in String : lst_string_new(s)
    BY <1>2
  <2>2. /\ status' = [status EXCEPT ![s] = "live"]
        /\ UNCHANGED << le_next, sets, cursor, members, todo, seen, pc >>
    BY <2>1 DEF lst_string_new, linkVars, histVars
  <2>3. \A t \in String : status[t] # "freed" => status'[t] # "freed"
    BY <2>2 DEF TypeOK
  <2>4. \A n \in DOMAIN todo : n > Len(seen) => Linked(todo[n])'
    BY <1>1, <2>2 DEF Linked
  <2> QED
    BY <2>2, <2>3, <2>4, AheadKept
<1>3. CASE \E l \in Set : lst_stringset_new(l)
  <2>1. PICK l \in Set : lst_stringset_new(l)
    BY <1>3
  <2>2. /\ sets' = sets \cup { l }
        /\ UNCHANGED << status, le_next, cursor, members, todo, seen, pc >>
    BY <2>1 DEF lst_stringset_new, histVars
  <2>3. \A n \in DOMAIN todo : n > Len(seen) => Linked(todo[n])'
    BY <1>1, <2>2 DEF Linked
  <2> QED
    BY <2>2, <2>3, AheadKept
<1> QED
  BY <1>2, <1>3


\* The callback adds a string, or removes the one it was called with.
LEMMA AheadOfAdd ==
  ASSUME Lists, Ahead, pc = "foreach", NEW l \in Set, NEW s \in String,
         lst_stringset_add(l, s)
  PROVE  Ahead'
<1> USE DEF Lists
<1>1. /\ l \in sets /\ ~ Linked(s) /\ ~ Contains(seen, s)
      /\ le_next' = [le_next EXCEPT ![s] = lh_first[l]]
      /\ members' = [members EXCEPT ![l] = << s >> \o @]
      /\ UNCHANGED << status, sets, cursor, seen, todo, pc >>
  BY DEF lst_stringset_add, LIST_INSERT_HEAD, Usable
<1>2. /\ todo \in Seq(String) /\ Len(seen) \in Nat /\ Len(todo) \in Nat
      /\ DOMAIN todo = 1..Len(todo) /\ DOMAIN seen = 1..Len(seen)
      /\ \A n \in DOMAIN seen : n \in DOMAIN todo /\ seen[n] = todo[n]
  BY Placed
<1>3. ASSUME NEW n \in DOMAIN todo
      PROVE  todo[n] # s
  <2>1. CASE n > Len(seen)
    BY <2>1, <1>1 DEF Ahead
  <2>2. CASE ~ (n > Len(seen))
    <3>1. n \in DOMAIN seen
      BY <2>2, <1>2
    <3> QED
      BY <3>1, <1>1, <1>2 DEF Contains
  <2> QED
    BY <2>1, <2>2
<1>4. \A n \in DOMAIN todo : le_next'[todo[n]] = le_next[todo[n]]
  BY <1>1, <1>2, <1>3 DEF TypeOK
<1>5. ASSUME NEW k \in sets, NEW t, Contains(members[k], t)
      PROVE  Contains(members'[k], t)
  <2>1. CASE k = l
    <3> DEFINE m == members[l]
               h == << s >> \o m
    <3>1. m \in Seq(String) /\ Len(m) \in Nat
      BY <1>1 DEF TypeOK
    <3>2. /\ h \in Seq(String) /\ Len(h) = Len(m) + 1
          /\ \A n \in 1..(Len(m) + 1) : h[n] = IF n = 1 THEN s ELSE m[n - 1]
      BY <3>1, HeadedIs
    <3>3. members'[l] = h
      BY <1>1 DEF TypeOK
    <3>4. PICK i \in 1..Len(m) : m[i] = t
      BY <1>5, <2>1 DEF Contains
    <3> HIDE DEF h, m
    <3>5. i + 1 \in 1..Len(h) /\ h[i + 1] = t
      <4>1. i + 1 \in 1..(Len(m) + 1) /\ i + 1 # 1 /\ (i + 1) - 1 = i
        BY <3>1, <3>4
      <4> QED
        BY <4>1, <3>2, <3>4
    <3> QED
      BY <3>3, <3>5, <2>1 DEF Contains
  <2>2. CASE k # l
    <3>1. members'[k] = members[k]
      BY <2>2, <1>1 DEF TypeOK
    <3> QED
      BY <3>1, <1>5
  <2> QED
    BY <2>1, <2>2
<1>6. \A n \in DOMAIN todo : n > Len(seen) => Linked(todo[n])'
  <2> SUFFICES ASSUME NEW n \in DOMAIN todo, n > Len(seen)
               PROVE  Linked(todo[n])'
    OBVIOUS
  <2>1. PICK k \in sets : Contains(members[k], todo[n])
    BY DEF Ahead, Linked
  <2>2. Contains(members'[k], todo[n])
    BY <2>1, <1>5
  <2> QED
    BY <2>2, <1>1 DEF Linked
<1> QED
  BY <1>1, <1>4, <1>6, AheadKept

LEMMA AheadOfRemove ==
  ASSUME Lists, Ahead, pc = "foreach", NEW l \in Set, NEW s \in String,
         lst_stringset_remove(l, s)
  PROVE  Ahead'
<1> USE DEF Lists
<1>1. /\ l \in sets /\ seen # << >> /\ s = Last(seen)
      /\ UNCHANGED << status, sets, cursor, seen, todo, pc >>
  BY DEF lst_stringset_remove, Usable
<1>2. /\ todo \in Seq(String) /\ seen \in Seq(String) /\ Len(seen) \in Nat /\ Len(todo) \in Nat
      /\ DOMAIN todo = 1..Len(todo) /\ DOMAIN seen = 1..Len(seen)
      /\ \A n \in DOMAIN seen : n \in DOMAIN todo /\ seen[n] = todo[n]
  BY Placed
<1>3. Len(seen) \in DOMAIN todo /\ s = todo[Len(seen)]
  <2>1. Len(seen) \in DOMAIN seen
    BY <1>1, <1>2
  <2> QED
    BY <2>1, <1>1, <1>2 DEF Last
<1>4. CASE s \notin Strings(l)
  <2>1. UNCHANGED << linkVars, members >>
    BY <1>4 DEF lst_stringset_remove
  <2>2. \A n \in DOMAIN todo : n > Len(seen) => Linked(todo[n])'
    BY <2>1, <1>1 DEF Ahead, Linked
  <2> QED
    BY <2>1, <2>2, <1>1, AheadKept DEF linkVars
<1>5. CASE s \in Strings(l)
  <2>1. LIST_REMOVE(s) /\ members' = [members EXCEPT ![l] = Without(@, s)]
    BY <1>5 DEF lst_stringset_remove
  <2>2. /\ members' \in [Set -> Seq(String)]
        /\ \A k \in Set : k # l => members'[k] = members[k]
        /\ Len(members'[l]) = Len(members[l]) - 1
        /\ \E p \in DOMAIN members[l] :
             /\ s = members[l][p]
             /\ \A n \in 1..(Len(members[l]) - 1) :
                  members'[l][n] = IF n < p THEN members[l][n] ELSE members[l][n + 1]
    BY <1>5, <2>1, MembersWithout
  <2>3. PICK p \in DOMAIN members[l] :
          /\ s = members[l][p]
          /\ \A n \in 1..(Len(members[l]) - 1) :
               members'[l][n] = IF n < p THEN members[l][n] ELSE members[l][n + 1]
    BY <2>2
  <2>4. members[l] \in Seq(String) /\ Len(members[l]) \in Nat /\ p \in 1..Len(members[l])
    BY DEF TypeOK
  \* What points to s is not one of the strings from s on.
  <2>5. le_prev[s] = l \/ (le_prev[s] \in String /\ le_next[le_prev[s]] = s)
    <3>1. le_prev[s] = IF p = 1 THEN l ELSE members[l][p - 1]
      BY <2>3 DEF Chains, Chain, Before
    <3>2. CASE p # 1
      <4>1. p - 1 \in DOMAIN members[l] /\ p - 1 < Len(members[l]) /\ (p - 1) + 1 = p
        BY <2>4, <3>2
      <4>2. le_next[members[l][p - 1]] = members[l][p] /\ members[l][p - 1] \in String
        BY <4>1, <2>4 DEF Chains, Chain, After
      <4> QED
        BY <4>2, <3>1, <3>2, <2>3
    <3> QED
      BY <3>1, <3>2
  <2>6. ASSUME NEW n \in DOMAIN todo, n >= Len(seen)
        PROVE  le_next'[todo[n]] = le_next[todo[n]]
    <3>1. todo[n] \in String
      BY <1>2
    <3>2. le_next[todo[n]] = IF n < Len(todo) THEN todo[n + 1] ELSE NULL
      BY <2>6 DEF Ahead, After
    <3>3. le_next[todo[n]] # s
      <4>1. CASE n < Len(todo)
        <5>1. n + 1 \in DOMAIN todo /\ n + 1 # Len(seen)
          BY <4>1, <2>6, <1>2
        <5>2. todo[n + 1] # todo[Len(seen)]
          BY <5>1, <1>3 DEF Ahead
        <5> QED
          BY <5>2, <4>1, <3>2, <1>3
      <4>2. CASE ~ (n < Len(todo))
        BY <4>2, <3>2
      <4> QED
        BY <4>1, <4>2
    <3>4. todo[n] # le_prev[s]
      BY <3>1, <3>3, <2>5
    <3> QED
      BY <3>1, <3>4, <2>1 DEF LIST_REMOVE
  <2>7. ASSUME NEW k \in sets, NEW t, Contains(members[k], t), t # s
        PROVE  Contains(members'[k], t)
    <3>1. CASE k = l
      <4>1. PICK i \in 1..Len(members[l]) : members[l][i] = t
        BY <2>7, <3>1 DEF Contains
      <4>2. i # p
        BY <4>1, <2>3, <2>7
      <4>3. CASE i < p
        <5>1. i \in 1..(Len(members[l]) - 1)
          BY <4>1, <4>3, <2>4
        <5> QED
          BY <5>1, <4>1, <4>3, <2>2, <2>3, <3>1 DEF Contains
      <4>4. CASE ~ (i < p)
        <5>1. i - 1 \in 1..(Len(members[l]) - 1) /\ ~ (i - 1 < p) /\ (i - 1) + 1 = i
          BY <4>1, <4>2, <4>4, <2>4
        <5>2. members'[l][i - 1] = t
          BY <5>1, <4>1, <2>3
        <5> QED
          BY <5>1, <5>2, <2>2, <3>1 DEF Contains
      <4> QED
        BY <4>3, <4>4
    <3>2. CASE k # l
      BY <3>2, <2>2, <2>7 DEF TypeOK
    <3> QED
      BY <3>1, <3>2
  <2>8. \A n \in DOMAIN todo : n > Len(seen) => Linked(todo[n])'
    <3> SUFFICES ASSUME NEW n \in DOMAIN todo, n > Len(seen)
                 PROVE  Linked(todo[n])'
      OBVIOUS
    <3>1. PICK k \in sets : Contains(members[k], todo[n])
      BY DEF Ahead, Linked
    <3>2. n # Len(seen)
      BY <1>2
    <3>3. todo[n] # s
      BY <3>2, <1>3 DEF Ahead
    <3>4. Contains(members'[k], todo[n])
      BY <3>1, <3>3, <2>7
    <3> QED
      BY <3>4, <1>1 DEF Linked
  <2> QED
    BY <2>6, <2>8, <1>1, AheadKept
<1> QED
  BY <1>4, <1>5


-----------------------------------------------------------------------------
(***************************************************************************)
(* Callers that leave what they passed to a tree to it use nothing freed.  *)
(***************************************************************************)
NotFreed(l) == \A n \in DOMAIN members[l] : status[members[l][n]] # "freed"

LEMMA UsableNotFreed ==
  ASSUME TypeOK, NEW l \in Set
  PROVE  Usable(l) => NotFreed(l)
<1>1. \A n \in DOMAIN members[l] : members[l][n] \in String
  BY DEF TypeOK
<1> QED
  BY <1>1 DEF Usable, Freed, ToSet, NotFreed

LEMMA LinksNotFreed ==
  ASSUME TypeOK, Chains, NEW l \in Set, NEW p \in DOMAIN members[l], NotFreed(l)
  PROVE  ~ Freed({ members[l][p], le_next[members[l][p]], le_prev[members[l][p]] })
<1> DEFINE m == members[l]
<1>1. m \in Seq(String) /\ Len(m) \in Nat /\ p \in 1..Len(m)
  BY DEF TypeOK
<1>2. /\ le_next[m[p]] = IF p < Len(m) THEN m[p + 1] ELSE NULL
      /\ le_prev[m[p]] = IF p = 1 THEN l ELSE m[p - 1]
  BY DEF Chains, Chain, After, Before
<1>3. p < Len(m) => p + 1 \in DOMAIN m
  BY <1>1
<1>4. p # 1 => p - 1 \in DOMAIN m
  BY <1>1
<1>5. status[m[p]] # "freed"
  BY DEF NotFreed
<1>6. le_next[m[p]] \in String => status[le_next[m[p]]] # "freed"
  BY <1>2, <1>3 DEF NotFreed
<1>7. le_prev[m[p]] \in String => status[le_prev[m[p]]] # "freed"
  BY <1>2, <1>4 DEF NotFreed
<1> QED
  BY <1>5, <1>6, <1>7 DEF Freed

LEMMA AliveOfStrings ==
  ASSUME Lists, Alive, ~ CleansUp, NEW s \in String,
         lst_string_new(s) \/ lst_string_free(s) \/ lst_stree_add_string(s)
  PROVE  Alive'
<1> USE DEF Lists
<1>1. CASE lst_string_new(s)
  BY <1>1 DEF lst_string_new, MayCall, Alive, InTree, TypeOK
<1>2. CASE lst_string_free(s)
  BY <1>2 DEF lst_string_free, Alive, InTree, TypeOK
<1>3. CASE lst_stree_add_string(s)
  BY <1>3 DEF lst_stree_add_string, Alive, InTree, TypeOK
<1> QED
  BY <1>1, <1>2, <1>3

LEMMA AliveOfCalls ==
  ASSUME Lists, Ahead, Alive, ~ CleansUp, NEW l \in Set, NEW s \in String,
         lst_stringset_add(l, s) \/ lst_stringset_remove(l, s)
  PROVE  Alive'
<1> USE DEF Lists
<1>1. ~ touched'
  <2>1. CASE lst_stringset_add(l, s)
    <3>1. NotFreed(l) /\ status[s] = "live" /\ touched' = (touched \/ Freed({ s, lh_first[l] }))
      BY <2>1, UsableNotFreed DEF lst_stringset_add, LIST_INSERT_HEAD
    <3>2. lh_first[l] # NULL => status[lh_first[l]] # "freed"
      BY <3>1, FirstOfList DEF NotFreed
    <3>3. ~ Freed({ s, lh_first[l] })
      BY <3>1, <3>2 DEF Freed
    <3> QED
      BY <3>1, <3>3 DEF Alive
  <2>2. CASE lst_stringset_remove(l, s) /\ s \in Strings(l)
    <3>1. NotFreed(l) /\ touched' = (touched \/ Freed({ s, le_next[s], le_prev[s] }))
      BY <2>2, UsableNotFreed DEF lst_stringset_remove, LIST_REMOVE
    <3>2. PICK p \in DOMAIN members[l] : s = members[l][p]
      BY <2>2, StringsAreMembers DEF ToSet
    <3>3. ~ Freed({ s, le_next[s], le_prev[s] })
      BY <3>1, <3>2, LinksNotFreed
    <3> QED
      BY <3>1, <3>3 DEF Alive
  <2>3. CASE lst_stringset_remove(l, s) /\ s \notin Strings(l)
    BY <2>3 DEF lst_stringset_remove, Alive
  <2> QED
    BY <2>1, <2>2, <2>3
<1>2. UNCHANGED << status, tree, pc >> /\ pc # "free_set"
  BY DEF lst_stringset_add, lst_stringset_remove, MayCall
<1> QED
  BY <1>1, <1>2 DEF Alive, InTree

LEMMA AliveOfForeach ==
  ASSUME Lists, Ahead, Alive, ~ CleansUp,
         \/ \E l \in Set : lst_stringset_new(l) \/ lst_stringset_foreach(l)
         \/ Callback \/ NextString \/ EndForeach
  PROVE  Alive'
<1> USE DEF Lists
<1>1. UNCHANGED << status, tree >> /\ pc' # "free_set"
  BY DEF lst_stringset_new, lst_stringset_foreach, Callback, NextString, EndForeach, MayCall
<1>2. ~ touched'
  <2>1. CASE NextString
    <3>1. /\ pc = "foreach" /\ cursor # NULL /\ Contains(seen, cursor)
          /\ touched' = (touched \/ Freed({ cursor }))
      BY <2>1 DEF NextString
    <3>2. Len(seen) \in DOMAIN todo /\ cursor = todo[Len(seen)]
      BY <3>1, Placed
    <3>3. status[cursor] # "freed"
      BY <3>1, <3>2 DEF Ahead
    <3> QED
      BY <3>1, <3>3 DEF Freed, Alive
  <2> QED
    BY <2>1 DEF lst_stringset_new, lst_stringset_foreach, Callback, EndForeach, Alive
<1> QED
  BY <1>1, <1>2 DEF Alive, InTree

LEMMA AliveOfFree ==
  ASSUME Lists, Alive, ~ CleansUp,
         (\E l \in Set : FreeSet(l)) \/ FreeFirst \/ SetFreed
  PROVE  Alive'
<1> USE DEF Lists
<1>1. CASE \E l \in Set : FreeSet(l)
  <2>1. PICK l \in Set : FreeSet(l)
    BY <1>1
  <2>2. NotFreed(l) /\ \A n \in DOMAIN members[l] : ~ InTree(members[l][n])
    BY <2>1, UsableNotFreed DEF FreeSet, ToSet
  <2>3. cursor' = l /\ UNCHANGED << status, tree, touched, members >>
    BY <2>1 DEF FreeSet, histVars
  <2> QED
    BY <2>2, <2>3 DEF Alive, InTree, NotFreed
<1>2. CASE FreeFirst
  <2>1. PICK l \in sets : cursor = l
    BY <1>2 DEF FreeFirst
  <2>2. /\ l \in Set /\ 1 \in DOMAIN members[l]
        /\ LIST_REMOVE(members[l][1])
        /\ status' = [status EXCEPT ![members[l][1]] = "freed"]
        /\ Len(members'[l]) = Len(members[l]) - 1
        /\ \A n \in 1..(Len(members[l]) - 1) : members'[l][n] = members[l][n + 1]
        /\ members'[l] \in Seq(String)
    BY <1>2, <2>1, FreesFirst DEF TypeOK
  <2>3. UNCHANGED << cursor, tree, pc >> /\ pc = "free_set"
    BY <1>2 DEF FreeFirst
  <2>4. NotFreed(l) /\ \A n \in DOMAIN members[l] : ~ InTree(members[l][n])
    BY <2>1, <2>3 DEF Alive, NotFreed
  <2>5. ~ touched'
    <3>1. ~ Freed({ members[l][1], le_next[members[l][1]], le_prev[members[l][1]] })
      BY <2>2, <2>4, LinksNotFreed
    <3> QED
      BY <2>2, <3>1 DEF LIST_REMOVE, Alive
  <2>6. \A t \in String : t # members[l][1] => status'[t] = status[t]
    BY <2>2 DEF TypeOK
  <2>7. \A t \in String : InTree(t)' => status'[t] # "freed"
    BY <2>2, <2>3, <2>4, <2>6 DEF InTree, Alive
  <2>8. ASSUME NEW n \in DOMAIN members'[l]
        PROVE  /\ status'[members'[l][n]] # "freed"
               /\ ~ (tree' # NULL /\ members'[l][n] \in tree')
    <3>1. members[l] \in Seq(String) /\ Len(members[l]) \in Nat
      BY <2>2 DEF TypeOK
    <3>2. n \in 1..(Len(members[l]) - 1)
      BY <2>2
    <3>3. n + 1 \in DOMAIN members[l] /\ n + 1 # 1 /\ members'[l][n] = members[l][n + 1]
      BY <2>2, <3>1, <3>2, SMTT(30)
    <3>4. members[l][n + 1] # members[l][1] /\ members[l][n + 1] \in String
      BY <2>2, <3>1, <3>3 DEF Apart
    <3> QED
      BY <2>3, <2>4, <2>6, <3>3, <3>4 DEF NotFreed, InTree
  <2>9. \A n \in DOMAIN members'[cursor'] :
          status'[members'[cursor'][n]] # "freed" /\ ~ (tree' # NULL /\ members'[cursor'][n] \in tree')
    BY <2>1, <2>3, <2>8
  <2> QED
    BY <2>5, <2>7, <2>9 DEF Alive, InTree
<1>3. CASE SetFreed
  BY <1>3 DEF SetFreed, Alive, InTree
<1> QED
  BY <1>1, <1>2, <1>3

LEMMA AliveOfTree ==
  ASSUME Lists, Alive, ~ CleansUp,
         \/ \E l \in Set : lst_stree_new(l)
         \/ lst_stree_clear \/ ClearString \/ TreeCleared
  PROVE  Alive'
<1> USE DEF Lists
<1>1. CASE \E l \in Set : lst_stree_new(l)
  <2>1. PICK l \in Set : lst_stree_new(l)
    BY <1>1
  <2>2. NotFreed(l) /\ tree' = Strings(l) /\ touched' = (touched \/ Freed(Strings(l)))
    BY <2>1, UsableNotFreed DEF lst_stree_new
  <2>3. \A s \in Strings(l) : status[s] # "freed"
    BY <2>2, StringsAreMembers DEF ToSet, NotFreed
  <2>4. UNCHANGED << status, pc >> /\ pc = "ready"
    BY <2>1 DEF lst_stree_new
  <2> QED
    BY <2>2, <2>3, <2>4 DEF Alive, InTree, Freed
<1>2. CASE lst_stree_clear
  BY <1>2 DEF lst_stree_clear, Alive, InTree
<1>3. CASE ClearString
  <2>1. PICK s \in tree :
          /\ tree' = tree \ { s }
          /\ status' = [status EXCEPT ![s] = "freed"]
          /\ touched' = (touched \/ Freed({ s }))
    BY <1>3 DEF ClearString
  <2>2. tree \in SUBSET String /\ pc = "clear" /\ pc' = "clear"
    BY <1>3 DEF ClearString
  <2>3. ASSUME tree = NULL PROVE FALSE
    BY <2>3, <2>1, <2>2, <1>3
  <2> QED
    BY <2>1, <2>2, <2>3 DEF Alive, InTree, Freed, TypeOK
<1>4. CASE TreeCleared
  BY <1>4 DEF TreeCleared, Alive, InTree
<1> QED
  BY <1>1, <1>2, <1>3, <1>4


-----------------------------------------------------------------------------
LEMMA Inductive ==
  ASSUME IInv, Next
  PROVE  IInv'
<1> USE DEF IInv
<1>0. Lists
  BY DEF Lists
<1>1. Lists'
  <2>1. CASE \E s \in String : lst_string_new(s) \/ lst_string_free(s) \/ lst_stree_add_string(s)
    BY <1>0, <2>1, ListsOfStrings
  <2>2. CASE \E l \in Set : lst_stringset_new(l) \/ FreeSet(l)
    BY <1>0, <2>2, ListsOfSets
  <2>3. CASE (\E l \in Set : lst_stringset_foreach(l)) \/ Callback \/ NextString \/ EndForeach
    BY <1>0, <2>3, ListsOfForeach
  <2>4. CASE \E l \in Set, s \in String : lst_stringset_add(l, s)
    BY <1>0, <2>4, ListsOfAdd
  <2>5. CASE \E l \in Set, s \in String : lst_stringset_remove(l, s)
    BY <1>0, <2>5, ListsOfRemove
  <2>6. CASE FreeFirst \/ SetFreed
    BY <1>0, <2>6, ListsOfFree
  <2>7. CASE (\E l \in Set : lst_stree_new(l)) \/ lst_stree_clear \/ ClearString \/ TreeCleared
    BY <1>0, <2>7, ListsOfTree
  <2> QED
    BY <2>1, <2>2, <2>3, <2>4, <2>5, <2>6, <2>7 DEF Next
<1>2. Ahead'
  <2>1. CASE pc' # "foreach"
    BY <2>1 DEF Ahead
  <2>2. CASE pc' = "foreach" /\ pc # "foreach"
    <3>1. \E l \in Set : lst_stringset_foreach(l)
      BY <2>2 DEF Next, lst_string_new, lst_string_free, lst_stree_add_string,
                  lst_stringset_new, FreeSet, lst_stree_new, lst_stringset_add,
                  lst_stringset_remove, Callback, NextString, EndForeach, FreeFirst,
                  SetFreed, lst_stree_clear, ClearString, TreeCleared
    <3> QED
      BY <1>0, <3>1, AheadOfStart
  <2>3. CASE pc' = "foreach" /\ pc = "foreach"
    <3>1. \/ \E s \in String : lst_string_new(s)
          \/ \E l \in Set : lst_stringset_new(l)
          \/ \E l \in Set, s \in String : lst_stringset_add(l, s) \/ lst_stringset_remove(l, s)
          \/ Callback \/ NextString
      BY <2>3 DEF Next, lst_string_free, lst_stree_add_string, lst_stringset_foreach,
                  FreeSet, lst_stree_new, EndForeach, FreeFirst, SetFreed, lst_stree_clear,
                  ClearString, TreeCleared
    <3>2. CASE (\E s \in String : lst_string_new(s)) \/ \E l \in Set : lst_stringset_new(l)
      BY <1>0, <2>3, <3>2, AheadOfNew
    <3>3. CASE \E l \in Set, s \in String : lst_stringset_add(l, s) \/ lst_stringset_remove(l, s)
      BY <1>0, <2>3, <3>3, AheadOfAdd, AheadOfRemove
    <3>4. CASE Callback \/ NextString
      BY <1>0, <3>4, AheadOfLoop
    <3> QED
      BY <3>1, <3>2, <3>3, <3>4
  <2> QED
    BY <2>1, <2>2, <2>3
<1>3. Alive'
  <2>1. CASE CleansUp
    BY <2>1 DEF Alive
  <2>2. CASE ~ CleansUp
    <3>1. CASE \E s \in String : lst_string_new(s) \/ lst_string_free(s) \/ lst_stree_add_string(s)
      BY <1>0, <2>2, <3>1, AliveOfStrings
    <3>2. CASE \/ \E l \in Set : lst_stringset_new(l) \/ lst_stringset_foreach(l)
               \/ Callback \/ NextString \/ EndForeach
      BY <1>0, <2>2, <3>2, AliveOfForeach
    <3>3. CASE \E l \in Set, s \in String : lst_stringset_add(l, s) \/ lst_stringset_remove(l, s)
      BY <1>0, <2>2, <3>3, AliveOfCalls
    <3>4. CASE (\E l \in Set : FreeSet(l)) \/ FreeFirst \/ SetFreed
      BY <1>0, <2>2, <3>4, AliveOfFree
    <3>5. CASE (\E l \in Set : lst_stree_new(l)) \/ lst_stree_clear \/ ClearString \/ TreeCleared
      BY <1>0, <2>2, <3>5, AliveOfTree
    <3> QED
      BY <3>1, <3>2, <3>3, <3>4, <3>5 DEF Next
  <2> QED
    BY <2>1, <2>2
<1> QED
  BY <1>1, <1>2, <1>3 DEF Lists

LEMMA Initially ==
  Init => IInv
<1> SUFFICES ASSUME Init PROVE IInv
  OBVIOUS
<1>0. << >> \in Seq(String)
  OBVIOUS
<1>1. /\ members \in [Set -> Seq(String)] /\ \A l \in Set : members[l] = << >>
      /\ pc = "ready" /\ ~ touched /\ tree = NULL
      /\ \A l \in Set : lh_first[l] = NULL
  BY <1>0 DEF Init
<1>2. TypeOK
  <2>1. /\ status \in [String -> { "none", "live", "freed" }]
        /\ le_next \in [String -> String \cup { NULL }]
        /\ le_prev \in [String -> String \cup Set \cup { NULL }]
        /\ lh_first \in [Set -> String \cup { NULL }]
        /\ size \in [Set -> Int]
    BY DEF Init
  <2>2. /\ sets \in SUBSET Set /\ cursor = NULL /\ touched = FALSE
        /\ seen \in Seq(String) /\ todo \in Seq(String)
    BY <1>0 DEF Init
  <2> QED
    BY <2>1, <2>2, <1>1 DEF TypeOK
<1>3. Apart
  BY <1>1 DEF Apart
<1>4. Chains
  <2> SUFFICES ASSUME NEW l \in Set PROVE Chain(l, members[l])
    BY DEF Chains
  <2>1. members[l] = << >> /\ Len(members[l]) = 0 /\ DOMAIN members[l] = {}
    BY <1>1
  <2> QED
    BY <2>1, <1>1 DEF Chain, After
<1>5. Sizes
  BY DEF Init, Sizes
<1> QED
  BY <1>1, <1>2, <1>3, <1>4, <1>5 DEF IInv, Ahead, Alive, InTree

LEMMA Stutters ==
  ASSUME IInv, UNCHANGED vars
  PROVE  IInv'
<1> USE DEF IInv, vars, linkVars, histVars
<1>1. TypeOK'
  BY DEF TypeOK
<1>2. Apart' /\ Chains' /\ Sizes'
  BY DEF Apart, Chains, Chain, After, Before, Sizes
<1>3. Ahead'
  BY DEF Ahead, After, Linked
<1>4. Alive'
  BY DEF Alive, InTree
<1> QED
  BY <1>1, <1>2, <1>3, <1>4

(* The inductive invariant: a list is the chain of the members of its set, *)
(* no string is at two places, and what lies ahead of a running            *)
(* lst_stringset_foreach is linked as it was when the loop began, whatever *)
(* the callback does.                                                      *)
THEOREM Invariant == Spec => []IInv
<1>1. IInv /\ [Next]_vars => IInv'
  BY Inductive, Stutters
<1> QED
  BY Initially, <1>1, PTL DEF Spec

(* lst_stringset_add, _remove, _free and _foreach, for any number of       *)
(* strings and sets, whether or not callers clean up what they passed to a *)
(* tree: every list has the strings that were added and not removed, and a *)
(* loop with a callback comes to those that the set had at its beginning.  *)
THEOREM ListsCorrect == Spec => []ListsRight
<1>1. IInv => ListsRight
  <2> SUFFICES ASSUME IInv PROVE ListsRight
    OBVIOUS
  <2>1. ASSUME NEW l \in sets
        PROVE  Chain(l, members[l]) /\ (pc # "free_set" => size[l] = Len(members[l]))
    BY DEF IInv, TypeOK, Chains, Sizes
  <2>2. ASSUME pc = "foreach"
        PROVE  IsPrefix(seen, todo) /\ (cursor = NULL => seen = todo)
    <3>1. TypeOK /\ Ahead
      BY DEF IInv
    <3>2. /\ todo \in Seq(String) /\ seen \in Seq(String)
          /\ Len(seen) \in Nat /\ Len(todo) \in Nat /\ Len(seen) <= Len(todo)
          /\ DOMAIN todo = 1..Len(todo) /\ DOMAIN seen = 1..Len(seen)
          /\ \A n \in DOMAIN seen : n \in DOMAIN todo /\ seen[n] = todo[n]
          /\ cursor = NULL => Len(seen) = Len(todo)
      BY <2>2, <3>1, Placed
    <3>3. SubSeq(seen, 1, Len(seen)) = seen
      BY <3>2, WholeIs
    <3>4. /\ SubSeq(todo, 1, Len(seen)) \in Seq(String)
          /\ Len(SubSeq(todo, 1, Len(seen))) = Len(seen)
          /\ \A n \in 1..Len(seen) : SubSeq(todo, 1, Len(seen))[n] = todo[n]
      BY <3>2, FrontIs
    <3>5. SubSeq(todo, 1, Len(seen)) = seen
      <4>1. \A n \in 1..Len(seen) : SubSeq(todo, 1, Len(seen))[n] = seen[n]
        BY <3>2, <3>4
      <4> QED
        BY <4>1, <3>2, <3>4, SeqEqual
    <3>6. cursor = NULL => seen = todo
      BY <3>2, SeqEqual
    <3> QED
      BY <3>2, <3>3, <3>5, <3>6 DEF IsPrefix
  <2> QED
    BY <2>1, <2>2 DEF ListsRight
<1> QED
  BY Invariant, <1>1, PTL

(* Callers that pass a set to lst_stree_new and do not clean it up         *)
(* afterwards read, write and free no string that was freed.               *)
THEOREM NothingFreed == ASSUME ~ CleansUp PROVE Spec => []NothingFreedIsUsed
<1>1. IInv => NothingFreedIsUsed
  BY DEF IInv, Alive, NothingFreedIsUsed
<1> QED
  BY Invariant, <1>1, PTL
=============================================================================
