---------------------------- MODULE HashTableProof ----------------------------
(***************************************************************************)
(* Proofs about HashTable, for any objects, keys, hash function and sizes: *)
(* entries stay where a search looks for them, what is freed is no longer  *)
(* in the table, the iterator misses nothing, and the table is a map.      *)
(***************************************************************************)
EXTENDS HashTable, FiniteSetTheorems, WellFoundedInduction, TLAPS

\* The numbers are well ordered: a set of them has a least element.
LEMMA LeastNatural ==
  ASSUME NEW S \in SUBSET Nat, S # {}
  PROVE  \E m \in S : \A n \in S : m <= n
<1> DEFINE Less == { p \in Nat \X Nat : p[1] < p[2] }
<1>1. IsWellFoundedOn(Less, Nat)
  BY NatLessThanWellFounded DEF OpToRel
<1>2. PICK m \in S : \A n \in S : << n, m >> \notin Less
  <2> HIDE DEF Less
  <2> QED BY <1>1, WFMin
<1>3. ASSUME NEW n \in S PROVE m <= n
  <2>1. << n, m >> \in Nat \X Nat /\ << n, m >>[1] = n /\ << n, m >>[2] = m
    OBVIOUS
  <2>2. ~ (n < m)
    BY <1>2, <2>1
  <2> QED BY <2>2
<1> QED BY <1>3

-----------------------------------------------------------------------------
(* What each of the four operations on a chain makes of it.                *)

LEMMA ConsChain ==
  ASSUME NEW s \in Seq(Entry), NEW e \in Entry
  PROVE  /\ << e >> \o s \in Seq(Entry)
         /\ InChain(<< e >> \o s) = { e } \cup InChain(s)
         /\ Distinct(s) /\ (\A f \in InChain(s) : Key[e.key] # Key[f.key]) => Distinct(<< e >> \o s)
<1> DEFINE t == << e >> \o s
<1>1. t \in Seq(Entry) /\ Len(t) = Len(s) + 1 /\ t[1] = e /\ DOMAIN t = 1..(Len(s) + 1)
  OBVIOUS
<1>2. \A p \in DOMAIN s : p + 1 \in DOMAIN t /\ t[p + 1] = s[p]
  OBVIOUS
<1>3. \A p \in DOMAIN t : p = 1 \/ (p - 1 \in DOMAIN s /\ t[p] = s[p - 1])
  OBVIOUS
<1> HIDE DEF t
<1>4. InChain(t) = { e } \cup InChain(s)
  <2>1. \A f \in InChain(t) : f = e \/ f \in InChain(s)
    BY <1>1, <1>3 DEF InChain
  <2>2. e \in InChain(t) /\ \A f \in InChain(s) : f \in InChain(t)
    BY <1>1, <1>2 DEF InChain
  <2> QED BY <2>1, <2>2
<1>5. ASSUME Distinct(s), \A f \in InChain(s) : Key[e.key] # Key[f.key] PROVE Distinct(t)
  <2>1. SUFFICES ASSUME NEW p \in DOMAIN t, NEW q \in DOMAIN t, Key[t[p].key] = Key[t[q].key]
                 PROVE  p = q
    BY DEF Distinct
  <2>2. \A r \in DOMAIN s : Key[e.key] # Key[s[r].key]
    BY <1>5 DEF InChain
  <2>3. CASE p = 1 \/ q = 1
    BY <2>1, <2>2, <2>3, <1>1, <1>3
  <2>4. CASE p # 1 /\ q # 1
    <3>1. p - 1 \in DOMAIN s /\ q - 1 \in DOMAIN s /\ t[p] = s[p - 1] /\ t[q] = s[q - 1]
      BY <1>3, <2>4
    <3>2. p - 1 = q - 1
      BY <3>1, <2>1, <1>5 DEF Distinct
    <3> QED BY <3>2, <1>1
  <2> QED BY <2>3, <2>4
<1> QED BY <1>1, <1>4, <1>5 DEF t

LEMMA TailChain ==
  ASSUME NEW s \in Seq(Entry), s # << >>, Distinct(s)
  PROVE  /\ Tail(s) \in Seq(Entry) /\ Head(s) \in Entry
         /\ Head(s) \in InChain(s)
         /\ InChain(Tail(s)) = InChain(s) \ { Head(s) }
         /\ Distinct(Tail(s))
<1> DEFINE t == Tail(s)
<1>1. t \in Seq(Entry) /\ Head(s) = s[1] /\ 1 \in DOMAIN s /\ DOMAIN t = 1..(Len(s) - 1)
      /\ DOMAIN s = 1..Len(s)
  OBVIOUS
<1>2. \A p \in DOMAIN t : p + 1 \in DOMAIN s /\ t[p] = s[p + 1]
  OBVIOUS
<1>3. \A p \in DOMAIN s : p = 1 \/ (p - 1 \in DOMAIN t /\ t[p - 1] = s[p])
  OBVIOUS
<1> HIDE DEF t
<1>4. \A p \in DOMAIN t : t[p] # s[1]
  BY <1>1, <1>2 DEF Distinct
<1>5. InChain(t) = InChain(s) \ { s[1] }
  <2>1. \A e \in InChain(t) : e \in InChain(s) /\ e # s[1]
    BY <1>2, <1>4 DEF InChain
  <2>2. \A e \in InChain(s) : e # s[1] => e \in InChain(t)
    BY <1>3 DEF InChain
  <2> QED BY <2>1, <2>2
<1>6. Distinct(t)
  <2>1. SUFFICES ASSUME NEW p \in DOMAIN t, NEW q \in DOMAIN t, Key[t[p].key] = Key[t[q].key]
                 PROVE  p = q
    BY DEF Distinct
  <2>2. p + 1 = q + 1
    BY <2>1, <1>2 DEF Distinct
  <2> QED BY <2>2, <1>1
<1>7. s[1] \in InChain(s) /\ s[1] \in Entry
  BY <1>1 DEF InChain
<1> QED BY <1>1, <1>5, <1>6, <1>7 DEF t

LEMMA UnlinkedChain ==
  ASSUME NEW s \in Seq(Entry), NEW p \in DOMAIN s, Distinct(s)
  PROVE  /\ Unlinked(s, p) \in Seq(Entry)
         /\ InChain(Unlinked(s, p)) = InChain(s) \ { s[p] }
         /\ Distinct(Unlinked(s, p))
<1> DEFINE t == Unlinked(s, p)
<1>1. DOMAIN s = 1..Len(s) /\ DOMAIN t = 1..(Len(s) - 1) /\ p \in 1..Len(s) /\ Len(s) \in Nat
  BY DEF Unlinked
<1>2. \A q \in DOMAIN t : t[q] = IF q < p THEN s[q] ELSE s[q + 1]
  BY DEF Unlinked
<1>3. t \in Seq(Entry)
  <2>1. \A q \in 1..(Len(s) - 1) : t[q] \in Entry
    BY <1>1, <1>2
  <2>2. t = [q \in 1..(Len(s) - 1) |-> t[q]]
    BY DEF Unlinked
  <2>3. Len(s) - 1 \in Nat
    BY <1>1
  <2> HIDE DEF t
  <2> QED BY <2>1, <2>2, <2>3
<1> HIDE DEF t
<1>4. \A q \in DOMAIN t : \E r \in DOMAIN s : r # p /\ t[q] = s[r] /\ r = IF q < p THEN q ELSE q + 1
  BY <1>1, <1>2
<1>5. \A r \in DOMAIN s : r # p => \E q \in DOMAIN t : t[q] = s[r]
  <2>1. TAKE r \in DOMAIN s
  <2>2. CASE r < p
    BY <2>2, <1>1, <1>2
  <2>3. CASE r > p
    <3>1. r - 1 \in DOMAIN t /\ ~ (r - 1 < p) /\ (r - 1) + 1 = r
      BY <2>3, <1>1
    <3> QED BY <3>1, <1>2
  <2> QED BY <2>2, <2>3, <1>1
<1>6. InChain(t) = InChain(s) \ { s[p] }
  <2>1. \A e \in InChain(t) : e \in InChain(s) /\ e # s[p]
    BY <1>4 DEF InChain, Distinct
  <2>2. \A e \in InChain(s) : e # s[p] => e \in InChain(t)
    BY <1>5 DEF InChain
  <2> QED BY <2>1, <2>2
<1>7. Distinct(t)
  <2>1. SUFFICES ASSUME NEW q \in DOMAIN t, NEW r \in DOMAIN t, Key[t[q].key] = Key[t[r].key]
                 PROVE  q = r
    BY DEF Distinct
  <2>2. PICK q1 \in DOMAIN s : t[q] = s[q1] /\ q1 = IF q < p THEN q ELSE q + 1
    BY <1>4
  <2>3. PICK r1 \in DOMAIN s : t[r] = s[r1] /\ r1 = IF r < p THEN r ELSE r + 1
    BY <1>4
  <2>4. q1 = r1
    BY <2>1, <2>2, <2>3 DEF Distinct
  <2> QED BY <2>2, <2>3, <2>4, <1>1
<1> QED BY <1>3, <1>6, <1>7 DEF t

LEMMA ReplacedChain ==
  ASSUME NEW s \in Seq(Entry), NEW p \in DOMAIN s, Distinct(s),
         NEW e \in Entry, Key[e.key] = Key[s[p].key]
  PROVE  /\ [s EXCEPT ![p] = e] \in Seq(Entry)
         /\ InChain([s EXCEPT ![p] = e]) = (InChain(s) \ { s[p] }) \cup { e }
         /\ Distinct([s EXCEPT ![p] = e])
<1> DEFINE t == [s EXCEPT ![p] = e]
<1>1. t \in Seq(Entry) /\ DOMAIN t = DOMAIN s /\ \A q \in DOMAIN s : t[q] = IF q = p THEN e ELSE s[q]
  OBVIOUS
<1> HIDE DEF t
<1>2. InChain(t) = (InChain(s) \ { s[p] }) \cup { e }
  <2>1. \A f \in InChain(t) : f = e \/ (f \in InChain(s) /\ f # s[p])
    BY <1>1 DEF InChain, Distinct
  <2>2. \A f \in InChain(s) : f # s[p] => f \in InChain(t)
    BY <1>1 DEF InChain
  <2>3. e \in InChain(t)
    BY <1>1 DEF InChain
  <2> QED BY <2>1, <2>2, <2>3
<1>3. Distinct(t)
  BY <1>1 DEF Distinct
<1> QED BY <1>1, <1>2, <1>3 DEF t

-----------------------------------------------------------------------------
(* The chains of the table.                                                *)

LEMMA IndexInTable ==
  ASSUME TypeOK, pc # "freed", NEW o \in Object
  PROVE  index(o) \in DOMAIN table /\ table[index(o)] \in Seq(Entry)
<1>1. Hash[o] \in Nat /\ table_size \in Nat \ { 0 }
  BY HashAssumption DEF TypeOK
<1>2. index(o) \in 0..(table_size - 1)
  BY <1>1 DEF index
<1> QED BY <1>2 DEF TypeOK

LEMMA SameIndex ==
  ASSUME NEW o \in Object, NEW p \in Object, Key[o] = Key[p]
  PROVE  index(o) = index(p)
BY HashAssumption DEF index

\* The search in one chain is a search in the table.
LEMMA NotInTable ==
  ASSUME TypeOK, Chained, pc # "freed", NEW o \in Object, Places(o) = {}
  PROVE  \A c \in DOMAIN table : \A e \in InChain(table[c]) : Key[o] # Key[e.key]
<1> SUFFICES ASSUME NEW c \in DOMAIN table, NEW p \in DOMAIN table[c],
                    Key[o] = Key[table[c][p].key]
             PROVE  FALSE
  BY DEF InChain
<1>1. table[c] \in Seq(Entry)
  BY DEF TypeOK
<1>2. table[c][p].key \in Object
  <2>1. table[c][p] \in Entry
    BY <1>1
  <2> QED BY <2>1 DEF Entry
<1>3. index(table[c][p].key) = c
  BY DEF Chained, InChain
<1>4. index(o) = c
  BY <1>2, <1>3, SameIndex
<1> QED BY <1>4 DEF Places

LEMMA InSomeChain ==
  ASSUME NEW t, NEW e
  PROVE  e \in UNION { InChain(t[c]) : c \in DOMAIN t } <=> \E c \in DOMAIN t : e \in InChain(t[c])
OBVIOUS

LEMMA OneChain ==
  ASSUME TypeOK, Chained, pc # "freed",
         NEW c \in DOMAIN table, NEW s \in Seq(Entry), Distinct(s),
         \A e \in InChain(s) :
           /\ index(e.key) = c
           /\ \A d \in DOMAIN old_table : \A f \in InChain(old_table[d]) : Key[f.key] # Key[e.key],
         table' = [table EXCEPT ![c] = s], table_size' = table_size,
         \/ old_table' = old_table /\ i' = i
         \/ old_table' = << >> /\ \A d \in DOMAIN old_table : old_table[d] = << >>
  PROVE  /\ table' \in [0..(table_size' - 1) -> Seq(Entry)]
         /\ Chained'
         /\ Stored' = (Stored \ InChain(table[c])) \cup InChain(s)
<1>1. table \in [0..(table_size - 1) -> Seq(Entry)]
  BY DEF TypeOK
<1>2. /\ DOMAIN table' = DOMAIN table
      /\ \A d \in DOMAIN table : table'[d] = IF d = c THEN s ELSE table[d]
  BY <1>1
<1>3. \A d \in DOMAIN old_table' : d \in DOMAIN old_table /\ old_table'[d] = old_table[d] /\ i' = i
  OBVIOUS
<1>4. \A o : index(o)' = index(o)
  BY DEF index
<1>5. ASSUME NEW d \in DOMAIN table'
      PROVE  Distinct(table'[d]) /\ \A e \in InChain(table'[d]) : index(e.key)' = d
  BY <1>2, <1>4 DEF Chained
<1>6. ASSUME NEW d \in DOMAIN old_table'
      PROVE  /\ Distinct(old_table'[d])
             /\ d < i' => old_table'[d] = << >>
             /\ 0..d \subseteq DOMAIN old_table'
  BY <1>3 DEF Chained
<1>7. ASSUME NEW d \in DOMAIN old_table', NEW e \in InChain(old_table'[d])
      PROVE  /\ \A b \in DOMAIN old_table' \ { d } : \A f \in InChain(old_table'[b]) : Key[e.key] # Key[f.key]
             /\ \A b \in DOMAIN table' : \A f \in InChain(table'[b]) : Key[e.key] # Key[f.key]
  BY <1>2, <1>3 DEF Chained
<1>8. Chained'
  BY <1>5, <1>6, <1>7 DEF Chained
<1>9. Stored' = (Stored \ InChain(table[c])) \cup InChain(s)
  <2>1. ASSUME NEW d \in DOMAIN old_table, NEW e \in InChain(old_table[d])
        PROVE  d \in DOMAIN old_table' /\ old_table'[d] = old_table[d]
    BY DEF InChain
  <2>2. ASSUME NEW e \in Stored, e \notin InChain(table[c]) PROVE e \in Stored'
    BY <2>1, <2>2, <1>2 DEF Stored
  <2>3. ASSUME NEW e \in InChain(s) PROVE e \in Stored'
    BY <1>2 DEF Stored
  <2>4. ASSUME NEW e \in Stored' PROVE e \in InChain(s) \/ (e \in Stored /\ e \notin InChain(table[c]))
    <3>1. CASE \E d \in DOMAIN table' : e \in InChain(table'[d])
      <4>1. PICK d \in DOMAIN table : e \in InChain(table'[d])
        BY <3>1, <1>2
      <4>2. d # c => e \in InChain(table[d]) /\ index(e.key) = d
        BY <4>1, <1>2 DEF Chained
      <4>3. e \in InChain(table[c]) => index(e.key) = c
        BY DEF Chained
      <4> QED BY <4>1, <4>2, <4>3, <1>2 DEF Stored
    <3>2. CASE \E d \in DOMAIN old_table' : e \in InChain(old_table'[d])
      <4>1. PICK d \in DOMAIN old_table : e \in InChain(old_table[d])
        BY <3>2, <1>3
      <4>2. e \notin InChain(table[c])
        BY <4>1 DEF Chained
      <4> QED BY <4>1, <4>2 DEF Stored
    <3>3. \/ \E d \in DOMAIN table' : e \in InChain(table'[d])
          \/ \E d \in DOMAIN old_table' : e \in InChain(old_table'[d])
      BY <2>4, InSomeChain DEF Stored
    <3> QED BY <3>1, <3>2, <3>3
  <2> QED BY <2>2, <2>3, <2>4
<1> QED BY <1>1, <1>8, <1>9

LEMMA StoredType == ASSUME TypeOK PROVE Stored \subseteq Entry
<1> SUFFICES ASSUME NEW e \in Stored PROVE e \in Entry
  OBVIOUS
<1>1. ASSUME NEW s \in Seq(Entry), e \in InChain(s) PROVE e \in Entry
  BY <1>1 DEF InChain
<1>2. ASSUME NEW c \in DOMAIN table PROVE table[c] \in Seq(Entry)
  BY DEF TypeOK
<1>3. ASSUME NEW c \in DOMAIN old_table PROVE old_table[c] \in Seq(Entry)
  BY DEF TypeOK
<1>4. \/ \E c \in DOMAIN table : e \in InChain(table[c])
      \/ \E c \in DOMAIN old_table : e \in InChain(old_table[c])
  BY InSomeChain DEF Stored
<1> QED BY <1>1, <1>2, <1>3, <1>4

\* A search that ends at the first match has seen all there is of a key.
LEMMA OneEntry ==
  ASSUME TypeOK, Chained, NEW e \in Stored, NEW f \in Stored, Key[e.key] = Key[f.key]
  PROVE  e = f
<1>1. \/ \E c \in DOMAIN table : e \in InChain(table[c])
      \/ \E c \in DOMAIN old_table : e \in InChain(old_table[c])
  BY InSomeChain DEF Stored
<1>2. \/ \E c \in DOMAIN table : f \in InChain(table[c])
      \/ \E c \in DOMAIN old_table : f \in InChain(old_table[c])
  BY InSomeChain DEF Stored
<1>3. ASSUME NEW s, Distinct(s), e \in InChain(s), f \in InChain(s) PROVE e = f
  BY <1>3 DEF InChain, Distinct
<1>4. ASSUME NEW c \in DOMAIN table, e \in InChain(table[c]),
             NEW d \in DOMAIN table, f \in InChain(table[d])
      PROVE  e = f
  <2>1. e \in Entry /\ f \in Entry
    BY StoredType
  <2>2. e.key \in Object /\ f.key \in Object
    BY <2>1 DEF Entry
  <2>3. c = d
    BY <1>4, <2>2, SameIndex DEF Chained
  <2> QED BY <1>3, <1>4, <2>3 DEF Chained
<1>5. ASSUME NEW c \in DOMAIN old_table, e \in InChain(old_table[c]),
             NEW d \in DOMAIN old_table, f \in InChain(old_table[d])
      PROVE  e = f
  <2>1. c = d
    BY <1>5 DEF Chained
  <2> QED BY <1>3, <1>5, <2>1 DEF Chained
<1>6. \A c \in DOMAIN table, d \in DOMAIN old_table :
        /\ ~ (e \in InChain(table[c]) /\ f \in InChain(old_table[d]))
        /\ ~ (f \in InChain(table[c]) /\ e \in InChain(old_table[d]))
  BY DEF Chained
<1> QED BY <1>1, <1>2, <1>4, <1>5, <1>6

-----------------------------------------------------------------------------
(* What is stored after each operation.                                    *)

\* The entries of other keys, all but one at most.
Others(o) == { e \in Stored : Key[e.key] # Key[o] }

LEMMA PlaceOf ==
  ASSUME TypeOK, Chained, pc # "freed", NEW o \in Object, NEW p \in Places(o)
  PROVE  /\ table[index(o)][p] \in Stored /\ Key[table[index(o)][p].key] = Key[o]
         /\ Others(o) = Stored \ { table[index(o)][p] }
<1>1. p \in DOMAIN table[index(o)] /\ index(o) \in DOMAIN table
  BY IndexInTable DEF Places
<1>2. table[index(o)][p] \in Stored /\ Key[table[index(o)][p].key] = Key[o]
  BY <1>1 DEF Stored, InChain, Places
<1>3. \A e \in Stored : Key[e.key] = Key[o] => e = table[index(o)][p]
  BY <1>2, OneEntry
<1> QED BY <1>2, <1>3 DEF Others

LEMMA AddEntryEffect ==
  ASSUME TypeOK, Chained, pc # "freed", \A c \in DOMAIN old_table : old_table[c] = << >>,
         NEW o \in Object, Places(o) = {}, AddEntry(o), table_size' = table_size, old_table' = << >>
  PROVE  /\ table' \in [0..(table_size' - 1) -> Seq(Entry)] /\ Chained'
         /\ Others(o) = Stored
         /\ Stored' = Stored \cup { [key |-> o, value |-> o] }
<1> DEFINE c == index(o)  pair == [key |-> o, value |-> o]  s == << pair >> \o table[c]
<1>1. c \in DOMAIN table /\ table[c] \in Seq(Entry) /\ pair \in Entry /\ Distinct(table[c])
  BY IndexInTable DEF Entry, Chained
<1>2. \A e \in InChain(table[c]) : Key[pair.key] # Key[e.key]
  BY <1>1, NotInTable
<1>3. s \in Seq(Entry) /\ InChain(s) = { pair } \cup InChain(table[c]) /\ Distinct(s)
  BY <1>1, <1>2, ConsChain
<1>4. table' = [table EXCEPT ![c] = s]
  BY DEF AddEntry
<1>5. \A d \in DOMAIN old_table : InChain(old_table[d]) = {}
  BY DEF InChain
<1>6. \A e \in InChain(s) : index(e.key) = c
  BY <1>1, <1>3 DEF Chained
<1>7. /\ table' \in [0..(table_size' - 1) -> Seq(Entry)] /\ Chained'
      /\ Stored' = (Stored \ InChain(table[c])) \cup InChain(s)
  <2> HIDE DEF s, c
  <2> QED BY <1>1, <1>3, <1>4, <1>5, <1>6, OneChain
<1>8. InChain(table[c]) \subseteq Stored
  BY <1>1 DEF Stored
<1>9. Others(o) = Stored
  BY <1>5, NotInTable, InSomeChain DEF Others, Stored
<1> QED BY <1>3, <1>7, <1>8, <1>9

LEMMA OverwriteEffect ==
  ASSUME TypeOK, Chained, pc # "freed", \A c \in DOMAIN old_table : old_table[c] = << >>,
         NEW o \in Object, NEW p \in Places(o), Overwrite(o, p),
         table_size' = table_size, old_table' = << >>
  PROVE  /\ table' \in [0..(table_size' - 1) -> Seq(Entry)] /\ Chained'
         /\ Stored' = Others(o) \cup { [key |-> o, value |-> o] }
<1> DEFINE c == index(o)  pair == [key |-> o, value |-> o]  s == [table[c] EXCEPT ![p] = pair]
<1>1. /\ c \in DOMAIN table /\ table[c] \in Seq(Entry) /\ pair \in Entry /\ Distinct(table[c])
      /\ p \in DOMAIN table[c] /\ Key[pair.key] = Key[table[c][p].key]
  BY IndexInTable DEF Entry, Chained, Places
<1>2. /\ s \in Seq(Entry) /\ Distinct(s)
      /\ InChain(s) = (InChain(table[c]) \ { table[c][p] }) \cup { pair }
  BY <1>1, ReplacedChain
<1>3. table' = [table EXCEPT ![c] = s]
  BY DEF Overwrite
<1>4. \A d \in DOMAIN old_table : InChain(old_table[d]) = {}
  BY DEF InChain
<1>5. \A e \in InChain(s) : index(e.key) = c
  <2>1. \A e \in InChain(table[c]) : index(e.key) = c
    BY <1>1 DEF Chained
  <2>2. index(pair.key) = c
    OBVIOUS
  <2> HIDE DEF s, c, pair
  <2> QED BY <1>2, <2>1, <2>2
<1>6. /\ table' \in [0..(table_size' - 1) -> Seq(Entry)] /\ Chained'
      /\ Stored' = (Stored \ InChain(table[c])) \cup InChain(s)
  <2> HIDE DEF s, c
  <2> QED BY <1>1, <1>2, <1>3, <1>4, <1>5, OneChain
<1>7. InChain(table[c]) \subseteq Stored /\ table[c][p] \in InChain(table[c])
  BY <1>1 DEF Stored, InChain
<1>8. Others(o) = Stored \ { table[c][p] }
  BY PlaceOf
<1> QED BY <1>2, <1>6, <1>7, <1>8

LEMMA RemoveEffect ==
  ASSUME TypeOK, Chained, pc # "freed", \A c \in DOMAIN old_table : old_table[c] = << >>,
         NEW o \in Object, NEW p \in Places(o),
         table' = [table EXCEPT ![index(o)] = Unlinked(@, p)],
         table_size' = table_size, old_table' = << >>
  PROVE  /\ table' \in [0..(table_size' - 1) -> Seq(Entry)] /\ Chained'
         /\ Stored' = Others(o)
<1> DEFINE c == index(o)  s == Unlinked(table[c], p)
<1>1. /\ c \in DOMAIN table /\ table[c] \in Seq(Entry) /\ Distinct(table[c])
      /\ p \in DOMAIN table[c]
  BY IndexInTable DEF Chained, Places
<1>2. s \in Seq(Entry) /\ Distinct(s) /\ InChain(s) = InChain(table[c]) \ { table[c][p] }
  BY <1>1, UnlinkedChain
<1>3. table' = [table EXCEPT ![c] = s]
  OBVIOUS
<1>4. \A d \in DOMAIN old_table : InChain(old_table[d]) = {}
  BY DEF InChain
<1>5. \A e \in InChain(s) : index(e.key) = c
  BY <1>1, <1>2 DEF Chained
<1>6. /\ table' \in [0..(table_size' - 1) -> Seq(Entry)] /\ Chained'
      /\ Stored' = (Stored \ InChain(table[c])) \cup InChain(s)
  <2> HIDE DEF s, c
  <2> QED BY <1>1, <1>2, <1>3, <1>4, <1>5, OneChain
<1>7. InChain(table[c]) \subseteq Stored /\ table[c][p] \in InChain(table[c])
  BY <1>1 DEF Stored, InChain
<1>8. Others(o) = Stored \ { table[c][p] }
  BY PlaceOf
<1> QED BY <1>2, <1>6, <1>7, <1>8

-----------------------------------------------------------------------------
(* What hash_table_insert does once there is room: it stores the pair, or  *)
(* nothing is changed.                                                     *)

LEMMA SameChains ==
  ASSUME Chained, table' = table, table_size' = table_size,
         old_table' = << >>, \A c \in DOMAIN old_table : old_table[c] = << >>
  PROVE  Chained' /\ Stored' = Stored
<1>1. \A o : index(o)' = index(o)
  BY DEF index
<1>2. Chained'
  BY <1>1 DEF Chained
<1>3. \A d \in DOMAIN old_table : InChain(old_table[d]) = {}
  BY DEF InChain
<1>4. ASSUME NEW e PROVE e \in Stored <=> \E c \in DOMAIN table : e \in InChain(table[c])
  BY <1>3, InSomeChain DEF Stored
<1>5. ASSUME NEW e PROVE e \in Stored' <=> \E c \in DOMAIN table : e \in InChain(table[c])
  BY InSomeChain DEF Stored
<1> QED BY <1>2, <1>4, <1>5

\* One object takes the place of another, which is freed.
LEMMA Handover ==
  ASSUME NEW all, NEW held, NEW freed, all = held \cup freed, held \cap freed = {},
         NEW x \in held, NEW o, o \notin all
  PROVE  /\ all \cup { o } = ((held \ { x }) \cup { o }) \cup (freed \cup { x })
         /\ ((held \ { x }) \cup { o }) \cap (freed \cup { x }) = {}
OBVIOUS

LEMMA StoreEffect ==
  ASSUME TypeOK, Chained, Counted, PairsOwned, pc # "freed",
         \A c \in DOMAIN old_table : old_table[c] = << >>, old_table' = << >>,
         NEW o \in Object, Fresh(o), Store(o), table_size' = table_size
  PROVE  /\ table' \in [0..(table_size' - 1) -> Seq(Entry)] /\ Chained'
         /\ entries' = Cardinality(Stored') /\ IsFiniteSet(Stored') /\ entries' \in Nat
         /\ freed_keys' \subseteq Object /\ freed_values' \subseteq Object /\ given' \subseteq Object
         /\ Ownership' /\ \A e \in Stored' : e.key = e.value
         /\ \/ result' = FALSE /\ Stored' = Stored
            \/ result' = TRUE /\ Stored' = Others(o) \cup { [key |-> o, value |-> o] }
<1> DEFINE pair == [key |-> o, value |-> o]
<1>1. pair \notin Stored /\ pair.key = o /\ pair.value = o
  BY DEF Fresh
<1>2. IsFiniteSet(Stored) /\ entries = Cardinality(Stored) /\ entries \in Nat /\ Stored \subseteq Entry
  BY StoredType, FS_CardinalityType DEF Counted, TypeOK
<1>3. /\ o \notin given
      /\ \A e \in Stored : e.key = e.value /\ e.key # o
      /\ given = { e.key : e \in Stored } \cup freed_keys
      /\ given = { e.value : e \in Stored } \cup freed_values
      /\ { e.key : e \in Stored } \cap freed_keys = {}
      /\ { e.value : e \in Stored } \cap freed_values = {}
      /\ o \notin freed_keys /\ o \notin freed_values
  BY DEF PairsOwned, Ownership, Fresh
<1>4. freed_keys \subseteq Object /\ freed_values \subseteq Object /\ given \subseteq Object
  BY DEF TypeOK
<1>5. CASE Places(o) = {} /\ AddEntry(o)
  <2>1. /\ table' \in [0..(table_size' - 1) -> Seq(Entry)] /\ Chained'
        /\ Others(o) = Stored /\ Stored' = Stored \cup { pair }
    BY <1>5, AddEntryEffect
  <2>2. IsFiniteSet(Stored') /\ entries' = Cardinality(Stored') /\ entries' \in Nat
    <3>1. IsFiniteSet(Stored \cup { pair }) /\ Cardinality(Stored \cup { pair }) = Cardinality(Stored) + 1
      <4> HIDE DEF pair
      <4> QED BY <1>1, <1>2, FS_AddElement
    <3> QED BY <2>1, <3>1, <1>2, <1>5 DEF AddEntry
  <2>3. /\ freed_keys' = freed_keys /\ freed_values' = freed_values
        /\ given' = given \cup { o } /\ result' = TRUE
    BY <1>5 DEF AddEntry, freedVars
  <2>4. /\ { e.key : e \in Stored' } = { e.key : e \in Stored } \cup { o }
        /\ { e.value : e \in Stored' } = { e.value : e \in Stored } \cup { o }
    <3> HIDE DEF pair
    <3> QED BY <2>1, <1>1
  <2>5. Ownership'
    BY <1>3, <2>3, <2>4, ZenonT(40) DEF Ownership
  <2>6. \A e \in Stored' : e.key = e.value
    <3> HIDE DEF pair
    <3> QED BY <2>1, <1>1, <1>3
  <2> QED BY <1>4, <2>1, <2>2, <2>3, <2>5, <2>6
<1>6. CASE Places(o) = {} /\ Refuse
  <2>1. /\ table' = table /\ entries' = entries /\ freed_keys' = freed_keys
        /\ freed_values' = freed_values /\ given' = given /\ result' = FALSE
    BY <1>6 DEF Refuse, freedVars
  <2>2. Chained' /\ Stored' = Stored
    BY <2>1, SameChains
  <2>3. Ownership'
    BY <1>3, <2>1, <2>2 DEF Ownership
  <2>4. table' \in [0..(table_size' - 1) -> Seq(Entry)]
    BY <2>1 DEF TypeOK
  <2> QED BY <1>2, <1>3, <1>4, <2>1, <2>2, <2>3, <2>4
<1>7. ASSUME NEW p \in Places(o), Overwrite(o, p)
      PROVE  /\ table' \in [0..(table_size' - 1) -> Seq(Entry)] /\ Chained'
             /\ entries' = Cardinality(Stored') /\ IsFiniteSet(Stored') /\ entries' \in Nat
             /\ freed_keys' \subseteq Object /\ freed_values' \subseteq Object /\ given' \subseteq Object
             /\ Ownership' /\ \A e \in Stored' : e.key = e.value
             /\ result' = TRUE /\ Stored' = Others(o) \cup { pair }
  <2> DEFINE old == table[index(o)][p]
  <2>1. /\ table' \in [0..(table_size' - 1) -> Seq(Entry)] /\ Chained'
        /\ Stored' = Others(o) \cup { pair }
    BY <1>7, OverwriteEffect
  <2>2. old \in Stored /\ Others(o) = Stored \ { old }
    BY PlaceOf
  <2>3. /\ freed_keys' = freed_keys \cup { old.key } /\ freed_values' = freed_values \cup { old.value }
        /\ entries' = entries /\ given' = given \cup { o } /\ result' = TRUE
    BY <1>7 DEF Overwrite
  <2> HIDE DEF pair, old
  <2>4. IsFiniteSet(Stored') /\ entries' = Cardinality(Stored') /\ entries' \in Nat
    <3>1. IsFiniteSet(Stored \ { old }) /\ Cardinality(Stored \ { old }) = Cardinality(Stored) - 1
      BY <1>2, <2>2, FS_RemoveElement
    <3>2. /\ IsFiniteSet((Stored \ { old }) \cup { pair })
          /\ Cardinality((Stored \ { old }) \cup { pair }) = Cardinality(Stored \ { old }) + 1
      BY <3>1, <1>1, FS_AddElement
    <3> QED BY <3>1, <3>2, <2>1, <2>2, <2>3, <1>2
  <2>5. old \in Entry /\ old.key \in Object /\ old.value \in Object
    BY <1>2, <2>2 DEF Entry
  <2>6. \A e \in Stored : e # old => e.key # old.key /\ e.value # old.value
    <3> SUFFICES ASSUME NEW e \in Stored, e.key = old.key PROVE e = old
      BY <1>3, <2>2
    <3> QED BY <2>2, OneEntry
  <2>7. Stored' = (Stored \ { old }) \cup { pair }
    BY <2>1, <2>2
  <2>8. /\ { e.key : e \in Stored' } = ({ e.key : e \in Stored } \ { old.key }) \cup { o }
        /\ { e.value : e \in Stored' } = ({ e.value : e \in Stored } \ { old.value }) \cup { o }
    BY <2>7, <2>6, <2>2, <1>1
  <2>9. old.key \in { e.key : e \in Stored } /\ old.value \in { e.value : e \in Stored }
    BY <2>2
  <2>10. Ownership'
    <3> DEFINE keys == { e.key : e \in Stored }  values == { e.value : e \in Stored }
    <3>1. keys' = (keys \ { old.key }) \cup { o } /\ values' = (values \ { old.value }) \cup { o }
      BY <2>8
    <3>2. /\ given = keys \cup freed_keys /\ keys \cap freed_keys = {} /\ old.key \in keys
          /\ given = values \cup freed_values /\ values \cap freed_values = {} /\ old.value \in values
      BY <1>3, <2>9
    <3>3. Ownership' <=> /\ given' = keys' \cup freed_keys' /\ keys' \cap freed_keys' = {}
                         /\ given' = values' \cup freed_values' /\ values' \cap freed_values' = {}
      BY DEF Ownership
    <3> HIDE DEF keys, values
    <3>4. given' = keys' \cup freed_keys' /\ keys' \cap freed_keys' = {}
      BY <1>3, <2>3, <3>1, <3>2, Handover, SMTT(30)
    <3>5. given' = values' \cup freed_values' /\ values' \cap freed_values' = {}
      BY <1>3, <2>3, <3>1, <3>2, Handover, SMTT(30)
    <3> QED BY <3>3, <3>4, <3>5
  <2>11. \A e \in Stored' : e.key = e.value
    BY <2>7, <1>1, <1>3
  <2> QED BY <1>4, <2>1, <2>3, <2>4, <2>5, <2>10, <2>11
<1>8. Places(o) # {} => \E p \in Places(o) : Overwrite(o, p)
  BY DEF Store
<1> QED BY <1>5, <1>6, <1>7, <1>8 DEF Store

-----------------------------------------------------------------------------
(* The iterator.                                                           *)

LEMMA FirstFromRight ==
  ASSUME TypeOK, pc # "freed", NEW c \in Nat
  PROVE  /\ FirstFrom(c) \in [next_chain : Nat, next_entry : Nat \cup { NULL }]
         /\ FirstFrom(c).next_entry = NULL =>
              \A d \in DOMAIN table : d >= c => table[d] = << >>
         /\ FirstFrom(c).next_entry # NULL =>
              \E d \in DOMAIN table :
                /\ d >= c /\ table[d] # << >>
                /\ FirstFrom(c) = [next_chain |-> d, next_entry |-> Key[table[d][1].key]]
                /\ \A b \in DOMAIN table : b >= c /\ b < d => table[b] = << >>
<1> DEFINE used == { d \in DOMAIN table : d >= c /\ table[d] # << >> }
           d == CHOOSE d \in used : \A b \in used : d <= b
<1>1. table \in [0..(table_size - 1) -> Seq(Entry)] /\ table_size \in Nat
  BY DEF TypeOK
<1>2. CASE used = {}
  <2>1. FirstFrom(c) = [next_chain |-> table_size, next_entry |-> NULL]
    BY <1>2 DEF FirstFrom
  <2> QED BY <2>1, <1>1, <1>2
<1>3. CASE used # {}
  <2>1. used \in SUBSET Nat
    BY <1>1
  <2>2. d \in used /\ \A b \in used : d <= b
    <3> HIDE DEF used
    <3> QED BY <2>1, <1>3, LeastNatural
  <2>3. d \in DOMAIN table /\ d \in Nat /\ table[d] \in Seq(Entry) /\ table[d] # << >>
    BY <2>2, <1>1
  <2>4. table[d][1].key \in Object
    <3> HIDE DEF d
    <3>1. table[d][1] \in Entry
      BY <2>3
    <3> QED BY <3>1 DEF Entry
  <2>5. Key[table[d][1].key] \in Nat /\ Key[table[d][1].key] # NULL
    BY <2>4, KeyAssumption, NullAssumption
  <2>6. FirstFrom(c) = [next_chain |-> d, next_entry |-> Key[table[d][1].key]]
    BY <1>3 DEF FirstFrom
  <2>7. \A b \in DOMAIN table : b >= c /\ b < d => table[b] = << >>
    <3> SUFFICES ASSUME NEW b \in DOMAIN table, b >= c, b < d, table[b] # << >> PROVE FALSE
      OBVIOUS
    <3>1. b \in used
      OBVIOUS
    <3>2. d <= b /\ b \in Nat
      BY <2>2, <3>1, <1>1
    <3> HIDE DEF d
    <3> QED BY <3>2, <2>3
  <2>8. d >= c
    BY <2>2
  <2> HIDE DEF d
  <2> QED BY <2>3, <2>5, <2>6, <2>7, <2>8
<1> QED BY <1>2, <1>3

\* The iterator moves on to chain c: what it has returned is all before c.
LEMMA MovesOn ==
  ASSUME TypeOK, pc # "freed", NEW c \in Nat,
         table' = table, Stored' = Stored, old_table = << >>,
         iterator' = FirstFrom(c),
         \A m, n \in DOMAIN seen' : seen'[m] = seen'[n] => m = n,
         \A d \in DOMAIN table : \A q \in DOMAIN table[d] : Key[table[d][q].key] \in Seen' <=> d < c
  PROVE  IterAhead'
<1>1. table \in [0..(table_size - 1) -> Seq(Entry)] /\ table_size \in Nat
  BY DEF TypeOK
<1>2. CASE FirstFrom(c).next_entry = NULL
  <2>1. ASSUME NEW e \in Stored PROVE Key[e.key] \in Seen'
    <3>1. PICK d \in DOMAIN table : e \in InChain(table[d])
      BY InSomeChain DEF Stored
    <3>2. PICK q \in DOMAIN table[d] : e = table[d][q]
      BY <3>1 DEF InChain
    <3>3. d \in Nat /\ ~ (d >= c)
      <4>1. d \in Nat /\ table[d] # << >>
        BY <3>2, <1>1
      <4>2. \A b \in DOMAIN table : b >= c => table[b] = << >>
        BY <1>2, FirstFromRight
      <4> QED BY <4>1, <4>2
    <3> QED BY <3>2, <3>3
  <2> QED BY <2>1, <1>2 DEF IterAhead
<1>3. CASE FirstFrom(c).next_entry # NULL
  <2>1. PICK d \in DOMAIN table :
          /\ d >= c /\ table[d] # << >>
          /\ FirstFrom(c) = [next_chain |-> d, next_entry |-> Key[table[d][1].key]]
          /\ \A b \in DOMAIN table : b >= c /\ b < d => table[b] = << >>
    BY <1>3, FirstFromRight
  <2>2. iterator'.next_chain = d /\ iterator'.next_entry = Key[table[d][1].key]
    BY <2>1
  <2>3. 1 \in DOMAIN table[d]
    BY <2>1, <1>1
  <2>4. ASSUME NEW b \in DOMAIN table, NEW q \in DOMAIN table[b]
        PROVE  Key[table[b][q].key] \in Seen' <=> b < d \/ (b = d /\ q < 1)
    <3>1. b \in Nat /\ d \in Nat /\ q \in Nat /\ q >= 1 /\ table[b] # << >>
      BY <1>1
    <3>2. b < c <=> b < d
      BY <2>1, <3>1
    <3> QED BY <3>1, <3>2
  <2> QED BY <1>3, <2>2, <2>3, <2>4 DEF IterAhead
<1> QED BY <1>2, <1>3

-----------------------------------------------------------------------------
(* One lemma per action.                                                   *)

LEMMA InitIInv == Init => IInv
<1> SUFFICES ASSUME Init PROVE IInv
  OBVIOUS
<1>1. table_size \in Nat \ { 0 }
  BY PrimesAssumption DEF Init
<1>2. table = [c \in 0..(table_size - 1) |-> << >>] /\ old_table = << >>
  BY DEF Init, NoEntries
<1>3. Stored = {}
  <2> SUFFICES ASSUME NEW e \in Stored PROVE FALSE
    OBVIOUS
  <2>1. \/ \E c \in DOMAIN table : e \in InChain(table[c])
        \/ \E c \in DOMAIN old_table : e \in InChain(old_table[c])
    BY InSomeChain DEF Stored
  <2> QED BY <2>1, <1>2 DEF InChain
<1>4. TypeOK
  BY <1>1, <1>2 DEF Init, TypeOK
<1>5. Chained
  BY <1>2 DEF Init, Chained, Distinct, InChain
<1>6. Counted
  BY <1>3, FS_EmptySet DEF Init, Counted
<1>7. PairsOwned
  BY <1>3 DEF Init, PairsOwned, Ownership
<1>8. IterAhead
  BY DEF Init, IterAhead
<1> QED BY <1>4, <1>5, <1>6, <1>7, <1>8 DEF IInv

\* Steps that leave the entries and what callers own alone.
LEMMA SameEntries ==
  ASSUME IInv, table' = table, table_size' = table_size, old_table' = old_table, i' = i
  PROVE  Chained' /\ Stored' = Stored
<1>1. \A o : index(o)' = index(o)
  BY DEF index
<1> QED BY <1>1 DEF IInv, Chained, Stored

LEMMA SameOwners ==
  ASSUME IInv, Stored' = Stored, UNCHANGED << entries, freedVars, given >>,
         (pc = "freed") <=> (pc' = "freed"),
         \A o : new' = o /\ pc' = "rehash" => Fresh(o)
  PROVE  Counted' /\ PairsOwned'
<1>1. Counted'
  BY DEF IInv, Counted
<1>2. Ownership'
  BY DEF IInv, PairsOwned, Ownership, freedVars
<1>3. pc' = "rehash" => Fresh(new)'
  BY DEF Fresh, freedVars
<1>4. \A e \in Stored' : e.key = e.value
  BY DEF IInv, PairsOwned
<1> QED BY <1>1, <1>2, <1>3, <1>4 DEF PairsOwned

LEMMA InsertIInv == ASSUME IInv, NEW o \in Object, Insert(o) PROVE IInv'
<1> USE DEF IInv
<1>1. /\ pc = "ready" /\ pc' = "ready" /\ table_size' = table_size /\ prime_index' = prime_index
      /\ old_table = << >> /\ old_table' = << >> /\ i' = i /\ new = NULL /\ new' = NULL
      /\ iterator' = iterator /\ seen' = seen /\ Fresh(o) /\ Store(o)
  BY DEF Insert, oldVars, iterVars, TypeOK
<1>2. /\ table' \in [0..(table_size' - 1) -> Seq(Entry)] /\ Chained'
      /\ entries' = Cardinality(Stored') /\ IsFiniteSet(Stored') /\ entries' \in Nat
      /\ freed_keys' \subseteq Object /\ freed_values' \subseteq Object /\ given' \subseteq Object
      /\ Ownership' /\ \A e \in Stored' : e.key = e.value
  <2>1. \A c \in DOMAIN old_table : old_table[c] = << >>
    BY <1>1
  <2> QED BY <1>1, <2>1, StoreEffect
<1>3. TypeOK'
  BY <1>1, <1>2 DEF TypeOK
<1> QED BY <1>1, <1>2, <1>3 DEF Counted, PairsOwned, IterAhead

LEMMA InsertRefusedIInv == ASSUME IInv, NEW o \in Object, InsertRefused(o) PROVE IInv'
<1>1. /\ pc = "ready" /\ pc' = "ready"
      /\ UNCHANGED << tableVars, oldVars, freedVars, iterVars, given >>
  BY DEF InsertRefused, Refuse, tableVars
<1>2. Chained' /\ Stored' = Stored
  BY <1>1, SameEntries DEF tableVars, oldVars
<1>3. Counted' /\ PairsOwned'
  BY <1>1, <1>2, SameOwners DEF tableVars
<1>4. TypeOK'
  BY <1>1 DEF IInv, TypeOK, tableVars, oldVars, freedVars, iterVars
<1> QED BY <1>1, <1>2, <1>3, <1>4 DEF IInv, IterAhead

LEMMA NewSizePositive ==
  ASSUME TypeOK, Full
  PROVE  NewSize \in Nat \ { 0 }
<1>1. entries \in Nat /\ table_size \in Nat \ { 0 } /\ prime_index \in Nat \ { 0 }
  BY DEF TypeOK
<1>2. entries # 0
  BY <1>1 DEF Full
<1>3. entries * 10 \in Nat \ { 0 }
  BY <1>1, <1>2
<1>4. prime_index + 1 <= Len(Primes) => Primes[prime_index + 1] \in Nat \ { 0 }
  BY <1>1, PrimesAssumption
<1> QED BY <1>3, <1>4 DEF NewSize

LEMMA EnlargeIInv == ASSUME IInv, NEW o \in Object, Enlarge(o) PROVE IInv' /\ Stored' = Stored
<1>1. /\ pc = "ready" /\ pc' = "rehash" /\ Fresh(o) /\ Full
      /\ prime_index' = prime_index + 1 /\ table_size' = NewSize
      /\ table' = [c \in 0..(NewSize - 1) |-> << >>] /\ old_table' = table /\ i' = 0 /\ new' = o
      /\ UNCHANGED << entries, freedVars, iterVars, given >>
  BY DEF Enlarge, NoEntries
<1>2. NewSize \in Nat \ { 0 }
  BY <1>1, NewSizePositive DEF IInv
<1>3. table \in [0..(table_size - 1) -> Seq(Entry)] /\ table_size \in Nat /\ old_table = << >>
  BY <1>1 DEF IInv, TypeOK
<1>4. Stored' = Stored
  <2>1. ASSUME NEW e PROVE e \in Stored <=> \E c \in DOMAIN table : e \in InChain(table[c])
    BY <1>3, InSomeChain DEF Stored
  <2>2. ASSUME NEW c \in DOMAIN table' PROVE InChain(table'[c]) = {}
    BY <1>1 DEF InChain
  <2>3. ASSUME NEW e PROVE e \in Stored' <=> \E c \in DOMAIN old_table' : e \in InChain(old_table'[c])
    BY <2>2, InSomeChain DEF Stored
  <2> QED BY <1>1, <2>1, <2>3
<1>5. TypeOK'
  BY <1>1, <1>2, <1>3 DEF IInv, TypeOK, freedVars, iterVars
<1>6. Chained'
  <2>1. ASSUME NEW c \in DOMAIN table'
        PROVE  Distinct(table'[c]) /\ InChain(table'[c]) = {}
    BY <1>1 DEF Distinct, InChain
  <2>2. ASSUME NEW c \in DOMAIN table
        PROVE  Distinct(table[c]) /\ c >= 0 /\ 0..c \subseteq DOMAIN table
    BY <1>3 DEF IInv, Chained
  <2>3. ASSUME NEW c \in DOMAIN table, NEW e \in InChain(table[c]),
               NEW d \in DOMAIN table, NEW f \in InChain(table[d]), Key[e.key] = Key[f.key]
        PROVE  c = d
    <3>1. e \in Stored /\ f \in Stored
      BY InSomeChain DEF Stored
    <3>2. e = f
      BY <3>1, <2>3, OneEntry DEF IInv
    <3> QED BY <3>2 DEF IInv, Chained
  <2>4. ASSUME NEW c \in DOMAIN table PROVE ~ (c < 0)
    BY <1>3
  <2> QED BY <1>1, <2>1, <2>2, <2>3, <2>4 DEF Chained
<1>7. Counted' /\ PairsOwned'
  BY <1>1, <1>4, SameOwners
<1>8. IterAhead'
  BY <1>1 DEF IterAhead
<1> QED BY <1>4, <1>5, <1>6, <1>7, <1>8 DEF IInv

LEMMA DistinctKeys ==
  ASSUME NEW s, Distinct(s), NEW e \in InChain(s), NEW f \in InChain(s), Key[e.key] = Key[f.key]
  PROVE  e = f
BY DEF Distinct, InChain

\* The head of an old chain goes to the head of its new one.
LEMMA RelinkIInv == ASSUME IInv, Relink PROVE IInv' /\ Stored' = Stored
<1> DEFINE rover == Head(old_table[i])
           to    == index(rover.key)
           long  == << rover >> \o table[to]
           short == Tail(old_table[i])
<1>1. /\ pc = "rehash" /\ pc' = "rehash" /\ i \in DOMAIN old_table /\ old_table[i] # << >>
      /\ table' = [table EXCEPT ![to] = long] /\ old_table' = [old_table EXCEPT ![i] = short]
      /\ UNCHANGED << table_size, entries, prime_index, i, new, freedVars, iterVars, given >>
  BY DEF Relink
<1>2. /\ table \in [0..(table_size - 1) -> Seq(Entry)]
      /\ old_table \in [DOMAIN old_table -> Seq(Entry)] /\ DOMAIN old_table \subseteq Nat
  BY <1>1 DEF IInv, TypeOK
<1>3. /\ old_table[i] \in Seq(Entry) /\ Distinct(old_table[i])
      /\ rover \in Entry /\ rover \in InChain(old_table[i]) /\ rover.key \in Object
      /\ short \in Seq(Entry) /\ Distinct(short) /\ InChain(short) = InChain(old_table[i]) \ { rover }
  <2>1. old_table[i] \in Seq(Entry) /\ Distinct(old_table[i])
    BY <1>1, <1>2 DEF IInv, Chained
  <2>2. rover \in Entry => rover.key \in Object
    BY DEF Entry
  <2> QED BY <1>1, <2>1, <2>2, TailChain
<1>4. to \in DOMAIN table /\ table[to] \in Seq(Entry) /\ Distinct(table[to])
  BY <1>1, <1>3, IndexInTable DEF IInv, Chained
<1>5. \A d \in DOMAIN table : \A f \in InChain(table[d]) : Key[rover.key] # Key[f.key]
  BY <1>1, <1>3 DEF IInv, Chained
<1>6. long \in Seq(Entry) /\ InChain(long) = { rover } \cup InChain(table[to]) /\ Distinct(long)
  BY <1>3, <1>4, <1>5, ConsChain
<1>7. /\ DOMAIN table' = DOMAIN table /\ DOMAIN old_table' = DOMAIN old_table
      /\ \A d \in DOMAIN table : table'[d] = IF d = to THEN long ELSE table[d]
      /\ \A d \in DOMAIN old_table : old_table'[d] = IF d = i THEN short ELSE old_table[d]
  BY <1>1, <1>2
<1>8. TypeOK'
  BY <1>1, <1>2, <1>3, <1>6, <1>7 DEF IInv, TypeOK, freedVars, iterVars
<1>9. \A o : index(o)' = index(o)
  BY <1>1 DEF index
<1>10. to = index(rover.key)
  OBVIOUS
<1> HIDE DEF rover, to, long, short
<1>11. Chained'
  <2>1. ASSUME NEW c \in DOMAIN table'
        PROVE  Distinct(table'[c]) /\ \A e \in InChain(table'[c]) : index(e.key)' = c
    BY <1>4, <1>6, <1>7, <1>9, <1>10 DEF IInv, Chained
  <2>2. ASSUME NEW c \in DOMAIN old_table'
        PROVE  /\ Distinct(old_table'[c])
               /\ c < i' => old_table'[c] = << >>
               /\ 0..c \subseteq DOMAIN old_table'
    <3>1. c = i => ~ (c < i')
      BY <1>1, <1>2
    <3> QED BY <3>1, <1>1, <1>3, <1>7 DEF IInv, Chained
  <2>3. ASSUME NEW c \in DOMAIN old_table', NEW e \in InChain(old_table'[c])
        PROVE  /\ e \in InChain(old_table[c])
               /\ Key[e.key] # Key[rover.key]
    <3>1. e \in InChain(old_table[c])
      BY <1>3, <1>7
    <3>2. CASE c = i
      <4>1. e \in InChain(short) /\ e # rover
        BY <3>2, <1>3, <1>7
      <4> QED BY <3>1, <3>2, <4>1, <1>3, DistinctKeys
    <3>3. CASE c # i
      BY <3>1, <3>3, <1>1, <1>3, <1>7 DEF IInv, Chained
    <3> QED BY <3>1, <3>2, <3>3
  <2>4. ASSUME NEW c \in DOMAIN old_table', NEW e \in InChain(old_table'[c]),
               NEW d \in DOMAIN old_table' \ { c }, NEW f \in InChain(old_table'[d])
        PROVE  Key[e.key] # Key[f.key]
    BY <2>3, <1>7 DEF IInv, Chained
  <2>5. ASSUME NEW c \in DOMAIN old_table', NEW e \in InChain(old_table'[c]),
               NEW d \in DOMAIN table', NEW f \in InChain(table'[d])
        PROVE  Key[e.key] # Key[f.key]
    <3>1. f \in InChain(table[d]) \/ f = rover
      BY <1>6, <1>7
    <3>2. d \in DOMAIN table /\ c \in DOMAIN old_table
      BY <1>7
    <3> QED BY <2>3, <3>1, <3>2 DEF IInv, Chained
  <2> QED BY <2>1, <2>2, <2>4, <2>5 DEF Chained
<1>12. Stored' = Stored
  <2>1. ASSUME NEW e PROVE e \in Stored <=> \/ \E c \in DOMAIN table : e \in InChain(table[c])
                                            \/ \E c \in DOMAIN old_table : e \in InChain(old_table[c])
    BY InSomeChain DEF Stored
  <2>2. ASSUME NEW e PROVE e \in Stored' <=> \/ \E c \in DOMAIN table' : e \in InChain(table'[c])
                                             \/ \E c \in DOMAIN old_table' : e \in InChain(old_table'[c])
    BY InSomeChain DEF Stored
  <2>3. ASSUME NEW e \in Stored PROVE e \in Stored'
    BY <2>1, <2>2, <1>1, <1>3, <1>4, <1>6, <1>7
  <2>4. ASSUME NEW e \in Stored' PROVE e \in Stored
    BY <2>1, <2>2, <1>1, <1>3, <1>4, <1>6, <1>7
  <2> QED BY <2>3, <2>4
<1>13. Fresh(new)
  BY <1>1 DEF IInv, PairsOwned
<1>14. Counted' /\ PairsOwned'
  BY <1>1, <1>12, <1>13, SameOwners
<1>15. IterAhead'
  BY <1>1 DEF IterAhead
<1> QED BY <1>8, <1>11, <1>12, <1>14, <1>15 DEF IInv

LEMMA NextChainIInv == ASSUME IInv, NextChain PROVE IInv'
<1>1. /\ pc = "rehash" /\ pc' = "rehash" /\ i \in DOMAIN old_table /\ old_table[i] = << >> /\ i' = i + 1
      /\ UNCHANGED << tableVars, old_table, new, freedVars, iterVars, given >>
  BY DEF NextChain
<1>2. TypeOK'
  BY <1>1 DEF IInv, TypeOK, tableVars, freedVars, iterVars
<1>3. \A o : index(o)' = index(o)
  BY <1>1 DEF index, tableVars
<1>4. \A c \in DOMAIN old_table : c < i + 1 => c < i \/ c = i
  BY DEF IInv, TypeOK
<1>5. Chained'
  BY <1>1, <1>3, <1>4 DEF IInv, Chained, tableVars
<1>6. Stored' = Stored
  BY <1>1 DEF Stored, tableVars
<1>7. Fresh(new)
  BY <1>1 DEF IInv, PairsOwned
<1>8. Counted' /\ PairsOwned'
  BY <1>1, <1>6, <1>7, SameOwners DEF tableVars
<1>9. IterAhead'
  BY <1>1 DEF IterAhead
<1> QED BY <1>2, <1>5, <1>8, <1>9 DEF IInv

\* No entry is left behind when the old table goes.
LEMMA OldTableEmpty ==
  ASSUME IInv, i \notin DOMAIN old_table, NEW c \in DOMAIN old_table
  PROVE  old_table[c] = << >>
<1>1. c \in Nat /\ i \in Nat
  BY DEF IInv, TypeOK
<1>2. c < i
  <2> SUFFICES ASSUME i <= c PROVE FALSE
    BY <1>1
  <2>1. i \in 0..c
    BY <1>1
  <2> QED BY <2>1 DEF IInv, Chained
<1> QED BY <1>2 DEF IInv, Chained

LEMMA EnlargedIInv == ASSUME IInv, Enlarged PROVE IInv'
<1>1. /\ pc = "rehash" /\ pc' = "ready" /\ i \notin DOMAIN old_table /\ Store(new)
      /\ old_table' = << >> /\ i' = 0 /\ new' = NULL
      /\ UNCHANGED << table_size, prime_index, iterVars >>
  BY DEF Enlarged
<1>2. new \in Object /\ Fresh(new)
  BY <1>1 DEF IInv, TypeOK, PairsOwned
<1>3. \A c \in DOMAIN old_table : old_table[c] = << >>
  BY <1>1, OldTableEmpty
<1>4. /\ table' \in [0..(table_size' - 1) -> Seq(Entry)] /\ Chained'
      /\ entries' = Cardinality(Stored') /\ IsFiniteSet(Stored') /\ entries' \in Nat
      /\ freed_keys' \subseteq Object /\ freed_values' \subseteq Object /\ given' \subseteq Object
      /\ Ownership' /\ \A e \in Stored' : e.key = e.value
  BY <1>1, <1>2, <1>3, StoreEffect DEF IInv
<1>5. TypeOK'
  BY <1>1, <1>4 DEF IInv, TypeOK, iterVars
<1> QED BY <1>1, <1>4, <1>5 DEF IInv, Counted, PairsOwned, IterAhead

LEMMA LookupIInv == ASSUME IInv, NEW o \in Object, Lookup(o) PROVE IInv'
<1>1. /\ pc \in { "ready", "iterate" } /\ pc' = pc
      /\ UNCHANGED << tableVars, oldVars, freedVars, iterVars, given >>
  BY DEF Lookup
<1>2. Chained' /\ Stored' = Stored
  BY <1>1, SameEntries DEF tableVars, oldVars
<1>3. Counted' /\ PairsOwned'
  BY <1>1, <1>2, SameOwners DEF tableVars
<1>4. TypeOK'
  BY <1>1 DEF IInv, TypeOK, tableVars, oldVars, freedVars, iterVars
<1>5. IterAhead'
  BY <1>1, <1>2 DEF IInv, IterAhead, Seen, tableVars, iterVars
<1> QED BY <1>2, <1>3, <1>4, <1>5 DEF IInv

\* An iterator stays where it is if an entry it has returned goes: the entries
\* behind it in the chain move up by one.
LEMMA RemoveIterAhead ==
  ASSUME IInv, pc = "iterate", NEW o \in Object, NEW p \in Places(o), MayRemove(o),
         table' = [table EXCEPT ![index(o)] = Unlinked(@, p)],
         table' \in [DOMAIN table -> Seq(Entry)],
         Stored' = Others(o), UNCHANGED << iterVars, pc >>
  PROVE  IterAhead'
<1> DEFINE c == index(o)  s == table[c]  t == Unlinked(s, p)
<1>1. /\ c \in DOMAIN table /\ s \in Seq(Entry) /\ p \in DOMAIN s /\ Key[s[p].key] = Key[o]
  BY IndexInTable DEF IInv, Places
<1>2. DOMAIN t = 1..(Len(s) - 1) /\ DOMAIN s = 1..Len(s) /\ Len(s) \in Nat
  BY <1>1 DEF Unlinked
<1>3. \A q \in DOMAIN t : t[q] = IF q < p THEN s[q] ELSE s[q + 1]
  BY DEF Unlinked
<1>4. /\ DOMAIN table' = DOMAIN table
      /\ \A d \in DOMAIN table : table'[d] = IF d = c THEN t ELSE table[d]
  BY <1>1 DEF IInv, TypeOK
<1>5. Key[s[p].key] \in Seen
  <2>1. \E m \in DOMAIN seen : seen[m] = Key[o]
    BY DEF MayRemove
  <2> QED BY <2>1, <1>1 DEF Seen
<1>6. Seen' = Seen /\ iterator' = iterator /\ seen' = seen
  BY DEF Seen, iterVars
<1> HIDE DEF c, s, t
<1>7. s = table[c]
  BY DEF s
<1>8. CASE iterator.next_entry = NULL
  <2>1. Stored' \subseteq Stored
    BY DEF Others
  <2> QED BY <1>6, <1>8, <2>1 DEF IInv, IterAhead
<1>9. CASE iterator.next_entry # NULL
  <2> DEFINE at == iterator.next_chain
  <2>1. PICK n \in DOMAIN table[at] :
          /\ Key[table[at][n].key] = iterator.next_entry
          /\ \A d \in DOMAIN table : \A q \in DOMAIN table[d] :
               Key[table[d][q].key] \in Seen <=> d < at \/ (d = at /\ q < n)
    BY <1>9 DEF IInv, IterAhead
  <2>2. at \in DOMAIN table /\ at \in Nat
    BY <1>9 DEF IInv, IterAhead, TypeOK
  <2>4. c < at \/ (c = at /\ p < n)
    BY <1>1, <1>5, <1>7, <2>1
  <2> HIDE DEF at
  <2>3. ASSUME NEW m \in DOMAIN table'[at], Key[table'[at][m].key] = iterator.next_entry,
               \A d \in DOMAIN table' : \A q \in DOMAIN table'[d] :
                 Key[table'[d][q].key] \in Seen <=> d < at \/ (d = at /\ q < m)
        PROVE  IterAhead'
    <3>1. \A l, k \in DOMAIN seen' : seen'[l] = seen'[k] => l = k
      BY <1>6 DEF IInv, IterAhead
    <3>2. /\ iterator'.next_chain = at /\ iterator'.next_entry = iterator.next_entry
          /\ at \in DOMAIN table'
      BY <1>4, <1>6, <2>2 DEF at
    <3>3. \E k \in DOMAIN table'[at] :
            /\ Key[table'[at][k].key] = iterator.next_entry
            /\ \A d \in DOMAIN table' : \A q \in DOMAIN table'[d] :
                 Key[table'[d][q].key] \in Seen' <=> d < at \/ (d = at /\ q < k)
      BY <2>3, <1>6
    <3> QED BY <3>1, <3>2, <3>3, <1>9, SMTT(30) DEF IterAhead
  <2>5. CASE c # at
    <3>1. table'[at] = table[at] /\ c < at
      BY <1>4, <2>2, <2>4, <2>5
    <3>2. ASSUME NEW d \in DOMAIN table', NEW q \in DOMAIN table'[d]
          PROVE  Key[table'[d][q].key] \in Seen <=> d < at \/ (d = at /\ q < n)
      <4>1. CASE d # c
        BY <4>1, <1>4, <2>1
      <4>2. CASE d = c
        <5>1. q \in DOMAIN t /\ table'[d][q] = t[q]
          BY <4>2, <1>4
        <5>2. \E r \in DOMAIN s : t[q] = s[r]
          BY <5>1, <1>1, <1>2, <1>3
        <5>3. Key[t[q].key] \in Seen
          BY <5>2, <2>1, <3>1, <1>1, <1>7
        <5> QED BY <5>1, <5>3, <3>1, <4>2
      <4> QED BY <4>1, <4>2
    <3> QED BY <2>1, <2>3, <3>1, <3>2
  <2>6. CASE c = at
    <3>1. n - 1 \in DOMAIN t /\ t[n - 1] = s[n] /\ p < n /\ n \in DOMAIN s
      <4>1. p < n /\ n \in DOMAIN s /\ p \in DOMAIN s
        BY <2>1, <2>2, <2>4, <2>6, <1>1, <1>7
      <4>2. n - 1 \in DOMAIN t /\ ~ (n - 1 < p) /\ (n - 1) + 1 = n
        BY <4>1, <1>2
      <4> QED BY <4>1, <4>2, <1>3
    <3>2. Key[table'[at][n - 1].key] = iterator.next_entry
      BY <3>1, <1>1, <1>4, <1>7, <2>1, <2>6
    <3>3. ASSUME NEW d \in DOMAIN table', NEW q \in DOMAIN table'[d]
          PROVE  Key[table'[d][q].key] \in Seen <=> d < at \/ (d = at /\ q < n - 1)
      <4>1. CASE d # c
        BY <4>1, <1>4, <2>1, <2>6
      <4>2. CASE d = c
        <5>1. q \in DOMAIN t /\ table'[d][q] = t[q] /\ q \in Int /\ n \in Int /\ p \in Int
          BY <4>2, <1>1, <1>2, <1>4, <3>1
        <5>2. PICK r \in DOMAIN s : t[q] = s[r] /\ r = IF q < p THEN q ELSE q + 1
          BY <5>1, <1>1, <1>2, <1>3
        <5>3. Key[t[q].key] \in Seen <=> r < n
          BY <5>2, <2>1, <2>2, <2>6, <1>1, <1>7
        <5>4. r < n <=> q < n - 1
          BY <5>1, <5>2, <3>1
        <5> QED BY <5>1, <5>3, <5>4, <4>2, <2>6, <2>2
      <4> QED BY <4>1, <4>2
    <3>4. n - 1 \in DOMAIN table'[at]
      BY <3>1, <1>1, <1>4, <2>6
    <3> QED BY <2>3, <3>2, <3>3, <3>4
  <2> QED BY <2>5, <2>6
<1> QED BY <1>8, <1>9

LEMMA RemoveIInv == ASSUME IInv, NEW o \in Object, Remove(o) PROVE IInv'
<1>1. /\ pc \in { "ready", "iterate" } /\ pc' = pc /\ old_table = << >> /\ old_table' = << >> /\ i' = i
      /\ new' = new /\ MayRemove(o)
      /\ UNCHANGED << table_size, prime_index, iterVars, given >>
  BY DEF Remove, MayRemove, oldVars, IInv, TypeOK
<1>2. CASE Places(o) = {}
  <2>1. UNCHANGED << table, entries, freedVars >>
    BY <1>2 DEF Remove
  <2>2. Chained' /\ Stored' = Stored
    BY <1>1, <2>1, SameEntries
  <2>3. Counted' /\ PairsOwned'
    BY <1>1, <2>1, <2>2, SameOwners
  <2>4. TypeOK'
    BY <1>1, <2>1 DEF IInv, TypeOK, freedVars, iterVars
  <2>5. IterAhead'
    BY <1>1, <2>1, <2>2 DEF IInv, IterAhead, Seen, iterVars
  <2> QED BY <2>2, <2>3, <2>4, <2>5 DEF IInv
<1>3. CASE Places(o) # {}
  <2>1. PICK p \in Places(o) :
          /\ table' = [table EXCEPT ![index(o)] = Unlinked(@, p)]
          /\ freed_keys' = freed_keys \cup { table[index(o)][p].key }
          /\ freed_values' = freed_values \cup { table[index(o)][p].value }
          /\ entries' = entries - 1
    BY <1>3 DEF Remove
  <2> DEFINE old == table[index(o)][p]
  <2>2. \A c \in DOMAIN old_table : old_table[c] = << >>
    BY <1>1
  <2>3. table' \in [0..(table_size' - 1) -> Seq(Entry)] /\ Chained' /\ Stored' = Others(o)
    BY <1>1, <2>1, <2>2, RemoveEffect DEF IInv
  <2>4. old \in Stored /\ Others(o) = Stored \ { old } /\ Stored \subseteq Entry
    BY <1>1, PlaceOf, StoredType DEF IInv
  <2> HIDE DEF old
  <2>5. old.key \in Object /\ old.value \in Object
    BY <2>4 DEF Entry
  <2>6. IsFiniteSet(Stored') /\ entries' = Cardinality(Stored') /\ entries' \in Nat
    <3>1. IsFiniteSet(Stored) /\ Cardinality(Stored) = entries
      BY <1>1 DEF IInv, Counted
    <3>2. IsFiniteSet(Stored') /\ Cardinality(Stored') = entries - 1
      BY <3>1, <2>3, <2>4, FS_RemoveElement
    <3> QED BY <3>2, <2>1, FS_CardinalityType
  <2>7. TypeOK'
    BY <1>1, <2>1, <2>3, <2>5, <2>6 DEF IInv, TypeOK, iterVars, old
  <2>8. Counted'
    BY <2>6 DEF Counted
  <2>9. \A e \in Stored : e # old => e.key # old.key /\ e.value # old.value
    <3> SUFFICES ASSUME NEW e \in Stored, e.key = old.key PROVE e = old
      BY <2>4 DEF IInv, PairsOwned
    <3> QED BY <2>4, OneEntry DEF IInv
  <2>10. Ownership'
    <3> DEFINE keys == { e.key : e \in Stored }  values == { e.value : e \in Stored }
    <3>1. keys' = keys \ { old.key } /\ values' = values \ { old.value }
      BY <2>3, <2>4, <2>9
    <3>2. /\ given = keys \cup freed_keys /\ keys \cap freed_keys = {} /\ old.key \in keys
          /\ given = values \cup freed_values /\ values \cap freed_values = {} /\ old.value \in values
      BY <2>4 DEF IInv, PairsOwned, Ownership
    <3>3. Ownership' <=> /\ given' = keys' \cup freed_keys' /\ keys' \cap freed_keys' = {}
                         /\ given' = values' \cup freed_values' /\ values' \cap freed_values' = {}
      BY DEF Ownership
    <3>4. freed_keys' = freed_keys \cup { old.key } /\ freed_values' = freed_values \cup { old.value }
      BY <2>1 DEF old
    <3> HIDE DEF keys, values
    <3> QED BY <1>1, <3>1, <3>2, <3>3, <3>4
  <2>11. PairsOwned'
    BY <1>1, <2>3, <2>4, <2>10 DEF IInv, PairsOwned
  <2>12. IterAhead'
    <3>1. CASE pc = "iterate"
      <4>1. table' \in [DOMAIN table -> Seq(Entry)]
        BY <1>1, <2>3 DEF IInv, TypeOK
      <4> QED BY <3>1, <4>1, <1>1, <2>1, <2>3, RemoveIterAhead
    <3>2. CASE pc # "iterate"
      BY <3>2, <1>1 DEF IterAhead
    <3> QED BY <3>1, <3>2
  <2> QED BY <2>3, <2>7, <2>8, <2>11, <2>12 DEF IInv
<1> QED BY <1>2, <1>3

LEMMA Appended ==
  ASSUME NEW S, NEW s \in Seq(S), NEW x \in S
  PROVE  /\ Append(s, x) \in Seq(S) /\ Len(s) \in Nat
         /\ DOMAIN Append(s, x) = 1..(Len(s) + 1) /\ DOMAIN s = 1..Len(s)
         /\ \A m \in 1..(Len(s) + 1) : Append(s, x)[m] = IF m = Len(s) + 1 THEN x ELSE s[m]
OBVIOUS

LEMMA IterateIInv == ASSUME IInv, Iterate PROVE IInv'
<1>1. /\ pc = "ready" /\ pc' = "iterate" /\ iterator' = FirstFrom(0) /\ seen' = << >>
      /\ UNCHANGED << tableVars, oldVars, freedVars, given >> /\ old_table = << >>
  BY DEF Iterate, IInv, TypeOK
<1>2. Chained' /\ Stored' = Stored
  BY <1>1, SameEntries DEF tableVars, oldVars
<1>3. Counted' /\ PairsOwned'
  BY <1>1, <1>2, SameOwners DEF tableVars
<1>4. TypeOK'
  <2>1. iterator' \in [next_chain : Nat, next_entry : Nat \cup { NULL }]
    BY <1>1, FirstFromRight DEF IInv
  <2>2. seen' \in Seq(Nat)
    BY <1>1
  <2> QED BY <1>1, <2>1, <2>2 DEF IInv, TypeOK, tableVars, oldVars, freedVars
<1>5. IterAhead'
  <2>1. Seen' = {}
    BY <1>1 DEF Seen
  <2>2. \A d \in DOMAIN table : ~ (d < 0)
    BY <1>1 DEF IInv, TypeOK
  <2> QED BY <1>1, <1>2, <2>1, <2>2, MovesOn DEF IInv, tableVars
<1> QED BY <1>2, <1>3, <1>4, <1>5 DEF IInv

LEMMA IterNextIInv == ASSUME IInv, IterNext PROVE IInv'
<1> DEFINE at    == iterator.next_chain
           chain == table[at]
           p     == CHOOSE p \in DOMAIN chain : Key[chain[p].key] = iterator.next_entry
<1>1. /\ pc = "iterate" /\ pc' = "iterate" /\ iterator.next_entry # NULL
      /\ iterator' = IF p < Len(chain)
                       THEN [iterator EXCEPT !.next_entry = Key[chain[p + 1].key]]
                       ELSE FirstFrom(at + 1)
      /\ seen' = Append(seen, iterator.next_entry)
      /\ UNCHANGED << tableVars, oldVars, freedVars, given >> /\ old_table = << >>
  BY DEF IterNext, IInv, TypeOK
<1>2. /\ at \in DOMAIN table /\ at \in Nat /\ chain \in Seq(Entry) /\ Distinct(chain)
      /\ iterator \in [next_chain : Nat, next_entry : Nat \cup { NULL }]
      /\ iterator.next_entry \in Nat /\ seen \in Seq(Nat) /\ table \in [DOMAIN table -> Seq(Entry)]
  BY <1>1 DEF IInv, IterAhead, TypeOK, Chained
<1>3. PICK n \in DOMAIN chain :
        /\ Key[chain[n].key] = iterator.next_entry
        /\ \A d \in DOMAIN table : \A q \in DOMAIN table[d] :
             Key[table[d][q].key] \in Seen <=> d < at \/ (d = at /\ q < n)
  BY <1>1 DEF IInv, IterAhead
<1>4. p = n
  <2> HIDE DEF chain
  <2>1. p \in DOMAIN chain /\ Key[chain[p].key] = iterator.next_entry
    BY <1>3
  <2> HIDE DEF p
  <2> QED BY <2>1, <1>2, <1>3 DEF Distinct
<1>5. n \in 1..Len(chain) /\ Len(chain) \in Nat /\ \A q \in DOMAIN chain : q \in 1..Len(chain)
  BY <1>2, <1>3
<1>6. iterator.next_entry \notin Seen
  <2>1. ~ (at < at) /\ ~ (n < n)
    BY <1>2, <1>5
  <2> QED BY <1>2, <1>3, <2>1
<1>7. /\ seen' \in Seq(Nat)
      /\ DOMAIN seen' = 1..(Len(seen) + 1) /\ DOMAIN seen = 1..Len(seen) /\ Len(seen) \in Nat
      /\ \A m \in DOMAIN seen' : seen'[m] = IF m = Len(seen) + 1 THEN iterator.next_entry ELSE seen[m]
  <2>1. seen' = Append(seen, iterator.next_entry)
    BY <1>1
  <2> QED BY <2>1, <1>2, Appended
<1>8. Seen' = Seen \cup { iterator.next_entry }
  <2>1. /\ DOMAIN seen' = 1..(Len(seen) + 1) /\ DOMAIN seen = 1..Len(seen) /\ Len(seen) \in Nat
        /\ \A m \in DOMAIN seen' : seen'[m] = IF m = Len(seen) + 1 THEN iterator.next_entry ELSE seen[m]
    BY <1>7
  <2>2. \A x \in Seen' : x \in Seen \cup { iterator.next_entry }
    BY <2>1 DEF Seen
  <2>3. \A m \in DOMAIN seen : m \in DOMAIN seen' /\ seen'[m] = seen[m]
    BY <2>1
  <2>4. Len(seen) + 1 \in DOMAIN seen' /\ seen'[Len(seen) + 1] = iterator.next_entry
    BY <2>1
  <2>5. \A x \in Seen : x \in Seen'
    BY <2>3 DEF Seen
  <2>6. iterator.next_entry \in Seen'
    BY <2>4 DEF Seen
  <2> QED BY <2>2, <2>5, <2>6
<1>9. \A l, m \in DOMAIN seen' : seen'[l] = seen'[m] => l = m
  <2>1. /\ DOMAIN seen' = 1..(Len(seen) + 1) /\ DOMAIN seen = 1..Len(seen) /\ Len(seen) \in Nat
        /\ \A m \in DOMAIN seen' : seen'[m] = IF m = Len(seen) + 1 THEN iterator.next_entry ELSE seen[m]
    BY <1>7
  <2>2. \A m \in DOMAIN seen : seen[m] # iterator.next_entry
    BY <1>6 DEF Seen
  <2>3. \A l, m \in DOMAIN seen : seen[l] = seen[m] => l = m
    BY <1>1 DEF IInv, IterAhead
  <2> QED BY <2>1, <2>2, <2>3
<1>10. ASSUME NEW d \in DOMAIN table, NEW q \in DOMAIN table[d]
      PROVE  Key[table[d][q].key] \in Seen' <=> d < at \/ (d = at /\ q <= n)
  <2>1. Key[table[d][q].key] = iterator.next_entry <=> d = at /\ q = n
    <3>1. ASSUME Key[table[d][q].key] = iterator.next_entry PROVE d = at /\ q = n
      <4>1. table[d][q] \in Entry /\ chain[n] \in Entry
        BY <1>2, <1>3
      <4>2. index(table[d][q].key) = d /\ index(chain[n].key) = at
        BY <1>2, <1>3 DEF IInv, Chained, InChain
      <4>3. d = at
        BY <4>1, <4>2, <3>1, <1>3, SameIndex DEF Entry
      <4> QED BY <4>3, <3>1, <1>2, <1>3 DEF Distinct
    <3> QED BY <3>1, <1>3
  <2>2. Key[table[d][q].key] \in Seen <=> d < at \/ (d = at /\ q < n)
    BY <1>3
  <2>3. d = at => q \in Nat
    BY <1>5
  <2> QED BY <2>1, <2>2, <2>3, <1>5, <1>8
<1>11. Chained' /\ Stored' = Stored
  BY <1>1, SameEntries DEF tableVars, oldVars
<1>12. Counted' /\ PairsOwned'
  BY <1>1, <1>11, SameOwners DEF tableVars
<1> HIDE DEF at, chain, p
<1>13. CASE p < Len(chain)
  <2>1. n + 1 \in DOMAIN chain /\ chain[n + 1] \in Entry
    BY <1>2, <1>4, <1>5, <1>13
  <2>2. /\ Key[chain[n + 1].key] \in Nat /\ Key[chain[n + 1].key] # NULL
    BY <2>1, KeyAssumption, NullAssumption DEF Entry
  <2>3. iterator' = [iterator EXCEPT !.next_entry = Key[chain[n + 1].key]]
    BY <1>1, <1>4, <1>13
  <2>4. /\ iterator' \in [next_chain : Nat, next_entry : Nat \cup { NULL }]
        /\ iterator'.next_chain = at /\ iterator'.next_entry = Key[chain[n + 1].key]
    BY <2>2, <2>3, <1>2 DEF at
  <2>5. TypeOK'
    BY <1>1, <1>7, <2>4 DEF IInv, TypeOK, tableVars, oldVars, freedVars
  <2>6. ASSUME NEW d \in DOMAIN table, NEW q \in DOMAIN table[d]
        PROVE  Key[table[d][q].key] \in Seen' <=> d < at \/ (d = at /\ q < n + 1)
    <3>1. d = at => q \in Nat
      BY <1>5 DEF chain
    <3> QED BY <3>1, <1>5, <1>10
  <2>7. IterAhead'
    <3>1. \E k \in DOMAIN table'[at] :
            /\ Key[table'[at][k].key] = iterator'.next_entry
            /\ \A d \in DOMAIN table' : \A q \in DOMAIN table'[d] :
                 Key[table'[d][q].key] \in Seen' <=> d < at \/ (d = at /\ q < k)
      BY <1>1, <2>1, <2>4, <2>6 DEF tableVars, chain
    <3>2. at \in DOMAIN table' /\ iterator'.next_entry # NULL
      BY <1>1, <1>2, <2>2, <2>4 DEF tableVars
    <3> QED BY <1>9, <2>4, <3>1, <3>2 DEF IterAhead
  <2> QED BY <1>11, <1>12, <2>5, <2>7 DEF IInv
<1>14. CASE ~ (p < Len(chain))
  <2>1. iterator' = FirstFrom(at + 1) /\ at + 1 \in Nat
    BY <1>1, <1>2, <1>14
  <2>2. TypeOK'
    <3>1. iterator' \in [next_chain : Nat, next_entry : Nat \cup { NULL }]
      BY <1>1, <2>1, FirstFromRight DEF IInv
    <3> QED BY <1>1, <1>7, <3>1 DEF IInv, TypeOK, tableVars, oldVars, freedVars
  <2>3. ASSUME NEW d \in DOMAIN table, NEW q \in DOMAIN table[d]
        PROVE  Key[table[d][q].key] \in Seen' <=> d < at + 1
    <3>1. d = at => q <= n
      BY <1>4, <1>5, <1>14 DEF chain
    <3>2. d \in Nat
      BY <1>1 DEF IInv, TypeOK
    <3> QED BY <3>1, <3>2, <1>2, <1>10
  <2>4. IterAhead'
    BY <1>1, <1>9, <1>11, <2>1, <2>3, MovesOn DEF IInv, tableVars
  <2> QED BY <1>11, <1>12, <2>2, <2>4 DEF IInv
<1> QED BY <1>13, <1>14

LEMMA IterStopIInv == ASSUME IInv, IterStop PROVE IInv'
<1>1. /\ pc = "iterate" /\ pc' = "ready"
      /\ UNCHANGED << tableVars, oldVars, freedVars, iterVars, given >>
  BY DEF IterStop
<1>2. Chained' /\ Stored' = Stored
  BY <1>1, SameEntries DEF tableVars, oldVars
<1>3. Counted' /\ PairsOwned'
  BY <1>1, <1>2, SameOwners DEF tableVars
<1>4. TypeOK'
  BY <1>1 DEF IInv, TypeOK, tableVars, oldVars, freedVars, iterVars
<1> QED BY <1>1, <1>2, <1>3, <1>4 DEF IInv, IterAhead

LEMMA FreeIInv == ASSUME IInv, hash_table_free PROVE IInv' /\ Stored' = {}
<1>1. /\ pc = "ready" /\ pc' = "freed" /\ table' = << >> /\ old_table = << >>
      /\ freed_keys' = freed_keys \cup { e.key : e \in Stored }
      /\ freed_values' = freed_values \cup { e.value : e \in Stored }
      /\ UNCHANGED << table_size, entries, prime_index, oldVars, iterVars, given >>
  BY DEF hash_table_free, IInv, TypeOK
<1>2. old_table' = << >> /\ i' = i /\ new' = new
  BY <1>1 DEF oldVars
<1>3. Stored' = {}
  <2> SUFFICES ASSUME NEW e \in Stored' PROVE FALSE
    OBVIOUS
  <2>1. \/ \E c \in DOMAIN table' : e \in InChain(table'[c])
        \/ \E c \in DOMAIN old_table' : e \in InChain(old_table'[c])
    BY InSomeChain DEF Stored
  <2> QED BY <2>1, <1>1, <1>2
<1>4. Stored \subseteq Entry
  BY StoredType DEF IInv
<1>5. { e.key : e \in Stored } \subseteq Object /\ { e.value : e \in Stored } \subseteq Object
  BY <1>4 DEF Entry
<1>6. TypeOK'
  BY <1>1, <1>2, <1>5 DEF IInv, TypeOK, iterVars
<1>7. Chained'
  BY <1>1, <1>2 DEF Chained
<1>8. Counted'
  BY <1>1, <1>3, FS_EmptySet DEF Counted
<1>9. PairsOwned'
  BY <1>1, <1>3 DEF IInv, PairsOwned, Ownership
<1>10. IterAhead'
  BY <1>1 DEF IterAhead
<1> QED BY <1>3, <1>6, <1>7, <1>8, <1>9, <1>10 DEF IInv

LEMMA NextIInv == IInv /\ [Next]_vars => IInv'
<1> SUFFICES ASSUME IInv, [Next]_vars PROVE IInv'
  OBVIOUS
<1>1. CASE \E o \in Object : Insert(o) \/ InsertRefused(o) \/ Enlarge(o) \/ Lookup(o) \/ Remove(o)
  BY <1>1, InsertIInv, InsertRefusedIInv, EnlargeIInv, LookupIInv, RemoveIInv
<1>2. CASE Relink \/ NextChain \/ Enlarged
  BY <1>2, RelinkIInv, NextChainIInv, EnlargedIInv
<1>3. CASE Iterate \/ IterNext \/ IterStop
  BY <1>3, IterateIInv, IterNextIInv, IterStopIInv
<1>4. CASE hash_table_free
  BY <1>4, FreeIInv
<1>5. CASE UNCHANGED vars
  <2>1. Stored' = Stored /\ Chained' /\ \A o : Fresh(o)' <=> Fresh(o)
    BY <1>5, SameEntries DEF vars, tableVars, oldVars, freedVars, Fresh
  <2>2. new' = new /\ pc' = pc
    BY <1>5 DEF vars, oldVars
  <2>3. Counted' /\ PairsOwned'
    BY <1>5, <2>1, <2>2, SameOwners DEF vars, tableVars, IInv, PairsOwned
  <2>4. TypeOK'
    BY <1>5 DEF IInv, TypeOK, vars, tableVars, oldVars, freedVars, iterVars
  <2>5. IterAhead'
    BY <1>5, <2>1 DEF IInv, IterAhead, Seen, vars, tableVars, iterVars
  <2> QED BY <2>1, <2>3, <2>4, <2>5 DEF IInv
<1> QED BY <1>1, <1>2, <1>3, <1>4, <1>5 DEF Next

-----------------------------------------------------------------------------
(* What follows from the inductive invariant.                              *)

LEMMA IInvChainsRight == IInv => ChainsRight
<1> SUFFICES ASSUME IInv PROVE ChainsRight
  OBVIOUS
<1>1. ASSUME NEW c \in DOMAIN table, NEW p \in DOMAIN table[c]
      PROVE  table[c][p] \in Stored /\ index(table[c][p].key) = c
  BY InSomeChain DEF Stored, InChain, IInv, Chained
<1>2. ASSUME NEW c \in DOMAIN old_table, NEW p \in DOMAIN old_table[c]
      PROVE  old_table[c][p] \in Stored
  BY InSomeChain DEF Stored, InChain
<1>3. Findable
  BY <1>1 DEF Findable, IInv, Chained
<1>4. Once(table)
  <2> SUFFICES ASSUME NEW c \in DOMAIN table, NEW d \in DOMAIN table,
                      NEW p \in DOMAIN table[c], NEW q \in DOMAIN table[d],
                      Key[table[c][p].key] = Key[table[d][q].key]
               PROVE  c = d /\ p = q
    BY DEF Once
  <2>1. table[c][p] = table[d][q]
    BY <1>1, OneEntry DEF IInv
  <2>2. c = d
    BY <1>1, <2>1
  <2> QED BY <2>1, <2>2 DEF IInv, Chained, Distinct
<1>5. Once(old_table)
  <2> SUFFICES ASSUME NEW c \in DOMAIN old_table, NEW d \in DOMAIN old_table,
                      NEW p \in DOMAIN old_table[c], NEW q \in DOMAIN old_table[d],
                      Key[old_table[c][p].key] = Key[old_table[d][q].key]
               PROVE  c = d /\ p = q
    BY DEF Once
  <2>1. c = d
    BY DEF IInv, Chained, InChain
  <2> QED BY <2>1 DEF IInv, Chained, Distinct
<1>6. \A c \in DOMAIN table, d \in DOMAIN old_table :
        \A p \in DOMAIN table[c], q \in DOMAIN old_table[d] :
          Key[table[c][p].key] # Key[old_table[d][q].key]
  BY DEF IInv, Chained, InChain
<1> QED BY <1>3, <1>4, <1>5, <1>6 DEF ChainsRight, KeysOnce, IInv, Counted

LEMMA IInvIterRight == IInv => IterRight
<1> SUFFICES ASSUME IInv, pc = "iterate" PROVE IterRight
  BY DEF IterRight
<1>1. CASE iterator.next_entry = NULL
  BY <1>1 DEF IInv, IterAhead, IterRight
<1>2. CASE iterator.next_entry # NULL
  <2> DEFINE at == iterator.next_chain
  <2>1. at \in DOMAIN table /\ at \in Nat /\ \A m, n \in DOMAIN seen : seen[m] = seen[n] => m = n
    BY <1>2 DEF IInv, IterAhead, TypeOK
  <2>2. PICK p \in DOMAIN table[at] :
          /\ Key[table[at][p].key] = iterator.next_entry
          /\ \A d \in DOMAIN table : \A q \in DOMAIN table[d] :
               Key[table[d][q].key] \in Seen <=> d < at \/ (d = at /\ q < p)
    BY <1>2 DEF IInv, IterAhead
  <2>3. p \in Nat
    <3>1. table[at] \in Seq(Entry)
      BY <2>1 DEF IInv, TypeOK
    <3> QED BY <3>1, <2>2
  <2>4. ~ (at < at) /\ ~ (p < p)
    BY <2>1, <2>3
  <2>5. iterator.next_entry \notin Seen
    BY <2>1, <2>2, <2>4
  <2>6. \E e \in InChain(table[at]) : Key[e.key] = iterator.next_entry
    BY <2>2 DEF InChain
  <2> QED BY <1>2, <2>1, <2>5, <2>6 DEF IterRight
<1> QED BY <1>1, <1>2

LEMMA Invariant == Spec => []IInv
BY InitIInv, NextIInv, PTL DEF Spec

(* Whatever the table has grown to, and while its entries move, the search *)
(* in one chain of hash_table_lookup finds what there is of a key.         *)
THEOREM ChainsCorrect == Spec => []ChainsRight
BY Invariant, IInvChainsRight, PTL

(* No key or value is freed while the table has it, none is lost.          *)
THEOREM OwnershipCorrect == Spec => []Ownership
<1>1. IInv => Ownership
  BY DEF IInv, PairsOwned
<1> QED BY Invariant, <1>1, PTL

(* hash_table_iter_next returns every key once, also if the caller removes *)
(* the entries it has returned.                                            *)
THEOREM IteratorCorrect == Spec => []IterRight
BY Invariant, IInvIterRight, PTL

-----------------------------------------------------------------------------
(* The table implements a map.                                             *)

LEMMA MapOf ==
  ASSUME NEW S, NEW o, NEW pair
  PROVE  { << Key[e.key], e.value >> : e \in { e \in S : Key[e.key] # Key[o] } \cup { pair } }
           = { m \in { << Key[e.key], e.value >> : e \in S } : m[1] # Key[o] }
               \cup { << Key[pair.key], pair.value >> }
OBVIOUS

LEMMA StoreMap ==
  ASSUME IInv, pc # "freed", pc' # "freed", \A c \in DOMAIN old_table : old_table[c] = << >>,
         old_table' = << >>, NEW o \in Object, Fresh(o), Store(o), table_size' = table_size
  PROVE  Map!Next
<1> DEFINE pair == [key |-> o, value |-> o]
           map  == { << Key[e.key], e.value >> : e \in Stored }
<1>1. \/ result' = FALSE /\ Stored' = Stored
      \/ result' = TRUE /\ Stored' = Others(o) \cup { pair }
  BY StoreEffect DEF IInv
<1>2. Stored' = Others(o) \cup { pair } => map' = { m \in map : m[1] # Key[o] } \cup { << Key[o], o >> }
  <2> HIDE DEF pair
  <2>1. pair.key = o /\ pair.value = o
    BY DEF pair
  <2> QED BY <2>1, MapOf DEF Others
<1>3. Map!Insert(Key[o], o)
  BY <1>1, <1>2 DEF Map!Insert, Map!Others
<1>4. Map!Call
  BY <1>3 DEF Map!Call
<1> QED BY <1>4 DEF Map!Next

LEMMA StepMap == IInv /\ [Next]_vars => [Map!Next]_(Map!vars)
<1> SUFFICES ASSUME IInv, [Next]_vars PROVE [Map!Next]_(Map!vars)
  OBVIOUS
<1> DEFINE map == { << Key[e.key], e.value >> : e \in Stored }
<1>1. ASSUME NEW o \in Object, Insert(o) PROVE Map!Next
  <2>1. /\ pc = "ready" /\ pc' = "ready" /\ Fresh(o) /\ Store(o) /\ table_size' = table_size
        /\ old_table = << >> /\ old_table' = << >>
    BY <1>1 DEF Insert, oldVars, IInv, TypeOK
  <2>2. \A c \in DOMAIN old_table : old_table[c] = << >>
    BY <2>1
  <2> QED BY <2>1, <2>2, StoreMap
<1>2. ASSUME NEW o \in Object, InsertRefused(o) PROVE Map!Next
  <2>1. pc = "ready" /\ pc' = "ready" /\ result' = FALSE /\ Stored' = Stored
    BY <1>2 DEF InsertRefused, Refuse, Stored, oldVars
  <2>2. map' = map
    BY <2>1
  <2>3. Map!Insert(Key[o], o)
    BY <2>1, <2>2 DEF Map!Insert
  <2> QED BY <1>2, <2>1, <2>3 DEF Map!Next, Map!Call
<1>3. ASSUME NEW o \in Object, Lookup(o) PROVE Map!Next
  <2>1. pc # "freed" /\ pc' # "freed" /\ Stored' = Stored
        /\ result' = IF Places(o) = {} THEN NULL
                     ELSE table[index(o)][CHOOSE p \in Places(o) : TRUE].value
    BY <1>3 DEF Lookup, Stored, tableVars, oldVars
  <2>2. map' = map
    BY <2>1
  <2>3. CASE Places(o) = {}
    <3>1. old_table = << >>
      BY <1>3 DEF Lookup, IInv, TypeOK
    <3>2. \A e \in Stored : Key[e.key] # Key[o]
      BY <2>1, <2>3, <3>1, NotInTable, InSomeChain DEF Stored, IInv
    <3>3. Map!Others(Key[o]) = map
      BY <3>2 DEF Map!Others
    <3>4. Map!Lookup(Key[o])
      BY <2>1, <2>2, <2>3, <3>3 DEF Map!Lookup
    <3> QED BY <2>1, <3>4 DEF Map!Next, Map!Call
  <2>4. CASE Places(o) # {}
    <3>1. PICK p \in Places(o) : result' = table[index(o)][p].value
      BY <2>1, <2>4
    <3>2. table[index(o)][p] \in Stored /\ Key[table[index(o)][p].key] = Key[o] /\ Stored \subseteq Entry
      BY <2>1, PlaceOf, StoredType DEF IInv
    <3>3. << Key[o], result' >> \in map /\ result' \in Object
      BY <3>1, <3>2 DEF Entry
    <3>4. Map!Lookup(Key[o])
      BY <2>2, <3>3 DEF Map!Lookup
    <3> QED BY <2>1, <3>4 DEF Map!Next, Map!Call
  <2> QED BY <2>3, <2>4
<1>4. ASSUME NEW o \in Object, Remove(o) PROVE Map!Next
  <2>1. /\ pc # "freed" /\ pc' # "freed" /\ old_table = << >> /\ old_table' = << >> /\ table_size' = table_size
    BY <1>4 DEF Remove, MayRemove, oldVars, IInv, TypeOK
  <2>2. map' = { m \in map : m[1] # Key[o] } /\ result' = (map' # map)
    <3>1. CASE Places(o) = {}
      <4>1. result' = FALSE /\ Stored' = Stored
        BY <1>4, <3>1, <2>1 DEF Remove, Stored
      <4>2. \A e \in Stored : Key[e.key] # Key[o]
        BY <2>1, <3>1, NotInTable, InSomeChain DEF Stored, IInv
      <4>3. \A m \in map : m[1] # Key[o]
        BY <4>2
      <4>4. map' = map
        BY <4>1
      <4> HIDE DEF map
      <4> QED BY <4>1, <4>3, <4>4
    <3>2. CASE Places(o) # {}
      <4>1. PICK p \in Places(o) : table' = [table EXCEPT ![index(o)] = Unlinked(@, p)] /\ result' = TRUE
        BY <1>4, <3>2 DEF Remove
      <4>2. \A c \in DOMAIN old_table : old_table[c] = << >>
        BY <2>1
      <4>3. Stored' = Others(o)
        BY <2>1, <4>1, <4>2, RemoveEffect DEF IInv
      <4>4. \E e \in Stored : Key[e.key] = Key[o]
        BY <2>1, PlaceOf DEF IInv
      <4>5. map' = { m \in map : m[1] # Key[o] }
        BY <4>3 DEF Others
      <4>6. map' # map
        <5>1. PICK e \in Stored : Key[e.key] = Key[o]
          BY <4>4
        <5>2. << Key[e.key], e.value >> \in map /\ << Key[e.key], e.value >>[1] = Key[o]
          BY <5>1
        <5> HIDE DEF map
        <5> QED BY <4>5, <5>2
      <4> QED BY <4>1, <4>5, <4>6
    <3> QED BY <3>1, <3>2
  <2>3. Map!Remove(Key[o])
    BY <2>2 DEF Map!Remove, Map!Others
  <2> QED BY <2>1, <2>3 DEF Map!Next, Map!Call
<1>5. CASE Enlarged
  <2>1. /\ pc = "rehash" /\ pc' = "ready" /\ i \notin DOMAIN old_table /\ Store(new)
        /\ old_table' = << >> /\ table_size' = table_size /\ new \in Object /\ Fresh(new)
    BY <1>5 DEF Enlarged, IInv, TypeOK, PairsOwned
  <2>2. \A c \in DOMAIN old_table : old_table[c] = << >>
    BY <2>1, OldTableEmpty
  <2> QED BY <2>1, <2>2, StoreMap
<1>6. CASE hash_table_free
  <2>1. Stored' = {} /\ pc = "ready" /\ pc' = "freed" /\ result' = result
    BY <1>6, FreeIInv DEF hash_table_free
  <2>2. map' = {}
    BY <2>1
  <2> QED BY <2>1, <2>2 DEF Map!Next, Map!Free
<1>7. ASSUME Stored' = Stored, result' = result, (pc # "freed") = (pc' # "freed")
      PROVE  UNCHANGED Map!vars
  BY <1>7 DEF Map!vars
<1>8. CASE \E o \in Object : Enlarge(o)
  BY <1>7, <1>8, EnlargeIInv DEF Enlarge
<1>9. CASE Relink
  BY <1>7, <1>9, RelinkIInv DEF Relink
<1>10. CASE NextChain \/ Iterate \/ IterNext \/ IterStop \/ UNCHANGED vars
  <2>1. Stored' = Stored
    BY <1>10 DEF NextChain, Iterate, IterNext, IterStop, vars, Stored, tableVars, oldVars
  <2>2. result' = result /\ (pc # "freed") = (pc' # "freed")
    BY <1>10 DEF NextChain, Iterate, IterNext, IterStop, vars
  <2> QED BY <1>7, <2>1, <2>2
<1>11. Next \/ UNCHANGED vars
  OBVIOUS
<1> QED BY <1>1, <1>2, <1>3, <1>4, <1>5, <1>6, <1>8, <1>9, <1>10, <1>11 DEF Next

(* The table implements FiniteMap: its growth is not visible, lookups find *)
(* what was inserted last, a refused call leaves the map as it was.        *)
THEOREM ImplementsMap == Spec => MapSpec
<1>1. Init => Map!Init
  <2>1. ASSUME Init PROVE Stored = {} /\ result = NULL /\ pc # "freed"
    <3>1. \A c \in DOMAIN table : InChain(table[c]) = {}
      BY <2>1 DEF Init, NoEntries, InChain
    <3>2. \A c \in DOMAIN old_table : InChain(old_table[c]) = {}
      BY <2>1 DEF Init, InChain
    <3>3. Stored = {}
      BY <3>1, <3>2 DEF Stored
    <3> QED BY <2>1, <3>3 DEF Init
  <2> QED BY <2>1 DEF Map!Init
<1>2. QED
  BY <1>1, Invariant, StepMap, PTL DEF Spec, MapSpec, Map!Spec
=============================================================================
