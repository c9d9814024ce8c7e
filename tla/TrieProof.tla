------------------------------- MODULE TrieProof -------------------------------
(***************************************************************************)
(* Proofs about Trie, for any keys and values: no node is lost and no      *)
(* pointer dangles, also after an insertion that failed half way, the use  *)
(* counts are right, the walk is in order, and the trie is a map.          *)
(***************************************************************************)
EXTENDS Trie, SequenceTheorems, FiniteSetTheorems, WellFoundedInduction, TLAPS

\* The numbers are well ordered: a set of them has a least element.
LEMMA LeastNatural ==
  ASSUME NEW S \in SUBSET Nat, S # {}
  PROVE  \E m \in S : \A n \in S : m <= n
<1> DEFINE Less == { p \in Nat \X Nat : p[1] < p[2] }
<1>1. IsWellFoundedOn(Less, Nat)
  BY NatLessThanWellFounded DEF OpToRel
<1>2. PICK m \in S : \A n \in S : << n, m >> \notin Less
  <2> HIDE DEF Less
  <2> QED BY <1>1, WFMin
<1>3. ASSUME NEW n \in S PROVE m <= n
  <2>1. << n, m >> \in Nat \X Nat /\ << n, m >>[1] = n /\ << n, m >>[2] = m
    OBVIOUS
  <2>2. ~ (n < m)
    BY <1>2, <2>1
  <2> QED BY <2>2
<1> QED BY <1>3

\* And a bounded one has a greatest.
LEMMA GreatestNatural ==
  ASSUME NEW S \in SUBSET Nat, S # {}, NEW max \in Nat, \A n \in S : n <= max
  PROVE  \E m \in S : \A n \in S : n <= m
<1> DEFINE T == { max - n : n \in S }
<1>1. T \in SUBSET Nat /\ T # {}
  <2>1. ASSUME NEW n \in S PROVE max - n \in Nat
    OBVIOUS
  <2> QED BY <2>1
<1>2. PICK t \in T : \A u \in T : t <= u
  <2> HIDE DEF T
  <2> QED BY <1>1, LeastNatural
<1>3. PICK m \in S : t = max - m
  OBVIOUS
<1>4. \A n \in S : max - m <= max - n
  BY <1>2, <1>3
<1> QED BY <1>4

-----------------------------------------------------------------------------
(* Strings and their prefixes.                                             *)

LEMMA RootType == Root \in Seq(Char) /\ Len(Root) = 0 /\ Root # NULL
<1>1. Root \in Seq(Char) /\ Len(Root) = 0
  BY EmptySeq DEF Root
<1> QED BY <1>1, NullAssumption

LEMMA SameString ==
  ASSUME NEW s \in Seq(Char), NEW t \in Seq(Char), Len(s) = Len(t), \A m \in 1..Len(s) : s[m] = t[m]
  PROVE  s = t
BY SeqEqual

LEMMA PrefixOfKey ==
  ASSUME NEW k \in Seq(Char), NEW n \in 0..Len(k)
  PROVE  /\ SubSeq(k, 1, n) \in Seq(Char) /\ Len(SubSeq(k, 1, n)) = n
         /\ DOMAIN SubSeq(k, 1, n) = 1..n
         /\ \A m \in 1..n : SubSeq(k, 1, n)[m] = k[m]
<1>1. \A m \in 1..n : k[m] \in Char
  BY ElementOfSeq
<1>2. n \in Int /\ 1 \in Int /\ Len(k) \in Nat
  OBVIOUS
<1>3. SubSeq(k, 1, n) \in Seq(Char) /\ Len(SubSeq(k, 1, n)) = (IF 1 <= n THEN n - 1 + 1 ELSE 0)
      /\ \A m \in 1..(n - 1 + 1) : SubSeq(k, 1, n)[m] = k[1 + m - 1]
  BY <1>1, <1>2, SubSeqProperties
<1> QED BY <1>2, <1>3

LEMMA ParentOf ==
  ASSUME NEW w \in Seq(Char), w # Root
  PROVE  /\ Parent(w) \in Seq(Char) /\ Len(Parent(w)) = Len(w) - 1 /\ Len(w) \in Nat \ { 0 }
         /\ w[Len(w)] \in Char /\ w = Append(Parent(w), w[Len(w)])
         /\ \A m \in 1..(Len(w) - 1) : Parent(w)[m] = w[m]
<1>1. Len(w) \in Nat \ { 0 } /\ w[Len(w)] \in Char
  BY DEF Root
<1>2. Len(w) - 1 \in 0..Len(w)
  BY <1>1
<1>3. Parent(w) \in Seq(Char) /\ Len(Parent(w)) = Len(w) - 1
      /\ \A m \in 1..(Len(w) - 1) : Parent(w)[m] = w[m]
  BY <1>2, PrefixOfKey DEF Parent
<1> DEFINE v == Parent(w)
<1>4. w = Append(v, w[Len(w)])
  <2> HIDE DEF v
  <2>1. v \in Seq(Char) /\ Len(v) = Len(w) - 1 /\ \A m \in 1..(Len(w) - 1) : v[m] = w[m]
    BY <1>3 DEF v
  <2>2. Append(v, w[Len(w)]) \in Seq(Char) /\ Len(Append(v, w[Len(w)])) = Len(w)
    BY <1>1, <2>1
  <2>3. \A m \in 1..Len(w) : w[m] = Append(v, w[Len(w)])[m]
    BY <1>1, <2>1
  <2> QED BY <2>2, <2>3, SameString
<1> QED BY <1>1, <1>3, <1>4

LEMMA ChildOf ==
  ASSUME NEW w \in Seq(Char), NEW c \in Char
  PROVE  /\ Append(w, c) \in Seq(Char) /\ Append(w, c) # Root
         /\ Len(Append(w, c)) = Len(w) + 1 /\ Append(w, c)[Len(w) + 1] = c
         /\ \A m \in 1..Len(w) : Append(w, c)[m] = w[m]
         /\ Parent(Append(w, c)) = w
<1> DEFINE u == Append(w, c)
<1>1. /\ u \in Seq(Char) /\ u # Root /\ Len(u) = Len(w) + 1 /\ u[Len(w) + 1] = c
      /\ \A m \in 1..Len(w) : u[m] = w[m]
  BY DEF Root
<1> HIDE DEF u
<1>2. Parent(u) \in Seq(Char) /\ Len(Parent(u)) = Len(w) /\ \A m \in 1..Len(w) : Parent(u)[m] = w[m]
  <2>1. Len(u) - 1 = Len(w)
    BY <1>1
  <2> QED BY <1>1, <2>1, ParentOf
<1>3. Parent(u) = w
  BY <1>2, SameString
<1> QED BY <1>1, <1>3 DEF u

LEMMA PathOfKey ==
  ASSUME NEW k \in Seq(Char)
  PROVE  /\ SubSeq(k, 1, 0) = Root /\ SubSeq(k, 1, Len(k)) = k
         /\ \A n \in 1..Len(k) :
              /\ SubSeq(k, 1, n) # Root /\ k[n] \in Char
              /\ Parent(SubSeq(k, 1, n)) = SubSeq(k, 1, n - 1)
              /\ SubSeq(k, 1, n)[n] = k[n]
              /\ SubSeq(k, 1, n) = Append(SubSeq(k, 1, n - 1), k[n])
<1>1. SubSeq(k, 1, 0) = Root
  BY SubSeqEmpty DEF Root
<1>2. SubSeq(k, 1, Len(k)) = k
  BY SubSeqFull
<1>3. ASSUME NEW n \in 1..Len(k)
      PROVE  /\ SubSeq(k, 1, n) # Root /\ k[n] \in Char
             /\ Parent(SubSeq(k, 1, n)) = SubSeq(k, 1, n - 1)
             /\ SubSeq(k, 1, n)[n] = k[n]
             /\ SubSeq(k, 1, n) = Append(SubSeq(k, 1, n - 1), k[n])
  <2> DEFINE u == SubSeq(k, 1, n)
             v == SubSeq(k, 1, n - 1)
  <2>1. n \in 0..Len(k) /\ n - 1 \in 0..Len(k) /\ n \in 1..n
    OBVIOUS
  <2>2. u \in Seq(Char) /\ Len(u) = n /\ \A m \in 1..n : u[m] = k[m]
    BY <2>1, PrefixOfKey
  <2>3. v \in Seq(Char) /\ Len(v) = n - 1 /\ \A m \in 1..(n - 1) : v[m] = k[m]
    BY <2>1, PrefixOfKey
  <2> HIDE DEF u, v
  <2>4. u # Root /\ k[n] \in Char /\ u[n] = k[n]
    BY <2>1, <2>2 DEF Root
  <2>5. Parent(u) = v
    <3>1. Parent(u) \in Seq(Char) /\ Len(Parent(u)) = n - 1 /\ \A m \in 1..(n - 1) : Parent(u)[m] = u[m]
      BY <2>2, <2>4, ParentOf
    <3>2. \A m \in 1..(n - 1) : Parent(u)[m] = v[m]
      BY <2>2, <2>3, <3>1
    <3> QED BY <2>3, <3>1, <3>2, SameString
  <2>6. u = Append(v, k[n])
    BY <2>2, <2>4, <2>5, ParentOf
  <2> QED BY <2>4, <2>5, <2>6 DEF u, v
<1> QED BY <1>1, <1>2, <1>3

LEMMA PrefixIs ==
  ASSUME NEW w \in Seq(Char), NEW u \in Seq(Char)
  PROVE  HasPrefix(w, u) <=> Len(u) <= Len(w) /\ u = SubSeq(w, 1, Len(u))
<1>1. DOMAIN u = 1..Len(u) /\ Len(u) \in Nat /\ Len(w) \in Nat
  OBVIOUS
<1>2. ASSUME HasPrefix(w, u) PROVE u = SubSeq(w, 1, Len(u))
  <2>1. Len(u) \in 0..Len(w) /\ \A m \in 1..Len(u) : w[m] = u[m]
    BY <1>1, <1>2 DEF HasPrefix
  <2>2. SubSeq(w, 1, Len(u)) \in Seq(Char) /\ Len(SubSeq(w, 1, Len(u))) = Len(u)
        /\ \A m \in 1..Len(u) : SubSeq(w, 1, Len(u))[m] = w[m]
    BY <2>1, PrefixOfKey
  <2>3. \A m \in 1..Len(u) : u[m] = SubSeq(w, 1, Len(u))[m]
    BY <2>1, <2>2
  <2> QED BY <2>2, <2>3, SameString
<1>3. ASSUME Len(u) <= Len(w), u = SubSeq(w, 1, Len(u)) PROVE HasPrefix(w, u)
  <2>1. Len(u) \in 0..Len(w)
    BY <1>1, <1>3
  <2>2. \A m \in 1..Len(u) : SubSeq(w, 1, Len(u))[m] = w[m]
    BY <2>1, PrefixOfKey
  <2>3. \A m \in 1..Len(u) : u[m] = w[m]
    BY <2>2, <1>3
  <2> QED BY <1>1, <1>3, <2>3 DEF HasPrefix
<1> QED BY <1>2, <1>3 DEF HasPrefix

LEMMA PrefixItself == ASSUME NEW w PROVE Len(w) \in Nat => HasPrefix(w, w)
BY DEF HasPrefix

LEMMA PrefixTrans ==
  ASSUME NEW u \in Seq(Char), NEW v \in Seq(Char), NEW w \in Seq(Char), HasPrefix(w, v), HasPrefix(v, u)
  PROVE  HasPrefix(w, u)
<1>1. DOMAIN u = 1..Len(u) /\ DOMAIN v = 1..Len(v) /\ Len(u) \in Nat /\ Len(v) \in Nat /\ Len(w) \in Nat
  OBVIOUS
<1> QED BY <1>1 DEF HasPrefix

LEMMA PrefixLonger ==
  ASSUME NEW w \in Seq(Char), NEW u \in Seq(Char), HasPrefix(w, u), w # u
  PROVE  Len(u) + 1 \in 1..Len(w) /\ w[Len(u) + 1] \in Char /\ HasPrefix(w, Append(u, w[Len(u) + 1]))
<1>1. DOMAIN u = 1..Len(u) /\ Len(u) \in Nat /\ Len(w) \in Nat /\ Len(u) <= Len(w)
      /\ \A m \in 1..Len(u) : w[m] = u[m]
  BY DEF HasPrefix
<1>2. Len(u) # Len(w)
  BY <1>1, SameString
<1>3. Len(u) + 1 \in 1..Len(w) /\ w[Len(u) + 1] \in Char
  BY <1>1, <1>2
<1> DEFINE v == Append(u, w[Len(u) + 1])
<1>4. v \in Seq(Char) /\ Len(v) = Len(u) + 1 /\ DOMAIN v = 1..(Len(u) + 1)
      /\ v[Len(u) + 1] = w[Len(u) + 1] /\ \A m \in 1..Len(u) : v[m] = u[m]
  BY <1>3, ChildOf
<1> HIDE DEF v
<1>5. \A m \in DOMAIN v : w[m] = v[m]
  BY <1>1, <1>4
<1>6. Len(v) <= Len(w)
  BY <1>3, <1>4
<1> QED BY <1>3, <1>5, <1>6 DEF HasPrefix, v

LEMMA ChildPrefix ==
  ASSUME NEW w \in Seq(Char), NEW c \in Char
  PROVE  HasPrefix(Append(w, c), w)
<1>1. DOMAIN w = 1..Len(w) /\ Len(w) \in Nat
  OBVIOUS
<1> QED BY <1>1, ChildOf DEF HasPrefix


-----------------------------------------------------------------------------
(* Paths.                                                                  *)

\* A node has its ancestors as far up as each has its parent.
LEMMA Ancestors ==
  ASSUME DOMAIN node \subseteq Seq(Char), NEW w \in DOMAIN node, NEW b \in 0..Len(w),
         \A n \in (b + 1)..Len(w) : SubSeq(w, 1, n) \in DOMAIN node => HasParent(SubSeq(w, 1, n))
  PROVE  \A n \in b..Len(w) : SubSeq(w, 1, n) \in DOMAIN node
<1> DEFINE Gone == { n \in b..Len(w) : SubSeq(w, 1, n) \notin DOMAIN node }
<1>1. w \in Seq(Char) /\ Len(w) \in Nat
  OBVIOUS
<1>2. SUFFICES ASSUME Gone # {} PROVE FALSE
  OBVIOUS
<1>3. Gone \in SUBSET Nat /\ \A n \in Gone : n <= Len(w)
  BY <1>1
<1>4. PICK m \in Gone : \A n \in Gone : n <= m
  <2> HIDE DEF Gone
  <2> QED BY <1>1, <1>2, <1>3, GreatestNatural
<1>5. m # Len(w)
  BY <1>1, PathOfKey
<1>6. m + 1 \in (b + 1)..Len(w) /\ m + 1 \in 1..Len(w) /\ m + 1 \notin Gone
  BY <1>1, <1>4, <1>5
<1>7. SubSeq(w, 1, m + 1) \in DOMAIN node
  BY <1>1, <1>6
<1>8. Parent(SubSeq(w, 1, m + 1)) \in DOMAIN node
  BY <1>6, <1>7 DEF HasParent
<1>9. (m + 1) - 1 = m
  BY <1>1
<1>10. Parent(SubSeq(w, 1, m + 1)) = SubSeq(w, 1, m)
  BY <1>1, <1>6, <1>9, PathOfKey
<1> QED BY <1>8, <1>10

LEMMA PrefixesThere ==
  ASSUME DOMAIN node \subseteq Seq(Char), TreeOfNodes, Orphan = {}, NEW w \in DOMAIN node, NEW n \in 0..Len(w)
  PROVE  SubSeq(w, 1, n) \in DOMAIN node
<1>1. w \in Seq(Char)
  OBVIOUS
<1>2. \A m \in (0 + 1)..Len(w) : SubSeq(w, 1, m) \in DOMAIN node => HasParent(SubSeq(w, 1, m))
  <2>1. \A m \in 1..Len(w) : SubSeq(w, 1, m) # Root
    BY <1>1, PathOfKey
  <2>2. \A u \in DOMAIN node : u = Root \/ HasParent(u)
    BY DEF TreeOfNodes
  <2>3. 0 + 1 = 1
    OBVIOUS
  <2> QED BY <2>1, <2>2, <2>3
<1>3. 0 \in 0..Len(w)
  BY <1>1
<1> QED BY <1>2, <1>3, Ancestors

\* The search for the node of a key finds it exactly if it is there.
LEMMA FoundNode ==
  ASSUME DOMAIN node \subseteq Seq(Char), TreeOfNodes, Orphan = {}, NEW k \in Seq(Char)
  PROVE  /\ k \in DOMAIN node => Data(k) = node[k].data
         /\ k \notin DOMAIN node => Data(k) = NULL
<1>1. Len(k) \in Nat /\ k # NULL
  BY NullAssumption
<1>2. ASSUME k \in DOMAIN node
      PROVE  root_node /\ \A n \in 1..Len(k) : k[n] \in node[SubSeq(k, 1, n - 1)].next
  <2>1. root_node
    <3>1. 0 \in 0..Len(k)
      BY <1>1
    <3>2. SubSeq(k, 1, 0) \in DOMAIN node
      BY <1>2, <3>1, PrefixesThere
    <3> QED BY <3>2, PathOfKey DEF TreeOfNodes, Rooted
  <2>2. ASSUME NEW n \in 1..Len(k) PROVE k[n] \in node[SubSeq(k, 1, n - 1)].next
    <3> DEFINE w == SubSeq(k, 1, n)
    <3>1. n \in 0..Len(k)
      OBVIOUS
    <3>2. w \in DOMAIN node /\ Len(w) = n
      BY <1>2, <3>1, PrefixesThere, PrefixOfKey
    <3>3. w # Root /\ w[n] = k[n] /\ Parent(w) = SubSeq(k, 1, n - 1)
      BY PathOfKey
    <3> HIDE DEF w
    <3>4. Points(w)
      BY <3>2, <3>3 DEF TreeOfNodes, HasParent
    <3> QED BY <3>2, <3>3, <3>4 DEF Points
  <2> QED BY <2>1, <2>2
<1>3. ASSUME root_node, \A n \in 1..Len(k) : k[n] \in node[SubSeq(k, 1, n - 1)].next
      PROVE  k \in DOMAIN node
  <2> DEFINE Gone == { n \in 0..Len(k) : SubSeq(k, 1, n) \notin DOMAIN node }
  <2>1. SUFFICES ASSUME Gone # {} PROVE FALSE
    <3>1. Len(k) \in 0..Len(k)
      BY <1>1
    <3> QED BY <2>1, <3>1, PathOfKey, ZenonT(40)
  <2>2. Gone \in SUBSET Nat
    BY <1>1
  <2>3. PICK m \in Gone : \A n \in Gone : m <= n
    <3> HIDE DEF Gone
    <3> QED BY <2>1, <2>2, LeastNatural
  <2>4. m # 0
    BY <1>3, PathOfKey, ZenonT(40) DEF TreeOfNodes, Rooted
  <2>5. m \in 1..Len(k) /\ m - 1 \in 0..Len(k) /\ m - 1 \notin Gone
    BY <1>1, <2>3, <2>4
  <2>6. SubSeq(k, 1, m - 1) \in DOMAIN node /\ k[m] \in node[SubSeq(k, 1, m - 1)].next
    BY <1>3, <2>5
  <2>7. SubSeq(k, 1, m) \in DOMAIN node
    <3>1. SubSeq(k, 1, m) = Append(SubSeq(k, 1, m - 1), k[m])
      BY <2>5, PathOfKey
    <3> QED BY <2>6, <3>1 DEF TreeOfNodes, NextClosed
  <2> QED BY <2>7
<1> QED BY <1>1, <1>2, <1>3 DEF Data, find_end

LEMMA PointsThere ==
  ASSUME TypeOK, TreeOfNodes, Orphan = {}, NEW w \in Seq(Char), w = Root \/ Parent(w) \in DOMAIN node
  PROVE  Points(w) <=> w \in DOMAIN node
<1>1. CASE w = Root
  BY <1>1 DEF Points, TreeOfNodes, Rooted
<1>2. CASE w # Root
  <2>1. w = Append(Parent(w), w[Len(w)]) /\ Parent(w) \in DOMAIN node
    BY <1>2, ParentOf
  <2>2. Points(w) => w \in DOMAIN node
    BY <1>2, <2>1 DEF Points, TreeOfNodes, NextClosed
  <2>3. w \in DOMAIN node => Points(w)
    BY <1>2 DEF TreeOfNodes, HasParent
  <2> QED BY <2>2, <2>3
<1> QED BY <1>1, <1>2

LEMMA FiniteKeys ==
  ASSUME IsFiniteSet(DOMAIN node), NEW w
  PROVE  IsFiniteSet(KeysBelow(w)) /\ Cardinality(KeysBelow(w)) \in Nat
<1>1. KeysBelow(w) \in SUBSET (DOMAIN node)
  BY DEF KeysBelow
<1>2. IsFiniteSet(KeysBelow(w))
  BY <1>1, FS_Subset
<1> QED BY <1>2, FS_CardinalityType

LEMMA CStringType == ASSUME NEW k \in Seq(Char) PROVE CString(k) \in Seq(Char)
<1> DEFINE nul == { p \in DOMAIN k : k[p] = 0 }
           end == CHOOSE p \in nul : \A q \in nul : p <= q
<1>1. nul \in SUBSET Nat /\ DOMAIN k = 1..Len(k) /\ Len(k) \in Nat
  OBVIOUS
<1>2. ASSUME nul # {} PROVE SubSeq(k, 1, end - 1) \in Seq(Char)
  <2>1. \E p \in nul : \A q \in nul : p <= q
    <3> HIDE DEF nul
    <3> QED BY <1>1, <1>2, LeastNatural
  <2>2. end \in nul
    BY <2>1
  <2>3. end - 1 \in 0..Len(k)
    BY <1>1, <2>2
  <2> QED BY <2>3, PrefixOfKey
<1> QED BY <1>2 DEF CString


-----------------------------------------------------------------------------
(* Steps that leave the nodes as they are.                                 *)

LEMMA InitIInv == Init => IInv
<1> SUFFICES ASSUME Init PROVE IInv
  OBVIOUS
<1>1. DOMAIN node = {} /\ node = << >>
  BY DEF Init
<1>2. TypeOK
  <2>1. node \in [DOMAIN node -> TrieNode]
    BY <1>1
  <2>2. key = Root /\ key \in Seq(Char)
    BY RootType DEF Init, Root
  <2> QED BY <1>1, <2>1, <2>2 DEF Init, TypeOK
<1>3. IsFiniteSet(DOMAIN node)
  BY <1>1, FS_EmptySet
<1>4. pc = "ready" /\ root_node = FALSE
  BY DEF Init
<1>5. TreeOfNodes /\ Counts /\ Path
  BY <1>1, <1>4 DEF TreeOfNodes, Rooted, NextClosed, Orphan, Releasing, Counts, Path
<1> QED BY <1>1, <1>2, <1>3, <1>4, <1>5 DEF IInv

\* Calls and walks that only read.
LEMMA ReadIInv ==
  ASSUME IInv, AtRest, AtRest', UNCHANGED << node, root_node, callVars >>
  PROVE  IInv'
<1>1. node' = node /\ root_node' = root_node /\ key' = key /\ value' = value /\ cur' = cur /\ linked' = linked
      /\ pc \in { "ready", "dfs" } /\ pc' \in { "ready", "dfs" }
  BY DEF callVars, AtRest
<1>2. ~ Releasing /\ ~ Releasing' /\ Orphan = {} /\ Orphan' = {} /\ Pending = {} /\ Pending' = {}
  BY <1>1 DEF Releasing, Orphan, Pending
<1>3. \A w : KeysBelow(w)' = KeysBelow(w) /\ Points(w)' = Points(w)
  BY <1>1 DEF KeysBelow, Points
<1>4. TypeOK'
  BY <1>1 DEF IInv, TypeOK
<1>5. TreeOfNodes'
  BY <1>1, <1>2, <1>3 DEF IInv, TreeOfNodes, Rooted, NextClosed, HasParent
<1>6. Counts'
  BY <1>1, <1>2, <1>3 DEF IInv, Counts
<1>7. Path'
  BY <1>1, <1>2 DEF Path
<1> QED BY <1>1, <1>4, <1>5, <1>6, <1>7 DEF IInv

\* A new path begins: the nodes are as they were, and none counts the key yet.
LEMMA StartInsertIInv ==
  ASSUME IInv, NEW k \in Seq(Char), NEW v \in Values, StartInsert(k, v)
  PROVE  IInv'
<1>1. /\ pc = "ready" /\ pc' = "insert" /\ Data(k) = NULL /\ key' = k /\ value' = v /\ cur' = Root
      /\ node' = node /\ root_node' = root_node /\ linked' = linked
  BY DEF StartInsert
<1>2. Len(Root) = 0 /\ Root \in Seq(Char) /\ Root # NULL /\ v # NULL
  BY RootType, NullAssumption
<1>3. ~ Releasing /\ ~ Releasing' /\ Orphan = {} /\ Orphan' = {} /\ Pending = {}
  BY <1>1 DEF Releasing, Orphan, Pending
<1>4. Pending' = {}
  <2>1. \A w \in DOMAIN node : ~ (Len(w) < 0)
    BY DEF IInv, TypeOK
  <2> QED BY <1>1, <1>2, <1>3, <2>1 DEF Pending
<1>5. \A w : KeysBelow(w)' = KeysBelow(w) /\ Points(w)' = Points(w)
  BY <1>1 DEF KeysBelow, Points
<1>6. TypeOK'
  BY <1>1, <1>2 DEF IInv, TypeOK
<1>7. TreeOfNodes'
  BY <1>1, <1>3, <1>5 DEF IInv, TreeOfNodes, Rooted, NextClosed, HasParent
<1>8. Counts'
  BY <1>1, <1>3, <1>4, <1>5 DEF IInv, Counts
<1>9. Path'
  <2>1. OnPath'
    <3>1. Len(k) \in Nat /\ SubSeq(k, 1, 0) = Root
      BY PathOfKey
    <3> QED BY <1>1, <1>2, <3>1 DEF OnPath, At
  <2>2. k \in DOMAIN node => node[k].data = NULL
    BY <1>1, <1>3, FoundNode DEF IInv, TypeOK
  <2>3. 0..(Len(cur') - 1) = {}
    BY <1>1, <1>2
  <2> QED BY <1>1, <1>2, <1>3, <2>1, <2>2, <2>3 DEF Path
<1> QED BY <1>1, <1>6, <1>7, <1>8, <1>9 DEF IInv

LEMMA ReplaceIInv ==
  ASSUME IInv, NEW k \in Seq(Char), NEW v \in Values, Replace(k, v)
  PROVE  IInv' /\ k \in DOMAIN node
<1>1. /\ pc = "ready" /\ pc' = "ready" /\ Data(k) # NULL /\ node' = [node EXCEPT ![k].data = v]
      /\ root_node' = root_node /\ key' = key /\ value' = value /\ cur' = cur /\ linked' = linked
  BY DEF Replace, callVars
<1>2. ~ Releasing /\ ~ Releasing' /\ Orphan = {} /\ Orphan' = {} /\ Pending = {} /\ Pending' = {}
  BY <1>1 DEF Releasing, Orphan, Pending
<1>3. k \in DOMAIN node /\ node[k].data # NULL /\ v # NULL
  BY <1>1, <1>2, FoundNode, NullAssumption DEF IInv, TypeOK
<1>4. /\ DOMAIN node' = DOMAIN node
      /\ \A w \in DOMAIN node : /\ node'[w].use_count = node[w].use_count /\ node'[w].next = node[w].next
                                /\ node'[w].data = IF w = k THEN v ELSE node[w].data
                                /\ node'[w] \in TrieNode
  BY <1>1 DEF IInv, TypeOK, TrieNode
<1>5. \A w : KeysBelow(w)' = KeysBelow(w)
  BY <1>3, <1>4 DEF KeysBelow
<1>6. \A w \in DOMAIN node : HasParent(w)' = HasParent(w)
  BY <1>1, <1>4 DEF HasParent, Points
<1>7. TypeOK'
  BY <1>1, <1>4 DEF IInv, TypeOK
<1>8. TreeOfNodes'
  BY <1>1, <1>2, <1>4, <1>6 DEF IInv, TreeOfNodes, Rooted, NextClosed
<1>9. Counts'
  BY <1>1, <1>2, <1>4, <1>5 DEF IInv, Counts
<1>10. Path'
  BY <1>1, <1>2 DEF Path
<1> QED BY <1>1, <1>3, <1>4, <1>7, <1>8, <1>9, <1>10 DEF IInv

\* Every node on the path of a key that is removed counts one key too many now.
LEMMA StartRemoveIInv ==
  ASSUME IInv, NEW k \in Seq(Char), StartRemove(k)
  PROVE  IInv' /\ k \in DOMAIN node /\ node[k].data # NULL
<1>1. /\ pc = "ready" /\ pc' = "remove" /\ Data(k) # NULL /\ node' = [node EXCEPT ![k].data = NULL]
      /\ root_node' = root_node /\ key' = k /\ value' = value /\ cur' = Root /\ linked' = TRUE
  BY DEF StartRemove
<1>2. ~ Releasing /\ Orphan = {} /\ Orphan' = {} /\ Pending = {} /\ Root # NULL /\ Len(Root) = 0 /\ Root \in Seq(Char)
  BY <1>1, RootType DEF Releasing, Orphan, Pending
<1>3. k \in DOMAIN node /\ node[k].data # NULL /\ NULL \in Values \cup { NULL }
  BY <1>1, <1>2, FoundNode DEF IInv, TypeOK
<1>4. /\ DOMAIN node' = DOMAIN node
      /\ \A w \in DOMAIN node : /\ node'[w].use_count = node[w].use_count /\ node'[w].next = node[w].next
                                /\ node'[w].data = IF w = k THEN NULL ELSE node[w].data
                                /\ node'[w] \in TrieNode
  BY <1>1, <1>3 DEF IInv, TypeOK, TrieNode
<1>5. \A w : KeysBelow(w)' = KeysBelow(w) \ { k }
  BY <1>4 DEF KeysBelow
<1>6. \A w \in DOMAIN node : HasParent(w)' = HasParent(w)
  BY <1>1, <1>4 DEF HasParent, Points
<1>7. Pending' = { w \in DOMAIN node : HasPrefix(k, w) }
  <2>1. \A w \in DOMAIN node : Len(w) >= 0
    BY DEF IInv, TypeOK
  <2>2. Releasing'
    BY <1>1, <1>2 DEF Releasing
  <2> QED BY <1>1, <1>2, <1>4, <2>1, <2>2 DEF Pending
<1>8. TypeOK'
  BY <1>1, <1>2, <1>4 DEF IInv, TypeOK
<1>9. TreeOfNodes'
  BY <1>1, <1>2, <1>4, <1>6 DEF IInv, TreeOfNodes, Rooted, NextClosed
<1>10. Counts'
  <2>1. ASSUME NEW w \in DOMAIN node
        PROVE  Cardinality(KeysBelow(w)) = Cardinality(KeysBelow(w)') + (IF w \in Pending' THEN 1 ELSE 0)
    <3>1. k \in KeysBelow(w) <=> w \in Pending'
      BY <1>3, <1>7 DEF KeysBelow
    <3>2. Cardinality(KeysBelow(w) \ { k }) =
            IF k \in KeysBelow(w) THEN Cardinality(KeysBelow(w)) - 1 ELSE Cardinality(KeysBelow(w))
      BY FiniteKeys, FS_RemoveElement DEF IInv
    <3>3. Cardinality(KeysBelow(w)) \in Nat
      BY FiniteKeys DEF IInv
    <3>4. Cardinality(KeysBelow(w)') = Cardinality(KeysBelow(w) \ { k })
      BY <1>5
    <3> QED BY <3>1, <3>2, <3>3, <3>4
  <2>2. ASSUME NEW w \in DOMAIN node
        PROVE  node[w].use_count = Cardinality(KeysBelow(w)) /\ node[w].use_count > 0
    <3>1. Cardinality(KeysBelow(w)) \in Nat
      BY FiniteKeys DEF IInv
    <3> QED BY <1>1, <1>2, <3>1 DEF IInv, Counts
  <2> QED BY <1>4, <2>1, <2>2 DEF Counts
<1>11. Path'
  <2>1. Len(k) \in Nat /\ 0 \in 0..Len(k) /\ SubSeq(k, 1, 0) = Root
    BY PathOfKey
  <2>2. Root \in DOMAIN node
    BY <1>1, <1>2, <1>3, <2>1, PrefixesThere DEF IInv, TypeOK
  <2>3. OnPath'
    BY <1>1, <1>2, <2>1 DEF OnPath, At
  <2> QED BY <1>1, <1>2, <1>3, <1>4, <2>2, <2>3 DEF Path
<1> QED BY <1>1, <1>3, <1>4, <1>8, <1>9, <1>10, <1>11 DEF IInv


-----------------------------------------------------------------------------
(* Insertion.                                                              *)

\* The place that an insertion has reached is there exactly if it is linked.
LEMMA InsertPlace ==
  ASSUME IInv, pc = "insert"
  PROVE  /\ cur \in Seq(Char) /\ key \in Seq(Char) /\ Len(cur) \in 0..Len(key) /\ cur = SubSeq(key, 1, Len(cur))
         /\ Orphan = {} /\ ~ Releasing /\ TreeOfNodes /\ DOMAIN node \subseteq Seq(Char)
         /\ Points(cur) <=> cur \in DOMAIN node
         /\ cur # Root => /\ Parent(cur) \in DOMAIN node /\ cur[Len(cur)] \in Char
                          /\ cur = Append(Parent(cur), cur[Len(cur)])
         /\ Pending = { w \in DOMAIN node : HasPrefix(key, w) /\ Len(w) < Len(cur) }
         /\ value # NULL /\ (key \in DOMAIN node => node[key].data = NULL)
<1>1. /\ key \in Seq(Char) /\ cur \in Seq(Char) /\ Len(cur) <= Len(key) /\ cur = At(Len(cur))
      /\ TreeOfNodes /\ DOMAIN node \subseteq Seq(Char)
      /\ \A n \in 0..(Len(cur) - 1) : At(n) \in DOMAIN node
      /\ value # NULL /\ (key \in DOMAIN node => node[key].data = NULL)
  BY DEF IInv, TypeOK, Path, OnPath
<1>2. Len(cur) \in 0..Len(key) /\ cur = SubSeq(key, 1, Len(cur))
  <2>1. Len(cur) \in Nat /\ Len(key) \in Nat
    BY <1>1
  <2> QED BY <1>1, <2>1 DEF At
<1>3. Orphan = {} /\ ~ Releasing /\ Pending = { w \in DOMAIN node : HasPrefix(key, w) /\ Len(w) < Len(cur) }
  BY DEF Orphan, Releasing, Pending
<1>4. ASSUME cur # Root
      PROVE  Parent(cur) \in DOMAIN node /\ cur[Len(cur)] \in Char /\ cur = Append(Parent(cur), cur[Len(cur)])
  <2>1. Len(cur) \in Nat \ { 0 } /\ cur[Len(cur)] \in Char /\ cur = Append(Parent(cur), cur[Len(cur)])
    BY <1>1, <1>4, ParentOf
  <2>2. Len(cur) \in 1..Len(key) /\ Len(cur) - 1 \in 0..(Len(cur) - 1)
    BY <1>2, <2>1
  <2>3. Parent(cur) = At(Len(cur) - 1)
    <3>1. Parent(SubSeq(key, 1, Len(cur))) = SubSeq(key, 1, Len(cur) - 1)
      BY <1>1, <2>2, PathOfKey
    <3> QED BY <1>2, <3>1 DEF At
  <2> QED BY <1>1, <2>1, <2>2, <2>3
<1>5. Points(cur) <=> cur \in DOMAIN node
  BY <1>1, <1>3, <1>4, PointsThere DEF IInv
<1> QED BY <1>1, <1>2, <1>3, <1>4, <1>5

LEMMA WithNodeEffect ==
  ASSUME IInv, pc = "insert"
  PROVE  /\ cur \in DOMAIN WithNode /\ DOMAIN WithNode = DOMAIN node \cup { cur }
         /\ \A w \in DOMAIN node :
              /\ WithNode[w].data = node[w].data /\ WithNode[w].use_count = node[w].use_count
              /\ WithNode[w].next = node[w].next
                   \cup (IF cur # Root /\ w = Parent(cur) THEN { cur[Len(cur)] } ELSE {})
         /\ cur \notin DOMAIN node =>
              WithNode[cur].data = NULL /\ WithNode[cur].use_count = 0 /\ WithNode[cur].next = {}
         /\ \A w \in DOMAIN WithNode : WithNode[w] \in TrieNode
<1> DEFINE new   == [data |-> NULL, use_count |-> 0, next |-> {}]
           grown == [u \in DOMAIN node \cup { cur } |-> IF u = cur THEN new ELSE node[u]]
           full  == [grown EXCEPT ![Parent(cur)].next = @ \cup { cur[Len(cur)] }]
<1>1. \A w \in DOMAIN node : node[w] \in TrieNode
  BY DEF IInv, TypeOK
<1>2. CASE cur \in DOMAIN node
  <2>1. WithNode = node
    BY <1>2, InsertPlace DEF WithNode
  <2>2. cur # Root => cur[Len(cur)] \in node[Parent(cur)].next
    BY <1>2, InsertPlace DEF Points
  <2> QED BY <1>1, <1>2, <2>1, <2>2
<1>3. CASE cur \notin DOMAIN node
  <2>1. WithNode = IF cur = Root THEN grown ELSE full
    BY <1>3, InsertPlace DEF WithNode
  <2>2. /\ DOMAIN grown = DOMAIN node \cup { cur } /\ grown[cur] = new /\ new \in TrieNode
        /\ \A w \in DOMAIN node : grown[w] = node[w]
    BY <1>3 DEF TrieNode
  <2>3. CASE cur = Root
    <3> HIDE DEF grown
    <3> QED BY <1>1, <1>3, <2>1, <2>2, <2>3
  <2>4. CASE cur # Root
    <3>1. Parent(cur) \in DOMAIN node /\ cur[Len(cur)] \in Char
      BY <2>4, InsertPlace
    <3> HIDE DEF grown
    <3>2. /\ DOMAIN full = DOMAIN grown
          /\ \A w \in DOMAIN grown : full[w] = IF w = Parent(cur) THEN [grown[w] EXCEPT !.next = @ \cup { cur[Len(cur)] }]
                                               ELSE grown[w]
      OBVIOUS
    <3>3. Parent(cur) # cur
      BY <1>3, <3>1
    <3> HIDE DEF full, new
    <3>4. full[cur] = new
      BY <3>2, <3>3, <2>2
    <3>5. \A w \in DOMAIN node : full[w] = IF w = Parent(cur) THEN [node[w] EXCEPT !.next = @ \cup { cur[Len(cur)] }]
                                           ELSE node[w]
      BY <3>2, <2>2
    <3>6. \A w \in DOMAIN node : /\ full[w].data = node[w].data /\ full[w].use_count = node[w].use_count
                                 /\ full[w].next = node[w].next \cup (IF w = Parent(cur) THEN { cur[Len(cur)] } ELSE {})
                                 /\ full[w] \in TrieNode
      <4>1. TAKE w \in DOMAIN node
      <4>2. node[w].next \subseteq Char /\ node[w] \in TrieNode
        BY <1>1 DEF TrieNode
      <4>3. CASE w # Parent(cur)
        BY <3>5, <4>2, <4>3
      <4>4. CASE w = Parent(cur)
        <5>1. full[w] = [node[w] EXCEPT !.next = @ \cup { cur[Len(cur)] }]
          BY <3>5, <4>4
        <5>2. node[w].next \cup { cur[Len(cur)] } \in SUBSET Char
          BY <3>1, <4>2
        <5> QED BY <4>2, <4>4, <5>1, <5>2 DEF TrieNode
      <4> QED BY <4>3, <4>4
    <3>7. new.data = NULL /\ new.use_count = 0 /\ new.next = {}
      BY DEF new
    <3> QED BY <2>1, <2>2, <2>4, <3>2, <3>4, <3>6, <3>7
  <2> QED BY <2>3, <2>4
<1> QED BY <1>2, <1>3


\* What one iteration of the insertion makes of the nodes.
LEMMA InsertStepEffect ==
  ASSUME IInv, InsertStep
  PROVE  /\ DOMAIN node' = DOMAIN node \cup { cur }
         /\ \A w \in DOMAIN node :
              /\ node'[w].next = node[w].next \cup (IF cur # Root /\ w = Parent(cur) THEN { cur[Len(cur)] } ELSE {})
              /\ node'[w].use_count = node[w].use_count + (IF w = cur THEN 1 ELSE 0)
              /\ node'[w].data = IF w = cur /\ Len(cur) = Len(key) THEN value ELSE node[w].data
         /\ cur \notin DOMAIN node =>
              /\ node'[cur].next = {} /\ node'[cur].use_count = 1
              /\ node'[cur].data = IF Len(cur) = Len(key) THEN value ELSE NULL
         /\ \A w \in DOMAIN node' : node'[w] \in TrieNode
<1> DEFINE W == WithNode
<1>1. /\ cur \in DOMAIN W /\ DOMAIN W = DOMAIN node \cup { cur }
      /\ \A w \in DOMAIN node :
           /\ W[w].data = node[w].data /\ W[w].use_count = node[w].use_count
           /\ W[w].next = node[w].next \cup (IF cur # Root /\ w = Parent(cur) THEN { cur[Len(cur)] } ELSE {})
      /\ cur \notin DOMAIN node => W[cur].data = NULL /\ W[cur].use_count = 0 /\ W[cur].next = {}
      /\ \A w \in DOMAIN W : W[w] \in TrieNode
  BY WithNodeEffect DEF InsertStep
<1>2. node' = IF Len(cur) = Len(key) THEN [W EXCEPT ![cur].use_count = @ + 1, ![cur].data = value]
              ELSE [W EXCEPT ![cur].use_count = @ + 1]
  BY DEF InsertStep
<1>3. value \in Values \cup { NULL }
  BY DEF IInv, TypeOK
<1> HIDE DEF W
<1>4. /\ DOMAIN node' = DOMAIN W
      /\ \A w \in DOMAIN W \ { cur } : node'[w] = W[w]
      /\ node'[cur].next = W[cur].next /\ node'[cur].use_count = W[cur].use_count + 1
      /\ node'[cur].data = IF Len(cur) = Len(key) THEN value ELSE W[cur].data
      /\ node'[cur] \in TrieNode
  <2>1. CASE Len(cur) = Len(key)
    <3>1. node' = [W EXCEPT ![cur].use_count = @ + 1, ![cur].data = value]
      BY <1>2, <2>1
    <3>2. W[cur] \in TrieNode /\ DOMAIN node' = DOMAIN W /\ \A w \in DOMAIN W \ { cur } : node'[w] = W[w]
      BY <1>1, <3>1
    <3>3. node'[cur] = [W[cur] EXCEPT !.use_count = @ + 1, !.data = value]
      BY <1>1, <3>1
    <3>4. /\ node'[cur].next = W[cur].next /\ node'[cur].use_count = W[cur].use_count + 1
          /\ node'[cur].data = value /\ node'[cur] \in TrieNode
      <4> DEFINE r == W[cur]
                 n == node'[cur]
      <4>1. r \in TrieNode /\ n = [r EXCEPT !.use_count = @ + 1, !.data = value]
        BY <3>2, <3>3
      <4> HIDE DEF r, n
      <4>2. n.next = r.next /\ n.use_count = r.use_count + 1 /\ n.data = value
        BY <4>1 DEF TrieNode
      <4>3. n \in TrieNode
        <5> DEFINE q == [r EXCEPT !.use_count = @ + 1]
        <5>1. q \in TrieNode
          BY <4>1 DEF TrieNode
        <5>2. n = [q EXCEPT !.data = value]
          BY <4>1
        <5> HIDE DEF q
        <5> QED BY <1>3, <5>1, <5>2 DEF TrieNode
      <4> QED BY <4>2, <4>3 DEF r, n
    <3> QED BY <2>1, <3>2, <3>4
  <2>2. CASE Len(cur) # Len(key)
    <3>1. node' = [W EXCEPT ![cur].use_count = @ + 1]
      BY <1>2, <2>2
    <3> QED BY <1>1, <1>3, <2>2, <3>1 DEF TrieNode
  <2> QED BY <2>1, <2>2
<1>5. \A w \in DOMAIN node : node[w].use_count \in Nat
  BY DEF IInv, TypeOK, TrieNode
<1>6. ASSUME NEW w \in DOMAIN node
      PROVE  /\ node'[w].next = node[w].next \cup (IF cur # Root /\ w = Parent(cur) THEN { cur[Len(cur)] } ELSE {})
             /\ node'[w].use_count = node[w].use_count + (IF w = cur THEN 1 ELSE 0)
             /\ node'[w].data = IF w = cur /\ Len(cur) = Len(key) THEN value ELSE node[w].data
  <2>1. CASE w = cur
    BY <1>1, <1>4, <2>1
  <2>2. CASE w # cur
    BY <1>1, <1>4, <1>5, <2>2
  <2> QED BY <2>1, <2>2
<1>7. \A w \in DOMAIN node' : node'[w] \in TrieNode
  BY <1>1, <1>4
<1>8. cur \notin DOMAIN node =>
        /\ node'[cur].next = {} /\ node'[cur].use_count = 1
        /\ node'[cur].data = IF Len(cur) = Len(key) THEN value ELSE NULL
  BY <1>1, <1>4
<1> QED BY <1>1, <1>4, <1>6, <1>7, <1>8

LEMMA InsertStepTree ==
  ASSUME IInv, InsertStep
  PROVE  TreeOfNodes' /\ IsFiniteSet(DOMAIN node') /\ \A w \in DOMAIN node' : IsFiniteSet(node'[w].next)
<1>1. pc = "insert" /\ root_node' = TRUE /\ pc' \in { "insert", "ready" }
  BY DEF InsertStep, Return
<1>2. Orphan' = {}
  BY <1>1 DEF Orphan, Releasing
<1>3. Root \in DOMAIN node'
  <2>1. CASE cur = Root
    BY <2>1, InsertStepEffect
  <2>2. CASE cur # Root
    <3>1. Parent(cur) \in DOMAIN node /\ Parent(cur) \in Seq(Char)
      BY <1>1, <2>2, InsertPlace
    <3>2. 0 \in 0..Len(Parent(cur)) /\ SubSeq(Parent(cur), 1, 0) = Root
      BY <3>1, PathOfKey
    <3>3. Root \in DOMAIN node
      BY <1>1, <3>1, <3>2, InsertPlace, PrefixesThere
    <3> QED BY <3>3, InsertStepEffect
  <2> QED BY <2>1, <2>2
<1>4. NextClosed'
  <2> SUFFICES ASSUME NEW w \in DOMAIN node', NEW c \in node'[w].next PROVE Append(w, c) \in DOMAIN node'
    BY DEF NextClosed
  <2>1. CASE w \in DOMAIN node /\ c \in node[w].next
    BY <1>1, <2>1, InsertStepEffect, InsertPlace DEF TreeOfNodes, NextClosed
  <2>2. CASE w \in DOMAIN node /\ c \notin node[w].next
    <3>1. cur # Root /\ w = Parent(cur) /\ c = cur[Len(cur)]
      BY <2>2, InsertStepEffect
    <3>2. Append(w, c) = cur
      BY <1>1, <3>1, InsertPlace
    <3> QED BY <3>2, InsertStepEffect
  <2>3. CASE w \notin DOMAIN node
    BY <2>3, InsertStepEffect
  <2> QED BY <2>1, <2>2, <2>3
<1>5. ASSUME NEW w \in DOMAIN node', w # Root PROVE HasParent(w)'
  <2>1. \A u \in DOMAIN node : u \in DOMAIN node' /\ node[u].next \subseteq node'[u].next
    BY InsertStepEffect
  <2>2. CASE w \in DOMAIN node
    <3>1. Parent(w) \in DOMAIN node /\ w[Len(w)] \in node[Parent(w)].next
      BY <1>1, <1>5, <2>2, InsertPlace DEF TreeOfNodes, HasParent, Points
    <3> QED BY <1>5, <2>1, <3>1 DEF HasParent, Points
  <2>3. CASE w = cur
    <3>1. Parent(w) \in DOMAIN node
      BY <1>1, <1>5, <2>3, InsertPlace
    <3>2. w[Len(w)] \in node'[Parent(w)].next
      BY <1>5, <2>3, <3>1, InsertStepEffect
    <3> QED BY <1>5, <2>1, <3>1, <3>2 DEF HasParent, Points
  <2> QED BY <2>2, <2>3, InsertStepEffect
<1>6. IsFiniteSet(DOMAIN node')
  <2>1. IsFiniteSet(DOMAIN node \cup { cur })
    BY FS_AddElement DEF IInv
  <2> QED BY <2>1, InsertStepEffect
<1>7. ASSUME NEW w \in DOMAIN node' PROVE IsFiniteSet(node'[w].next)
  <2>1. CASE w \in DOMAIN node
    <3>1. IsFiniteSet(node[w].next)
      BY <2>1 DEF IInv
    <3>2. IsFiniteSet(node[w].next \cup { cur[Len(cur)] })
      BY <3>1, FS_AddElement
    <3>3. node'[w].next = node[w].next \/ node'[w].next = node[w].next \cup { cur[Len(cur)] }
      BY <2>1, InsertStepEffect, ZenonT(40)
    <3> QED BY <3>1, <3>2, <3>3
  <2>2. CASE w \notin DOMAIN node
    BY <2>2, InsertStepEffect, FS_EmptySet
  <2> QED BY <2>1, <2>2
<1> QED BY <1>1, <1>2, <1>3, <1>4, <1>5, <1>6, <1>7 DEF TreeOfNodes, Rooted

\* The key counts where it has a value, that is, after the last step.
LEMMA InsertStepKeys ==
  ASSUME IInv, InsertStep, NEW w
  PROVE  /\ Len(cur) # Len(key) => KeysBelow(w)' = KeysBelow(w)
         /\ Len(cur) = Len(key) =>
              /\ cur = key /\ key \notin KeysBelow(w)
              /\ KeysBelow(w)' = KeysBelow(w) \cup (IF HasPrefix(key, w) THEN { key } ELSE {})
<1>1. pc = "insert" /\ value # NULL /\ (key \in DOMAIN node => node[key].data = NULL)
  BY InsertPlace DEF InsertStep
<1>2. Len(cur) # Len(key) => KeysBelow(w)' = KeysBelow(w)
  BY InsertStepEffect DEF KeysBelow
<1>3. ASSUME Len(cur) = Len(key)
      PROVE  /\ cur = key /\ key \notin KeysBelow(w)
             /\ KeysBelow(w)' = KeysBelow(w) \cup (IF HasPrefix(key, w) THEN { key } ELSE {})
  <2>1. cur = key
    BY <1>1, <1>3, InsertPlace, PathOfKey
  <2>2. key \notin KeysBelow(w)
    BY <1>1 DEF KeysBelow
  <2>3. node'[key].data # NULL /\ key \in DOMAIN node' /\ DOMAIN node' = DOMAIN node \cup { key }
    BY <1>1, <1>3, <2>1, InsertStepEffect
  <2>4. \A u \in DOMAIN node \ { key } : node'[u].data = node[u].data
    BY <2>1, InsertStepEffect
  <2> QED BY <2>1, <2>2, <2>3, <2>4 DEF KeysBelow
<1> QED BY <1>2, <1>3


LEMMA InsertStepCounts == ASSUME IInv, InsertStep PROVE Counts'
<1>1. /\ pc = "insert" /\ cur \in Seq(Char) /\ key \in Seq(Char) /\ Len(cur) \in 0..Len(key)
      /\ Len(key) \in Nat /\ cur = SubSeq(key, 1, Len(cur)) /\ HasPrefix(key, cur)
      /\ DOMAIN node \subseteq Seq(Char)
      /\ Pending = { w \in DOMAIN node : HasPrefix(key, w) /\ Len(w) < Len(cur) }
  <2>1. pc = "insert"
    BY DEF InsertStep
  <2>2. key \in Seq(Char) => Len(key) \in Nat
    OBVIOUS
  <2>3. Len(cur) \in 0..Len(key) => Len(cur) <= Len(key)
    OBVIOUS
  <2> QED BY <2>1, <2>2, <2>3, InsertPlace, PrefixIs
<1>2. ASSUME NEW w \in DOMAIN node'
      PROVE  /\ Cardinality(KeysBelow(w)) \in Nat /\ IsFiniteSet(KeysBelow(w))
             /\ Len(cur) # Len(key) => Cardinality(KeysBelow(w)') = Cardinality(KeysBelow(w))
             /\ Len(cur) = Len(key) => Cardinality(KeysBelow(w)') =
                  Cardinality(KeysBelow(w)) + (IF HasPrefix(key, w) THEN 1 ELSE 0)
  <2>1. Cardinality(KeysBelow(w)) \in Nat /\ IsFiniteSet(KeysBelow(w))
    BY FiniteKeys DEF IInv
  <2>2. CASE Len(cur) # Len(key)
    <3>1. KeysBelow(w)' = KeysBelow(w)
      BY <2>2, InsertStepKeys
    <3> QED BY <2>1, <2>2, <3>1
  <2>3. CASE Len(cur) = Len(key) /\ HasPrefix(key, w)
    <3>1. KeysBelow(w)' = KeysBelow(w) \cup { key } /\ key \notin KeysBelow(w)
      BY <2>3, InsertStepKeys
    <3>2. Cardinality(KeysBelow(w) \cup { key }) = Cardinality(KeysBelow(w)) + 1
      BY <2>1, <3>1, FS_AddElement
    <3> QED BY <2>1, <2>3, <3>1, <3>2
  <2>4. CASE Len(cur) = Len(key) /\ ~ HasPrefix(key, w)
    <3>1. KeysBelow(w)' = KeysBelow(w)
      BY <2>4, InsertStepKeys
    <3> QED BY <2>1, <2>4, <3>1
  <2> QED BY <2>2, <2>3, <2>4
<1>3. ASSUME NEW w \in DOMAIN node'
      PROVE  w \in Pending' <=> Len(cur) # Len(key) /\ HasPrefix(key, w) /\ Len(w) < Len(cur) + 1
  <2>1. CASE Len(cur) = Len(key)
    <3>1. pc' = "ready"
      BY <2>1 DEF InsertStep, Return
    <3> QED BY <2>1, <3>1 DEF Pending, Releasing
  <2>2. CASE Len(cur) # Len(key)
    <3>1. pc' = "insert" /\ key' = key /\ cur' = At(Len(cur) + 1) /\ Len(cur) + 1 \in 0..Len(key)
      BY <1>1, <2>2 DEF InsertStep
    <3>2. Len(cur') = Len(cur) + 1
      BY <1>1, <3>1, PrefixOfKey DEF At
    <3> QED BY <2>2, <3>1, <3>2 DEF Pending, Releasing
  <2> QED BY <2>1, <2>2
<1>4. ASSUME NEW w \in DOMAIN node'
      PROVE  HasPrefix(key, w) /\ ~ (Len(w) < Len(cur)) /\ Len(w) < Len(cur) + 1 <=> w = cur
  <2>1. w \in Seq(Char) /\ Len(w) \in Nat /\ Len(cur) \in Nat
    BY <1>1, InsertStepEffect
  <2>2. ASSUME HasPrefix(key, w), Len(w) = Len(cur) PROVE w = cur
    BY <1>1, <2>1, <2>2, PrefixIs
  <2> QED BY <1>1, <2>1, <2>2
<1>5. \A w \in DOMAIN node' : HasPrefix(key, w) /\ Len(cur) = Len(key) => Len(w) < Len(cur) + 1
  <2>1. \A w \in DOMAIN node' : w \in Seq(Char)
    BY <1>1, InsertStepEffect
  <2> QED BY <1>1, <2>1 DEF HasPrefix
<1>6. ASSUME NEW w \in DOMAIN node
      PROVE  node'[w].use_count = Cardinality(KeysBelow(w)') + (IF w \in Pending' THEN 1 ELSE 0)
  <2>1. node'[w].use_count = node[w].use_count + (IF w = cur THEN 1 ELSE 0) /\ w \in DOMAIN node'
    BY InsertStepEffect
  <2>2. node[w].use_count = Cardinality(KeysBelow(w))
          + (IF HasPrefix(key, w) /\ Len(w) < Len(cur) THEN 1 ELSE 0)
    BY <1>1 DEF IInv, Counts
  <2> DEFINE old == Cardinality(KeysBelow(w))
  <2>3. old \in Nat /\ Cardinality(KeysBelow(w)') = old + (IF Len(cur) = Len(key) /\ HasPrefix(key, w) THEN 1 ELSE 0)
    BY <1>2, <2>1
  <2> HIDE DEF old
  <2>4. w = cur => HasPrefix(key, w) /\ ~ (Len(w) < Len(cur)) /\ Len(w) < Len(cur) + 1
    BY <1>4, <2>1
  <2>5. HasPrefix(key, w) /\ Len(w) < Len(cur) + 1 => w = cur \/ Len(w) < Len(cur)
    BY <1>4, <2>1
  <2>6. Len(w) < Len(cur) => Len(w) < Len(cur) + 1
    BY <1>1
  <2>7. w \in Pending' <=> Len(cur) # Len(key) /\ HasPrefix(key, w) /\ Len(w) < Len(cur) + 1
    BY <1>3, <2>1
  <2>8. Len(cur) = Len(key) /\ HasPrefix(key, w) => Len(w) < Len(cur) + 1
    BY <1>5, <2>1
  <2>9. node[w].use_count = old + (IF HasPrefix(key, w) /\ Len(w) < Len(cur) THEN 1 ELSE 0)
    BY <2>2 DEF old
  <2> DEFINE here == HasPrefix(key, w)
             upto == Len(w) < Len(cur) + 1
             shorter == Len(w) < Len(cur)
             final == Len(cur) = Len(key)
  <2> HIDE DEF here, upto, shorter, final
  <2>10. (IF here /\ shorter THEN 1 ELSE 0) + (IF w = cur THEN 1 ELSE 0)
           = (IF final /\ here THEN 1 ELSE 0) + (IF w \in Pending' THEN 1 ELSE 0)
    BY <2>4, <2>5, <2>6, <2>7, <2>8 DEF here, upto, shorter, final
  <2> QED BY <2>1, <2>3, <2>9, <2>10 DEF here, shorter, final
<1>7. ASSUME NEW w \in DOMAIN node', w \notin DOMAIN node
      PROVE  1 = Cardinality(KeysBelow(w)') + (IF w \in Pending' THEN 1 ELSE 0)
  <2>1. w = cur
    BY <1>7, InsertStepEffect
  <2>2. KeysBelow(w) = {}
    <3> SUFFICES ASSUME NEW u \in DOMAIN node, HasPrefix(u, cur) PROVE FALSE
      BY <2>1 DEF KeysBelow
    <3>1. u \in Seq(Char) /\ Len(cur) \in 0..Len(u) /\ cur = SubSeq(u, 1, Len(cur))
      BY <1>1, PrefixIs DEF HasPrefix
    <3>2. SubSeq(u, 1, Len(cur)) \in DOMAIN node
      BY <1>1, <3>1, InsertPlace, PrefixesThere
    <3> QED BY <1>7, <2>1, <3>1, <3>2
  <2>3. Cardinality(KeysBelow(w)) = 0
    BY <2>2, FS_EmptySet
  <2>4. HasPrefix(key, w) /\ Len(w) < Len(cur) + 1
    BY <1>1, <1>4, <2>1
  <2>5. Cardinality(KeysBelow(w)') = IF Len(cur) = Len(key) THEN 1 ELSE 0
    BY <1>2, <2>3, <2>4
  <2>6. w \in Pending' <=> Len(cur) # Len(key)
    BY <1>3, <2>4
  <2> QED BY <2>5, <2>6
<1>8. ASSUME NEW w \in DOMAIN node' PROVE node'[w].use_count > 0
  <2>1. CASE w \in DOMAIN node
    <3>1. node[w].use_count \in Nat /\ node[w].use_count > 0
      BY <1>1, <2>1 DEF IInv, Counts, TypeOK, TrieNode
    <3> QED BY <2>1, <3>1, InsertStepEffect
  <2>2. CASE w \notin DOMAIN node
    BY <2>2, InsertStepEffect
  <2> QED BY <2>1, <2>2
<1>9. ASSUME NEW w \in DOMAIN node'
      PROVE  node'[w].use_count = Cardinality(KeysBelow(w)') + (IF w \in Pending' THEN 1 ELSE 0)
  <2>1. CASE w \in DOMAIN node
    BY <2>1, <1>6
  <2>2. CASE w \notin DOMAIN node
    <3>1. node'[w].use_count = 1
      BY <2>2, InsertStepEffect
    <3> QED BY <2>2, <3>1, <1>7
  <2> QED BY <2>1, <2>2
<1> QED BY <1>8, <1>9 DEF Counts

LEMMA InsertStepIInv == ASSUME IInv, InsertStep PROVE IInv'
<1>1. pc = "insert" /\ root_node' = TRUE
  BY DEF InsertStep
<1>2. /\ cur \in Seq(Char) /\ key \in Seq(Char) /\ Len(cur) \in 0..Len(key) /\ Len(key) \in Nat
      /\ cur = SubSeq(key, 1, Len(cur)) /\ DOMAIN node \subseteq Seq(Char)
      /\ (key \in DOMAIN node => node[key].data = NULL)
  <2>1. key \in Seq(Char) => Len(key) \in Nat
    OBVIOUS
  <2> QED BY <1>1, <2>1, InsertPlace
<1>3. CASE Len(cur) = Len(key)
  <2>1. pc' = "ready" /\ key' = Root /\ value' = NULL /\ cur' = NULL /\ linked' = FALSE
    BY <1>3 DEF InsertStep, Return, Root
  <2>2. ~ Releasing'
    BY <2>1 DEF Releasing
  <2>3. Path'
    BY <2>1, <2>2 DEF Path
  <2>4. node' \in [DOMAIN node' -> TrieNode] /\ DOMAIN node' \subseteq Seq(Char)
    <3>1. node' = [w \in DOMAIN node' |-> node'[w]]
      BY <1>3 DEF InsertStep
    <3> QED BY <3>1, <1>2, InsertStepEffect
  <2>5. TypeOK'
    BY <1>1, <2>1, <2>4, RootType DEF TypeOK
  <2> QED BY <2>1, <2>3, <2>5, InsertStepTree, InsertStepCounts DEF IInv
<1>4. CASE Len(cur) # Len(key)
  <2>1. /\ pc' = "insert" /\ key' = key /\ value' = value /\ cur' = SubSeq(key, 1, Len(cur) + 1)
        /\ linked' = linked /\ Len(cur) + 1 \in 0..Len(key)
    BY <1>2, <1>4 DEF InsertStep, At
  <2>2. cur' \in Seq(Char) /\ Len(cur') = Len(cur) + 1 /\ cur' # NULL
    BY <1>2, <2>1, PrefixOfKey, NullAssumption
  <2>3. ~ Releasing'
    BY <2>1 DEF Releasing
  <2>4. OnPath'
    BY <2>1, <2>2 DEF OnPath, At
  <2>5. \A n \in 0..(Len(cur') - 1) : SubSeq(key, 1, n) \in DOMAIN node'
    <3>1. TAKE n \in 0..(Len(cur') - 1)
    <3>2. CASE n = Len(cur)
      BY <1>2, <3>2, InsertStepEffect
    <3>3. CASE n # Len(cur)
      <4>1. n \in 0..(Len(cur) - 1)
        <5>1. Len(cur) \in Nat /\ n \in 0..(Len(cur) + 1 - 1)
          BY <1>2, <2>2
        <5> QED BY <3>3, <5>1
      <4>2. SubSeq(key, 1, n) \in DOMAIN node
        BY <1>1, <4>1 DEF IInv, Path, At
      <4> QED BY <4>2, InsertStepEffect
    <3> QED BY <3>2, <3>3
  <2>6. key \in DOMAIN node' => node'[key].data = NULL
    <3>1. key # cur
      BY <1>4
    <3> QED BY <1>2, <3>1, InsertStepEffect
  <2>7. Path'
    BY <1>1, <2>1, <2>3, <2>4, <2>5, <2>6, InsertPlace DEF Path, At
  <2>8. node' \in [DOMAIN node' -> TrieNode] /\ DOMAIN node' \subseteq Seq(Char)
    <3>1. node' = [w \in DOMAIN node' |-> node'[w]]
      BY <1>4 DEF InsertStep
    <3> QED BY <3>1, <1>2, InsertStepEffect
  <2>9. TypeOK'
    BY <1>1, <2>1, <2>2, <2>8 DEF IInv, TypeOK
  <2> QED BY <2>1, <2>7, <2>9, InsertStepTree, InsertStepCounts DEF IInv
<1> QED BY <1>3, <1>4


\* The nodes that count the key of a failed insertion are those on its path.
LEMMA InsertFailsIInv == ASSUME IInv, InsertFails PROVE IInv'
<1>1. /\ pc = "insert" /\ pc' = "rollback" /\ ~ Points(cur) /\ linked' = TRUE
      /\ cur' = (IF root_node THEN Root ELSE NULL)
      /\ node' = node /\ root_node' = root_node /\ key' = key /\ value' = value
  BY DEF InsertFails
<1>2. /\ cur \in Seq(Char) /\ key \in Seq(Char) /\ Len(cur) \in 0..Len(key) /\ cur = SubSeq(key, 1, Len(cur))
      /\ Orphan = {} /\ ~ Releasing /\ TreeOfNodes /\ DOMAIN node \subseteq Seq(Char) /\ cur \notin DOMAIN node
      /\ Pending = { w \in DOMAIN node : HasPrefix(key, w) /\ Len(w) < Len(cur) }
  BY <1>1, InsertPlace
<1>3. Len(key) \in Nat /\ Len(cur) \in Nat
  BY <1>2
<1>4. ASSUME NEW w \in DOMAIN node, HasPrefix(key, w) PROVE Len(w) < Len(cur)
  <2> SUFFICES ASSUME ~ (Len(w) < Len(cur)) PROVE FALSE
    OBVIOUS
  <2>1. w \in Seq(Char) /\ Len(w) \in 0..Len(key) /\ w = SubSeq(key, 1, Len(w)) /\ Len(cur) \in 0..Len(w)
    BY <1>2, <1>3, <1>4, PrefixIs
  <2>2. HasPrefix(w, cur)
    <3>1. DOMAIN cur = 1..Len(cur) /\ \A m \in 1..Len(cur) : cur[m] = key[m]
      BY <1>2, PrefixOfKey
    <3>2. \A m \in 1..Len(w) : w[m] = key[m]
      BY <1>2, <2>1, PrefixOfKey
    <3>3. Len(cur) <= Len(w) /\ \A m \in 1..Len(cur) : w[m] = cur[m]
      BY <2>1, <3>1, <3>2
    <3> QED BY <3>1, <3>3 DEF HasPrefix
  <2>3. SubSeq(w, 1, Len(cur)) \in DOMAIN node /\ cur = SubSeq(w, 1, Len(cur))
    BY <1>2, <2>1, <2>2, PrefixesThere, PrefixIs
  <2> QED BY <1>2, <2>3
<1>5. key \notin DOMAIN node
  <2>1. HasPrefix(key, key)
    BY <1>3, PrefixItself
  <2>2. ~ (Len(key) < Len(cur))
    BY <1>2, <1>3
  <2> QED BY <1>4, <2>1, <2>2
<1>6. Pending' = Pending
  <2>1. CASE root_node
    <3>1. Releasing' /\ Len(cur') = 0
      BY <1>1, <2>1, RootType DEF Releasing
    <3>2. \A w \in DOMAIN node : Len(w) >= 0
      BY <1>2
    <3> QED BY <1>1, <1>2, <1>4, <3>1, <3>2 DEF Pending
  <2>2. CASE ~ root_node
    <3>1. ~ Releasing'
      BY <1>1, <2>2 DEF Releasing
    <3>2. Root \notin DOMAIN node
      BY <1>2, <2>2 DEF TreeOfNodes, Rooted
    <3>3. ASSUME NEW w \in DOMAIN node PROVE FALSE
      <4>1. w \in Seq(Char) /\ 0 \in 0..Len(w)
        BY <1>2
      <4>2. SubSeq(w, 1, 0) \in DOMAIN node
        BY <1>2, <4>1, PrefixesThere
      <4> QED BY <3>2, <4>1, <4>2, PathOfKey
    <3> QED BY <1>1, <1>2, <3>1, <3>3 DEF Pending
  <2> QED BY <2>1, <2>2
<1>7. \A w : KeysBelow(w)' = KeysBelow(w) /\ Points(w)' = Points(w)
  BY <1>1 DEF KeysBelow, Points
<1>8. Orphan' = {}
  BY <1>1 DEF Orphan
<1>9. TypeOK'
  BY <1>1, RootType DEF IInv, TypeOK
<1>10. TreeOfNodes'
  BY <1>1, <1>2, <1>7, <1>8 DEF IInv, TreeOfNodes, Rooted, NextClosed, HasParent
<1>11. Counts'
  BY <1>1, <1>6, <1>7 DEF IInv, Counts
<1>12. Path'
  <2>1. Len(Root) <= Len(key) /\ Root = SubSeq(key, 1, Len(Root))
    BY <1>2, <1>3, RootType, PathOfKey
  <2>2. root_node => Root \in DOMAIN node
    BY <1>2 DEF TreeOfNodes, Rooted
  <2> QED BY <1>1, <1>5, <2>1, <2>2 DEF Path, OnPath, At, Releasing
<1> QED BY <1>1, <1>9, <1>10, <1>11, <1>12 DEF IInv

-----------------------------------------------------------------------------
(* The use counts on a path go down, after a removal or a failed insertion.*)

LEMMA ReleasePlace ==
  ASSUME IInv, pc \in { "rollback", "remove" }, cur # NULL
  PROVE  /\ Releasing /\ cur \in DOMAIN node /\ cur \in Seq(Char) /\ key \in Seq(Char)
         /\ Len(cur) \in 0..Len(key) /\ cur = SubSeq(key, 1, Len(cur)) /\ HasPrefix(key, cur)
         /\ TreeOfNodes /\ DOMAIN node \subseteq Seq(Char)
         /\ Orphan = (IF linked THEN {} ELSE { cur })
         /\ Pending = { w \in DOMAIN node : HasPrefix(key, w) /\ Len(w) >= Len(cur) }
         /\ cur \in Pending /\ node[cur].use_count = Cardinality(KeysBelow(cur)) + 1
         /\ IsFiniteSet(KeysBelow(cur)) /\ Cardinality(KeysBelow(cur)) \in Nat
<1>1. /\ Releasing /\ cur \in DOMAIN node /\ cur \in Seq(Char) /\ key \in Seq(Char)
      /\ Len(cur) <= Len(key) /\ cur = SubSeq(key, 1, Len(cur))
      /\ TreeOfNodes /\ Counts /\ DOMAIN node \subseteq Seq(Char)
  BY DEF IInv, TypeOK, Path, Releasing, OnPath, At
<1>2. Len(cur) \in Nat /\ Len(key) \in Nat
  BY <1>1
<1>3. HasPrefix(key, cur)
  BY <1>1, PrefixIs
<1>4. Orphan = (IF linked THEN {} ELSE { cur })
  BY <1>1 DEF Orphan
<1>5. Pending = { w \in DOMAIN node : HasPrefix(key, w) /\ Len(w) >= Len(cur) }
  BY <1>1 DEF Pending, Releasing
<1>6. cur \in Pending
  BY <1>1, <1>2, <1>3, <1>5
<1>7. node[cur].use_count = Cardinality(KeysBelow(cur)) + 1
  BY <1>1, <1>6 DEF Counts
<1>8. IsFiniteSet(KeysBelow(cur)) /\ Cardinality(KeysBelow(cur)) \in Nat
  BY FiniteKeys DEF IInv
<1> QED BY <1>1, <1>2, <1>3, <1>4, <1>5, <1>6, <1>7, <1>8

\* What remains of the pointers leads to what remains of the nodes.
LEMMA ReleaseEffect ==
  ASSUME IInv, pc \in { "rollback", "remove" }, cur # NULL, Release
  PROVE  /\ \A w \in DOMAIN node' :
              /\ w \in DOMAIN node /\ node'[w] \in TrieNode /\ node'[w].data = node[w].data
              /\ node'[w].use_count = node[w].use_count - (IF w = cur THEN 1 ELSE 0)
              /\ node'[w].next = { c \in node[w].next : Append(w, c) \in DOMAIN node' }
         /\ \/ /\ cur \in DOMAIN node' /\ DOMAIN node' = DOMAIN node
               /\ node[cur].use_count # 1 /\ linked /\ KeysBelow(cur) # {}
            \/ /\ cur \notin DOMAIN node' /\ DOMAIN node' = DOMAIN node \ { cur }
               /\ node[cur].use_count = 1 /\ KeysBelow(cur) = {}
         /\ root_node' = (Root \in DOMAIN node') /\ root_node' \in BOOLEAN
         /\ node' \in [DOMAIN node' -> TrieNode]
<1>1. /\ cur \in DOMAIN node /\ cur \in Seq(Char) /\ TreeOfNodes /\ DOMAIN node \subseteq Seq(Char)
      /\ node[cur].use_count = Cardinality(KeysBelow(cur)) + 1
      /\ IsFiniteSet(KeysBelow(cur)) /\ Cardinality(KeysBelow(cur)) \in Nat
      /\ Orphan = (IF linked THEN {} ELSE { cur })
  BY ReleasePlace
<1>2. /\ \A w \in DOMAIN node : node[w] \in TrieNode /\ node[w].next \subseteq Char
      /\ node \in [DOMAIN node -> TrieNode] /\ root_node \in BOOLEAN /\ linked \in BOOLEAN
      /\ root_node = (Root \in DOMAIN node)
      /\ \A w \in DOMAIN node : \A c \in node[w].next : Append(w, c) \in DOMAIN node
  BY <1>1 DEF IInv, TypeOK, TreeOfNodes, Rooted, NextClosed, TrieNode
<1>3. KeysBelow(cur) = {} <=> node[cur].use_count - 1 = 0
  BY <1>1, FS_EmptySet
<1>4. CASE node[cur].use_count - 1 = 0
  <2> DEFINE R == IF linked THEN Reset(node, cur) ELSE node
  <2>1. /\ node' = [u \in DOMAIN R \ { cur } |-> R[u]]
        /\ root_node' = (root_node /\ ~ (linked /\ cur = Root))
    BY <1>4 DEF Release, Freed
  <2>2. /\ DOMAIN R = DOMAIN node
        /\ \A w \in DOMAIN node \ { cur } :
             /\ R[w] \in TrieNode /\ R[w].data = node[w].data /\ R[w].use_count = node[w].use_count
             /\ R[w].next = { c \in node[w].next : Append(w, c) # cur }
    <3>1. CASE linked /\ cur # Root
      <4>1. Parent(cur) \in DOMAIN node /\ Parent(cur) \in Seq(Char) /\ cur = Append(Parent(cur), cur[Len(cur)])
        BY <1>1, <3>1, ParentOf DEF TreeOfNodes, HasParent
      <4>2. R = [node EXCEPT ![Parent(cur)].next = @ \ { cur[Len(cur)] }]
        BY <3>1 DEF Reset
      <4>3. ASSUME NEW w \in DOMAIN node, NEW c \in node[w].next
            PROVE  Append(w, c) = cur <=> w = Parent(cur) /\ c = cur[Len(cur)]
        <5>1. w \in Seq(Char) /\ c \in Char
          BY <1>1, <1>2
        <5>2. Parent(Append(w, c)) = w /\ Append(w, c)[Len(Append(w, c))] = c
          BY <5>1, ChildOf
        <5> QED BY <4>1, <5>2
      <4> DEFINE v == Parent(cur)
                 l == cur[Len(cur)]
      <4> HIDE DEF R, v, l
      <4>4. /\ DOMAIN R = DOMAIN node
            /\ \A w \in DOMAIN node : R[w] = IF w = v THEN [node[w] EXCEPT !.next = @ \ { l }] ELSE node[w]
        BY <4>2 DEF v, l
      <4>5. ASSUME NEW w \in DOMAIN node
            PROVE  /\ R[w] \in TrieNode /\ R[w].data = node[w].data /\ R[w].use_count = node[w].use_count
                   /\ R[w].next = { c \in node[w].next : ~ (w = v /\ c = l) }
        <5>1. CASE w = v
          <6>1. R[w] = [node[w] EXCEPT !.next = @ \ { l }] /\ node[w] \in TrieNode
            BY <1>2, <4>4, <5>1
          <6>2. R[w] \in TrieNode /\ R[w].data = node[w].data /\ R[w].use_count = node[w].use_count
                /\ R[w].next = node[w].next \ { l }
            BY <6>1 DEF TrieNode
          <6> QED BY <5>1, <6>2
        <5>2. CASE w # v
          BY <1>2, <4>4, <5>2
        <5> QED BY <5>1, <5>2
      <4> QED BY <4>3, <4>4, <4>5 DEF v, l
    <3>2. CASE ~ linked \/ cur = Root
      <4>1. R = node
        BY <3>2 DEF Reset
      <4>2. ASSUME NEW w \in DOMAIN node \ { cur }, NEW c \in node[w].next PROVE Append(w, c) # cur
        <5>1. w \in Seq(Char) /\ c \in Char
          BY <1>1, <1>2
        <5>2. Append(w, c) # Root /\ Parent(Append(w, c)) = w
          BY <5>1, ChildOf
        <5>3. ~ linked => Parent(cur) \notin DOMAIN node
          BY <1>1 DEF TreeOfNodes
        <5> QED BY <3>2, <5>2, <5>3
      <4> QED BY <1>2, <4>1, <4>2
    <3> QED BY <3>1, <3>2, <1>2
  <2> HIDE DEF R
  <2>3. DOMAIN node' = DOMAIN node \ { cur } /\ \A w \in DOMAIN node \ { cur } : node'[w] = R[w]
    BY <2>1, <2>2
  <2>4. \A w \in DOMAIN node' : /\ w \in DOMAIN node /\ node'[w] \in TrieNode /\ node'[w].data = node[w].data
                                /\ node'[w].use_count = node[w].use_count - (IF w = cur THEN 1 ELSE 0)
                                /\ node'[w].next = { c \in node[w].next : Append(w, c) \in DOMAIN node' }
    <3>1. TAKE w \in DOMAIN node'
    <3>2. w \in DOMAIN node /\ w # cur /\ node'[w] = R[w] /\ node[w].use_count \in Nat
      BY <1>2, <2>3 DEF TrieNode
    <3>3. \A c \in node[w].next : Append(w, c) # cur <=> Append(w, c) \in DOMAIN node'
      BY <1>2, <2>3, <3>2
    <3>4. node'[w].next = { c \in node[w].next : Append(w, c) # cur }
      BY <2>2, <3>2
    <3>5. node'[w].next = { c \in node[w].next : Append(w, c) \in DOMAIN node' }
      BY <3>3, <3>4
    <3>6. node'[w] \in TrieNode /\ node'[w].data = node[w].data /\ node'[w].use_count = node[w].use_count
      BY <2>2, <3>2
    <3> QED BY <3>2, <3>5, <3>6
  <2>5. root_node' = (Root \in DOMAIN node')
    <3>1. cur = Root => linked
      BY <1>1 DEF TreeOfNodes
    <3>2. CASE cur = Root
      <4>1. root_node' = FALSE
        BY <2>1, <3>1, <3>2
      <4>2. (Root \in DOMAIN node') = FALSE
        BY <2>3, <3>2
      <4> QED BY <4>1, <4>2
    <3>3. CASE cur # Root
      <4>1. root_node' = root_node
        BY <1>2, <2>1, <3>3
      <4>2. Root \in DOMAIN node' <=> Root \in DOMAIN node
        BY <2>3, <3>3
      <4> QED BY <1>2, <4>1, <4>2
    <3> QED BY <3>2, <3>3
  <2>6. node' \in [DOMAIN node' -> TrieNode]
    <3>1. node' = [w \in DOMAIN node' |-> node'[w]]
      BY <2>1
    <3> QED BY <2>4, <3>1
  <2>7. node[cur].use_count = 1 /\ KeysBelow(cur) = {}
    BY <1>1, <1>3, <1>4
  <2> QED BY <2>3, <2>4, <2>5, <2>6, <2>7
<1>5. CASE node[cur].use_count - 1 # 0
  <2>1. node' = [node EXCEPT ![cur].use_count = @ - 1] /\ root_node' = root_node
    BY <1>5 DEF Release
  <2>2. node[cur].use_count - 1 \in Nat /\ node[cur].use_count # 1 /\ KeysBelow(cur) # {}
    BY <1>1, <1>3, <1>5
  <2>3. linked
    BY <1>1, <1>2, <2>2 DEF TreeOfNodes
  <2>4. DOMAIN node' = DOMAIN node /\ \A w \in DOMAIN node : node'[w] = IF w = cur THEN [node[w] EXCEPT !.use_count = @ - 1] ELSE node[w]
    BY <2>1
  <2>5. \A w \in DOMAIN node' : /\ w \in DOMAIN node /\ node'[w] \in TrieNode /\ node'[w].data = node[w].data
                                /\ node'[w].use_count = node[w].use_count - (IF w = cur THEN 1 ELSE 0)
                                /\ node'[w].next = node[w].next
    <3>1. TAKE w \in DOMAIN node'
    <3>2. w \in DOMAIN node /\ node[w] \in TrieNode /\ node[w].use_count \in Nat
      BY <1>2, <2>4 DEF TrieNode
    <3>3. CASE w = cur
      <4>1. node'[w] = [node[w] EXCEPT !.use_count = @ - 1] /\ node[w].use_count - 1 \in Nat
        BY <2>2, <2>4, <3>2, <3>3
      <4> QED BY <3>2, <3>3, <4>1 DEF TrieNode
    <3>4. CASE w # cur
      BY <2>4, <3>2, <3>4
    <3> QED BY <3>3, <3>4
  <2>6. \A w \in DOMAIN node' : node'[w].next = { c \in node[w].next : Append(w, c) \in DOMAIN node' }
    BY <1>2, <2>4, <2>5
  <2>7. node' \in [DOMAIN node' -> TrieNode]
    <3>1. node' = [w \in DOMAIN node' |-> node'[w]]
      BY <2>1
    <3> QED BY <2>5, <3>1
  <2> QED BY <1>1, <1>2, <2>1, <2>2, <2>3, <2>4, <2>5, <2>6, <2>7
<1> QED BY <1>4, <1>5


LEMMA PrefixOfPrefix ==
  ASSUME NEW k \in Seq(Char), NEW n \in 0..Len(k), NEW m \in 0..n
  PROVE  SubSeq(SubSeq(k, 1, n), 1, m) = SubSeq(k, 1, m)
<1>1. Len(k) \in Nat /\ m \in 0..Len(k)
  OBVIOUS
<1> DEFINE u == SubSeq(k, 1, n)
<1>2. u \in Seq(Char) /\ Len(u) = n /\ \A p \in 1..n : u[p] = k[p]
  BY PrefixOfKey
<1> HIDE DEF u
<1>3. SubSeq(u, 1, m) \in Seq(Char) /\ Len(SubSeq(u, 1, m)) = m /\ \A p \in 1..m : SubSeq(u, 1, m)[p] = u[p]
  BY <1>2, PrefixOfKey
<1>4. SubSeq(k, 1, m) \in Seq(Char) /\ Len(SubSeq(k, 1, m)) = m /\ \A p \in 1..m : SubSeq(k, 1, m)[p] = k[p]
  BY <1>1, PrefixOfKey
<1>5. \A p \in 1..m : SubSeq(u, 1, m)[p] = SubSeq(k, 1, m)[p]
  BY <1>1, <1>2, <1>3, <1>4
<1> QED BY <1>3, <1>4, <1>5, SameString DEF u

\* The next node on the path is there if any node further on counts the key.
LEMMA NextNode ==
  ASSUME IInv, pc \in { "rollback", "remove" }, cur # NULL, Len(cur) # Len(key),
         NEW u, u = SubSeq(key, 1, Len(cur) + 1)
  PROVE  /\ Len(cur) + 1 \in 1..Len(key) /\ u \in Seq(Char) /\ Len(u) = Len(cur) + 1 /\ u # Root
         /\ u # NULL /\ Parent(u) = cur
         /\ u \in DOMAIN node => NextOnPath = u
         /\ u \notin DOMAIN node => NextOnPath = NULL
         /\ \A w \in Pending \ { cur } : u \in DOMAIN node
         /\ key \in DOMAIN node => u \in DOMAIN node
<1>1. /\ Releasing /\ cur \in DOMAIN node /\ cur \in Seq(Char) /\ key \in Seq(Char)
      /\ Len(cur) \in 0..Len(key) /\ cur = SubSeq(key, 1, Len(cur))
      /\ TreeOfNodes /\ DOMAIN node \subseteq Seq(Char)
      /\ Pending = { w \in DOMAIN node : HasPrefix(key, w) /\ Len(w) >= Len(cur) }
  BY ReleasePlace
<1>2. Orphan \subseteq { cur }
  BY DEF Orphan
<1> DEFINE n == Len(cur) + 1
<1>3. n \in 1..Len(key) /\ n \in 0..Len(key) /\ Len(cur) \in Nat /\ Len(key) \in Nat /\ n - 1 = Len(cur)
  BY <1>1
<1>4. u \in Seq(Char) /\ Len(u) = n /\ u # Root /\ key[n] \in Char /\ Parent(u) = cur
      /\ u[n] = key[n] /\ u = Append(cur, key[n])
  <2>1. u = SubSeq(key, 1, n)
    OBVIOUS
  <2>2. cur = SubSeq(key, 1, n - 1)
    BY <1>1, <1>3
  <2> HIDE DEF n
  <2> QED BY <1>1, <1>3, <2>1, <2>2, PrefixOfKey, PathOfKey, SMTT(30)
<1>5. u # NULL
  BY <1>4, NullAssumption
<1>6. NextOnPath = IF key[n] \in node[cur].next THEN u ELSE NULL
  <2>1. Len(cur) < Len(key)
    BY <1>1, <1>3
  <2> QED BY <1>4, <2>1 DEF NextOnPath
<1>7. u \in DOMAIN node <=> key[n] \in node[cur].next
  <2>1. u \in DOMAIN node => key[n] \in node[cur].next
    <3>1. u # cur
      <4>1. Len(cur) \in Nat /\ Len(u) = n /\ n - 1 = Len(cur) /\ n \in Nat
        BY <1>3, <1>4
      <4> HIDE DEF n
      <4> QED BY <4>1
    <3>2. u \in DOMAIN node => Points(u)
      BY <1>1, <1>2, <1>4, <3>1 DEF TreeOfNodes, HasParent
    <3> QED BY <1>4, <3>2 DEF Points
  <2>2. key[n] \in node[cur].next => u \in DOMAIN node
    BY <1>1, <1>4 DEF TreeOfNodes, NextClosed
  <2> QED BY <2>1, <2>2
<1>8. ASSUME NEW w \in Pending \ { cur } PROVE u \in DOMAIN node
  <2>1. w \in DOMAIN node /\ w \in Seq(Char) /\ HasPrefix(key, w) /\ Len(w) >= Len(cur) /\ w # cur
    BY <1>1
  <2>2. w = SubSeq(key, 1, Len(w)) /\ Len(w) <= Len(key) /\ Len(w) \in Nat
    BY <1>1, <2>1, PrefixIs
  <2>3. Len(w) # Len(cur)
    BY <1>1, <2>1, <2>2
  <2>4. n \in 0..Len(w) /\ Len(w) \in 0..Len(key)
    <3>1. Len(cur) \in Nat /\ Len(key) \in Nat /\ Len(w) \in Nat
      BY <1>3, <2>2
    <3>2. Len(w) >= Len(cur) /\ Len(w) # Len(cur) /\ Len(w) <= Len(key)
      BY <2>1, <2>2, <2>3
    <3> QED BY <3>1, <3>2
  <2>5. ASSUME NEW m \in (n + 1)..Len(w), SubSeq(w, 1, m) \in DOMAIN node PROVE HasParent(SubSeq(w, 1, m))
    <3>1. m \in 1..Len(w) /\ m \in 0..Len(w) /\ m > Len(cur)
      BY <1>3, <2>2
    <3>2. SubSeq(w, 1, m) # Root /\ Len(SubSeq(w, 1, m)) = m
      BY <2>1, <3>1, PathOfKey, PrefixOfKey
    <3>3. SubSeq(w, 1, m) # cur
      <4>1. Len(cur) \in Nat /\ m \in Nat /\ m > Len(cur) /\ Len(SubSeq(w, 1, m)) = m
        BY <1>3, <3>1, <3>2
      <4> QED BY <4>1
    <3> QED BY <1>1, <1>2, <2>5, <3>2, <3>3 DEF TreeOfNodes
  <2>6. \A m \in n..Len(w) : SubSeq(w, 1, m) \in DOMAIN node
    <3> HIDE DEF n
    <3> QED BY <1>1, <2>1, <2>4, <2>5, Ancestors
  <2>7. SubSeq(w, 1, n) \in DOMAIN node
    BY <1>3, <2>4, <2>6
  <2>8. SubSeq(SubSeq(key, 1, Len(w)), 1, n) = SubSeq(key, 1, n)
    BY <1>1, <2>4, PrefixOfPrefix
  <2>9. SubSeq(w, 1, n) = SubSeq(key, 1, n)
    <3> HIDE DEF n
    <3> QED BY <2>2, <2>8
  <2> QED BY <2>7, <2>9
<1>9. key \in DOMAIN node => u \in DOMAIN node
  <2> SUFFICES ASSUME key \in DOMAIN node PROVE u \in DOMAIN node
    OBVIOUS
  <2>1. HasPrefix(key, key) /\ Len(key) >= Len(cur) /\ key # cur
    BY <1>1, <1>3, PrefixItself
  <2> QED BY <1>1, <1>8, <2>1
<1> QED BY <1>3, <1>4, <1>5, <1>6, <1>7, <1>8, <1>9

LEMMA ReleaseKeys ==
  ASSUME IInv, pc \in { "rollback", "remove" }, cur # NULL, Release
  PROVE  \A w : KeysBelow(w)' = KeysBelow(w)
<1>1. /\ DOMAIN node' \subseteq DOMAIN node /\ DOMAIN node \subseteq DOMAIN node' \cup { cur }
      /\ \A w \in DOMAIN node' : node'[w].data = node[w].data
      /\ cur \notin DOMAIN node' => KeysBelow(cur) = {}
  BY ReleaseEffect
<1>2. cur \in DOMAIN node /\ HasPrefix(cur, cur)
  BY ReleasePlace, PrefixItself
<1>3. cur \notin DOMAIN node' => node[cur].data = NULL
  BY <1>1, <1>2 DEF KeysBelow
<1> QED BY <1>1, <1>3 DEF KeysBelow

\* A node whose parent is freed is the next one on the path.
LEMMA OnlyOnPath ==
  ASSUME IInv, pc \in { "rollback", "remove" }, cur # NULL, KeysBelow(cur) = {},
         NEW w \in DOMAIN node, w # Root, Parent(w) = cur
  PROVE  Len(cur) # Len(key) /\ w = SubSeq(key, 1, Len(cur) + 1) /\ KeysBelow(w) = {}
<1>1. /\ cur \in DOMAIN node /\ cur \in Seq(Char) /\ key \in Seq(Char) /\ Len(cur) \in 0..Len(key)
      /\ DOMAIN node \subseteq Seq(Char)
      /\ Pending = { v \in DOMAIN node : HasPrefix(key, v) /\ Len(v) >= Len(cur) }
  BY ReleasePlace
<1>2. w \in Seq(Char) /\ Len(cur) = Len(w) - 1 /\ w = Append(cur, w[Len(w)]) /\ w[Len(w)] \in Char /\ Len(w) \in Nat
  BY <1>1, ParentOf
<1>3. HasPrefix(w, cur)
  BY <1>1, <1>2, ChildPrefix
<1>4. KeysBelow(w) = {}
  <2>1. ASSUME NEW v \in DOMAIN node, HasPrefix(v, w) PROVE HasPrefix(v, cur)
    <3>1. v \in Seq(Char)
      BY <1>1
    <3> QED BY <1>1, <1>2, <1>3, <2>1, <3>1, PrefixTrans
  <2> QED BY <2>1 DEF KeysBelow
<1>5. w \in Pending
  <2>1. Cardinality(KeysBelow(w)) = 0
    BY <1>4, FS_EmptySet
  <2>2. Counts
    BY DEF IInv
  <2> QED BY <2>1, <2>2 DEF Counts
<1>6. Len(w) <= Len(key) /\ w = SubSeq(key, 1, Len(w))
  BY <1>1, <1>2, <1>5, PrefixIs
<1>7. Len(w) = Len(cur) + 1
  BY <1>1, <1>2
<1> QED BY <1>1, <1>4, <1>6, <1>7


\* The walk goes on at the next node on the path, or is at its end.
GoesOn ==
  /\ Len(cur) # Len(key) /\ pc' = pc /\ key' = key /\ cur' = NextOnPath
  /\ linked' = (cur \in DOMAIN node')

LEMMA ReleasePath ==
  ASSUME IInv, pc \in { "rollback", "remove" }, cur # NULL, Release,
         GoesOn \/ (Len(cur) = Len(key) /\ pc' = "ready")
  PROVE  /\ Pending' = Pending \ { cur }
         /\ GoesOn => /\ cur' # NULL => /\ cur' \in DOMAIN node' /\ cur' \in Seq(Char)
                                        /\ cur' = SubSeq(key, 1, Len(cur) + 1) /\ Len(cur') = Len(cur) + 1
                                        /\ Len(cur') <= Len(key)
                      /\ key \in DOMAIN node => cur' # NULL /\ key \in DOMAIN node'
<1>1. /\ cur \in DOMAIN node /\ cur \in Seq(Char) /\ key \in Seq(Char)
      /\ Len(cur) \in 0..Len(key) /\ cur = SubSeq(key, 1, Len(cur)) /\ DOMAIN node \subseteq Seq(Char)
      /\ Pending = { w \in DOMAIN node : HasPrefix(key, w) /\ Len(w) >= Len(cur) }
  BY ReleasePlace
<1>2. Len(cur) \in Nat /\ Len(key) \in Nat
  BY <1>1
<1>3. DOMAIN node' \subseteq DOMAIN node /\ DOMAIN node \ { cur } \subseteq DOMAIN node'
  BY ReleaseEffect
<1>4. ASSUME NEW w \in DOMAIN node, HasPrefix(key, w), Len(w) = Len(cur) PROVE w = cur
  <2>1. w = SubSeq(key, 1, Len(w))
    BY <1>1, <1>4, PrefixIs
  <2> QED BY <1>1, <1>4, <2>1
<1>5. CASE GoesOn
  <2> DEFINE u == SubSeq(key, 1, Len(cur) + 1)
  <2>1. /\ Len(cur) # Len(key) /\ Len(cur) + 1 \in 1..Len(key)
        /\ u \in Seq(Char) /\ Len(u) = Len(cur) + 1 /\ u # NULL /\ Parent(u) = cur
        /\ u \in DOMAIN node => NextOnPath = u
        /\ u \notin DOMAIN node => NextOnPath = NULL
        /\ \A w \in Pending \ { cur } : u \in DOMAIN node
        /\ key \in DOMAIN node => u \in DOMAIN node
    BY <1>5, NextNode DEF GoesOn
  <2> HIDE DEF u
  <2>2. u # cur /\ (u \in DOMAIN node => u \in DOMAIN node')
    <3>1. u # cur
      BY <1>2, <2>1
    <3> QED BY <1>3, <3>1
  <2>3. Pending' = Pending \ { cur }
    <3>1. CASE u \in DOMAIN node
      <4>1. cur' = u /\ Releasing' /\ key' = key
        BY <1>5, <2>1, <3>1 DEF GoesOn, Releasing
      <4>2. ASSUME NEW w
            PROVE  w \in Pending' <=> w \in DOMAIN node' /\ HasPrefix(key, w) /\ Len(w) >= Len(cur) + 1
        BY <2>1, <4>1 DEF Pending, Releasing
      <4>3. ASSUME NEW w
            PROVE  w \in Pending \ { cur } <=> w \in DOMAIN node' /\ HasPrefix(key, w) /\ Len(w) >= Len(cur) + 1
        <5>1. CASE w \notin DOMAIN node
          BY <5>1, <1>1, <1>3
        <5>2. CASE w = cur
          <6>1. ~ (Len(w) >= Len(cur) + 1)
            BY <1>2, <5>2
          <6> QED BY <5>2, <6>1
        <5>3. CASE w \in DOMAIN node \ { cur } /\ ~ HasPrefix(key, w)
          BY <5>3, <1>1
        <5>4. CASE w \in DOMAIN node \ { cur } /\ HasPrefix(key, w)
          <6>1. Len(w) \in Nat /\ Len(w) # Len(cur) /\ w \in DOMAIN node'
            BY <1>1, <1>3, <1>4, <5>4
          <6>2. Len(w) >= Len(cur) <=> Len(w) >= Len(cur) + 1
            BY <1>2, <6>1
          <6> QED BY <1>1, <5>4, <6>1, <6>2
        <5> QED BY <5>1, <5>2, <5>3, <5>4
      <4> QED BY <4>2, <4>3
    <3>2. CASE u \notin DOMAIN node
      <4>1. cur' = NULL /\ pc' \in { "rollback", "remove" }
        BY <1>5, <2>1, <3>2 DEF GoesOn
      <4>2. Pending' = {}
        BY <4>1 DEF Pending, Releasing
      <4> QED BY <2>1, <3>2, <4>2
    <3> QED BY <3>1, <3>2
  <2>4. ASSUME cur' # NULL
        PROVE  cur' = u /\ u \in DOMAIN node'
    BY <1>5, <2>1, <2>2, <2>4 DEF GoesOn
  <2>5. ASSUME key \in DOMAIN node PROVE cur' # NULL /\ key \in DOMAIN node'
    <3>1. key # cur
      BY <2>1
    <3> QED BY <1>3, <1>5, <2>1, <2>5, <3>1 DEF GoesOn
  <2>6. Len(u) <= Len(key)
    BY <1>2, <2>1
  <2> QED BY <2>1, <2>3, <2>4, <2>5, <2>6 DEF u
<1>6. CASE Len(cur) = Len(key) /\ pc' = "ready"
  <2>1. Pending' = {}
    BY <1>6 DEF Pending, Releasing
  <2>2. ASSUME NEW w \in Pending PROVE w = cur
    <3>1. w \in DOMAIN node /\ HasPrefix(key, w) /\ Len(w) >= Len(cur) /\ Len(w) \in Nat
      BY <1>1
    <3>2. Len(w) <= Len(key)
      BY <3>1 DEF HasPrefix
    <3>3. Len(w) = Len(cur)
      BY <1>2, <1>6, <3>1, <3>2
    <3> QED BY <1>4, <3>1, <3>3
  <2> QED BY <1>6, <2>1, <2>2 DEF GoesOn
<1> QED BY <1>5, <1>6

LEMMA ReleaseTree ==
  ASSUME IInv, pc \in { "rollback", "remove" }, cur # NULL, Release,
         GoesOn \/ (Len(cur) = Len(key) /\ pc' = "ready")
  PROVE  TreeOfNodes'
<1>1. /\ cur \in DOMAIN node /\ cur \in Seq(Char) /\ key \in Seq(Char) /\ Len(cur) \in 0..Len(key)
      /\ TreeOfNodes /\ DOMAIN node \subseteq Seq(Char) /\ Orphan = (IF linked THEN {} ELSE { cur })
  BY ReleasePlace
<1>2. /\ DOMAIN node' \subseteq DOMAIN node /\ DOMAIN node \ { cur } \subseteq DOMAIN node'
      /\ cur \notin DOMAIN node' => KeysBelow(cur) = {}
      /\ cur \in DOMAIN node' => linked
      /\ \A w \in DOMAIN node' : node'[w].next = { c \in node[w].next : Append(w, c) \in DOMAIN node' }
      /\ root_node' = (Root \in DOMAIN node')
  BY ReleaseEffect
<1>3. Rooted' /\ NextClosed'
  BY <1>2 DEF Rooted, NextClosed
<1>4. ASSUME NEW w \in DOMAIN node', w # Root, Parent(w) \in DOMAIN node' PROVE HasParent(w)'
  <2>1. w \in DOMAIN node /\ Parent(w) \in DOMAIN node /\ w \in Seq(Char)
    BY <1>1, <1>2, <1>4
  <2>2. w \notin Orphan
    BY <1>1, <2>1 DEF TreeOfNodes
  <2>3. w[Len(w)] \in node[Parent(w)].next /\ w = Append(Parent(w), w[Len(w)])
    BY <1>1, <1>4, <2>1, <2>2, ParentOf DEF TreeOfNodes, HasParent, Points
  <2>4. w[Len(w)] \in node'[Parent(w)].next
    BY <1>2, <1>4, <2>3
  <2> QED BY <1>4, <2>4 DEF HasParent, Points
<1>5. ASSUME NEW w \in DOMAIN node', w # Root, Parent(w) \notin DOMAIN node'
      PROVE  w = SubSeq(key, 1, Len(cur) + 1) /\ KeysBelow(w) = {} /\ Len(cur) # Len(key) /\ cur \notin DOMAIN node'
  <2>1. w \in DOMAIN node /\ w \in Seq(Char)
    BY <1>1, <1>2
  <2>2. w # cur
    <3> SUFFICES ASSUME w = cur PROVE FALSE
      OBVIOUS
    <3>1. linked /\ Orphan = {} /\ HasParent(cur)
      BY <1>1, <1>2, <1>5 DEF TreeOfNodes
    <3>2. Parent(cur) # cur
      BY <1>1, <1>5, ParentOf
    <3> QED BY <1>2, <1>5, <3>1, <3>2 DEF HasParent
  <2>3. Parent(w) \in DOMAIN node
    BY <1>1, <1>5, <2>1, <2>2 DEF TreeOfNodes, HasParent
  <2>4. Parent(w) = cur /\ cur \notin DOMAIN node'
    BY <1>2, <1>5, <2>3
  <2> QED BY <1>2, <1>5, <2>1, <2>4, OnlyOnPath
<1>6. CASE GoesOn
  <2> DEFINE u == SubSeq(key, 1, Len(cur) + 1)
  <2>1. /\ Len(cur) # Len(key) /\ u # Root /\ u # NULL /\ Parent(u) = cur
        /\ u \in DOMAIN node => cur' = u
        /\ u \notin DOMAIN node => cur' = NULL
        /\ pc' \in { "rollback", "remove" } /\ linked' = (cur \in DOMAIN node')
    BY <1>6, NextNode DEF GoesOn
  <2> HIDE DEF u
  <2>2. Orphan' = IF cur \notin DOMAIN node' /\ u \in DOMAIN node THEN { u } ELSE {}
    <3>1. CASE u \in DOMAIN node
      BY <2>1, <3>1 DEF Orphan, Releasing
    <3>2. CASE u \notin DOMAIN node
      BY <2>1, <3>2 DEF Orphan, Releasing
    <3> QED BY <3>1, <3>2
  <2>3. ASSUME NEW w \in DOMAIN node' \ Orphan' PROVE w = Root \/ HasParent(w)'
    <3>1. w \in DOMAIN node
      BY <1>2
    <3> QED BY <1>4, <1>5, <2>2, <3>1 DEF u
  <2>4. ASSUME NEW w \in Orphan' PROVE w # Root /\ Parent(w) \notin DOMAIN node' /\ KeysBelow(w)' = {}
    <3>1. w = u /\ cur \notin DOMAIN node' /\ u \in DOMAIN node
      BY <2>2
    <3>2. u # cur
      <4>1. cur # Root => Parent(cur) # cur
        BY <1>1, ParentOf
      <4> QED BY <2>1, <4>1
    <3>3. u \in DOMAIN node'
      BY <1>2, <3>1, <3>2
    <3>4. KeysBelow(w) = {}
      BY <1>5, <2>1, <3>1, <3>3
    <3> QED BY <2>1, <3>1, <3>4, ReleaseKeys
  <2> QED BY <1>3, <2>3, <2>4 DEF TreeOfNodes
<1>7. CASE Len(cur) = Len(key) /\ pc' = "ready"
  <2>1. Orphan' = {}
    BY <1>7 DEF Orphan, Releasing
  <2> QED BY <1>3, <1>4, <1>5, <1>7, <2>1 DEF TreeOfNodes
<1> QED BY <1>6, <1>7

LEMMA ReleaseCounts ==
  ASSUME IInv, pc \in { "rollback", "remove" }, cur # NULL, Release,
         GoesOn \/ (Len(cur) = Len(key) /\ pc' = "ready")
  PROVE  Counts'
<1>1. Pending' = Pending \ { cur } /\ cur \in Pending
  BY ReleasePath, ReleasePlace
<1>2. \A w \in DOMAIN node' :
        /\ w \in DOMAIN node /\ node'[w].use_count = node[w].use_count - (IF w = cur THEN 1 ELSE 0)
        /\ node'[w] \in TrieNode
  BY ReleaseEffect
<1>3. cur \in DOMAIN node' => node[cur].use_count # 1
  BY ReleaseEffect
<1>4. SUFFICES ASSUME NEW w \in DOMAIN node'
               PROVE  /\ node'[w].use_count = Cardinality(KeysBelow(w)') + (IF w \in Pending' THEN 1 ELSE 0)
                      /\ node'[w].use_count > 0
  BY DEF Counts
<1>5. node[w].use_count = Cardinality(KeysBelow(w)) + (IF w \in Pending THEN 1 ELSE 0) /\ node[w].use_count > 0
  BY <1>2 DEF IInv, Counts, Releasing
<1>6. Cardinality(KeysBelow(w)) \in Nat /\ KeysBelow(w)' = KeysBelow(w)
  BY FiniteKeys, ReleaseKeys DEF IInv
<1>7. Cardinality(KeysBelow(w)') = Cardinality(KeysBelow(w))
  BY <1>6
<1> DEFINE n == Cardinality(KeysBelow(w))
<1> HIDE DEF n
<1>8. n \in Nat /\ node[w].use_count = n + (IF w \in Pending THEN 1 ELSE 0) /\ Cardinality(KeysBelow(w)') = n
  BY <1>5, <1>6, <1>7 DEF n
<1> QED BY <1>1, <1>2, <1>3, <1>5, <1>8

LEMMA ReleaseFinite ==
  ASSUME IInv, pc \in { "rollback", "remove" }, cur # NULL, Release
  PROVE  IsFiniteSet(DOMAIN node') /\ \A w \in DOMAIN node' : IsFiniteSet(node'[w].next)
<1>1. /\ DOMAIN node' \subseteq DOMAIN node
      /\ \A w \in DOMAIN node' : node'[w].next \subseteq node[w].next
  BY ReleaseEffect
<1>2. IsFiniteSet(DOMAIN node')
  BY <1>1, FS_Subset DEF IInv
<1>3. ASSUME NEW w \in DOMAIN node' PROVE IsFiniteSet(node'[w].next)
  <2>1. IsFiniteSet(node[w].next) /\ node'[w].next \in SUBSET node[w].next
    BY <1>1 DEF IInv
  <2> QED BY <2>1, FS_Subset
<1> QED BY <1>2, <1>3


LEMMA RollbackStepIInv == ASSUME IInv, RollbackStep PROVE IInv'
<1>1. /\ pc = "rollback" /\ pc' = "rollback" /\ cur # NULL /\ Release /\ key' = key /\ value' = value
      /\ linked' = (node[cur].use_count # 1) /\ cur' = NextOnPath
  BY DEF RollbackStep
<1>2. key \notin DOMAIN node /\ cur \in DOMAIN node
  BY <1>1, ReleasePlace DEF IInv, Path
<1>3. Len(cur) # Len(key)
  <2>1. Len(cur) = Len(key) => cur = key
    BY <1>1, ReleasePlace, PathOfKey
  <2> QED BY <1>2, <2>1
<1>4. linked' = (cur \in DOMAIN node')
  BY <1>1, ReleaseEffect
<1>5. GoesOn
  BY <1>1, <1>3, <1>4 DEF GoesOn
<1>6. /\ root_node' \in BOOLEAN /\ node' \in [DOMAIN node' -> TrieNode] /\ DOMAIN node' \subseteq DOMAIN node
  BY <1>1, ReleaseEffect
<1>7. TypeOK'
  BY <1>1, <1>4, <1>5, <1>6, ReleasePath DEF IInv, TypeOK
<1>8. Path'
  BY <1>1, <1>2, <1>5, <1>6, ReleasePath DEF Path, OnPath, At, Releasing
<1> QED BY <1>1, <1>5, <1>7, <1>8, ReleaseTree, ReleaseCounts, ReleaseFinite DEF IInv

LEMMA RemoveStepIInv == ASSUME IInv, RemoveStep PROVE IInv'
<1>1. pc = "remove" /\ cur # NULL /\ Release
  BY DEF RemoveStep, IInv, Path
<1>2. /\ root_node' \in BOOLEAN /\ node' \in [DOMAIN node' -> TrieNode] /\ DOMAIN node' \subseteq DOMAIN node
  BY <1>1, ReleaseEffect
<1>3. CASE Len(cur) = Len(key)
  <2>1. pc' = "ready" /\ key' = Root /\ value' = NULL /\ cur' = NULL /\ linked' = FALSE
    BY <1>3 DEF RemoveStep, Return, Root
  <2>2. TypeOK'
    BY <1>2, <2>1, RootType DEF IInv, TypeOK
  <2>3. Path'
    BY <2>1 DEF Path, Releasing
  <2> QED BY <1>1, <1>3, <2>1, <2>2, <2>3, ReleaseTree, ReleaseCounts, ReleaseFinite DEF IInv
<1>4. CASE Len(cur) # Len(key)
  <2>1. /\ pc' = "remove" /\ key' = key /\ value' = value /\ cur' = NextOnPath
        /\ linked' = (linked /\ node[cur].use_count # 1)
    BY <1>1, <1>4 DEF RemoveStep
  <2>2. linked' = (cur \in DOMAIN node')
    <3>1. CASE cur \in DOMAIN node'
      <4>1. linked /\ node[cur].use_count # 1
        BY <1>1, <3>1, ReleaseEffect
      <4> QED BY <2>1, <3>1, <4>1
    <3>2. CASE cur \notin DOMAIN node'
      <4>1. node[cur].use_count = 1
        BY <1>1, <3>2, ReleaseEffect
      <4> QED BY <2>1, <3>2, <4>1
    <3> QED BY <3>1, <3>2
  <2>3. GoesOn
    BY <1>1, <1>4, <2>1, <2>2 DEF GoesOn
  <2>4. cur' # NULL /\ key \in DOMAIN node'
    BY <1>1, <2>3, ReleasePath DEF IInv, Path
  <2>5. TypeOK'
    BY <1>1, <1>2, <2>1, <2>2, <2>3, ReleasePath DEF IInv, TypeOK
  <2>6. Path'
    BY <1>1, <2>1, <2>3, <2>4, ReleasePath DEF Path, OnPath, At, Releasing
  <2> QED BY <1>1, <2>1, <2>3, <2>5, <2>6, ReleaseTree, ReleaseCounts, ReleaseFinite DEF IInv
<1> QED BY <1>3, <1>4

LEMMA RollbackDoneIInv == ASSUME IInv, RollbackDone PROVE IInv'
<1>1. /\ pc = "rollback" /\ pc' = "ready" /\ cur = NULL /\ node' = node /\ root_node' = root_node
      /\ key' = Root /\ value' = NULL /\ cur' = NULL /\ linked' = FALSE
  BY DEF RollbackDone, Return, Root
<1>2. Orphan = {} /\ Orphan' = {} /\ Pending = {} /\ Pending' = {} /\ ~ Releasing'
  BY <1>1 DEF Orphan, Pending, Releasing
<1>3. \A w : KeysBelow(w)' = KeysBelow(w) /\ Points(w)' = Points(w)
  BY <1>1 DEF KeysBelow, Points
<1>4. TypeOK'
  BY <1>1, RootType DEF IInv, TypeOK
<1>5. TreeOfNodes'
  BY <1>1, <1>2, <1>3 DEF IInv, TreeOfNodes, Rooted, NextClosed, HasParent
<1>6. Counts'
  BY <1>1, <1>2, <1>3 DEF IInv, Counts
<1>7. Path'
  BY <1>1, <1>2 DEF Path
<1> QED BY <1>1, <1>4, <1>5, <1>6, <1>7 DEF IInv

-----------------------------------------------------------------------------
(* The release of all nodes.                                               *)

\* A finite set of naturals has an enumeration from the greatest to the least.
LEMMA Enumerated ==
  ASSUME NEW S \in SUBSET Nat, IsFiniteSet(S)
  PROVE  \E s \in [1..Cardinality(S) -> S] : \A m, n \in DOMAIN s : m < n => s[m] > s[n]
<1> DEFINE Sorted(T, n) == \E s \in [1..n -> T] : \A l, m \in 1..n : l < m => s[l] > s[m]
           Bad == { n \in Nat : \E T \in SUBSET Nat : IsFiniteSet(T) /\ Cardinality(T) = n /\ ~ Sorted(T, n) }
<1>1. SUFFICES Bad = {}
  <2>1. Cardinality(S) \in Nat
    BY FS_CardinalityType
  <2>2. Cardinality(S) \notin Bad
    BY <1>1
  <2>3. Sorted(S, Cardinality(S))
    BY <2>1, <2>2
  <2> QED BY <2>3
<1>2. SUFFICES ASSUME Bad # {} PROVE FALSE
  OBVIOUS
<1>3. PICK n \in Bad : \A m \in Bad : n <= m
  <2>1. Bad \in SUBSET Nat
    OBVIOUS
  <2> HIDE DEF Bad
  <2> QED BY <1>2, <2>1, LeastNatural
<1>4. PICK T \in SUBSET Nat : IsFiniteSet(T) /\ Cardinality(T) = n /\ ~ Sorted(T, n)
  BY <1>3
<1>5. n \in Nat
  BY <1>3
<1>6. T # {}
  <2> SUFFICES ASSUME T = {} PROVE FALSE
    OBVIOUS
  <2>1. n = 0
    BY <1>4, FS_EmptySet
  <2>2. [l \in 1..0 |-> 0] \in [1..n -> T]
    BY <2>1
  <2>3. 1..n = {}
    BY <2>1
  <2>4. Sorted(T, n)
    BY <2>2, <2>3
  <2> QED BY <1>4, <2>4
<1>7. PICK least \in T : \A t \in T : least <= t
  BY <1>6, LeastNatural
<1> DEFINE U == T \ { least }
<1>8. IsFiniteSet(U) /\ Cardinality(U) = n - 1 /\ U \in SUBSET Nat /\ n - 1 \in Nat
  <2>1. IsFiniteSet(U) /\ Cardinality(U) = n - 1
    BY <1>4, FS_RemoveElement
  <2>2. n # 0
    BY <1>4, <1>6, FS_EmptySet
  <2> QED BY <1>5, <2>1, <2>2
<1>9. Sorted(U, n - 1)
  <2>1. n - 1 \notin Bad
    BY <1>3, <1>5
  <2> HIDE DEF Sorted, U
  <2> QED BY <1>8, <2>1
<1>10. PICK s \in [1..(n - 1) -> U] : \A l, m \in 1..(n - 1) : l < m => s[l] > s[m]
  BY <1>9
<1> DEFINE t == [l \in 1..n |-> IF l = n THEN least ELSE s[l]]
<1>11. t \in [1..n -> T]
  <2>1. ASSUME NEW l \in 1..n PROVE (IF l = n THEN least ELSE s[l]) \in T
    <3>1. l # n => l \in 1..(n - 1)
      BY <1>5
    <3> QED BY <1>7, <1>10, <3>1
  <2> QED BY <2>1
<1>12. ASSUME NEW l \in 1..n, NEW m \in 1..n, l < m PROVE t[l] > t[m]
  <2>1. l \in 1..(n - 1) /\ t[l] = s[l] /\ s[l] \in U /\ s[l] \in Nat
    <3>1. l # n /\ l \in 1..(n - 1)
      BY <1>5, <1>12
    <3>2. t[l] = s[l]
      BY <3>1
    <3>3. s[l] \in U
      BY <1>10, <3>1
    <3> QED BY <1>8, <3>1, <3>2, <3>3
  <2>2. CASE m = n
    <3>1. t[m] = least /\ least <= s[l] /\ least # s[l] /\ least \in Nat
      BY <1>7, <2>1, <2>2
    <3> QED BY <2>1, <3>1
  <2>3. CASE m # n
    <3>1. m \in 1..(n - 1) /\ t[m] = s[m]
      BY <1>5, <2>3
    <3> QED BY <1>10, <1>12, <2>1, <3>1
  <2> QED BY <2>2, <2>3
<1>13. Sorted(T, n)
  <2> HIDE DEF t
  <2> QED BY <1>11, <1>12
<1> QED BY <1>4, <1>13

\* The children of a node in the free list: each once.
LEMMA AllKids ==
  ASSUME NEW S \in SUBSET Nat, IsFiniteSet(S)
  PROVE  /\ Descending(S) \in [1..Cardinality(S) -> S] /\ Cardinality(S) \in Nat
         /\ \A m, n \in 1..Cardinality(S) : Descending(S)[m] = Descending(S)[n] => m = n
         /\ \A x \in S : \E n \in 1..Cardinality(S) : Descending(S)[n] = x
<1> DEFINE d == Descending(S)
           k == Cardinality(S)
<1>1. d \in [1..k -> S] /\ \A m, n \in DOMAIN d : m < n => d[m] > d[n]
  BY Enumerated DEF Descending
<1>2. k \in Nat
  BY FS_CardinalityType
<1> HIDE DEF d, k
<1>3. ASSUME NEW m \in 1..k, NEW n \in 1..k, d[m] = d[n] PROVE m = n
  <2>1. d[m] \in Nat /\ d[n] \in Nat /\ m \in Nat /\ n \in Nat /\ DOMAIN d = 1..k
    <3>1. d[m] \in S /\ d[n] \in S /\ DOMAIN d = 1..k
      BY <1>1
    <3>2. m \in Nat /\ n \in Nat
      BY <1>2
    <3> QED BY <3>1, <3>2
  <2>2. ~ (m < n) /\ ~ (n < m)
    BY <1>1, <1>3, <2>1
  <2> QED BY <2>1, <2>2
<1>4. d \in Injection(1..k, S)
  BY <1>1, <1>3 DEF Injection, IsInjective
<1>5. Cardinality(1..k) = k
  BY <1>2, FS_Interval
<1>6. d \in Surjection(1..k, S)
  BY <1>2, <1>4, <1>5, FS_Injection, FS_Interval DEF k
<1> QED BY <1>1, <1>2, <1>3, <1>6 DEF Surjection, d, k


-----------------------------------------------------------------------------
(* The release of all nodes.                                               *)

LEMMA StartFreeIInv == ASSUME IInv, trie_free PROVE IInv'
<1>1. /\ pc = "ready" /\ pc' = "free" /\ todo' = (IF root_node THEN << Root >> ELSE << >>)
      /\ node' = node /\ root_node' = root_node /\ key' = key /\ value' = value /\ cur' = cur /\ linked' = linked
  BY DEF trie_free, callVars
<1>2. Orphan = {} /\ TreeOfNodes
  BY <1>1 DEF Orphan, Releasing, IInv
<1>3. TypeOK' /\ NextClosed'
  BY <1>1, <1>2 DEF IInv, TypeOK, TreeOfNodes, NextClosed
<1>4. /\ todo' \in Seq(Seq(Char)) /\ (root_node => DOMAIN todo' = { 1 } /\ todo'[1] = Root)
      /\ (~ root_node => DOMAIN todo' = {})
  BY <1>1, RootType
<1>5. \A u \in DOMAIN node : HasParent(u)' = HasParent(u)
  BY <1>1 DEF HasParent, Points
<1>6. FreeList'
  <2>1. \A n \in DOMAIN todo' : todo'[n] = Root /\ Root \in DOMAIN node'
    BY <1>1, <1>2, <1>4 DEF TreeOfNodes, Rooted, TypeOK, IInv
  <2>2. \A m, n \in DOMAIN todo' : todo'[m] = todo'[n] => m = n
    BY <1>1, <1>4 DEF TypeOK, IInv
  <2>3. ASSUME NEW u \in DOMAIN node, ~ HasParent(u) PROVE \E n \in DOMAIN todo' : todo'[n] = u
    <3>1. u = Root
      BY <1>2, <2>3 DEF TreeOfNodes
    <3>2. root_node
      BY <1>2, <2>3, <3>1 DEF TreeOfNodes, Rooted
    <3> QED BY <1>4, <3>1, <3>2
  <2> QED BY <1>1, <1>3, <1>4, <1>5, <2>1, <2>2, <2>3 DEF FreeList
<1> QED BY <1>1, <1>3, <1>6 DEF IInv

\* The free list after a step: the children of its first node, then the rest.
LEMMA FreeStepTodo ==
  ASSUME IInv, FreeStep
  PROVE  LET w == todo[1]
             S == node[w].next
             k == Cardinality(S)
         IN  /\ w \in DOMAIN node /\ w \in Seq(Char) /\ k \in Nat /\ S \in SUBSET Char
             /\ todo' \in Seq(Seq(Char)) /\ Len(todo') = k + Len(todo) - 1 /\ Len(todo) \in Nat \ { 0 }
             /\ \A n \in 1..k : Descending(S)[n] \in S /\ todo'[n] = Append(w, Descending(S)[n])
             /\ \A m, n \in 1..k : Descending(S)[m] = Descending(S)[n] => m = n
             /\ \A c \in S : \E n \in 1..k : Descending(S)[n] = c
             /\ \A n \in (k + 1)..Len(todo') : n - k + 1 \in 2..Len(todo) /\ todo'[n] = todo[n - k + 1]
<1> DEFINE w == todo[1]
           S == node[w].next
           k == Cardinality(S)
           d == Descending(S)
           new == [n \in DOMAIN d |-> Append(w, d[n])]
<1>1. pc = "free" /\ todo # << >> /\ todo' = new \o Tail(todo) /\ FreeList
  BY DEF FreeStep, IInv
<1>2. todo \in Seq(Seq(Char)) /\ Len(todo) \in Nat \ { 0 } /\ 1 \in DOMAIN todo
  <2> HIDE DEF w, S, k, d, new
  <2>1. todo \in Seq(Seq(Char))
    BY <1>1 DEF FreeList
  <2>2. Len(todo) \in Nat /\ DOMAIN todo = 1..Len(todo) /\ (todo = << >> <=> Len(todo) = 0)
    BY <2>1, LenProperties, EmptySeq
  <2> QED BY <1>1, <2>1, <2>2
<1>3. w \in DOMAIN node /\ w \in Seq(Char)
  BY <1>1, <1>2 DEF FreeList
<1>4. S \in SUBSET Char /\ S \in SUBSET Nat /\ IsFiniteSet(S)
  BY <1>3, CharAssumption DEF IInv, TypeOK, TrieNode
<1>5. /\ d \in [1..k -> S] /\ k \in Nat
      /\ \A m, n \in 1..k : d[m] = d[n] => m = n
      /\ \A c \in S : \E n \in 1..k : d[n] = c
  BY <1>4, AllKids
<1> HIDE DEF d, S, w, k
<1>6. new \in Seq(Seq(Char)) /\ Len(new) = k /\ \A n \in 1..k : new[n] = Append(w, d[n]) /\ d[n] \in S
  <2>1. DOMAIN d = 1..k /\ \A n \in 1..k : d[n] \in S
    BY <1>5
  <2>2. \A n \in 1..k : Append(w, d[n]) \in Seq(Char)
    BY <1>3, <1>4, <2>1, ChildOf
  <2>3. new \in [1..k -> Seq(Char)]
    BY <2>1, <2>2
  <2>4. [1..k -> Seq(Char)] \subseteq Seq(Seq(Char))
    BY <1>5 DEF Seq
  <2>5. Len(new) = k
    BY <1>5, <2>1, <2>3, <2>4
  <2> QED BY <2>1, <2>3, <2>4, <2>5
<1>7. /\ Tail(todo) \in Seq(Seq(Char)) /\ Len(Tail(todo)) = Len(todo) - 1
      /\ \A n \in 1..(Len(todo) - 1) : Tail(todo)[n] = todo[n + 1]
  BY <1>2
<1> HIDE DEF new
<1>8. /\ todo' \in Seq(Seq(Char)) /\ Len(todo') = k + Len(todo) - 1
      /\ \A n \in 1..k : todo'[n] = new[n]
      /\ \A n \in (k + 1)..Len(todo') : todo'[n] = Tail(todo)[n - k]
  <2>1. \A n \in 1..(Len(new) + Len(Tail(todo))) :
          (new \o Tail(todo))[n] = IF n <= Len(new) THEN new[n] ELSE Tail(todo)[n - Len(new)]
    BY <1>6, <1>7, ConcatProperties
  <2>2. new \o Tail(todo) \in Seq(Seq(Char)) /\ Len(new \o Tail(todo)) = k + (Len(todo) - 1)
    BY <1>6, <1>7, ConcatProperties
  <2> QED BY <1>1, <1>2, <1>5, <1>6, <1>7, <2>1, <2>2
<1>9. ASSUME NEW n \in (k + 1)..Len(todo') PROVE n - k + 1 \in 2..Len(todo) /\ todo'[n] = todo[n - k + 1]
  <2>1. n - k \in 1..(Len(todo) - 1)
    BY <1>2, <1>5, <1>8
  <2>2. todo'[n] = Tail(todo)[n - k]
    BY <1>8
  <2>3. Tail(todo)[n - k] = todo[n - k + 1]
    BY <1>7, <2>1
  <2>4. n - k + 1 \in 2..Len(todo)
    BY <1>2, <1>5, <2>1
  <2> QED BY <2>2, <2>3, <2>4
<1> QED BY <1>2, <1>3, <1>4, <1>5, <1>6, <1>8, <1>9 DEF d, S, w, k


LEMMA FreeStepIInv == ASSUME IInv, FreeStep PROVE IInv'
<1> DEFINE w == todo[1]
           S == node[w].next
           k == Cardinality(S)
           d == Descending(S)
<1>1. /\ pc = "free" /\ pc' = "free" /\ todo # << >> /\ node' = Freed(node, w)
      /\ root_node' = root_node /\ key' = key /\ value' = value /\ cur' = cur /\ linked' = linked
  BY DEF FreeStep, callVars
<1>2. FreeList /\ IsFiniteSet(DOMAIN node) /\ TypeOK
  BY <1>1 DEF IInv
<1>3. /\ w \in DOMAIN node /\ w \in Seq(Char) /\ k \in Nat /\ S \in SUBSET Char
      /\ todo' \in Seq(Seq(Char)) /\ Len(todo') = k + Len(todo) - 1 /\ Len(todo) \in Nat \ { 0 }
      /\ \A n \in 1..k : d[n] \in S /\ todo'[n] = Append(w, d[n])
      /\ \A m, n \in 1..k : d[m] = d[n] => m = n
      /\ \A c \in S : \E n \in 1..k : d[n] = c
      /\ \A n \in (k + 1)..Len(todo') : n - k + 1 \in 2..Len(todo) /\ todo'[n] = todo[n - k + 1]
  BY FreeStepTodo
<1>4. /\ DOMAIN node' = DOMAIN node \ { w } /\ \A u \in DOMAIN node' : node'[u] = node[u]
      /\ DOMAIN node \subseteq Seq(Char) /\ \A u \in DOMAIN node : node[u].next \subseteq Char
  BY <1>1, <1>2 DEF Freed, TypeOK, TrieNode
<1>5. DOMAIN todo = 1..Len(todo) /\ 1 \in DOMAIN todo /\ DOMAIN todo' = 1..Len(todo') /\ todo \in Seq(Seq(Char))
  BY <1>2, <1>3 DEF FreeList
<1>6. /\ \A m, n \in DOMAIN todo : todo[m] = todo[n] => m = n
      /\ \A n \in DOMAIN todo : todo[n] \in DOMAIN node /\ (todo[n] = Root \/ Parent(todo[n]) \notin DOMAIN node)
      /\ \A u \in DOMAIN node : HasParent(u) \/ \E n \in DOMAIN todo : todo[n] = u
      /\ \A u \in DOMAIN node : \A c \in node[u].next : Append(u, c) \in DOMAIN node
  BY <1>2 DEF FreeList, NextClosed
<1>w. w = todo[1] /\ S = node[w].next
  OBVIOUS
<1> HIDE DEF w, S, k, d
<1>7. \A u \in DOMAIN node : \A c \in node[u].next : \A n \in DOMAIN todo : Append(u, c) # todo[n]
  <2>1. ASSUME NEW u \in DOMAIN node, NEW c \in node[u].next, NEW n \in DOMAIN todo, Append(u, c) = todo[n]
        PROVE  FALSE
    <3>1. Append(u, c) # Root /\ Parent(Append(u, c)) = u
      BY <1>4, ChildOf
    <3> QED BY <1>6, <2>1, <3>1
  <2> QED BY <2>1
<1>8. TypeOK' /\ IsFiniteSet(DOMAIN node') /\ \A u \in DOMAIN node' : IsFiniteSet(node'[u].next)
  <2>1. IsFiniteSet(DOMAIN node')
    BY <1>2, <1>4, FS_Subset
  <2>2. node' \in [DOMAIN node' -> TrieNode]
    BY <1>1, <1>2, <1>4 DEF TypeOK, Freed
  <2> QED BY <1>1, <1>2, <1>4, <2>1, <2>2 DEF TypeOK, IInv
<1>9. NextClosed'
  <2>1. ASSUME NEW u \in DOMAIN node', NEW c \in node'[u].next PROVE Append(u, c) \in DOMAIN node'
    <3>1. u \in DOMAIN node /\ c \in node[u].next
      BY <1>4
    <3>2. Append(u, c) \in DOMAIN node /\ Append(u, c) # w
      <4>1. Append(u, c) # todo[1]
        BY <1>5, <1>7, <3>1
      <4> QED BY <1>6, <1>w, <3>1, <4>1
    <3> QED BY <1>4, <3>2
  <2> QED BY <2>1 DEF NextClosed
\* A place of the new list is that of a child, or of the old list.
<1>10. ASSUME NEW n \in DOMAIN todo'
       PROVE  \/ n \in 1..k /\ d[n] \in S /\ todo'[n] = Append(w, d[n])
              \/ n \in (k + 1)..Len(todo') /\ n - k + 1 \in 2..Len(todo) /\ todo'[n] = todo[n - k + 1]
  <2>1. n \in 1..k \/ n \in (k + 1)..Len(todo')
    BY <1>3, <1>5
  <2> QED BY <1>3, <2>1
<1>11. \A m, n \in DOMAIN todo' : todo'[m] = todo'[n] => m = n
  <2> SUFFICES ASSUME NEW m \in DOMAIN todo', NEW n \in DOMAIN todo', todo'[m] = todo'[n] PROVE m = n
    OBVIOUS
  <2>1. CASE m \in 1..k /\ n \in 1..k
    <3>1. d[m] \in Char /\ d[n] \in Char /\ Append(w, d[m]) = Append(w, d[n])
      BY <1>3, <2>1
    <3>2. d[m] = d[n]
      BY <1>3, <3>1, ChildOf
    <3> QED BY <1>3, <2>1, <3>2
  <2>2. ASSUME NEW a \in DOMAIN todo', NEW b \in DOMAIN todo', a \in 1..k, b \notin 1..k PROVE todo'[a] # todo'[b]
    <3>1. todo'[a] = Append(w, d[a]) /\ d[a] \in node[w].next
      BY <1>3, <1>w, <2>2
    <3>2. b - k + 1 \in DOMAIN todo /\ todo'[b] = todo[b - k + 1]
      <4>1. b - k + 1 \in 2..Len(todo) /\ todo'[b] = todo[b - k + 1]
        BY <1>10, <2>2
      <4> QED BY <1>5, <4>1
    <3>3. Append(w, d[a]) # todo[b - k + 1]
      <4>1. w \in DOMAIN node
        BY <1>3
      <4> QED BY <1>7, <3>1, <3>2, <4>1
    <3> QED BY <3>1, <3>2, <3>3
  <2>3. CASE m \notin 1..k /\ n \notin 1..k
    <3>1. /\ m - k + 1 \in 2..Len(todo) /\ todo'[m] = todo[m - k + 1]
          /\ n - k + 1 \in 2..Len(todo) /\ todo'[n] = todo[n - k + 1]
      BY <1>10, <2>3
    <3>2. m - k + 1 \in DOMAIN todo /\ n - k + 1 \in DOMAIN todo
      BY <1>5, <3>1
    <3>3. m - k + 1 = n - k + 1
      BY <1>6, <3>1, <3>2
    <3>4. m \in Nat /\ n \in Nat
      BY <1>5
    <3> QED BY <1>3, <3>3, <3>4
  <2> QED BY <2>1, <2>2, <2>3
<1>12. ASSUME NEW n \in DOMAIN todo'
       PROVE  todo'[n] \in DOMAIN node' /\ (todo'[n] = Root \/ Parent(todo'[n]) \notin DOMAIN node')
  <2>1. CASE n \in 1..k /\ d[n] \in S /\ todo'[n] = Append(w, d[n])
    <3>1. d[n] \in node[w].next /\ d[n] \in Char
      BY <1>3, <1>w, <2>1
    <3>2. Parent(todo'[n]) = w
      BY <1>3, <2>1, <3>1, ChildOf
    <3>3. todo'[n] \in DOMAIN node /\ todo'[n] # w
      BY <1>3, <1>5, <1>6, <1>7, <1>w, <2>1, <3>1, SMTT(30)
    <3> QED BY <1>4, <3>2, <3>3
  <2>2. CASE n - k + 1 \in 2..Len(todo) /\ todo'[n] = todo[n - k + 1]
    <3>1. n - k + 1 \in DOMAIN todo /\ n - k + 1 # 1
      BY <1>5, <2>2
    <3>2. todo[n - k + 1] # w
      BY <1>5, <1>6, <1>w, <3>1
    <3> QED BY <1>4, <1>6, <2>2, <3>1, <3>2
  <2> QED BY <1>10, <2>1, <2>2
<1>13. ASSUME NEW u \in DOMAIN node' PROVE HasParent(u)' \/ \E n \in DOMAIN todo' : todo'[n] = u
  <2>1. u \in DOMAIN node /\ u # w /\ u \in Seq(Char)
    BY <1>4
  <2>2. CASE HasParent(u) /\ Parent(u) # w
    <3>1. u # Root /\ Parent(u) \in DOMAIN node' /\ u[Len(u)] \in node[Parent(u)].next
      BY <1>4, <2>2 DEF HasParent, Points
    <3>2. u[Len(u)] \in node'[Parent(u)].next
      BY <1>4, <3>1
    <3> QED BY <3>1, <3>2 DEF HasParent, Points
  <2>3. CASE HasParent(u) /\ Parent(u) = w
    <3>1. u[Len(u)] \in S /\ u = Append(w, u[Len(u)])
      BY <1>w, <2>1, <2>3, ParentOf DEF HasParent, Points
    <3>2. PICK n \in 1..k : d[n] = u[Len(u)]
      BY <1>3, <3>1
    <3>3. n \in DOMAIN todo'
      BY <1>3, <1>5
    <3>4. todo'[n] = u
      BY <1>3, <3>1, <3>2
    <3> QED BY <3>3, <3>4
  <2>4. CASE \E n \in DOMAIN todo : todo[n] = u
    <3>1. PICK n \in DOMAIN todo : todo[n] = u
      BY <2>4
    <3>2. n # 1 /\ n \in 1..Len(todo)
      BY <1>5, <1>w, <2>1, <3>1
    <3>3. n + k - 1 \in (k + 1)..Len(todo') /\ (n + k - 1) - k + 1 = n
      <4>1. k \in Nat /\ Len(todo) \in Nat /\ Len(todo') = k + Len(todo) - 1
        BY <1>3
      <4>2. n \in 2..Len(todo)
        BY <3>2, <4>1
      <4> QED BY <4>1, <4>2
    <3>4. todo'[n + k - 1] = u
      BY <1>3, <3>1, <3>3
    <3>5. n + k - 1 \in DOMAIN todo'
      BY <1>3, <1>5, <3>3
    <3> QED BY <3>4, <3>5
  <2> QED BY <1>6, <2>1, <2>2, <2>3, <2>4
<1>14. FreeList'
  <2>1. /\ todo' \in Seq(Seq(Char))
        /\ \A n \in DOMAIN todo' :
             todo'[n] \in DOMAIN node' /\ (todo'[n] = Root \/ Parent(todo'[n]) \notin DOMAIN node')
        /\ \A u \in DOMAIN node' : HasParent(u)' \/ \E n \in DOMAIN todo' : todo'[n] = u
    BY <1>3, <1>12, <1>13
  <2> QED BY <1>9, <1>11, <2>1 DEF FreeList
<1> QED BY <1>1, <1>8, <1>14 DEF IInv

\* With an empty free list no node is left: a shortest one had a parent.
LEMMA FreeDoneIInv == ASSUME IInv, FreeDone PROVE IInv'
<1>1. /\ pc = "free" /\ pc' = "freed" /\ todo = << >> /\ todo' = todo
      /\ node' = node /\ root_node' = root_node /\ key' = key /\ value' = value /\ cur' = cur /\ linked' = linked
  BY DEF FreeDone, callVars, walkVars
<1>2. FreeList /\ TypeOK /\ DOMAIN node \subseteq Seq(Char)
  BY <1>1 DEF IInv, TypeOK
<1>3. \A w \in DOMAIN node : HasParent(w)
  BY <1>1, <1>2 DEF FreeList
<1>4. DOMAIN node = {}
  <2> SUFFICES ASSUME DOMAIN node # {} PROVE FALSE
    OBVIOUS
  <2> DEFINE L == { Len(w) : w \in DOMAIN node }
  <2>1. L \in SUBSET Nat /\ L # {}
    <3>1. ASSUME NEW w \in DOMAIN node PROVE Len(w) \in Nat
      <4>1. w \in Seq(Char)
        BY <1>2
      <4> QED BY <4>1
    <3> QED BY <3>1
  <2>2. PICK least \in L : \A n \in L : least <= n
    <3> HIDE DEF L
    <3> QED BY <2>1, LeastNatural
  <2>3. PICK w \in DOMAIN node : least = Len(w)
    OBVIOUS
  <2>4. w # Root /\ Parent(w) \in DOMAIN node
    BY <1>3 DEF HasParent
  <2>5. Len(Parent(w)) = Len(w) - 1 /\ Len(w) \in Nat
    BY <1>2, <2>4, ParentOf
  <2>6. Len(Parent(w)) \in L
    BY <2>4
  <2>7. least <= Len(Parent(w))
    BY <2>2, <2>6
  <2> HIDE DEF L
  <2> QED BY <2>3, <2>5, <2>7
<1>5. \A w : HasParent(w)' = HasParent(w)
  BY <1>1 DEF HasParent, Points
<1>6. FreeList' /\ TypeOK'
  BY <1>1, <1>2, <1>5 DEF FreeList, NextClosed, TypeOK
<1> QED BY <1>1, <1>4, <1>6 DEF IInv


-----------------------------------------------------------------------------
(* The invariant.                                                          *)

LEMMA KeyType == ASSUME NEW k \in Keys PROVE k \in Seq(Char) /\ CString(k) \in Seq(Char)
BY KeysAssumption, CStringType

LEMMA InsertCallIInv ==
  ASSUME IInv, NEW k \in Seq(Char), NEW v \in Values \cup { NULL }, trie_insert_binary(k, v)
  PROVE  IInv'
<1>1. CASE RefuseNull(v)
  <2>1. AtRest /\ AtRest' /\ UNCHANGED << node, root_node, callVars >>
    BY <1>1 DEF RefuseNull, AtRest
  <2> QED BY <2>1, ReadIInv
<1>2. CASE v # NULL /\ Replace(k, v)
  BY <1>2, ReplaceIInv
<1>3. CASE v # NULL /\ StartInsert(k, v)
  BY <1>3, StartInsertIInv
<1> QED BY <1>1, <1>2, <1>3 DEF trie_insert_binary

LEMMA RemoveCallIInv == ASSUME IInv, NEW k \in Seq(Char), trie_remove_binary(k) PROVE IInv'
<1>1. CASE RemoveAbsent(k)
  <2>1. AtRest /\ AtRest' /\ UNCHANGED << node, root_node, callVars >>
    BY <1>1 DEF RemoveAbsent, AtRest
  <2> QED BY <2>1, ReadIInv
<1>2. CASE StartRemove(k)
  BY <1>2, StartRemoveIInv
<1> QED BY <1>1, <1>2 DEF trie_remove_binary

LEMMA ReadersIInv ==
  ASSUME IInv,
         \/ \E k : trie_lookup_binary(k)
         \/ trie_dfs \/ DfsDown \/ DfsUp \/ DfsDone
  PROVE  IInv'
<1>1. AtRest /\ AtRest' /\ UNCHANGED << node, root_node, callVars >>
  BY DEF trie_lookup_binary, trie_dfs, DfsDown, DfsUp, DfsDone, AtRest
<1> QED BY <1>1, ReadIInv

LEMMA StutterIInv == ASSUME IInv, UNCHANGED vars PROVE IInv'
<1>1. /\ node' = node /\ root_node' = root_node /\ key' = key /\ value' = value /\ cur' = cur /\ linked' = linked
      /\ todo' = todo /\ pc' = pc
  BY DEF vars, callVars, walkVars
<1>2. \A w : KeysBelow(w)' = KeysBelow(w) /\ Points(w)' = Points(w)
  BY <1>1 DEF KeysBelow, Points
<1>3. Releasing' = Releasing /\ Orphan' = Orphan /\ Pending' = Pending
  BY <1>1 DEF Releasing, Orphan, Pending
<1>4. TypeOK' <=> TypeOK
  BY <1>1 DEF TypeOK
<1>5. TreeOfNodes' <=> TreeOfNodes
  BY <1>1, <1>2, <1>3 DEF TreeOfNodes, Rooted, NextClosed, HasParent
<1>6. Counts' <=> Counts
  BY <1>1, <1>2, <1>3 DEF Counts
<1>7. Path' <=> Path
  BY <1>1, <1>3 DEF Path, OnPath, At
<1>8. FreeList' <=> FreeList
  BY <1>1, <1>2 DEF FreeList, NextClosed, HasParent
<1> QED BY <1>1, <1>4, <1>5, <1>6, <1>7, <1>8 DEF IInv

LEMMA NextIInv == ASSUME IInv, [Next]_vars PROVE IInv'
<1>1. CASE Call
  <2>1. ASSUME NEW k \in Keys, NEW v \in Values \cup { NULL }, trie_insert_binary(k, v) PROVE IInv'
    BY <2>1, KeyType, InsertCallIInv
  <2>2. ASSUME NEW k \in Keys, NEW v \in Values \cup { NULL }, trie_insert(k, v) PROVE IInv'
    BY <2>2, KeyType, InsertCallIInv DEF trie_insert
  <2>3. ASSUME NEW k \in Keys, trie_remove_binary(k) \/ trie_remove(k) PROVE IInv'
    BY <2>3, KeyType, RemoveCallIInv DEF trie_remove
  <2>4. ASSUME NEW k \in Keys, trie_lookup_binary(k) \/ trie_lookup(k) PROVE IInv'
    BY <2>4, ReadersIInv DEF trie_lookup
  <2>5. CASE trie_dfs
    BY <2>5, ReadersIInv
  <2>6. CASE trie_free
    BY <2>6, StartFreeIInv
  <2> QED BY <1>1, <2>1, <2>2, <2>3, <2>4, <2>5, <2>6 DEF Call
<1>2. CASE Work
  <2>1. CASE InsertStep
    BY <2>1, InsertStepIInv
  <2>2. CASE InsertFails
    BY <2>2, InsertFailsIInv
  <2>3. CASE RollbackStep
    BY <2>3, RollbackStepIInv
  <2>4. CASE RollbackDone
    BY <2>4, RollbackDoneIInv
  <2>5. CASE RemoveStep
    BY <2>5, RemoveStepIInv
  <2>6. CASE DfsDown \/ DfsUp \/ DfsDone
    BY <2>6, ReadersIInv
  <2>7. CASE FreeStep
    BY <2>7, FreeStepIInv
  <2>8. CASE FreeDone
    BY <2>8, FreeDoneIInv
  <2> QED BY <1>2, <2>1, <2>2, <2>3, <2>4, <2>5, <2>6, <2>7, <2>8 DEF Work
<1>3. CASE UNCHANGED vars
  BY <1>3, StutterIInv
<1> QED BY <1>1, <1>2, <1>3 DEF Next

\* The invariant from which the properties follow.
THEOREM Invariant == Spec => []IInv
<1>1. Init => IInv
  BY InitIInv
<1>2. IInv /\ [Next]_vars => IInv'
  BY NextIInv
<1> QED BY <1>1, <1>2, PTL DEF Spec

(* Between two calls every node is linked from its parent, no pointer      *)
(* leads to a freed node, and trie_free leaves no node behind.             *)
THEOREM NodesCorrect == Spec => []NoLeakNoDangling
<1>1. ASSUME IInv PROVE NoLeakNoDangling
  <2>1. CASE AtRest
    <3>1. Orphan = {} /\ TreeOfNodes /\ TypeOK
      BY <1>1, <2>1 DEF AtRest, Orphan, Releasing, IInv
    <3>2. pc # "freed"
      BY <2>1 DEF AtRest
    <3> QED BY <3>1, <3>2 DEF NoLeakNoDangling, TreeOfNodes, Rooted, NextClosed, HasParent
  <2>2. CASE ~ AtRest
    BY <1>1, <2>2 DEF NoLeakNoDangling, IInv
  <2> QED BY <2>1, <2>2
<1> QED BY <1>1, Invariant, PTL

(* Between two calls the use count of a node is the number of keys that    *)
(* lead through it, which is not 0.                                        *)
THEOREM CountsCorrect == Spec => []UseCounts
<1>1. ASSUME IInv PROVE UseCounts
  <2> SUFFICES ASSUME AtRest PROVE \A w \in DOMAIN node :
        node[w].use_count = Cardinality(KeysBelow(w)) /\ node[w].use_count > 0
    BY DEF UseCounts
  <2>1. Pending = {} /\ Counts
    BY <1>1 DEF AtRest, Pending, Releasing, IInv
  <2>2. ASSUME NEW w \in DOMAIN node PROVE node[w].use_count = Cardinality(KeysBelow(w)) /\ node[w].use_count > 0
    <3>1. Cardinality(KeysBelow(w)) \in Nat
      BY <1>1, FiniteKeys DEF IInv
    <3> QED BY <2>1, <3>1 DEF Counts
  <2> QED BY <2>2
<1> QED BY <1>1, Invariant, PTL


-----------------------------------------------------------------------------
(* The trie implements a map.                                              *)

AllKeys == Keys \cup { CString(k) : k \in Keys }

\* An insertion under way is that of a key that was passed.
Given == pc \in { "insert", "rollback" } => key \in AllKeys

Entries == { << w, node[w].data >> : w \in { u \in DOMAIN node : node[u].data # NULL } }

LEMMA GivenAlways == Spec => []Given
<1>1. Init => Given
  BY DEF Init, Given
<1>2. ASSUME Given, [Next]_vars PROVE Given'
  <2>1. ASSUME NEW k \in Keys, NEW v \in Values \cup { NULL }, trie_insert_binary(k, v) \/ trie_insert(k, v)
        PROVE  Given'
    <3>1. \E k1 \in AllKeys : trie_insert_binary(k1, v)
      BY <2>1 DEF AllKeys, trie_insert
    <3> QED BY <1>2, <3>1 DEF Given, trie_insert_binary, RefuseNull, Replace, StartInsert, callVars
  <2>2. CASE \E k \in Keys : trie_remove_binary(k) \/ trie_remove(k) \/ trie_lookup_binary(k) \/ trie_lookup(k)
    BY <1>2, <2>2 DEF Given, trie_remove, trie_remove_binary, RemoveAbsent, StartRemove,
                      trie_lookup, trie_lookup_binary, callVars
  <2>3. CASE trie_dfs \/ trie_free
    BY <2>3 DEF Given, trie_dfs, trie_free
  <2>4. CASE Work
    BY <1>2, <2>4 DEF Given, Work, InsertStep, InsertFails, RollbackStep, RollbackDone, RemoveStep, Return,
                      DfsDown, DfsUp, DfsDone, FreeStep, FreeDone, callVars
  <2>5. CASE UNCHANGED vars
    BY <1>2, <2>5 DEF Given, vars, callVars
  <2> QED BY <1>2, <2>1, <2>2, <2>3, <2>4, <2>5 DEF Next, Call
<1> QED BY <1>1, <1>2, PTL DEF Spec

\* The entries of the map are those of its keys.
LEMMA EntryOf ==
  ASSUME NEW w, NEW d
  PROVE  << w, d >> \in Entries <=> w \in DOMAIN node /\ node[w].data = d /\ d # NULL
BY DEF Entries

LEMMA SameMap ==
  ASSUME \A w : w \in DOMAIN node' /\ node'[w].data # NULL <=> w \in DOMAIN node /\ node[w].data # NULL,
         \A w \in DOMAIN node : w \in DOMAIN node' => node'[w].data = node[w].data
  PROVE  Entries' = Entries
<1> DEFINE K == { w \in DOMAIN node : node[w].data # NULL }
           L == { w \in DOMAIN node' : node'[w].data # NULL }
<1>1. K = L
  OBVIOUS
<1>2. \A w \in K : w \in DOMAIN node /\ w \in DOMAIN node'
  BY <1>1
<1>3. \A w \in K : << w, node[w].data >> = << w, node'[w].data >>
  BY <1>2
<1>4. Entries = { << w, node[w].data >> : w \in K } /\ Entries' = { << w, node'[w].data >> : w \in L }
  BY DEF Entries
<1> HIDE DEF K, L
<1> QED BY <1>1, <1>3, <1>4

LEMMA ReleaseMap ==
  ASSUME IInv, pc \in { "rollback", "remove" }, cur # NULL, Release
  PROVE  Entries' = Entries
<1>1. /\ DOMAIN node' \subseteq DOMAIN node /\ DOMAIN node \subseteq DOMAIN node' \cup { cur }
      /\ \A w \in DOMAIN node' : node'[w].data = node[w].data
      /\ cur \notin DOMAIN node' => KeysBelow(cur) = {}
  BY ReleaseEffect
<1>2. cur \in DOMAIN node /\ HasPrefix(cur, cur)
  BY ReleasePlace, PrefixItself
<1>3. cur \notin DOMAIN node' => node[cur].data = NULL
  BY <1>1, <1>2 DEF KeysBelow
<1> QED BY <1>1, <1>3, SameMap

\* The keys of the map are those of calls, and the values those passed.
LEMMA MapTypes ==
  ASSUME IInv, NEW w \in DOMAIN node, node[w].data # NULL
  PROVE  node[w].data \in Values
BY DEF IInv, TypeOK, TrieNode

\* What a key has is replaced, or there was nothing.
LEMMA PutMap ==
  ASSUME NEW k, NEW v, v # NULL, DOMAIN node' = DOMAIN node \cup { k }, node'[k].data = v,
         \A w \in DOMAIN node \ { k } : node'[w].data = node[w].data
  PROVE  Entries' = { m \in Entries : m[1] # k } \cup { << k, v >> }
<1>1. ASSUME NEW w \in DOMAIN node', node'[w].data # NULL
      PROVE  << w, node'[w].data >> \in { m \in Entries : m[1] # k } \cup { << k, v >> }
  <2>1. CASE w = k
    BY <2>1
  <2>2. CASE w # k
    <3>1. << w, node'[w].data >> \in Entries
      BY <1>1, <2>2 DEF Entries
    <3> QED BY <2>2, <3>1
  <2> QED BY <2>1, <2>2
<1>2. ASSUME NEW m \in Entries, m[1] # k PROVE m \in Entries'
  <2>1. PICK w \in DOMAIN node : node[w].data # NULL /\ m = << w, node[w].data >>
    BY <1>2 DEF Entries
  <2>2. w \in DOMAIN node' /\ node'[w].data = node[w].data
    BY <1>2, <2>1
  <2> QED BY <2>1, <2>2 DEF Entries
<1>3. << k, v >> \in Entries'
  <2>1. k \in DOMAIN node' /\ node'[k].data = v
    OBVIOUS
  <2> QED BY <2>1 DEF Entries
<1>4. \A m \in Entries' : \E w \in DOMAIN node' : node'[w].data # NULL /\ m = << w, node'[w].data >>
  BY DEF Entries
<1> QED BY <1>1, <1>2, <1>3, <1>4

LEMMA TakeMap ==
  ASSUME NEW k, DOMAIN node' = DOMAIN node, k \in DOMAIN node => node'[k].data = NULL,
         \A w \in DOMAIN node \ { k } : node'[w].data = node[w].data
  PROVE  Entries' = { m \in Entries : m[1] # k }
<1>1. ASSUME NEW w \in DOMAIN node', node'[w].data # NULL
      PROVE  << w, node'[w].data >> \in { m \in Entries : m[1] # k }
  <2>1. w # k /\ w \in DOMAIN node /\ node'[w].data = node[w].data
    BY <1>1
  <2>2. << w, node'[w].data >> \in Entries
    BY <1>1, <2>1 DEF Entries
  <2> QED BY <2>1, <2>2
<1>2. ASSUME NEW m \in Entries, m[1] # k PROVE m \in Entries'
  <2>1. PICK w \in DOMAIN node : node[w].data # NULL /\ m = << w, node[w].data >>
    BY <1>2 DEF Entries
  <2>2. w \in DOMAIN node' /\ node'[w].data = node[w].data
    BY <1>2, <2>1
  <2> QED BY <2>1, <2>2 DEF Entries
<1>3. \A m \in Entries' : \E w \in DOMAIN node' : node'[w].data # NULL /\ m = << w, node'[w].data >>
  BY DEF Entries
<1> QED BY <1>1, <1>2, <1>3


\* A refused call changes nothing.
LEMMA RefusedMap ==
  ASSUME IInv, Open, Open', Entries' = Entries, result' = FALSE, NEW k \in AllKeys
  PROVE  Map!Next
<1>1. CASE Values # {}
  <2>1. PICK v \in Values : TRUE
    BY <1>1
  <2>2. Map!Insert(k, v)
    BY DEF Map!Insert, Entries
  <2> QED BY <2>2 DEF Map!Next, Map!Call, AllKeys
<1>2. CASE Values = {}
  <2>1. Entries = {}
    BY <1>2, MapTypes DEF Entries
  <2>2. Map!Others(k) = {} /\ Map!Remove(k)
    BY <2>1 DEF Map!Others, Map!Remove, Entries
  <2> QED BY <2>2 DEF Map!Next, Map!Call, AllKeys
<1> QED BY <1>1, <1>2

LEMMA InsertMap ==
  ASSUME IInv, NEW k \in AllKeys, NEW v \in Values \cup { NULL }, trie_insert_binary(k, v)
  PROVE  Map!Next \/ UNCHANGED Map!vars
<1>1. k \in Seq(Char)
  BY KeyType DEF AllKeys
<1>2. CASE RefuseNull(v)
  <2>1. Open /\ Open' /\ Entries' = Entries /\ result' = FALSE
    BY <1>2 DEF RefuseNull, Open, Entries
  <2> QED BY <2>1, RefusedMap
<1>3. CASE v # NULL /\ Replace(k, v)
  <2>1. v \in Values /\ k \in DOMAIN node /\ v # NULL
    BY <1>1, <1>3, ReplaceIInv
  <2>2. DOMAIN node' = DOMAIN node \cup { k } /\ node'[k].data = v
        /\ \A w \in DOMAIN node \ { k } : node'[w].data = node[w].data
    BY <1>3, <2>1 DEF Replace, IInv, TypeOK, TrieNode
  <2>3. Entries' = { m \in Entries : m[1] # k } \cup { << k, v >> }
    BY <2>1, <2>2, PutMap
  <2>4. Open /\ Open' /\ result' = TRUE
    BY <1>3 DEF Replace, Open
  <2>5. Map!Insert(k, v)
    BY <2>3, <2>4 DEF Map!Insert, Map!Others, Entries
  <2> QED BY <2>1, <2>4, <2>5 DEF Map!Next, Map!Call, AllKeys
<1>4. CASE v # NULL /\ StartInsert(k, v)
  <2>1. Open /\ Open' /\ node' = node /\ result' = result
    BY <1>4 DEF StartInsert, Open
  <2> QED BY <2>1 DEF Map!vars
<1> QED BY <1>2, <1>3, <1>4 DEF trie_insert_binary

LEMMA InsertStepMap ==
  ASSUME IInv, Given, InsertStep
  PROVE  Map!Next \/ UNCHANGED Map!vars
<1>1. pc = "insert" /\ key \in AllKeys /\ value \in Values /\ value # NULL
  BY InsertPlace DEF InsertStep, Given, IInv, TypeOK
<1>2. CASE Len(cur) = Len(key)
  <2>1. cur = key
    BY <1>1, <1>2, InsertPlace, PathOfKey
  <2>2. /\ DOMAIN node' = DOMAIN node \cup { key } /\ node'[key].data = value
        /\ \A w \in DOMAIN node \ { key } : node'[w].data = node[w].data
    <3>1. \A w \in DOMAIN node \ { key } : node'[w].data = node[w].data
      BY <1>2, <2>1, InsertStepEffect
    <3>2. node'[key].data = value
      <4>1. CASE key \in DOMAIN node
        BY <1>2, <2>1, <4>1, InsertStepEffect
      <4>2. CASE key \notin DOMAIN node
        BY <1>2, <2>1, <4>2, InsertStepEffect
      <4> QED BY <4>1, <4>2
    <3>3. DOMAIN node' = DOMAIN node \cup { key }
      BY <2>1, InsertStepEffect
    <3> QED BY <3>1, <3>2, <3>3
  <2>3. Entries' = { m \in Entries : m[1] # key } \cup { << key, value >> }
    BY <1>1, <2>2, PutMap
  <2>4. Open /\ Open' /\ result' = TRUE
    BY <1>2 DEF InsertStep, Return, Open
  <2>5. PICK k \in AllKeys, v \in Values : k = key /\ v = value
    BY <1>1
  <2>6. Entries' = { m \in Entries : m[1] # k } \cup { << k, v >> }
    BY <2>3, <2>5
  <2>7. Map!Insert(k, v)
    BY <2>4, <2>6 DEF Map!Insert, Map!Others, Entries
  <2> QED BY <2>4, <2>7 DEF Map!Next, Map!Call, AllKeys
<1>3. CASE Len(cur) # Len(key)
  <2>1. Open /\ Open' /\ result' = result
    BY <1>3 DEF InsertStep, Open
  <2>2. /\ DOMAIN node' = DOMAIN node \cup { cur }
        /\ \A w \in DOMAIN node : node'[w].data = node[w].data
        /\ cur \notin DOMAIN node => node'[cur].data = NULL
    <3>1. \A w \in DOMAIN node : node'[w].data = node[w].data
      BY <1>3, InsertStepEffect
    <3>2. cur \notin DOMAIN node => node'[cur].data = NULL
      BY <1>3, InsertStepEffect
    <3> QED BY <3>1, <3>2, InsertStepEffect
  <2>3. Entries' = Entries
    BY <2>2, SameMap
  <2> QED BY <2>1, <2>3 DEF Map!vars, Entries
<1> QED BY <1>2, <1>3

LEMMA RemoveMap ==
  ASSUME IInv, NEW k \in AllKeys, trie_remove_binary(k)
  PROVE  Map!Next
<1>1. k \in Seq(Char)
  BY KeyType DEF AllKeys
<1>2. CASE RemoveAbsent(k)
  <2>1. Open /\ Open' /\ Entries' = Entries /\ result' = FALSE /\ Data(k) = NULL
    BY <1>2 DEF RemoveAbsent, Open, Entries
  <2> QED BY <2>1, RefusedMap
<1>3. CASE StartRemove(k)
  <2>1. k \in DOMAIN node /\ node[k].data # NULL
    BY <1>1, <1>3, StartRemoveIInv
  <2>2. DOMAIN node' = DOMAIN node /\ node'[k].data = NULL
        /\ \A w \in DOMAIN node \ { k } : node'[w].data = node[w].data
    BY <1>3, <2>1 DEF StartRemove, IInv, TypeOK, TrieNode
  <2>3. Entries' = { m \in Entries : m[1] # k }
    BY <2>2, TakeMap
  <2>4. Open /\ Open' /\ result' = TRUE
    BY <1>3 DEF StartRemove, Open
  <2>5. { m \in Entries : m[1] # k } # Entries
    <3>1. << k, node[k].data >> \in Entries /\ << k, node[k].data >>[1] = k
      BY <2>1 DEF Entries
    <3> QED BY <3>1
  <2>6. Map!Remove(k)
    BY <2>3, <2>4, <2>5 DEF Map!Remove, Map!Others, Entries
  <2> QED BY <2>4, <2>6 DEF Map!Next, Map!Call, AllKeys
<1> QED BY <1>2, <1>3 DEF trie_remove_binary

LEMMA LookupMap ==
  ASSUME IInv, NEW k \in AllKeys, trie_lookup_binary(k)
  PROVE  Map!Next
<1>1. k \in Seq(Char)
  BY KeyType DEF AllKeys
<1>2. Open /\ Open' /\ Entries' = Entries /\ result' = Data(k) /\ Orphan = {} /\ TreeOfNodes
  BY DEF trie_lookup_binary, Open, Entries, Orphan, Releasing, IInv
<1>3. (k \in DOMAIN node => Data(k) = node[k].data) /\ (k \notin DOMAIN node => Data(k) = NULL)
  BY <1>1, <1>2, FoundNode DEF IInv, TypeOK
<1>4. CASE k \in DOMAIN node /\ node[k].data # NULL
  <2>1. << k, result' >> \in Entries /\ result' \in Values
    BY <1>2, <1>3, <1>4, MapTypes DEF Entries
  <2>2. Map!Lookup(k)
    BY <1>2, <2>1 DEF Map!Lookup, Entries
  <2> QED BY <1>2, <2>2 DEF Map!Next, Map!Call, AllKeys
<1>5. CASE k \notin DOMAIN node \/ node[k].data = NULL
  <2>1. result' = NULL
    BY <1>2, <1>3, <1>5
  <2>2. { m \in Entries : m[1] # k } = Entries
    BY <1>5 DEF Entries
  <2>3. Map!Lookup(k)
    BY <1>2, <2>1, <2>2 DEF Map!Lookup, Map!Others, Entries
  <2> QED BY <1>2, <2>3 DEF Map!Next, Map!Call, AllKeys
<1> QED BY <1>4, <1>5

LEMMA StepMap == IInv /\ Given /\ [Next]_vars => [Map!Next]_(Map!vars)
<1> SUFFICES ASSUME IInv, Given, [Next]_vars PROVE Map!Next \/ UNCHANGED Map!vars
  BY DEF Map!vars
<1>1. CASE Call
  <2>1. ASSUME NEW k \in Keys, NEW v \in Values \cup { NULL }, trie_insert_binary(k, v) \/ trie_insert(k, v)
        PROVE  Map!Next \/ UNCHANGED Map!vars
    <3>1. \E k1 \in AllKeys : trie_insert_binary(k1, v)
      BY <2>1 DEF AllKeys, trie_insert
    <3> QED BY <3>1, InsertMap
  <2>2. ASSUME NEW k \in Keys, trie_remove_binary(k) \/ trie_remove(k) PROVE Map!Next
    <3>1. \E k1 \in AllKeys : trie_remove_binary(k1)
      BY <2>2 DEF AllKeys, trie_remove
    <3> QED BY <3>1, RemoveMap
  <2>3. ASSUME NEW k \in Keys, trie_lookup_binary(k) \/ trie_lookup(k) PROVE Map!Next
    <3>1. \E k1 \in AllKeys : trie_lookup_binary(k1)
      BY <2>3 DEF AllKeys, trie_lookup
    <3> QED BY <3>1, LookupMap
  <2>4. CASE trie_dfs
    <3>1. Open /\ Open' /\ node' = node /\ result' = result
      BY <2>4 DEF trie_dfs, Open
    <3> QED BY <3>1 DEF Map!vars
  <2>5. CASE trie_free
    <3>1. Open /\ ~ Open' /\ result' = result
      BY <2>5 DEF trie_free, Open
    <3> QED BY <3>1 DEF Map!Next, Map!Free
  <2> QED BY <1>1, <2>1, <2>2, <2>3, <2>4, <2>5 DEF Call
<1>2. CASE Work
  <2>1. CASE InsertStep
    BY <2>1, InsertStepMap
  <2>2. CASE RollbackStep \/ RemoveStep
    <3>1. pc \in { "rollback", "remove" } /\ cur # NULL /\ Release /\ Open /\ Open' /\ result' = result
      BY <2>2 DEF RollbackStep, RemoveStep, Return, Open, IInv, Path
    <3>2. Entries' = Entries
      BY <3>1, ReleaseMap
    <3> QED BY <3>1, <3>2 DEF Map!vars, Entries
  <2>3. CASE RollbackDone
    <3>1. Open /\ Open' /\ Entries' = Entries /\ result' = FALSE /\ key \in AllKeys
      BY <2>3 DEF RollbackDone, Return, Open, Entries, Given
    <3> QED BY <3>1, RefusedMap
  <2>4. CASE InsertFails \/ DfsDown \/ DfsUp \/ DfsDone
    <3>1. Open /\ Open' /\ node' = node /\ result' = result
      BY <2>4 DEF InsertFails, DfsDown, DfsUp, DfsDone, Open
    <3> QED BY <3>1 DEF Map!vars
  <2>5. CASE FreeStep \/ FreeDone
    <3>1. pc \in { "free", "freed" } /\ pc' \in { "free", "freed" } /\ result' = result
      BY <2>5 DEF FreeStep, FreeDone
    <3> QED BY <3>1 DEF Map!vars, Open
  <2> QED BY <1>2, <2>1, <2>2, <2>3, <2>4, <2>5 DEF Work
<1>3. CASE UNCHANGED vars
  <2>1. node' = node /\ pc' = pc /\ result' = result
    BY <1>3 DEF vars
  <2> QED BY <2>1 DEF Map!vars, Open
<1> QED BY <1>1, <1>2, <1>3 DEF Next

(* The trie implements FiniteMap: the nodes that keys share, an insertion  *)
(* that is undone half way and a removal that frees its path do not show.  *)
THEOREM ImplementsMap == Spec => MapSpec
<1>1. Init => Map!Init
  BY DEF Init, Map!Init, Open
<1>2. QED
  BY <1>1, Invariant, GivenAlways, StepMap, PTL DEF Spec, MapSpec, Map!Spec


-----------------------------------------------------------------------------
(* The order of the walk, on strings of numbers: the index of a loop may   *)
(* have passed the last character.                                         *)

\* u differs from w at some place, and is smaller at the first.
Less(u, w) ==
  \E n \in DOMAIN u \cap DOMAIN w : u[n] < w[n] /\ \A m \in 1..(n - 1) : u[m] = w[m]

\* w continues the string p with e.
Continues(w, p, e) == HasPrefix(w, p) /\ Len(p) < Len(w) /\ w[Len(p) + 1] = e

LEMMA NumberString == \A w \in Seq(Char) : w \in Seq(Nat)
<1>1. ASSUME NEW w \in Seq(Char) PROVE w \in Seq(Nat)
  <2>1. w \in [1..Len(w) -> Char] /\ Len(w) \in Nat
    OBVIOUS
  <2>2. w \in [1..Len(w) -> Nat]
    BY <2>1, CharAssumption
  <2> QED BY <2>1, <2>2 DEF Seq
<1> QED BY <1>1

LEMMA Longer ==
  ASSUME NEW p \in Seq(Nat), NEW e \in Nat
  PROVE  /\ Append(p, e) \in Seq(Nat) /\ Len(Append(p, e)) = Len(p) + 1 /\ Len(p) \in Nat
         /\ DOMAIN Append(p, e) = 1..(Len(p) + 1) /\ DOMAIN p = 1..Len(p)
         /\ \A n \in 1..Len(p) : Append(p, e)[n] = p[n] /\ p[n] \in Nat
         /\ Append(p, e)[Len(p) + 1] = e
OBVIOUS

LEMMA PrefixContinues ==
  ASSUME NEW w \in Seq(Nat), NEW p \in Seq(Nat), NEW e \in Nat
  PROVE  HasPrefix(w, Append(p, e)) <=> Continues(w, p, e)
<1> DEFINE u == Append(p, e)
<1>1. /\ Len(u) = Len(p) + 1 /\ Len(p) \in Nat /\ DOMAIN u = 1..(Len(p) + 1) /\ DOMAIN p = 1..Len(p)
      /\ \A n \in 1..Len(p) : u[n] = p[n]
      /\ u[Len(p) + 1] = e
  BY Longer
<1>2. Len(w) \in Nat
  OBVIOUS
<1> HIDE DEF u
<1>3. ASSUME HasPrefix(w, u) PROVE Continues(w, p, e)
  <2>1. Len(p) + 1 <= Len(w) /\ \A n \in 1..(Len(p) + 1) : w[n] = u[n]
    BY <1>1, <1>3 DEF HasPrefix
  <2>2. w[Len(p) + 1] = e /\ \A n \in 1..Len(p) : w[n] = p[n]
    BY <1>1, <2>1
  <2> QED BY <1>1, <1>2, <2>1, <2>2 DEF Continues, HasPrefix
<1>4. ASSUME Continues(w, p, e) PROVE HasPrefix(w, u)
  <2>1. Len(p) + 1 <= Len(w) /\ w[Len(p) + 1] = e /\ \A n \in 1..Len(p) : w[n] = p[n]
    <3>1. Len(p) < Len(w) /\ w[Len(p) + 1] = e /\ HasPrefix(w, p)
      BY <1>4 DEF Continues
    <3>2. \A n \in 1..Len(p) : w[n] = p[n]
      BY <1>1, <3>1 DEF HasPrefix
    <3>3. Len(p) + 1 <= Len(w)
      BY <1>1, <1>2, <3>1
    <3> QED BY <3>1, <3>2, <3>3
  <2>2. \A n \in 1..(Len(p) + 1) : w[n] = u[n]
    <3>1. ASSUME NEW n \in 1..(Len(p) + 1) PROVE n \in 1..Len(p) \/ n = Len(p) + 1
      BY <1>1
    <3> QED BY <1>1, <2>1, <3>1
  <2> QED BY <1>1, <2>1, <2>2 DEF HasPrefix
<1> QED BY <1>3, <1>4 DEF u

LEMMA PrefixOfLonger ==
  ASSUME NEW w \in Seq(Nat), NEW p \in Seq(Nat), NEW e \in Nat
  PROVE  HasPrefix(Append(p, e), w) <=> HasPrefix(p, w) \/ w = Append(p, e)
<1> DEFINE u == Append(p, e)
<1>1. /\ u \in Seq(Nat) /\ Len(u) = Len(p) + 1 /\ Len(p) \in Nat
      /\ DOMAIN u = 1..(Len(p) + 1) /\ DOMAIN p = 1..Len(p)
      /\ \A n \in 1..Len(p) : u[n] = p[n]
  BY Longer
<1>2. Len(w) \in Nat /\ DOMAIN w = 1..Len(w)
  OBVIOUS
<1> HIDE DEF u
<1>3. ASSUME HasPrefix(u, w), Len(w) = Len(u) PROVE w = u
  <2>1. \A n \in 1..Len(w) : w[n] = u[n]
    BY <1>2, <1>3 DEF HasPrefix
  <2> QED BY <1>1, <1>3, <2>1, SeqEqual
<1>4. ASSUME HasPrefix(u, w), Len(w) # Len(u) PROVE HasPrefix(p, w)
  <2>1. Len(w) <= Len(p)
    <3>1. Len(w) <= Len(u)
      BY <1>4 DEF HasPrefix
    <3>2. Len(u) = Len(p) + 1 /\ Len(p) \in Nat /\ Len(w) \in Nat /\ Len(w) # Len(u)
      BY <1>1, <1>2, <1>4
    <3> QED BY <3>1, <3>2
  <2>2. ASSUME NEW n \in DOMAIN w PROVE p[n] = w[n]
    <3>1. u[n] = w[n]
      BY <1>4 DEF HasPrefix
    <3>2. n \in 1..Len(p)
      BY <1>1, <1>2, <2>1
    <3> QED BY <1>1, <3>1, <3>2
  <2> QED BY <2>1, <2>2 DEF HasPrefix
<1>5. ASSUME HasPrefix(p, w) PROVE HasPrefix(u, w)
  BY <1>1, <1>2, <1>5 DEF HasPrefix
<1>6. HasPrefix(u, u)
  BY <1>1, PrefixItself
<1> QED BY <1>3, <1>4, <1>5, <1>6 DEF u

LEMMA LessThanLonger ==
  ASSUME NEW w \in Seq(Nat), NEW p \in Seq(Nat), NEW e \in Nat
  PROVE  Less(w, Append(p, e)) <=> Less(w, p) \/ \E d \in Nat : d < e /\ Continues(w, p, d)
<1> DEFINE u == Append(p, e)
<1>1. /\ u \in Seq(Nat) /\ Len(u) = Len(p) + 1 /\ Len(p) \in Nat
      /\ DOMAIN u = 1..(Len(p) + 1) /\ DOMAIN p = 1..Len(p)
      /\ \A n \in 1..Len(p) : u[n] = p[n]
      /\ u[Len(p) + 1] = e
  BY Longer
<1>2. Len(w) \in Nat /\ DOMAIN w = 1..Len(w) /\ \A n \in 1..Len(w) : w[n] \in Nat
  OBVIOUS
<1> HIDE DEF u
<1>3. ASSUME Less(w, u) PROVE Less(w, p) \/ \E d \in Nat : d < e /\ Continues(w, p, d)
  <2>1. PICK n \in DOMAIN w \cap DOMAIN u : w[n] < u[n] /\ \A m \in 1..(n - 1) : w[m] = u[m]
    BY <1>3 DEF Less
  <2>2. n \in Nat /\ n <= Len(p) + 1 /\ n <= Len(w) /\ 1 <= n
    BY <1>1, <1>2, <2>1
  <2>3. CASE n <= Len(p)
    <3>1. \A m \in 1..n : m \in 1..Len(p)
      BY <1>1, <2>2, <2>3
    <3>2. n \in DOMAIN p /\ w[n] < p[n] /\ \A m \in 1..(n - 1) : w[m] = p[m]
      BY <1>1, <2>1, <2>2, <3>1
    <3> QED BY <2>1, <3>2 DEF Less
  <2>4. CASE n = Len(p) + 1
    <3>1. w[n] < e /\ w[n] \in Nat
      BY <1>1, <1>2, <2>1, <2>4
    <3>2. Len(p) < Len(w) /\ HasPrefix(w, p)
      BY <1>1, <1>2, <2>1, <2>2, <2>4 DEF HasPrefix
    <3> QED BY <2>4, <3>1, <3>2 DEF Continues
  <2>5. n <= Len(p) \/ n = Len(p) + 1
    BY <1>1, <2>2
  <2> QED BY <2>3, <2>4, <2>5
<1>4. ASSUME Less(w, p) PROVE Less(w, u)
  <2>1. PICK n \in DOMAIN w \cap DOMAIN p : w[n] < p[n] /\ \A m \in 1..(n - 1) : w[m] = p[m]
    BY <1>4 DEF Less
  <2>2. n \in 1..Len(p) /\ \A m \in 1..(n - 1) : m \in 1..Len(p)
    BY <1>1, <2>1
  <2>3. n \in DOMAIN u /\ w[n] < u[n] /\ \A m \in 1..(n - 1) : w[m] = u[m]
    BY <1>1, <2>1, <2>2, SMTT(30)
  <2> QED BY <2>1, <2>3 DEF Less
<1>5. ASSUME NEW d \in Nat, d < e, Continues(w, p, d) PROVE Less(w, u)
  <2>1. w[Len(p) + 1] = d /\ Len(p) < Len(w) /\ \A m \in 1..Len(p) : w[m] = p[m]
    BY <1>1, <1>5 DEF Continues, HasPrefix
  <2>2. Len(p) + 1 \in DOMAIN w \cap DOMAIN u /\ w[Len(p) + 1] < u[Len(p) + 1]
    <3>1. Len(p) + 1 \in 1..Len(w) /\ Len(p) + 1 \in 1..(Len(p) + 1)
      BY <1>1, <1>2, <2>1
    <3> QED BY <1>1, <1>2, <1>5, <2>1, <3>1
  <2>3. \A m \in 1..((Len(p) + 1) - 1) : w[m] = u[m]
    <3>1. (Len(p) + 1) - 1 = Len(p)
      BY <1>1
    <3> QED BY <1>1, <2>1, <3>1
  <2> QED BY <2>2, <2>3 DEF Less
<1> QED BY <1>3, <1>4, <1>5 DEF u

\* What comes before the place of a loop.
LEMMA BeforePlace ==
  ASSUME NEW w \in Seq(Nat), NEW p \in Seq(Nat), NEW e \in Nat
  PROVE  Before(w, Append(p, e)) <=>
           HasPrefix(p, w) \/ Less(w, p) \/ \E d \in Nat : d < e /\ Continues(w, p, d)
<1>1. Before(w, Append(p, e)) <=> (HasPrefix(Append(p, e), w) /\ w # Append(p, e)) \/ Less(w, Append(p, e))
  BY DEF Before, Less
<1>2. HasPrefix(p, w) => w # Append(p, e)
  <2>1. HasPrefix(p, w) => Len(w) <= Len(p)
    BY DEF HasPrefix
  <2> QED BY <2>1, Longer
<1> QED BY <1>1, <1>2, PrefixOfLonger, LessThanLonger


-----------------------------------------------------------------------------
(* The walk.                                                               *)

\* During a walk, and between two calls, a child is in its parent's array.
LEMMA WalkTree ==
  ASSUME IInv, AtRest
  PROVE  /\ DOMAIN node \subseteq Seq(Char) /\ DOMAIN node \subseteq Seq(Nat)
         /\ root_node <=> DOMAIN node # {}
         /\ DOMAIN node # {} => Root \in DOMAIN node
         /\ \A w \in DOMAIN node : \A c \in node[w].next : c \in Char /\ c \in Nat /\ Append(w, c) \in DOMAIN node
         /\ \A w \in DOMAIN node, u \in DOMAIN node : \A d \in Nat : Continues(w, u, d) => d \in node[u].next
<1>1. Orphan = {} /\ TreeOfNodes /\ DOMAIN node \subseteq Seq(Char) /\ TypeOK
  BY DEF AtRest, Orphan, Releasing, IInv, TypeOK
<1>2. DOMAIN node # {} => Root \in DOMAIN node
  <2> SUFFICES ASSUME NEW w \in DOMAIN node PROVE Root \in DOMAIN node
    OBVIOUS
  <2>1. w \in Seq(Char) /\ 0 \in 0..Len(w)
    BY <1>1
  <2> QED BY <1>1, <2>1, PrefixesThere, PathOfKey
<1>3. \A w \in DOMAIN node : \A c \in node[w].next : c \in Char /\ c \in Nat /\ Append(w, c) \in DOMAIN node
  BY <1>1, CharAssumption DEF TreeOfNodes, NextClosed, TypeOK, TrieNode
<1>4. ASSUME NEW w \in DOMAIN node, NEW u \in DOMAIN node, NEW d \in Nat, Continues(w, u, d)
      PROVE  d \in node[u].next
  <2> DEFINE v == Append(u, d)
  <2>1. w \in Seq(Char) /\ u \in Seq(Char) /\ w \in Seq(Nat) /\ u \in Seq(Nat) /\ Len(u) \in Nat /\ Len(w) \in Nat
    BY <1>1, NumberString
  <2>2. Len(u) < Len(w) /\ w[Len(u) + 1] = d
    BY <1>4 DEF Continues
  <2>3. Len(u) + 1 \in 0..Len(w) /\ Len(u) + 1 \in 1..Len(w)
    BY <2>1, <2>2
  <2>4. d \in Char
    BY <2>1, <2>2, <2>3, ElementOfSeq
  <2>5. v \in Seq(Char) /\ v # Root /\ Len(v) = Len(u) + 1 /\ Parent(v) = u /\ v[Len(u) + 1] = d
    BY <2>1, <2>4, ChildOf
  <2>6. HasPrefix(w, v)
    BY <1>4, <2>1, PrefixContinues
  <2>7. v = SubSeq(w, 1, Len(u) + 1)
    BY <2>1, <2>5, <2>6, PrefixIs
  <2>8. v \in DOMAIN node
    BY <1>1, <2>3, <2>7, PrefixesThere
  <2> HIDE DEF v
  <2>9. Points(v)
    BY <1>1, <2>5, <2>8 DEF TreeOfNodes, HasParent
  <2> QED BY <2>5, <2>9 DEF Points
<1> QED BY <1>1, <1>2, <1>3, <1>4, NumberString DEF TreeOfNodes, Rooted


Frames == [node : Seq(Char), i : Nat]

LEMMA FrameOf ==
  ASSUME NEW w \in Seq(Char)
  PROVE  Frame(w) \in Frames /\ Frame(w).node = w /\ Frame(w).i = 0
BY DEF Frame, Frames

\* At the first place only the root comes before.
LEMMA BeforeFirst ==
  ASSUME NEW w \in Seq(Nat)
  PROVE  Before(w, Append(Root, 0)) <=> w = Root
<1>1. Root \in Seq(Nat) /\ Len(Root) = 0 /\ DOMAIN Root = {} /\ Len(w) \in Nat
  BY DEF Root
<1>2. Before(w, Append(Root, 0)) <=> HasPrefix(Root, w) \/ Less(w, Root) \/ \E d \in Nat : d < 0 /\ Continues(w, Root, d)
  <2>1. Root \in Seq(Nat) /\ 0 \in Nat
    BY <1>1
  <2> QED BY <2>1, BeforePlace, Zenon
<1>3. ~ Less(w, Root) /\ \A d \in Nat : ~ (d < 0)
  BY <1>1 DEF Less
<1>4. HasPrefix(Root, w) => w = Root
  <2>1. HasPrefix(Root, w) => Len(w) = 0
    BY <1>1 DEF HasPrefix
  <2> QED BY <2>1 DEF Root
<1>5. HasPrefix(Root, Root)
  BY <1>1, PrefixItself
<1> QED BY <1>2, <1>3, <1>4, <1>5

LEMMA StartWalk == ASSUME IInv, trie_dfs PROVE Walk'
<1>1. AtRest /\ pc' = "dfs" /\ node' = node
  BY DEF trie_dfs, AtRest
<1>2. /\ DOMAIN node \subseteq Seq(Nat) /\ (root_node <=> DOMAIN node # {})
      /\ (DOMAIN node # {} => Root \in DOMAIN node)
  BY <1>1, WalkTree
<1>3. CASE root_node
  <2>1. todo' = << Frame(Root) >> /\ visited' = << Root >> /\ Frame(Root) \in Frames
        /\ Frame(Root).node = Root /\ Frame(Root).i = 0
    BY <1>3, FrameOf, RootType DEF trie_dfs
  <2>2. todo' \in Seq(Frames) /\ DOMAIN todo' = { 1 } /\ todo'[1].node = Root /\ todo'[1].i = 0 /\ todo' # << >>
    BY <2>1
  <2>3. visited' \in Seq(Seq(Char)) /\ DOMAIN visited' = { 1 } /\ visited'[1] = Root
    BY <2>1, RootType
  <2>4. Place' = Append(Root, 0)
    BY <2>2 DEF Place
  <2>5. { visited'[n] : n \in DOMAIN visited' } = { Root }
    BY <2>3
  <2>6. { w \in DOMAIN node' : todo' = << >> \/ Before(w, Append(Root, 0)) } = { Root }
    BY <1>1, <1>2, <1>3, <2>2, BeforeFirst
  <2>7. { w \in DOMAIN node : todo = << >> \/ Before(w, Place) }'
          = { w \in DOMAIN node' : todo' = << >> \/ Before(w, Append(Root, 0)) }
    BY <2>4 DEF Before, HasPrefix
  <2>8. \A m, n \in DOMAIN visited' : ~ (m < n)
    BY <2>3
  <2>9. \A n \in DOMAIN todo' : n = 1 /\ n + 1 \notin DOMAIN todo' /\ todo'[n].node \in DOMAIN node' /\ todo'[n].node = Root
    BY <1>1, <1>2, <1>3, <2>2
  <2> QED BY <2>2, <2>3, <2>5, <2>6, <2>7, <2>8, <2>9 DEF Walk, Frames
<1>4. CASE ~ root_node
  <2>1. todo' = << >> /\ visited' = << >> /\ DOMAIN node' = {}
    BY <1>1, <1>2, <1>4 DEF trie_dfs
  <2>2. todo' \in Seq(Frames) /\ visited' \in Seq(Seq(Char)) /\ DOMAIN todo' = {} /\ DOMAIN visited' = {}
    BY <2>1
  <2> QED BY <2>1, <2>2 DEF Walk, Frames
<1> QED BY <1>3, <1>4


\* The stack when the walk goes down to kid: a new frame, and the loop of the
\* parent one further.
\* The frame of a loop that has come to j.
Moved(f, j) == [f EXCEPT !.i = j]

Deeper(t, kid, i) == << Frame(kid) >> \o [t EXCEPT ![1].i = i + 1]

LEMMA MovedFrame ==
  ASSUME NEW f \in Frames, NEW j \in Nat
  PROVE  Moved(f, j) \in Frames /\ Moved(f, j).node = f.node /\ Moved(f, j).i = j
BY DEF Moved, Frames

LEMMA DownStack ==
  ASSUME todo \in Seq(Frames), Len(todo) # 0, NEW kid \in Seq(Char), NEW i \in Nat,
         todo' = Deeper(todo, kid, i)
  PROVE  /\ todo' \in Seq(Frames) /\ Len(todo') = Len(todo) + 1 /\ Len(todo) \in Nat \ { 0 } /\ todo' # << >>
         /\ todo'[1] = Frame(kid) /\ todo'[2] = Moved(todo[1], i + 1)
         /\ \A n \in 3..(Len(todo) + 1) : todo'[n] = todo[n - 1] /\ n - 1 \in 2..Len(todo)
<1> DEFINE rest == [todo EXCEPT ![1].i = i + 1]
           f == Frame(kid)
<1>1. Len(todo) \in Nat \ { 0 } /\ 1 \in DOMAIN todo /\ DOMAIN todo = 1..Len(todo) /\ todo[1] \in Frames
  OBVIOUS
<1>2. rest[1] = [todo[1] EXCEPT !.i = i + 1] /\ \A n \in 2..Len(todo) : rest[n] = todo[n]
  BY <1>1
<1>3. rest[1] \in Frames /\ rest[1] = Moved(todo[1], i + 1)
  <2>1. rest[1] = Moved(todo[1], i + 1)
    BY <1>2 DEF Moved
  <2>2. i + 1 \in Nat
    OBVIOUS
  <2> QED BY <1>1, <2>1, <2>2, MovedFrame
<1>4. rest \in Seq(Frames) /\ Len(rest) = Len(todo)
  <2>1. rest \in [1..Len(todo) -> Frames]
    <3>1. DOMAIN rest = 1..Len(todo) /\ rest = [n \in 1..Len(todo) |-> rest[n]]
      BY <1>1
    <3>2. \A n \in 1..Len(todo) : todo[n] \in Frames /\ (n = 1 \/ n \in 2..Len(todo))
      BY <1>1
    <3>3. \A n \in 1..Len(todo) : rest[n] \in Frames
      BY <1>2, <1>3, <3>2
    <3> HIDE DEF rest
    <3> QED BY <3>1, <3>3
  <2> HIDE DEF rest
  <2>2. rest \in Seq(Frames)
    <3>1. Len(todo) \in Nat /\ \E n \in Nat : rest \in [1..n -> Frames]
      BY <1>1, <2>1
    <3> QED BY <3>1 DEF Seq
  <2>3. DOMAIN rest = 1..Len(todo)
    BY <2>1
  <2> QED BY <1>1, <2>2, <2>3
<1>5. f \in Frames
  BY FrameOf
<1> DEFINE one == << f >>
<1>6. one \in Seq(Frames) /\ Len(one) = 1 /\ one[1] = f
  BY <1>5
<1>7. todo' = one \o rest
  BY DEF Deeper
<1> HIDE DEF rest, f, one
<1>8. todo' \in Seq(Frames) /\ Len(todo') = 1 + Len(todo)
      /\ \A n \in 1..(1 + Len(todo)) : todo'[n] = IF n <= 1 THEN one[n] ELSE rest[n - 1]
  <2>1. /\ one \o rest \in Seq(Frames) /\ Len(one \o rest) = Len(one) + Len(rest)
        /\ \A n \in 1..(Len(one) + Len(rest)) :
             (one \o rest)[n] = IF n <= Len(one) THEN one[n] ELSE rest[n - Len(one)]
    BY <1>4, <1>6, ConcatProperties, ZenonT(40)
  <2>2. todo' \in Seq(Frames) /\ Len(todo') = 1 + Len(todo)
    BY <1>4, <1>6, <1>7, <2>1
  <2>3. ASSUME NEW n \in 1..(1 + Len(todo)) PROVE todo'[n] = IF n <= 1 THEN one[n] ELSE rest[n - 1]
    <3>1. n \in 1..(Len(one) + Len(rest))
      BY <1>4, <1>6
    <3>2. todo'[n] = IF n <= Len(one) THEN one[n] ELSE rest[n - Len(one)]
      BY <1>7, <2>1, <3>1
    <3> QED BY <1>6, <3>2
  <2> QED BY <2>2, <2>3
<1>9. todo'[1] = f /\ todo'[2] = rest[1]
  <2>1. 1 \in 1..(1 + Len(todo)) /\ 2 \in 1..(1 + Len(todo)) /\ 1 <= 1 /\ ~ (2 <= 1) /\ 2 - 1 = 1
    BY <1>1
  <2>2. todo'[1] = one[1] /\ todo'[2] = rest[2 - 1]
    BY <1>8, <2>1
  <2> QED BY <1>6, <2>1, <2>2
<1>10. ASSUME NEW n \in 3..(Len(todo) + 1) PROVE todo'[n] = todo[n - 1] /\ n - 1 \in 2..Len(todo)
  <2>1. n \in 1..(1 + Len(todo)) /\ ~ (n <= 1) /\ n - 1 \in 2..Len(todo)
    BY <1>1
  <2> QED BY <1>2, <1>8, <2>1
<1>11. todo' # << >>
  BY <1>1, <1>8
<1>12. todo'[1] = Frame(kid) /\ todo'[2] = Moved(todo[1], i + 1)
  BY <1>3, <1>9 DEF f
<1>13. Len(todo') = Len(todo) + 1
  BY <1>1, <1>8
<1> QED BY <1>1, <1>8, <1>10, <1>11, <1>12, <1>13

\* What the walk knows about its first frame.
LEMMA WalkTop ==
  ASSUME IInv, Walk, pc = "dfs", todo # << >>
  PROVE  /\ todo \in Seq(Frames) /\ todo[1] \in Frames /\ Len(todo) \in Nat \ { 0 } /\ DOMAIN todo = 1..Len(todo)
         /\ todo[1].node \in DOMAIN node /\ todo[1].node \in Seq(Char) /\ todo[1].node \in Seq(Nat)
         /\ todo[1].i \in Nat
         /\ \A w \in DOMAIN node :
              Before(w, Place) <=> \/ HasPrefix(todo[1].node, w) \/ Less(w, todo[1].node)
                                   \/ \E d \in Nat : d < todo[1].i /\ Continues(w, todo[1].node, d)
<1>1. todo \in Seq(Frames) /\ Len(todo) \in Nat \ { 0 } /\ DOMAIN todo = 1..Len(todo) /\ 1 \in DOMAIN todo
  <2>1. todo \in Seq(Frames)
    BY DEF Walk, Frames
  <2> QED BY <2>1
<1>2. todo[1] \in Frames /\ todo[1].node \in DOMAIN node
  <2>1. todo[1].node \in DOMAIN node
    BY <1>1 DEF Walk
  <2> QED BY <1>1, <2>1
<1>3. todo[1].node \in Seq(Char) /\ todo[1].i \in Nat
  BY <1>2 DEF Frames
<1>4. todo[1].node \in Seq(Nat) /\ DOMAIN node \subseteq Seq(Nat)
  BY <1>3, NumberString, WalkTree DEF AtRest
<1> QED BY <1>1, <1>2, <1>3, <1>4, BeforePlace DEF Place

\* The next child of the loop.
LEMMA NextKid ==
  ASSUME IInv, Walk, pc = "dfs", todo # << >>, KidsLeft(todo[1]) # {},
         NEW i, i = CHOOSE c \in KidsLeft(todo[1]) : \A d \in KidsLeft(todo[1]) : c <= d
  PROVE  /\ i \in Nat /\ i \in Char /\ todo[1].i <= i /\ Append(todo[1].node, i) \in DOMAIN node
         /\ \A d \in Nat : d \in node[todo[1].node].next /\ d < i => d < todo[1].i
<1> DEFINE K == KidsLeft(todo[1])
           u == todo[1].node
           j == todo[1].i
<1>1. u \in DOMAIN node /\ j \in Nat
  BY WalkTop
<1>2. \A c \in node[u].next : c \in Char /\ c \in Nat /\ Append(u, c) \in DOMAIN node
  BY <1>1, WalkTree DEF AtRest
<1>3. K = { c \in node[u].next : c >= j }
  BY DEF KidsLeft
<1>4. K \in SUBSET Nat /\ K # {}
  BY <1>2, <1>3
<1> HIDE DEF K, u, j
<1>5. \E c \in K : \A d \in K : c <= d
  BY <1>4, LeastNatural
<1>6. i \in K /\ \A d \in K : i <= d
  BY <1>5 DEF K
<1>7. i \in Nat /\ i \in node[u].next /\ j <= i
  BY <1>1, <1>2, <1>3, <1>6
<1>8. ASSUME NEW d \in Nat, d \in node[u].next, d < i PROVE d < j
  <2>1. d \notin K
    <3>1. d \in K => i <= d
      BY <1>6
    <3>2. ~ (i <= d)
      BY <1>7, <1>8
    <3> QED BY <3>1, <3>2
  <2> QED BY <1>1, <1>3, <1>8, <2>1
<1> QED BY <1>2, <1>7, <1>8 DEF u, j


\* The stack is the path to the place of the walk.
Stack(t, N) ==
  \A n \in DOMAIN t :
    /\ t[n].node \in N
    /\ n + 1 \in DOMAIN t => t[n].node = Append(t[n + 1].node, t[n + 1].i - 1) /\ t[n + 1].i > 0
    /\ n + 1 \notin DOMAIN t => t[n].node = Root

LEMMA WalkDown == ASSUME IInv, Walk, DfsDown PROVE Walk'
<1> DEFINE u   == todo[1].node
           j   == todo[1].i
           i   == CHOOSE c \in KidsLeft(todo[1]) : \A d \in KidsLeft(todo[1]) : c <= d
           kid == Append(u, i)
<1>1. /\ pc = "dfs" /\ pc' = "dfs" /\ todo # << >> /\ KidsLeft(todo[1]) # {} /\ node' = node
      /\ todo' = << Frame(kid) >> \o [todo EXCEPT ![1].i = i + 1]
      /\ visited' = Append(visited, kid)
  BY DEF DfsDown
<1>2. /\ todo \in Seq(Frames) /\ u \in DOMAIN node /\ u \in Seq(Char) /\ u \in Seq(Nat) /\ j \in Nat
      /\ Len(todo) \in Nat \ { 0 }
      /\ \A w \in DOMAIN node :
           Before(w, Place) <=> HasPrefix(u, w) \/ Less(w, u) \/ \E d \in Nat : d < j /\ Continues(w, u, d)
  BY <1>1, WalkTop
<1>3. /\ i \in Nat /\ i \in Char /\ j <= i /\ kid \in DOMAIN node
      /\ \A d \in Nat : d \in node[u].next /\ d < i => d < j
  BY <1>1, NextKid
<1>4. /\ DOMAIN node \subseteq Seq(Char) /\ DOMAIN node \subseteq Seq(Nat)
      /\ \A w \in DOMAIN node : \A d \in Nat : Continues(w, u, d) => d \in node[u].next
  BY <1>1, <1>2, WalkTree DEF AtRest
<1>5. kid \in Seq(Char) /\ kid \in Seq(Nat)
  BY <1>3, <1>4
<1>6. /\ todo' \in Seq(Frames) /\ Len(todo') = Len(todo) + 1 /\ Len(todo) \in Nat \ { 0 } /\ todo' # << >>
      /\ todo'[1].node = kid /\ todo'[1].i = 0 /\ todo'[2].node = u /\ todo'[2].i = i + 1
      /\ \A n \in 3..(Len(todo) + 1) : todo'[n] = todo[n - 1] /\ n - 1 \in 2..Len(todo)
  <2>1. todo \in Seq(Frames) /\ todo # << >> /\ kid \in Seq(Char) /\ i \in Nat
    BY <1>1, <1>2, <1>3, <1>5
  <2>2. todo' = Deeper(todo, kid, i)
    BY <1>1 DEF Deeper
  <2>3. u = todo[1].node
    OBVIOUS
  <2> HIDE DEF kid, i, u, j
  <2>4. Len(todo) # 0 /\ todo[1] \in Frames /\ i + 1 \in Nat
    BY <1>2, <2>1
  <2>5. /\ todo' \in Seq(Frames) /\ Len(todo') = Len(todo) + 1 /\ Len(todo) \in Nat \ { 0 } /\ todo' # << >>
        /\ todo'[1] = Frame(kid) /\ todo'[2] = Moved(todo[1], i + 1)
        /\ \A n \in 3..(Len(todo) + 1) : todo'[n] = todo[n - 1] /\ n - 1 \in 2..Len(todo)
    BY <2>1, <2>2, <2>4, DownStack
  <2>6. todo'[1].node = kid /\ todo'[1].i = 0
    BY <2>1, <2>5, FrameOf
  <2>7. todo'[2].node = u /\ todo'[2].i = i + 1
    <3>1. Moved(todo[1], i + 1).node = todo[1].node /\ Moved(todo[1], i + 1).i = i + 1
      BY <2>4, MovedFrame
    <3>2. todo'[2] = Moved(todo[1], i + 1)
      BY <2>5
    <3> QED BY <2>3, <3>1, <3>2
  <2> QED BY <2>5, <2>6, <2>7
<1>7. /\ visited \in Seq(Seq(Char)) /\ Stack(todo, DOMAIN node)
      /\ \A m, n \in DOMAIN visited : m < n => Before(visited[m], visited[n])
      /\ \A n \in DOMAIN visited : visited[n] \in DOMAIN node /\ Before(visited[n], Place)
      /\ \A w \in DOMAIN node : Before(w, Place) => \E n \in DOMAIN visited : visited[n] = w
  BY <1>1 DEF Walk, Stack
\* What came before the place of the loop is what comes before the child.
<1>8. ASSUME NEW w \in DOMAIN node PROVE Before(w, Place) <=> Before(w, kid)
  <2>1. w \in Seq(Nat)
    BY <1>4
  <2>2. Before(w, kid) <=> HasPrefix(u, w) \/ Less(w, u) \/ \E d \in Nat : d < i /\ Continues(w, u, d)
    BY <1>2, <1>3, <2>1, BeforePlace
  <2>3. ASSUME NEW d \in Nat, Continues(w, u, d) PROVE d < i <=> d < j
    <3>1. d \in node[u].next
      BY <1>4, <2>3
    <3>2. d < i => d < j
      BY <1>3, <3>1
    <3>3. d < j => d < i
      BY <1>2, <1>3
    <3> QED BY <3>2, <3>3
  <2> QED BY <1>2, <2>2, <2>3
\* What comes before the first place below the child is what comes before it, and itself.
<1>9. ASSUME NEW w \in DOMAIN node PROVE Before(w, Append(kid, 0)) <=> Before(w, kid) \/ w = kid
  <2>1. w \in Seq(Nat)
    BY <1>4
  <2>2. Before(w, Append(kid, 0)) <=> HasPrefix(kid, w) \/ Less(w, kid) \/ \E d \in Nat : d < 0 /\ Continues(w, kid, d)
    BY <1>5, <2>1, BeforePlace
  <2>3. Before(w, kid) <=> (HasPrefix(kid, w) /\ w # kid) \/ Less(w, kid)
    BY DEF Before, Less
  <2>4. HasPrefix(kid, kid) /\ \A d \in Nat : ~ (d < 0)
    BY <1>5, PrefixItself
  <2> HIDE DEF kid
  <2> QED BY <2>2, <2>3, <2>4
<1> HIDE DEF u, j, i, kid
<1>10. /\ visited' \in Seq(Seq(Char)) /\ DOMAIN visited' = DOMAIN visited \cup { Len(visited) + 1 }
       /\ Len(visited) \in Nat /\ DOMAIN visited = 1..Len(visited) /\ visited'[Len(visited) + 1] = kid
       /\ \A n \in DOMAIN visited : visited'[n] = visited[n]
  BY <1>1, <1>5, <1>7
<1>11. ASSUME NEW m \in DOMAIN visited', NEW n \in DOMAIN visited', m < n PROVE Before(visited'[m], visited'[n])
  <2>1. m \in DOMAIN visited
    BY <1>10, <1>11
  <2>2. CASE n \in DOMAIN visited
    BY <1>7, <1>10, <1>11, <2>1, <2>2
  <2>3. CASE n = Len(visited) + 1
    <3>1. visited'[m] = visited[m] /\ visited'[n] = kid
      BY <1>10, <2>1, <2>3
    <3>2. visited[m] \in DOMAIN node /\ Before(visited[m], Place)
      BY <1>7, <2>1
    <3>3. Before(visited[m], kid)
      BY <1>8, <3>2
    <3> QED BY <3>1, <3>3
  <2> QED BY <1>10, <2>2, <2>3
<1>12. { visited'[n] : n \in DOMAIN visited' } = { w \in DOMAIN node : Before(w, Append(kid, 0)) }
  <2>1. ASSUME NEW n \in DOMAIN visited'
        PROVE  visited'[n] \in DOMAIN node /\ Before(visited'[n], Append(kid, 0))
    <3>1. CASE n \in DOMAIN visited
      <4>1. visited'[n] = visited[n] /\ visited[n] \in DOMAIN node /\ Before(visited[n], Place)
        BY <1>7, <1>10, <3>1
      <4>2. Before(visited[n], Append(kid, 0))
        BY <1>8, <1>9, <4>1
      <4> QED BY <4>1, <4>2
    <3>2. CASE n = Len(visited) + 1
      <4>1. visited'[n] = kid
        BY <1>10, <3>2
      <4> QED BY <1>3, <1>9, <4>1
    <3> QED BY <1>10, <3>1, <3>2
  <2>2. ASSUME NEW w \in DOMAIN node, Before(w, Append(kid, 0)) PROVE \E n \in DOMAIN visited' : visited'[n] = w
    <3>1. CASE w = kid
      BY <1>10, <3>1
    <3>2. CASE w # kid
      <4>1. Before(w, Place)
        BY <1>8, <1>9, <2>2, <3>2
      <4>2. PICK n \in DOMAIN visited : visited[n] = w
        BY <1>7, <4>1
      <4> QED BY <1>10, <4>2
    <3> QED BY <3>1, <3>2
  <2> QED BY <2>1, <2>2
<1>13. { w \in DOMAIN node : todo = << >> \/ Before(w, Place) }' = { w \in DOMAIN node : Before(w, Append(kid, 0)) }
  <2>1. Place' = Append(kid, 0)
    BY <1>6 DEF Place
  <2> QED BY <1>1, <1>6, <2>1 DEF Before, HasPrefix
<1>14. Stack(todo', DOMAIN node)
  <2> SUFFICES ASSUME NEW n \in DOMAIN todo'
               PROVE  /\ todo'[n].node \in DOMAIN node
                      /\ n + 1 \in DOMAIN todo' =>
                           todo'[n].node = Append(todo'[n + 1].node, todo'[n + 1].i - 1) /\ todo'[n + 1].i > 0
                      /\ n + 1 \notin DOMAIN todo' => todo'[n].node = Root
    BY DEF Stack
  <2>1. DOMAIN todo' = 1..(Len(todo) + 1) /\ DOMAIN todo = 1..Len(todo) /\ Len(todo) \in Nat \ { 0 }
    BY <1>2, <1>6
  <2>2. CASE n = 1
    <3>1. 1 + 1 = 2 /\ 2 \in DOMAIN todo' /\ (i + 1) - 1 = i /\ i + 1 > 0
      BY <1>3, <2>1
    <3>2. kid = Append(u, i)
      BY DEF kid
    <3> QED BY <1>3, <1>6, <2>2, <3>1, <3>2
  <2>3. CASE n # 1
    <3>1. n \in 2..(Len(todo) + 1) /\ n - 1 \in DOMAIN todo /\ (n - 1) + 1 = n
      BY <2>1, <2>3
    <3>2. todo'[n].node = todo[n - 1].node
      <4>1. CASE n = 2
        <5>1. n - 1 = 1
          BY <4>1
        <5> QED BY <1>6, <4>1, <5>1 DEF u
      <4>2. CASE n # 2
        <5>1. n \in 3..(Len(todo) + 1)
          BY <2>1, <3>1, <4>2
        <5> QED BY <1>6, <5>1
      <4> QED BY <4>1, <4>2
    <3>3. /\ todo[n - 1].node \in DOMAIN node
          /\ n \in DOMAIN todo => todo[n - 1].node = Append(todo[n].node, todo[n].i - 1) /\ todo[n].i > 0
          /\ n \notin DOMAIN todo => todo[n - 1].node = Root
      BY <1>7, <3>1 DEF Stack
    <3>4. n + 1 \in DOMAIN todo' => n \in DOMAIN todo /\ todo'[n + 1] = todo[n]
      <4>1. n + 1 \in DOMAIN todo' => n + 1 \in 3..(Len(todo) + 1) /\ (n + 1) - 1 = n /\ n \in DOMAIN todo
        BY <2>1, <3>1
      <4> QED BY <1>6, <4>1
    <3>5. n + 1 \notin DOMAIN todo' => n \notin DOMAIN todo
      BY <2>1, <3>1
    <3> QED BY <3>2, <3>3, <3>4, <3>5
  <2> QED BY <2>2, <2>3
<1> QED BY <1>1, <1>6, <1>10, <1>11, <1>12, <1>13, <1>14 DEF Walk, Stack, Frames


LEMMA WalkUp == ASSUME IInv, Walk, DfsUp PROVE Walk'
<1> DEFINE u == todo[1].node
           j == todo[1].i
<1>1. /\ pc = "dfs" /\ pc' = "dfs" /\ todo # << >> /\ KidsLeft(todo[1]) = {} /\ node' = node
      /\ todo' = Tail(todo) /\ visited' = visited
  BY DEF DfsUp
<1>2. /\ todo \in Seq(Frames) /\ u \in DOMAIN node /\ u \in Seq(Char) /\ u \in Seq(Nat) /\ j \in Nat
      /\ Len(todo) \in Nat \ { 0 } /\ DOMAIN todo = 1..Len(todo)
      /\ \A w \in DOMAIN node :
           Before(w, Place) <=> HasPrefix(u, w) \/ Less(w, u) \/ \E d \in Nat : d < j /\ Continues(w, u, d)
  BY <1>1, WalkTop
<1>3. /\ DOMAIN node \subseteq Seq(Char) /\ DOMAIN node \subseteq Seq(Nat)
      /\ \A w \in DOMAIN node : \A d \in Nat : Continues(w, u, d) => d \in node[u].next
  BY <1>1, <1>2, WalkTree DEF AtRest
<1>4. /\ visited \in Seq(Seq(Char)) /\ Stack(todo, DOMAIN node)
      /\ \A m, n \in DOMAIN visited : m < n => Before(visited[m], visited[n])
      /\ { visited[n] : n \in DOMAIN visited } = { w \in DOMAIN node : Before(w, Place) }
  BY <1>1 DEF Walk, Stack
<1>5. /\ todo' \in Seq(Frames) /\ Len(todo') = Len(todo) - 1 /\ DOMAIN todo' = 1..(Len(todo) - 1)
      /\ \A n \in 1..(Len(todo) - 1) : todo'[n] = todo[n + 1] /\ n + 1 \in DOMAIN todo
  BY <1>1, <1>2
<1>6. \A d \in node[u].next : ~ (d >= j)
  BY <1>1 DEF KidsLeft
<1> HIDE DEF u, j
\* All children were visited, with what is below them.
<1>7. ASSUME NEW w \in DOMAIN node
      PROVE  Before(w, Place) <=> HasPrefix(u, w) \/ Less(w, u) \/ \E d \in Nat : Continues(w, u, d)
  <2>1. ASSUME NEW d \in Nat, Continues(w, u, d) PROVE d < j
    <3>1. ~ (d >= j)
      BY <1>3, <1>6, <2>1
    <3> QED BY <1>2, <3>1
  <2> QED BY <1>2, <2>1
<1>8. Stack(todo', DOMAIN node)
  <2> SUFFICES ASSUME NEW n \in DOMAIN todo'
               PROVE  /\ todo'[n].node \in DOMAIN node
                      /\ n + 1 \in DOMAIN todo' =>
                           todo'[n].node = Append(todo'[n + 1].node, todo'[n + 1].i - 1) /\ todo'[n + 1].i > 0
                      /\ n + 1 \notin DOMAIN todo' => todo'[n].node = Root
    BY DEF Stack
  <2>1. todo'[n] = todo[n + 1] /\ n + 1 \in DOMAIN todo /\ n \in Nat
    BY <1>5
  <2>2. /\ todo[n + 1].node \in DOMAIN node
        /\ n + 1 + 1 \in DOMAIN todo =>
             todo[n + 1].node = Append(todo[n + 1 + 1].node, todo[n + 1 + 1].i - 1) /\ todo[n + 1 + 1].i > 0
        /\ n + 1 + 1 \notin DOMAIN todo => todo[n + 1].node = Root
    BY <1>4, <2>1 DEF Stack
  <2>3. n + 1 \in DOMAIN todo' <=> n + 1 + 1 \in DOMAIN todo
    BY <1>2, <1>5, <2>1
  <2>4. n + 1 \in DOMAIN todo' => todo'[n + 1] = todo[n + 1 + 1]
    BY <1>5
  <2> QED BY <2>1, <2>2, <2>3, <2>4
<1>9. CASE Len(todo) = 1
  <2>1. todo' = << >>
    BY <1>1, <1>2, <1>9
  <2>2. u = Root
    <3>1. 1 \in DOMAIN todo /\ 1 + 1 \notin DOMAIN todo
      BY <1>2, <1>9
    <3> QED BY <1>4, <3>1 DEF Stack, u
  <2>3. ASSUME NEW w \in DOMAIN node PROVE Before(w, Place)
    <3>1. w \in Seq(Nat) /\ Root \in Seq(Nat) /\ Len(Root) = 0 /\ DOMAIN Root = {} /\ Len(w) \in Nat
      BY <1>3 DEF Root
    <3>2. CASE Len(w) = 0
      <4>1. w = Root
        BY <3>1, <3>2 DEF Root
      <4> QED BY <1>7, <2>2, <3>1, <4>1, PrefixItself
    <3>3. CASE Len(w) # 0
      <4>1. 1 \in 1..Len(w) /\ w[1] \in Nat /\ Len(Root) < Len(w) /\ Len(Root) + 1 = 1
        BY <3>1, <3>3
      <4>2. HasPrefix(w, Root)
        BY <3>1 DEF HasPrefix
      <4>3. Continues(w, u, w[1])
        BY <2>2, <4>1, <4>2 DEF Continues
      <4> QED BY <1>7, <4>1, <4>3
    <3> QED BY <3>2, <3>3
  <2>4. { w \in DOMAIN node : todo = << >> \/ Before(w, Place) }' = { w \in DOMAIN node : Before(w, Place) }
    BY <1>1, <2>1, <2>3
  <2> QED BY <1>1, <1>4, <1>5, <1>8, <2>4, ZenonT(40) DEF Walk, Stack, Frames
<1>10. CASE Len(todo) # 1
  <2> DEFINE p == todo[2].node
             e == todo[2].i - 1
  <2>1. /\ 1 \in DOMAIN todo /\ 2 \in DOMAIN todo /\ 1 \in 1..(Len(todo) - 1) /\ todo[2] \in Frames
        /\ 1 + 1 = 2
    BY <1>2, <1>10
  <2>2. u = Append(p, e) /\ todo[2].i > 0 /\ p \in DOMAIN node
    BY <1>4, <2>1 DEF Stack, u
  <2>3. p \in Seq(Nat) /\ e \in Nat /\ e + 1 = todo[2].i
    BY <1>3, <2>1, <2>2 DEF Frames
  <2>4. todo'[1] = todo[2] /\ todo' # << >>
    BY <1>5, <2>1
  <2>5. Place' = Append(p, e + 1)
    BY <2>3, <2>4 DEF Place
  <2> HIDE DEF p, e
  <2>6. ASSUME NEW w \in DOMAIN node PROVE Before(w, Place) <=> Before(w, Append(p, e + 1))
    <3>1. w \in Seq(Nat) /\ e + 1 \in Nat
      BY <1>3, <2>3
    <3>2. Before(w, Append(p, e + 1)) <=>
            HasPrefix(p, w) \/ Less(w, p) \/ \E d \in Nat : d < e + 1 /\ Continues(w, p, d)
      BY <2>3, <3>1, BeforePlace
    <3>3. (\E d \in Nat : d < e + 1 /\ Continues(w, p, d)) <=>
            (\E d \in Nat : d < e /\ Continues(w, p, d)) \/ Continues(w, p, e)
      <4>1. \A d \in Nat : d < e + 1 <=> d < e \/ d = e
        BY <2>3
      <4> QED BY <2>3, <4>1
    <3>4. HasPrefix(u, w) <=> HasPrefix(p, w) \/ w = u
      BY <2>2, <2>3, <3>1, PrefixOfLonger
    <3>5. Less(w, u) <=> Less(w, p) \/ \E d \in Nat : d < e /\ Continues(w, p, d)
      BY <2>2, <2>3, <3>1, LessThanLonger
    <3>6. HasPrefix(w, u) <=> Continues(w, p, e)
      BY <2>2, <2>3, <3>1, PrefixContinues
    <3>7. HasPrefix(w, u) <=> w = u \/ \E d \in Nat : Continues(w, u, d)
      <4>1. w = u => HasPrefix(w, u)
        BY <3>1, PrefixItself
      <4>2. ASSUME NEW d \in Nat, Continues(w, u, d) PROVE HasPrefix(w, u)
        BY <4>2 DEF Continues
      <4>3. ASSUME HasPrefix(w, u), w # u PROVE \E d \in Nat : Continues(w, u, d)
        <5>1. w \in Seq(Char) /\ u \in Seq(Char)
          BY <1>2, <1>3
        <5>2. Len(u) + 1 \in 1..Len(w) /\ w[Len(u) + 1] \in Char
          BY <4>3, <5>1, PrefixLonger
        <5>3. w[Len(u) + 1] \in Nat /\ Len(u) < Len(w)
          <6>1. Len(u) \in Nat /\ Len(w) \in Nat
            BY <5>1
          <6>2. Len(u) < Len(w)
            BY <5>2, <6>1
          <6>3. w[Len(u) + 1] \in Nat
            BY <5>2, CharAssumption
          <6> QED BY <6>2, <6>3
        <5> QED BY <4>3, <5>3 DEF Continues
      <4> QED BY <4>1, <4>2, <4>3
    <3> QED BY <1>7, <3>2, <3>3, <3>4, <3>5, <3>6, <3>7
  <2>7. { w \in DOMAIN node : todo = << >> \/ Before(w, Place) }' = { w \in DOMAIN node : Before(w, Append(p, e + 1)) }
    BY <1>1, <2>4, <2>5 DEF Before, HasPrefix
  <2>8. { w \in DOMAIN node : Before(w, Place) } = { w \in DOMAIN node : Before(w, Append(p, e + 1)) }
    BY <2>6
  <2> QED BY <1>1, <1>4, <1>5, <1>8, <2>7, <2>8, ZenonT(40) DEF Walk, Stack, Frames
<1> QED BY <1>9, <1>10

\* A walk begins with trie_dfs, and no call interrupts it.
LEMMA NextWalk == ASSUME IInv, Walk, [Next]_vars PROVE Walk'
<1>1. CASE Call
  <2>1. CASE trie_dfs
    BY <2>1, StartWalk
  <2>2. CASE ~ trie_dfs
    <3>1. pc' # "dfs"
      BY <1>1, <2>2 DEF Call, trie_insert_binary, trie_insert, RefuseNull, Replace, StartInsert,
                        trie_remove_binary, trie_remove, RemoveAbsent, StartRemove,
                        trie_lookup_binary, trie_lookup, trie_free
    <3> QED BY <3>1 DEF Walk
  <2> QED BY <2>1, <2>2
<1>2. CASE DfsDown
  BY <1>2, WalkDown
<1>3. CASE DfsUp
  BY <1>3, WalkUp
<1>4. CASE InsertStep \/ InsertFails \/ RollbackStep \/ RollbackDone \/ RemoveStep \/ DfsDone \/ FreeStep \/ FreeDone
  <2>1. pc' # "dfs"
    BY <1>4 DEF InsertStep, InsertFails, RollbackStep, RollbackDone, RemoveStep, DfsDone, FreeStep, FreeDone, Return
  <2> QED BY <2>1 DEF Walk
<1>5. CASE UNCHANGED vars
  <2>1. pc' = pc /\ node' = node /\ todo' = todo /\ visited' = visited
    BY <1>5 DEF vars, walkVars
  <2>2. Place' = Place
    BY <2>1 DEF Place
  <2>3. { w \in DOMAIN node : todo = << >> \/ Before(w, Place) }' = { w \in DOMAIN node : todo = << >> \/ Before(w, Place) }
    BY <2>1, <2>2 DEF Before, HasPrefix
  <2>4. Stack(todo, DOMAIN node)' <=> Stack(todo, DOMAIN node)
    BY <2>1 DEF Stack
  <2> QED BY <2>1, <2>3, <2>4 DEF Walk, Stack
<1> QED BY <1>1, <1>2, <1>3, <1>4, <1>5 DEF Next, Work

(* trie_dfs passes every node to the callback once, the keys in the order  *)
(* of strcmp.                                                              *)
THEOREM WalkInOrder == Spec => []DfsRight
<1>1. Init => Walk
  BY DEF Init, Walk
<1>2. ASSUME Walk PROVE DfsRight
  BY <1>2 DEF Walk, DfsRight
<1> QED BY <1>1, <1>2, Invariant, NextWalk, PTL DEF Spec
=============================================================================
