---------------------------- MODULE SuffixTreeProof ----------------------------
(***************************************************************************)
(* Proofs about SuffixTree and CommonSubstrings, for every set of words    *)
(* and any number of additions and calls: the variables keep their types,  *)
(* the pointers, counters and leaf list describe one tree, and the walk of *)
(* lst_alg_bus over it counts every node.  The last part is about the      *)
(* words of the nodes, and about the steps of Ukkonen's construction that  *)
(* find their place in the tree; UkkonenProof builds on it.                *)
(***************************************************************************)
EXTENDS CommonSubstrings, SequenceTheorems, FiniteSetTheorems, WellFoundedInduction, TLAPS

\* The numbers are well ordered: a set of them has a least element.
LEMMA LeastNatural ==
  ASSUME NEW S \in SUBSET Nat, S # {}
  PROVE  \E m \in S : \A n \in S : m <= n
<1> DEFINE Less == { p \in Nat \X Nat : p[1] < p[2] }
<1>1. IsWellFoundedOn(Less, Nat)
  BY NatLessThanWellFounded DEF OpToRel
<1>2. PICK m \in S : \A n \in S : << n, m >> \notin Less
  <2> HIDE DEF Less
  <2> QED BY <1>1, WFMin
<1>3. ASSUME NEW n \in S PROVE m <= n
  <2>1. << n, m >> \in Nat \X Nat /\ << n, m >>[1] = n /\ << n, m >>[2] = m
    OBVIOUS
  <2>2. ~ (n < m)
    BY <1>2, <2>1
  <2> QED BY <2>2
<1> QED BY <1>3

\* And a bounded one has a greatest.
LEMMA GreatestNatural ==
  ASSUME NEW S \in SUBSET Nat, S # {}, NEW max \in Nat, \A n \in S : n <= max
  PROVE  \E m \in S : \A n \in S : n <= m
<1> DEFINE T == { max - n : n \in S }
<1>1. T \in SUBSET Nat /\ T # {}
  <2>1. ASSUME NEW n \in S PROVE max - n \in Nat
    OBVIOUS
  <2> QED BY <2>1
<1>2. PICK t \in T : \A u \in T : t <= u
  <2> HIDE DEF T
  <2> QED BY <1>1, LeastNatural
<1>3. PICK m \in S : t = max - m
  OBVIOUS
<1>4. \A n \in S : max - m <= max - n
  BY <1>2, <1>3
<1> QED BY <1>4

-----------------------------------------------------------------------------
(* What lst_string_items_common returns: the number of common items, at    *)
(* most max, and all of them are common.                                   *)
LEMMA CommonItems ==
  ASSUME NEW s1, NEW off1, NEW s2, NEW off2, NEW max \in Int
  PROVE  LET n == lst_string_items_common(s1, off1, s2, off2, max)
         IN  /\ n \in Nat
             /\ n <= max \/ n = 0
             /\ \A m \in 0..(n - 1) : lst_string_eq(s1, off1 + m, s2, off2 + m)
<1> DEFINE agree == { 0 } \cup { n \in 1..max :
                      \A m \in 0..(n - 1) : lst_string_eq(s1, off1 + m, s2, off2 + m) }
           bound == IF max > 0 THEN max ELSE 0
<1>1. agree \in SUBSET Nat /\ agree # {} /\ bound \in Nat /\ \A n \in agree : n <= bound
  OBVIOUS
<1>2. \E m \in agree : \A n \in agree : n <= m
  <2> HIDE DEF agree, bound
  <2> QED BY <1>1, GreatestNatural
<1>3. lst_string_items_common(s1, off1, s2, off2, max) \in agree
  BY <1>2 DEF lst_string_items_common
<1> QED BY <1>3

-----------------------------------------------------------------------------
(* Nodes and edges.                                                        *)

LEMMA Domains ==
  ASSUME TypeOK
  PROVE  /\ Len(node) \in Nat /\ DOMAIN node = 1..Len(node)
         /\ Len(edge) \in Nat /\ DOMAIN edge = 1..Len(edge)
         /\ Len(strings) \in Nat /\ DOMAIN strings = 1..Len(strings)
         /\ Len(leafs) \in Nat /\ DOMAIN leafs = 1..Len(leafs)
         /\ DOMAIN phases = DOMAIN strings /\ DOMAIN hash = DOMAIN strings
         /\ Root \in DOMAIN node
         /\ \A n \in DOMAIN node : node[n] \in NodeType
         /\ \A e \in DOMAIN edge : edge[e] \in EdgeType
         /\ \A s \in DOMAIN strings : phases[s] \in Int /\ hash[s] \in Int
<1>1. node \in Seq(NodeType) /\ edge \in Seq(EdgeType) /\ leafs \in Seq(DOMAIN node)
  BY DEF TypeOK, ShapeType
<1>2. strings \in Seq(Inputs) /\ phases \in Seq(Int) /\ hash \in Seq(Int)
  BY DEF TypeOK, TableType
<1>3. Len(phases) = Len(strings) /\ Len(hash) = Len(strings)
  BY DEF TypeOK, TableType
<1>4. Len(node) \in Nat /\ DOMAIN node = 1..Len(node) /\ node \in [1..Len(node) -> NodeType]
  BY <1>1, LenProperties
<1>5. Len(edge) \in Nat /\ DOMAIN edge = 1..Len(edge) /\ edge \in [1..Len(edge) -> EdgeType]
  BY <1>1, LenProperties
<1>6. Len(strings) \in Nat /\ DOMAIN strings = 1..Len(strings)
  BY <1>2, LenProperties
<1>7. Len(leafs) \in Nat /\ DOMAIN leafs = 1..Len(leafs)
  BY <1>1, LenProperties
<1>8. DOMAIN phases = 1..Len(phases) /\ phases \in [1..Len(phases) -> Int]
  BY <1>2, LenProperties
<1>9. DOMAIN hash = 1..Len(hash) /\ hash \in [1..Len(hash) -> Int]
  BY <1>2, LenProperties
<1>10. Root \in DOMAIN node
  BY DEF TypeOK, ShapeType
<1> QED BY <1>3, <1>4, <1>5, <1>6, <1>7, <1>8, <1>9, <1>10

LEMMA EdgeEnds ==
  ASSUME TypeOK, NEW e \in DOMAIN edge
  PROVE  /\ edge[e].src \in DOMAIN node /\ edge[e].dst \in DOMAIN node
         /\ edge[e].str \in DOMAIN strings /\ edge[e].start_index \in Int
         /\ edge[e].end_local \in Int /\ edge[e].phase \in 0..Len(strings)
         /\ end_index(e) \in Int /\ lst_edge_get_length(e) \in Int
<1>1. edge[e] \in EdgeType
  BY Domains
<1>2. /\ edge[e].src \in 1..Len(node) /\ edge[e].dst \in 1..Len(node)
      /\ edge[e].str \in 1..Len(strings) /\ edge[e].start_index \in Int
      /\ edge[e].end_local \in Int /\ edge[e].phase \in 0..Len(strings)
  BY <1>1 DEF EdgeType
<1>3. edge[e].phase # Local => phases[edge[e].phase] \in Int
  BY SMTT(40), <1>2, Domains DEF Local
<1>4. end_index(e) \in Int
  BY <1>2, <1>3 DEF end_index
<1>5. lst_edge_get_length(e) \in Int
  BY <1>2, <1>4 DEF lst_edge_get_length
<1> QED BY <1>2, <1>4, <1>5, Domains

LEMMA KidsOf ==
  ASSUME TypeOK, NEW n
  PROVE  kids(n) \in SUBSET (DOMAIN edge) /\ IsFiniteSet(kids(n))
<1>1. IsFiniteSet(DOMAIN edge)
  BY Domains, FS_Interval
<1>2. kids(n) \in SUBSET (DOMAIN edge)
  BY DEF kids
<1> QED BY <1>1, <1>2, FS_Subset

LEMMA EdgeFound ==
  ASSUME NEW n, NEW s, NEW k, node_find_edge_with_startitem(n, s, k) # NULL
  PROVE  node_find_edge_with_startitem(n, s, k) \in kids(n)
BY DEF node_find_edge_with_startitem

(* A new leaf is listed in front of the others, one that is listed already *)
(* is left where it is: either way the list has n in addition and no leaf  *)
(* twice.                                                                  *)
Listed(list, x) == \E k \in DOMAIN list : list[k] = x
NoneTwice(list) == \A k, m \in DOMAIN list : list[k] = list[m] => k = m

LEMMA LeafLinked ==
  ASSUME NEW S, NEW list \in Seq(S), NEW n \in S
  PROVE  /\ LinkLeaf(list, n) \in Seq(S)
         /\ \A x : Listed(LinkLeaf(list, n), x) <=> x = n \/ Listed(list, x)
         /\ NoneTwice(list) => NoneTwice(LinkLeaf(list, n))
<1>1. CASE Listed(list, n)
  BY <1>1 DEF LinkLeaf, Listed
<1>2. CASE ~ Listed(list, n)
  <2> DEFINE new == << n >> \o list
  <2>1. LinkLeaf(list, n) = new
    BY <1>2 DEF LinkLeaf, Listed
  <2>2. << n >> \in Seq(S) /\ Len(<< n >>) = 1 /\ << n >>[1] = n
    OBVIOUS
  <2>3. /\ new \in Seq(S) /\ Len(new) = 1 + Len(list)
        /\ \A k \in 1..1 + Len(list) : new[k] = IF k <= 1 THEN << n >>[k] ELSE list[k - 1]
    BY <2>2, ConcatProperties
  <2>4. Len(list) \in Nat /\ DOMAIN list = 1..Len(list) /\ DOMAIN new = 1..1 + Len(list)
    BY <2>3, LenProperties
  <2> HIDE DEF new
  <2>5. new[1] = n /\ \A k \in DOMAIN list : k + 1 \in DOMAIN new /\ new[k + 1] = list[k]
    BY <2>2, <2>3, <2>4
  <2>6. \A k \in DOMAIN new : k = 1 \/ (k - 1 \in DOMAIN list /\ new[k] = list[k - 1])
    BY <2>3, <2>4
  <2>7. 1 \in DOMAIN new /\ \A k \in DOMAIN new : k \in Int
    BY <2>4
  <2>8. ASSUME NEW x PROVE Listed(new, x) <=> x = n \/ Listed(list, x)
    BY <2>5, <2>6, <2>7 DEF Listed
  <2>9. ASSUME NoneTwice(list), NEW k \in DOMAIN new, NEW m \in DOMAIN new, new[k] = new[m]
        PROVE  k = m
    <3>1. k = 1 => m = 1
      BY <1>2, <2>5, <2>6, <2>9 DEF Listed
    <3>2. m = 1 => k = 1
      BY <1>2, <2>5, <2>6, <2>9 DEF Listed
    <3>3. CASE k # 1 /\ m # 1
      BY <2>6, <2>7, <2>9, <3>3 DEF NoneTwice
    <3> QED BY <3>1, <3>2, <3>3
  <2>10. NoneTwice(list) => NoneTwice(new)
    BY <2>9 DEF NoneTwice
  <2> QED BY <2>1, <2>3, <2>8, <2>10
<1> QED BY <1>1, <1>2

-----------------------------------------------------------------------------
(* The four ways in which a step changes the tree: not at all but for the  *)
(* ends of edges and the suffix links, by a leaf below a node, and by a    *)
(* node that splits an edge and a leaf below that node.                    *)

LEMMA SameShape ==
  ASSUME TreeShape, DOMAIN node' = DOMAIN node, DOMAIN edge' = DOMAIN edge,
         \A n \in DOMAIN node : /\ node'[n].up_edge = node[n].up_edge
                                /\ node'[n].num_kids = node[n].num_kids,
         \A e \in DOMAIN edge : /\ edge'[e].src = edge[e].src /\ edge'[e].dst = edge[e].dst
                                /\ edge'[e].phase = edge[e].phase,
         \A e \in DOMAIN edge : edge[e].dst \in DOMAIN node,
         Root \in DOMAIN node,
         leafs' = leafs
  PROVE  TreeShape' /\ \A n : kids(n)' = kids(n)
<1>1. \A n : kids(n)' = kids(n)
  BY DEF kids
<1>2. EdgesAgree'
  BY DEF TreeShape, EdgesAgree
<1>3. KidsCounted'
  BY <1>1 DEF TreeShape, KidsCounted
<1>4. LeafsListed'
  BY <1>1 DEF TreeShape, LeafsListed, lst_node_is_leaf
<1>5. LeafEdgesOpen'
  BY <1>1 DEF TreeShape, LeafEdgesOpen, lst_node_is_leaf
<1> QED BY <1>1, <1>2, <1>3, <1>4, <1>5 DEF TreeShape

LEMMA Grafted ==
  ASSUME TypeOK, TreeShape,
         NEW n \in DOMAIN node, n = Root \/ ~ lst_node_is_leaf(n),
         NEW leaf, leaf \notin DOMAIN node, DOMAIN node' = DOMAIN node \cup { leaf },
         NEW new, new \notin DOMAIN edge, DOMAIN edge' = DOMAIN edge \cup { new },
         \A m \in DOMAIN node :
           /\ node'[m].up_edge = node[m].up_edge
           /\ node'[m].num_kids = node[m].num_kids + (IF m = n THEN 1 ELSE 0),
         node'[leaf].up_edge = new, node'[leaf].num_kids = 0,
         \A e \in DOMAIN edge : edge'[e] = edge[e],
         edge'[new].src = n, edge'[new].dst = leaf, edge'[new].phase # Local,
         leafs' = LinkLeaf(leafs, leaf)
  PROVE  TreeShape' /\ \A m \in DOMAIN node : kids(m) \subseteq kids(m)'
<1>1. Root \in DOMAIN node /\ leaf # Root
  BY Domains
<1>2. \A e \in DOMAIN edge : edge[e].src \in DOMAIN node /\ edge[e].dst \in DOMAIN node
  BY EdgeEnds
<1>3. /\ kids(n)' = kids(n) \cup { new } /\ kids(leaf)' = {}
      /\ \A m \in DOMAIN node \ { n } : kids(m)' = kids(m)
  <2>1. ASSUME NEW m \in DOMAIN node PROVE kids(m)' = IF m = n THEN kids(m) \cup { new } ELSE kids(m)
    BY <1>1 DEF kids
  <2>2. ASSUME NEW e \in DOMAIN edge' PROVE edge'[e].src # leaf
    BY <1>2
  <2>3. kids(leaf)' = {}
    BY <2>2 DEF kids
  <2> QED BY <2>1, <2>3
<1>4. EdgesAgree'
  <2>1. node'[Root].up_edge = NULL
    BY <1>1 DEF TreeShape, EdgesAgree
  <2>2. ASSUME NEW m \in DOMAIN node' \ { Root }
        PROVE  node'[m].up_edge \in DOMAIN edge' /\ edge'[node'[m].up_edge].dst = m
    BY <1>1 DEF TreeShape, EdgesAgree
  <2>3. ASSUME NEW e \in DOMAIN edge' PROVE edge'[e].dst # Root /\ node'[edge'[e].dst].up_edge = e
    BY <1>1, <1>2 DEF TreeShape, EdgesAgree
  <2> QED BY <2>1, <2>2, <2>3 DEF EdgesAgree
<1>5. KidsCounted'
  <2>1. IsFiniteSet(kids(n)) /\ new \notin kids(n)
    BY <1>1, KidsOf
  <2>2. Cardinality(kids(n) \cup { new }) = Cardinality(kids(n)) + 1
    BY <2>1, FS_AddElement
  <2>3. node'[n].num_kids = Cardinality(kids(n)')
    BY <1>3, <2>2 DEF TreeShape, KidsCounted
  <2>4. ASSUME NEW m \in DOMAIN node \ { n } PROVE node'[m].num_kids = Cardinality(kids(m)')
    <3>1. node[m].num_kids = Cardinality(kids(m)) /\ kids(m)' = kids(m)
      BY <1>3 DEF TreeShape, KidsCounted
    <3>2. node[m].num_kids \in Nat
      BY <3>1, KidsOf, FS_CardinalityType
    <3> QED BY <3>1, <3>2
  <2>5. node'[leaf].num_kids = Cardinality(kids(leaf)')
    BY <1>3, FS_EmptySet
  <2> QED BY <1>1, <2>3, <2>4, <2>5 DEF KidsCounted
<1>6. \A m \in DOMAIN node \ { Root } : lst_node_is_leaf(m)' <=> lst_node_is_leaf(m)
  BY <1>3 DEF lst_node_is_leaf
<1>7. lst_node_is_leaf(leaf)'
  BY <1>3 DEF lst_node_is_leaf
<1>8. LeafsListed'
  <2> DEFINE S == DOMAIN node \cup { leaf }
  <2>1. leafs \in Seq(S) /\ leaf \in S
    BY SeqMonotonic DEF TypeOK, ShapeType
  <2>2. /\ \A x : Listed(leafs', x) <=> x = leaf \/ Listed(leafs, x)
        /\ NoneTwice(leafs) => NoneTwice(leafs')
    <3> HIDE DEF S
    <3> QED BY <2>1, LeafLinked
  <2>3. \A x : Listed(leafs, x) => x \in DOMAIN node
    BY ElementOfSeq, Domains DEF TypeOK, ShapeType, Listed
  <2>4. \A m \in DOMAIN node \ { Root } : lst_node_is_leaf(m) <=> Listed(leafs, m)
    BY DEF TreeShape, LeafsListed, Listed
  <2>5. \A m \in DOMAIN node' \ { Root } : lst_node_is_leaf(m)' <=> Listed(leafs', m)
    BY <1>1, <1>6, <1>7, <2>2, <2>3, <2>4
  <2>6. ~ Listed(leafs, Root) /\ NoneTwice(leafs)
    BY DEF TreeShape, LeafsListed, Listed, NoneTwice
  <2>7. ~ Listed(leafs', Root) /\ NoneTwice(leafs')
    BY <1>1, <2>2, <2>6
  <2> QED BY <2>5, <2>7 DEF LeafsListed, Listed, NoneTwice
<1>9. LeafEdgesOpen'
  <2>1. ASSUME NEW e \in DOMAIN edge
        PROVE  (lst_node_is_leaf(edge[e].dst) <=> edge[e].phase # Local)'
    BY <1>2, <1>6 DEF TreeShape, LeafEdgesOpen, EdgesAgree
  <2>2. (lst_node_is_leaf(edge[new].dst) <=> edge[new].phase # Local)'
    BY <1>7
  <2> QED BY <1>1, <2>1, <2>2 DEF LeafEdgesOpen
<1> QED BY <1>3, <1>4, <1>5, <1>8, <1>9 DEF TreeShape

LEMMA SplitInShape ==
  ASSUME TypeOK, TreeShape, NEW up \in DOMAIN edge, NEW old, old = edge[up].dst,
         NEW inner, NEW leaf, inner \notin DOMAIN node, leaf \notin DOMAIN node, inner # leaf,
         NEW low, NEW side, low \notin DOMAIN edge, side \notin DOMAIN edge, low # side,
         DOMAIN node' = DOMAIN node \cup { inner, leaf },
         DOMAIN edge' = DOMAIN edge \cup { low, side },
         \A m \in DOMAIN node :
           /\ node'[m].up_edge = IF m = old THEN low ELSE node[m].up_edge
           /\ node'[m].num_kids = node[m].num_kids,
         node'[inner].up_edge = up, node'[inner].num_kids = 2,
         node'[leaf].up_edge = side, node'[leaf].num_kids = 0,
         \A e \in DOMAIN edge \ { up } : edge'[e] = edge[e],
         edge'[up].src = edge[up].src, edge'[up].dst = inner, edge'[up].phase = Local,
         edge'[low].src = inner, edge'[low].dst = old,
         edge'[low].phase # Local <=> lst_node_is_leaf(old),
         edge'[side].src = inner, edge'[side].dst = leaf, edge'[side].phase # Local,
         leafs' = LinkLeaf(IF lst_node_is_leaf(old) THEN LinkLeaf(leafs, old) ELSE leafs, leaf)
  PROVE  TreeShape' /\ \A m \in DOMAIN node : kids(m)' = kids(m)
<1>1. Root \in DOMAIN node /\ leaf # Root /\ inner # Root
  BY Domains
<1>2. \A e \in DOMAIN edge : edge[e].src \in DOMAIN node /\ edge[e].dst \in DOMAIN node
  BY EdgeEnds
<1>3. /\ kids(inner)' = { low, side } /\ kids(leaf)' = {}
      /\ \A m \in DOMAIN node : kids(m)' = kids(m)
  <2>1. \A e \in DOMAIN edge : edge'[e].src = edge[e].src
    OBVIOUS
  <2>2. ASSUME NEW m \in DOMAIN node PROVE kids(m)' = kids(m)
    BY <2>1 DEF kids
  <2>3. \A e \in DOMAIN edge : edge'[e].src # leaf /\ edge'[e].src # inner
    BY <1>2, <2>1
  <2>4. kids(inner)' = { low, side } /\ kids(leaf)' = {}
    BY <2>3 DEF kids
  <2> QED BY <2>2, <2>4
<1>4. old \in DOMAIN node /\ old # Root /\ node[old].up_edge = up
  BY <1>2 DEF TreeShape, EdgesAgree
<1>5. EdgesAgree'
  <2>1. node'[Root].up_edge = NULL
    BY <1>1, <1>4 DEF TreeShape, EdgesAgree
  <2>2. ASSUME NEW m \in DOMAIN node \ { Root }
        PROVE  node'[m].up_edge \in DOMAIN edge' /\ edge'[node'[m].up_edge].dst = m
    BY <1>4 DEF TreeShape, EdgesAgree
  <2>3. ASSUME NEW e \in DOMAIN edge \ { up }
        PROVE  edge'[e].dst # Root /\ node'[edge'[e].dst].up_edge = e
    BY <1>2, <1>4 DEF TreeShape, EdgesAgree
  <2>4. ASSUME NEW m \in { inner, leaf }
        PROVE  node'[m].up_edge \in DOMAIN edge' /\ edge'[node'[m].up_edge].dst = m
    OBVIOUS
  <2>5. ASSUME NEW e \in { up, low, side }
        PROVE  edge'[e].dst # Root /\ node'[edge'[e].dst].up_edge = e
    BY <1>1, <1>4
  <2> QED BY <2>1, <2>2, <2>3, <2>4, <2>5 DEF EdgesAgree
<1>6. KidsCounted'
  <2>1. IsFiniteSet({ low }) /\ Cardinality({ low }) = 1 /\ side \notin { low }
    BY FS_Singleton
  <2>2. Cardinality({ low } \cup { side }) = 2
    <3> DEFINE S == { low }
    <3>1. Cardinality(S \cup { side }) = IF side \in S THEN Cardinality(S) ELSE Cardinality(S) + 1
      <4>1. IsFiniteSet(S)
        BY <2>1
      <4> HIDE DEF S
      <4> QED BY ZenonT(40), <4>1, FS_AddElement
    <3> QED BY SMTT(30), <2>1, <3>1
  <2>3. { low } \cup { side } = { low, side }
    OBVIOUS
  <2>4. node'[inner].num_kids = Cardinality(kids(inner)')
    BY <1>3, <2>2, <2>3
  <2>5. node'[leaf].num_kids = Cardinality(kids(leaf)')
    BY <1>3, FS_EmptySet
  <2>6. \A m \in DOMAIN node : node'[m].num_kids = Cardinality(kids(m)')
    BY <1>3 DEF TreeShape, KidsCounted
  <2> QED BY <2>4, <2>5, <2>6 DEF KidsCounted
<1>7. /\ \A m \in DOMAIN node : lst_node_is_leaf(m)' <=> lst_node_is_leaf(m)
      /\ lst_node_is_leaf(leaf)' /\ ~ lst_node_is_leaf(inner)'
  BY <1>3 DEF lst_node_is_leaf
<1>8. LeafsListed'
  <2> DEFINE S == DOMAIN node \cup { leaf }
             list == IF lst_node_is_leaf(old) THEN LinkLeaf(leafs, old) ELSE leafs
  <2>1. \A m \in DOMAIN node \ { Root } : lst_node_is_leaf(m) <=> Listed(leafs, m)
    BY DEF TreeShape, LeafsListed, Listed
  <2>2. list = leafs
    BY <1>4, <2>1 DEF LinkLeaf, Listed
  <2>3. leafs \in Seq(S) /\ leaf \in S /\ leafs' = LinkLeaf(leafs, leaf)
    BY <2>2, SeqMonotonic DEF TypeOK, ShapeType
  <2>4. /\ \A x : Listed(leafs', x) <=> x = leaf \/ Listed(leafs, x)
        /\ NoneTwice(leafs) => NoneTwice(leafs')
    <3> HIDE DEF S
    <3> QED BY <2>3, LeafLinked
  <2>5. \A x : Listed(leafs, x) => x \in DOMAIN node
    BY ElementOfSeq, Domains DEF TypeOK, ShapeType, Listed
  <2>6. \A m \in DOMAIN node' \ { Root } : lst_node_is_leaf(m)' <=> Listed(leafs', m)
    BY <1>1, <1>7, <2>1, <2>4, <2>5
  <2>7. ~ Listed(leafs, Root) /\ NoneTwice(leafs)
    BY DEF TreeShape, LeafsListed, Listed, NoneTwice
  <2>8. ~ Listed(leafs', Root) /\ NoneTwice(leafs')
    BY <1>1, <2>4, <2>7
  <2> QED BY <2>6, <2>8 DEF LeafsListed, Listed, NoneTwice
<1>9. LeafEdgesOpen'
  <2>1. ASSUME NEW e \in DOMAIN edge \ { up }
        PROVE  (lst_node_is_leaf(edge[e].dst) <=> edge[e].phase # Local)'
    BY <1>2, <1>7 DEF TreeShape, LeafEdgesOpen
  <2>2. ASSUME NEW e \in { up, low, side }
        PROVE  (lst_node_is_leaf(edge[e].dst) <=> edge[e].phase # Local)'
    BY <1>4, <1>7
  <2> QED BY <2>1, <2>2 DEF LeafEdgesOpen
<1> QED BY <1>3, <1>5, <1>6, <1>8, <1>9 DEF TreeShape

-----------------------------------------------------------------------------
(* The invariant holds at first.                                           *)

LEMMA InitIInv == Init => IInv
<1> SUFFICES ASSUME Init PROVE IInv
  OBVIOUS
<1>1. /\ strings = << >> /\ Len(strings) = 0 /\ edge = << >> /\ Len(edge) = 0 /\ leafs = << >>
      /\ node = << node_new(NULL, 0, -1) >> /\ Len(node) = 1 /\ DOMAIN node = { 1 }
      /\ DOMAIN edge = {} /\ DOMAIN leafs = {}
  BY DEF Init
<1>2. TableType
  <2>1. << >> \in Seq(Inputs) /\ << >> \in Seq(Int) /\ Len(<< >>) = 0
    BY EmptySeq
  <2> QED BY <2>1 DEF Init, TableType
<1>3. ShapeType
  <2>1. node_new(NULL, 0, -1) \in NodeType
    BY <1>1 DEF node_new, NodeType, NULL
  <2> QED BY <1>1, <2>1 DEF ShapeType, Root
<1>4. LocalType
  <2>1. end \in EndType
    BY <1>1 DEF Init, stree_path_end_node, EndType, NULL, Root
  <2>2. skip \in SkipType
    BY <1>1, EmptySeq DEF Init, NoWalk, SkipType, NULL
  <2>3. prev_new_node \in 0..Len(node)
    BY <1>1 DEF Init, NULL
  <2>4. i \in Int /\ j \in Int /\ last_extension \in Int
    BY DEF Init
  <2>5. pc \in Pcs
    BY DEF Init, Pcs
  <2>6. stop_extensions \in BOOLEAN /\ use_end \in BOOLEAN /\ find_skipstring \in BOOLEAN
    BY DEF Init
  <2> QED BY <2>1, <2>2, <2>3, <2>4, <2>5, <2>6 DEF LocalType
<1>5. \A n : kids(n) = {}
  BY <1>1 DEF kids
<1>6. node[Root] = node_new(NULL, 0, -1)
  BY <1>1 DEF Root
<1>7. EdgesAgree
  BY <1>1, <1>6 DEF EdgesAgree, node_new, Root
<1>8. KidsCounted
  BY <1>1, <1>5, <1>6, FS_EmptySet DEF KidsCounted, node_new, Root
<1>9. LeafsListed /\ LeafEdgesOpen
  BY <1>1 DEF LeafsListed, LeafEdgesOpen, Root
<1>10. WellPlaced
  BY <1>1 DEF Init, WellPlaced, stree_path_end_node, NULL, Root
<1> QED BY <1>2, <1>3, <1>4, <1>7, <1>8, <1>9, <1>10 DEF IInv, TypeOK, TreeShape

-----------------------------------------------------------------------------
(* Steps that leave the tree alone.                                        *)

LEMMA SameTree ==
  ASSUME IInv, UNCHANGED << strings, shapeVars >>
  PROVE  /\ ShapeType' /\ TreeShape' /\ SkipType' = SkipType /\ EndType' = EndType
         /\ lst_node_is_leaf(Root)' <=> lst_node_is_leaf(Root)
<1>1. ShapeType' /\ SkipType' = SkipType /\ EndType' = EndType
  BY DEF IInv, TypeOK, ShapeType, shapeVars, NodeType, EdgeType, SkipType, EndType
<1>2. TreeShape' /\ \A n : kids(n)' = kids(n)
  BY EdgeEnds, SameShape DEF IInv, TypeOK, ShapeType, shapeVars
<1> QED BY <1>1, <1>2 DEF lst_node_is_leaf

LEMMA AllowDuplicatesIInv ==
  ASSUME IInv, NEW flag \in BOOLEAN, AllowDuplicates(flag)
  PROVE  IInv'
<1>1. ShapeType' /\ TreeShape' /\ SkipType' = SkipType /\ EndType' = EndType
      /\ (lst_node_is_leaf(Root)' <=> lst_node_is_leaf(Root))
  BY SameTree DEF AllowDuplicates
<1>2. TableType' /\ LocalType'
  BY <1>1 DEF AllowDuplicates, IInv, TypeOK, TableType, LocalType, doneVars, shapeVars, loopVars
<1>3. WellPlaced'
  BY <1>1 DEF AllowDuplicates, IInv, WellPlaced, cur, doneVars, shapeVars
<1> QED BY <1>1, <1>2, <1>3 DEF IInv, TypeOK

LEMMA EnterNextStringIInv ==
  ASSUME IInv, EnterNextString
  PROVE  IInv'
<1>1. ShapeType' /\ TreeShape' /\ SkipType' = SkipType /\ EndType' = EndType
      /\ (lst_node_is_leaf(Root)' <=> lst_node_is_leaf(Root))
  BY SameTree DEF EnterNextString, Register
<1>2. cur \in DOMAIN strings /\ num_items(cur) \in Int
  BY Domains, LenProperties, ElementOfSeq, InputsAssumption
     DEF EnterNextString, IInv, TypeOK, TableType, WellPlaced, num_items
<1>3. TableType'
  BY <1>2, ExceptSeq, Domains
     DEF EnterNextString, Register, IInv, TypeOK, TableType, doneVars
<1>4. LocalType'
  BY <1>1, <1>2, Domains
     DEF EnterNextString, IInv, TypeOK, LocalType, shapeVars, loopVars, Pcs, WalkFromRoot, SkipType, Root
<1>5. WellPlaced'
  BY <1>1, <1>2, Domains
     DEF EnterNextString, Register, IInv, TypeOK, WellPlaced, cur, doneVars, shapeVars, WalkFromRoot
<1> QED BY <1>1, <1>3, <1>4, <1>5 DEF IInv, TypeOK

LEMMA MatchEdgeFound ==
  ASSUME IInv, MatchEdge # NULL
  PROVE  /\ MatchEdge \in DOMAIN edge /\ edge[MatchEdge].dst \in DOMAIN node
         /\ lst_edge_get_length(MatchEdge) \in Int /\ MatchItems \in Nat
<1>1. MatchEdge \in DOMAIN edge
  BY EdgeFound, KidsOf DEF IInv, MatchEdge
<1>2. skip.todo \in Int
  BY DEF IInv, TypeOK, LocalType, SkipType
<1> QED BY <1>1, <1>2, EdgeEnds, CommonItems DEF IInv, MatchItems

LEMMA MatchStepIInv ==
  ASSUME IInv, MatchStep
  PROVE  IInv'
<1>1. ShapeType' /\ TreeShape' /\ SkipType' = SkipType /\ EndType' = EndType
      /\ (lst_node_is_leaf(Root)' <=> lst_node_is_leaf(Root))
  BY SameTree DEF MatchStep, tableVars
<1>2. MatchEdge \in DOMAIN edge /\ edge[MatchEdge].dst \in DOMAIN node
      /\ lst_edge_get_length(MatchEdge) \in Int
  BY MatchEdgeFound DEF MatchStep, MatchWholeEdge
<1>3. TableType'
  BY DEF MatchStep, IInv, TypeOK, TableType, tableVars, doneVars
<1>4. skip' \in SkipType /\ skip'.node \in DOMAIN node
  <2>1. skip \in SkipType /\ DOMAIN node = 1..Len(node)
    BY Domains DEF IInv, TypeOK, LocalType
  <2>2. skip.done + lst_edge_get_length(MatchEdge) \in Int
        /\ skip.todo - lst_edge_get_length(MatchEdge) \in Int
        /\ edge[MatchEdge].dst \in 0..Len(node)
    <3>1. skip.done \in Int /\ skip.todo \in Int
      BY <2>1 DEF SkipType
    <3>2. Len(node) \in Nat
      BY Domains DEF IInv
    <3> QED BY <1>2, <2>1, <3>1, <3>2
  <2>3. skip' = [skip EXCEPT !.node = edge[MatchEdge].dst,
                             !.done = skip.done + lst_edge_get_length(MatchEdge),
                             !.todo = skip.todo - lst_edge_get_length(MatchEdge)]
    BY DEF MatchStep
  <2> QED BY <1>2, <2>1, <2>2, <2>3 DEF SkipType
<1>5. LocalType'
  BY <1>1, <1>4 DEF MatchStep, IInv, TypeOK, LocalType, shapeVars, loopVars
<1>6. WellPlaced'
  BY <1>1, <1>4 DEF MatchStep, IInv, WellPlaced, cur, tableVars, doneVars, shapeVars
<1> QED BY <1>1, <1>3, <1>5, <1>6 DEF IInv, TypeOK

LEMMA CheckDuplicateIInv ==
  ASSUME IInv, CheckDuplicate
  PROVE  IInv'
<1>1. ShapeType' /\ TreeShape' /\ SkipType' = SkipType /\ EndType' = EndType
      /\ (lst_node_is_leaf(Root)' <=> lst_node_is_leaf(Root))
  BY SameTree DEF CheckDuplicate, tableVars
<1>2. NoWalk \in SkipType /\ pc' \in { "idle", "enter" }
  BY Domains DEF CheckDuplicate, IInv, NoWalk, SkipType, NULL
<1>3. TableType'
  BY DEF CheckDuplicate, IInv, TypeOK, TableType, tableVars, doneVars
<1>4. LocalType'
  BY <1>1, <1>2 DEF CheckDuplicate, IInv, TypeOK, LocalType, shapeVars, loopVars, Pcs
<1>5. WellPlaced'
  BY <1>1, <1>2
     DEF CheckDuplicate, IInv, WellPlaced, cur, tableVars, doneVars, shapeVars
<1> QED BY <1>1, <1>3, <1>4, <1>5 DEF IInv, TypeOK

LEMMA MatchResultIInv ==
  ASSUME IInv, MatchResult
  PROVE  IInv'
<1>1. ShapeType' /\ TreeShape' /\ SkipType' = SkipType /\ EndType' = EndType
      /\ (lst_node_is_leaf(Root)' <=> lst_node_is_leaf(Root))
  BY SameTree DEF MatchResult, tableVars
<1>2. TableType'
  BY DEF MatchResult, IInv, TypeOK, TableType, tableVars, doneVars
<1>3. skip \in SkipType /\ skip.node \in DOMAIN node
  BY DEF MatchResult, IInv, TypeOK, LocalType, WellPlaced
<1>4. NoWalk \in SkipType
  BY Domains DEF IInv, NoWalk, SkipType, NULL
<1>5. /\ \/ end'.node \in DOMAIN node /\ end'.edge = NULL
         \/ end'.node = NULL /\ end'.edge \in DOMAIN edge
      /\ end' \in EndType
  <2>1. CASE skip.todo > 0 /\ MatchEdge # NULL
    <3>1. MatchEdge \in DOMAIN edge /\ MatchItems \in Int
      BY <2>1, MatchEdgeFound
    <3>2. end' = stree_path_end_edge(MatchEdge, MatchItems)
      BY <2>1 DEF MatchResult
    <3> QED BY <3>1, <3>2, Domains DEF stree_path_end_edge, EndType, NULL, IInv
  <2>2. CASE ~ (skip.todo > 0 /\ MatchEdge # NULL)
    <3>1. end' = stree_path_end_node(skip.node)
      BY <2>2 DEF MatchResult
    <3> QED BY <1>3, <3>1, Domains DEF stree_path_end_node, EndType, NULL, IInv
  <2> QED BY <2>1, <2>2
<1>6. i' \in Int
  BY <1>3, MatchEdgeFound DEF MatchResult, MatchDone, SkipType
<1>7. LocalType'
  <2>1. /\ find_skipstring' \in BOOLEAN
        /\ last_extension' \in Int /\ pc' \in Pcs
    <3>1. find_skipstring' \in BOOLEAN
      BY DEF MatchResult
    <3>2. last_extension' \in Int /\ pc' \in Pcs
      BY DEF MatchResult, Pcs
    <3> QED BY <3>1, <3>2
  <2>2. end' \in EndType' /\ skip' \in SkipType'
    BY <1>1, <1>4, <1>5 DEF MatchResult
  <2> QED BY <1>6, <2>1, <2>2 DEF MatchResult, IInv, TypeOK, LocalType, shapeVars
<1>8. WellPlaced'
  BY <1>1, <1>5
     DEF MatchResult, IInv, WellPlaced, cur, tableVars, doneVars, shapeVars
<1> QED BY <1>1, <1>2, <1>7, <1>8 DEF IInv, TypeOK

LEMMA BeginPhaseIInv ==
  ASSUME IInv, BeginPhase
  PROVE  IInv'
<1>1. ShapeType' /\ TreeShape' /\ SkipType' = SkipType /\ EndType' = EndType
      /\ (lst_node_is_leaf(Root)' <=> lst_node_is_leaf(Root))
  BY SameTree DEF BeginPhase, tableVars
<1>2. TableType'
  <2>1. phases \in Seq(Int) /\ i \in Int /\ cur \in 1..Len(phases)
    BY Domains DEF BeginPhase, IInv, TypeOK, TableType, LocalType, WellPlaced
  <2>2. phases' \in Seq(Int) /\ Len(phases') = Len(phases)
    BY <2>1, ExceptSeq DEF BeginPhase
  <2> QED BY <2>2 DEF BeginPhase, IInv, TypeOK, TableType, tableVars, doneVars
<1>3. LocalType'
  <2>1. stop_extensions' \in BOOLEAN /\ use_end' \in BOOLEAN
    BY DEF BeginPhase, IInv, TypeOK, LocalType
  <2>2. j' \in Int /\ pc' \in Pcs
    BY DEF BeginPhase, IInv, TypeOK, LocalType, Pcs
  <2> QED BY <1>1, <2>1, <2>2 DEF BeginPhase, IInv, TypeOK, LocalType, shapeVars
<1>4. WellPlaced'
  BY <1>1 DEF BeginPhase, IInv, WellPlaced, cur, tableVars, doneVars, shapeVars
<1> QED BY <1>1, <1>2, <1>3, <1>4 DEF IInv, TypeOK

LEMMA EndPhaseIInv ==
  ASSUME IInv, EndPhase
  PROVE  IInv'
<1>1. ShapeType' /\ TreeShape' /\ SkipType' = SkipType /\ EndType' = EndType
      /\ (lst_node_is_leaf(Root)' <=> lst_node_is_leaf(Root))
  BY SameTree DEF EndPhase, tableVars
<1>2. TableType'
  BY DEF EndPhase, IInv, TypeOK, TableType, tableVars, doneVars
<1>3. LocalType'
  BY <1>1 DEF EndPhase, IInv, TypeOK, LocalType, shapeVars, Pcs
<1>4. WellPlaced'
  BY <1>1 DEF EndPhase, IInv, WellPlaced, cur, tableVars, doneVars, shapeVars
<1> QED BY <1>1, <1>2, <1>3, <1>4 DEF IInv, TypeOK

LEMMA EndStringIInv ==
  ASSUME IInv, EndString
  PROVE  IInv'
<1>1. ShapeType' /\ TreeShape' /\ SkipType' = SkipType /\ EndType' = EndType
      /\ (lst_node_is_leaf(Root)' <=> lst_node_is_leaf(Root))
  BY SameTree DEF EndString, tableVars
<1>2. TableType'
  BY DEF EndString, IInv, TypeOK, TableType, tableVars
<1>3. /\ NoWalk \in SkipType /\ Root \in DOMAIN node
      /\ stree_path_end_node(Root) \in EndType
  BY Domains DEF IInv, NoWalk, SkipType, EndType, stree_path_end_node, NULL
<1>4. LocalType'
  <2>1. stop_extensions' \in BOOLEAN /\ use_end' \in BOOLEAN /\ find_skipstring' \in BOOLEAN
    BY DEF EndString
  <2>2. i' \in Int /\ j' \in Int /\ last_extension' \in Int /\ pc' \in Pcs
    BY DEF EndString, Pcs
  <2>3. prev_new_node' \in 0..Len(node')
    BY Domains DEF EndString, shapeVars, IInv, NULL
  <2>4. end' \in EndType' /\ skip' \in SkipType'
    BY <1>1, <1>3 DEF EndString
  <2> QED BY <2>1, <2>2, <2>3, <2>4 DEF LocalType
<1>5. WellPlaced'
  BY <1>1, <1>3
     DEF EndString, IInv, WellPlaced, cur, tableVars, shapeVars, stree_path_end_node
<1> QED BY <1>1, <1>2, <1>4, <1>5 DEF IInv, TypeOK

LEMMA ReuseEndIInv ==
  ASSUME IInv, ReuseEnd
  PROVE  IInv'
<1>1. ShapeType' /\ TreeShape' /\ SkipType' = SkipType /\ EndType' = EndType
      /\ (lst_node_is_leaf(Root)' <=> lst_node_is_leaf(Root))
  BY SameTree DEF ReuseEnd, tableVars
<1>2. TableType'
  BY DEF ReuseEnd, IInv, TypeOK, TableType, tableVars, doneVars
<1>3. cur \in DOMAIN strings /\ i \in Int
  BY DEF ReuseEnd, IInv, TypeOK, LocalType, WellPlaced
<1>4. EmptySkip(NULL) \in SkipType
  BY <1>3, Domains DEF IInv, EmptySkip, SkipString, SkipType, NULL, EMPTY
<1>5. LocalType'
  BY <1>1, <1>4 DEF ReuseEnd, IInv, TypeOK, LocalType, shapeVars, Pcs
<1>6. WellPlaced'
  BY <1>1 DEF ReuseEnd, IInv, WellPlaced, cur, tableVars, doneVars, shapeVars
<1> QED BY <1>1, <1>2, <1>5, <1>6 DEF IInv, TypeOK

LEMMA NaiveSkipType ==
  ASSUME IInv, cur \in DOMAIN strings
  PROVE  NaiveSkip \in SkipType /\ EmptySkip(Root) \in SkipType
<1>1. /\ cur \in 0..Len(strings) /\ Root \in 0..Len(node)
      /\ i \in Int /\ j \in Int /\ EMPTY \in Int
  BY Domains DEF IInv, TypeOK, LocalType, EMPTY
<1>2. ASSUME NEW start \in Int, NEW last \in Int, NEW extra \in Int
      PROVE  SkipString(Root, cur, start, last, extra) \in SkipType
  BY <1>1 DEF SkipString, SkipType
<1> QED BY <1>1, <1>2 DEF NaiveSkip, EmptySkip

LEMMA GetSkipstringType ==
  ASSUME IInv, cur \in DOMAIN strings, ~ lst_node_is_leaf(Root)
  PROVE  stree_get_skipstring \in SkipType
<1>1. /\ NaiveSkip \in SkipType /\ EmptySkip(Root) \in SkipType
      /\ cur \in 0..Len(strings) /\ i \in Int /\ EMPTY \in Int
  BY NaiveSkipType, Domains DEF IInv, TypeOK, LocalType, EMPTY
<1>2. ASSUME NEW n \in 0..Len(node), NEW s \in 0..Len(strings),
             NEW start \in Int, NEW last \in Int, NEW extra \in Int
      PROVE  SkipString(n, s, start, last, extra) \in SkipType
  BY DEF SkipString, SkipType
<1>3. \A n \in DOMAIN node : node[n].suffix_link_node \in 0..Len(node)
  BY Domains DEF IInv, NodeType
<1>4. ASSUME NEW n \in DOMAIN node PROVE SkipFromNode(n) \in SkipType
  <2>1. CASE node[n].suffix_link_node # NULL \/ n = Root
    <3>1. node[n].suffix_link_node \in 0..Len(node) /\ 0 \in Int
      BY <1>3
    <3>2. EmptySkip(node[n].suffix_link_node) \in SkipType
      BY <1>1, <1>2, <3>1 DEF EmptySkip
    <3> QED BY <1>1, <2>1, <3>2 DEF SkipFromNode
  <2>2. CASE node[n].suffix_link_node = NULL /\ n # Root
    <3>1. node[n].up_edge \in DOMAIN edge
      BY <2>2 DEF IInv, TreeShape, EdgesAgree
    <3>2. /\ lst_node_get_parent(n) \in DOMAIN node /\ edge[node[n].up_edge].str \in 0..Len(strings)
          /\ edge[node[n].up_edge].start_index \in Int /\ end_index(node[n].up_edge) \in Int
      <4>1. TypeOK /\ TreeShape
        BY DEF IInv
      <4>2. /\ edge[node[n].up_edge].src \in DOMAIN node
            /\ edge[node[n].up_edge].str \in DOMAIN strings
            /\ edge[node[n].up_edge].start_index \in Int /\ end_index(node[n].up_edge) \in Int
        BY <3>1, <4>1, EdgeEnds
      <4>3. Len(strings) \in Nat /\ DOMAIN strings = 1..Len(strings)
        BY <4>1, Domains
      <4> QED BY <4>2, <4>3 DEF lst_node_get_parent
    <3>3. node[lst_node_get_parent(n)].suffix_link_node \in 0..Len(node) /\ 0 \in Int
      BY <1>3, <3>2
    <3>4. SkipString(node[lst_node_get_parent(n)].suffix_link_node, edge[node[n].up_edge].str,
                     edge[node[n].up_edge].start_index, end_index(node[n].up_edge), 0) \in SkipType
      BY <1>2, <3>2, <3>3
    <3> QED BY <1>1, <2>2, <3>4 DEF SkipFromNode
  <2> QED BY <2>1, <2>2
<1>5. ASSUME NEW e \in DOMAIN edge, NEW offset \in Int PROVE SkipFromEdge(e, offset) \in SkipType
  <2>1. /\ edge[e].src \in DOMAIN node /\ edge[e].str \in 0..Len(strings)
        /\ edge[e].start_index \in Int /\ edge[e].start_index + offset - 1 \in Int
    BY SMTT(30), EdgeEnds, Domains DEF IInv
  <2>2. SkipString(node[edge[e].src].suffix_link_node, edge[e].str, edge[e].start_index,
                   edge[e].start_index + offset - 1, i) \in SkipType
    BY <1>1, <1>2, <1>3, <2>1
  <2> QED BY <1>1, <2>2 DEF SkipFromEdge
<1>6. end.node # NULL => end.node \in DOMAIN node
  BY DEF IInv, WellPlaced
<1>7. end.node = NULL => end.edge \in DOMAIN edge
  BY Domains DEF IInv, WellPlaced, NULL
<1>8. end.offset \in Int
  BY DEF IInv, TypeOK, LocalType, EndType
<1> QED BY <1>1, <1>4, <1>5, <1>6, <1>7, <1>8 DEF stree_get_skipstring

LEMMA ClimbToSuffixLinkIInv ==
  ASSUME IInv, ClimbToSuffixLink
  PROVE  IInv'
<1>1. ShapeType' /\ TreeShape' /\ SkipType' = SkipType /\ EndType' = EndType
      /\ (lst_node_is_leaf(Root)' <=> lst_node_is_leaf(Root))
  BY SameTree DEF ClimbToSuffixLink, tableVars
<1>2. TableType'
  BY DEF ClimbToSuffixLink, IInv, TypeOK, TableType, tableVars, doneVars
<1>3. skip' \in SkipType
  BY GetSkipstringType DEF ClimbToSuffixLink, IInv, WellPlaced
<1>4. LocalType'
  BY <1>1, <1>3 DEF ClimbToSuffixLink, IInv, TypeOK, LocalType, shapeVars, loopVars, Pcs
<1>5. WellPlaced'
  BY <1>1
     DEF ClimbToSuffixLink, IInv, WellPlaced, cur, tableVars, doneVars, shapeVars
<1> QED BY <1>1, <1>2, <1>4, <1>5 DEF IInv, TypeOK

LEMMA FollowEdgeFound ==
  ASSUME IInv, FollowEdge # NULL
  PROVE  /\ FollowEdge \in DOMAIN edge /\ edge[FollowEdge].dst \in DOMAIN node
         /\ lst_edge_get_length(FollowEdge) \in Int
<1>1. FollowEdge \in DOMAIN edge
  BY EdgeFound, KidsOf DEF IInv, FollowEdge
<1> QED BY <1>1, EdgeEnds DEF IInv

LEMMA FollowStepIInv ==
  ASSUME IInv, FollowStep
  PROVE  IInv'
<1>1. ShapeType' /\ TreeShape' /\ SkipType' = SkipType /\ EndType' = EndType
      /\ (lst_node_is_leaf(Root)' <=> lst_node_is_leaf(Root))
  BY SameTree DEF FollowStep, tableVars
<1>2. FollowEdge \in DOMAIN edge /\ edge[FollowEdge].dst \in DOMAIN node
      /\ lst_edge_get_length(FollowEdge) \in Int
  BY FollowEdgeFound DEF FollowStep, FollowSkipsEdge
<1>3. TableType'
  BY DEF FollowStep, IInv, TypeOK, TableType, tableVars, doneVars
<1>4. skip' \in SkipType
  <2>1. skip \in SkipType /\ DOMAIN node = 1..Len(node)
    BY Domains DEF IInv, TypeOK, LocalType
  <2>2. skip.done + lst_edge_get_length(FollowEdge) \in Int
        /\ skip.todo - lst_edge_get_length(FollowEdge) \in Int
        /\ edge[FollowEdge].dst \in 0..Len(node)
    <3>1. skip.done \in Int /\ skip.todo \in Int
      BY <2>1 DEF SkipType
    <3>2. Len(node) \in Nat
      BY Domains DEF IInv
    <3> QED BY <1>2, <2>1, <3>1, <3>2
  <2>3. skip' = [skip EXCEPT !.node = edge[FollowEdge].dst,
                             !.done = skip.done + lst_edge_get_length(FollowEdge),
                             !.todo = skip.todo - lst_edge_get_length(FollowEdge)]
    BY DEF FollowStep
  <2> QED BY <1>2, <2>1, <2>2, <2>3 DEF SkipType
<1>5. LocalType'
  BY <1>1, <1>4 DEF FollowStep, IInv, TypeOK, LocalType, shapeVars, loopVars
<1>6. WellPlaced'
  BY <1>1 DEF FollowStep, IInv, WellPlaced, cur, tableVars, doneVars, shapeVars
<1> QED BY <1>1, <1>3, <1>5, <1>6 DEF IInv, TypeOK

LEMMA FollowResultIInv ==
  ASSUME IInv, FollowResult
  PROVE  IInv'
<1>1. ShapeType' /\ TreeShape' /\ SkipType' = SkipType /\ EndType' = EndType
      /\ (lst_node_is_leaf(Root)' <=> lst_node_is_leaf(Root))
  BY SameTree DEF FollowResult, tableVars
<1>2. TableType'
  BY DEF FollowResult, IInv, TypeOK, TableType, tableVars, doneVars
<1>3. skip.node \in 0..Len(node) /\ skip.todo \in Int /\ end \in EndType
  BY DEF IInv, TypeOK, LocalType, SkipType
<1>4. /\ \/ end'.node \in DOMAIN node /\ end'.edge = NULL
         \/ end'.node = NULL /\ end'.edge \in DOMAIN edge
      /\ end' \in EndType
  <2>1. CASE skip.node = NULL
    BY <1>3, <2>1 DEF FollowResult, IInv, WellPlaced
  <2>2. CASE skip.node # NULL /\ (skip.todo = 0 \/ FollowEdge = NULL)
    <3>1. end' = stree_path_end_node(skip.node)
      BY <2>2 DEF FollowResult
    <3> QED BY <1>3, <2>2, <3>1, Domains DEF stree_path_end_node, EndType, NULL, IInv
  <2>3. CASE skip.node # NULL /\ ~ (skip.todo = 0 \/ FollowEdge = NULL)
    <3> DEFINE n == lst_string_items_common(edge[FollowEdge].str, edge[FollowEdge].start_index,
                                            skip.str, skip.start + skip.done, skip.todo)
    <3>1. n \in Nat
      BY <1>3, CommonItems
    <3>2. FollowEdge \in DOMAIN edge
      BY <2>3, FollowEdgeFound
    <3>3. end' = stree_path_end_edge(FollowEdge, n)
      BY <2>3 DEF FollowResult
    <3> HIDE DEF n
    <3> QED BY <3>1, <3>2, <3>3, Domains DEF stree_path_end_edge, EndType, NULL, IInv
  <2> QED BY <2>1, <2>2, <2>3
<1>5. LocalType'
  BY <1>1, <1>4 DEF FollowResult, IInv, TypeOK, LocalType, shapeVars, loopVars, Pcs
<1>6. WellPlaced'
  BY <1>1, <1>4
     DEF FollowResult, IInv, WellPlaced, cur, tableVars, doneVars, shapeVars
<1> QED BY <1>1, <1>2, <1>5, <1>6 DEF IInv, TypeOK

-----------------------------------------------------------------------------
(* Steps that add strings, nodes or edges.  NodeType and EdgeType with the *)
(* numbers of nodes and edges as parameters:                               *)

Nodes(n, e) == [up_edge : 0..e, suffix_link_node : 0..n, num_kids : Nat, index : Int]

Edges(n) == [src : 1..n, dst : 1..n, str : 1..Len(strings), start_index : Int,
             end_local : Int, phase : 0..Len(strings)]

LEMMA NodesEdgesGrow ==
  ASSUME NEW n \in Nat, NEW e \in Nat, NEW m \in Nat, NEW d \in Nat, n <= m, e <= d
  PROVE  Nodes(n, e) \subseteq Nodes(m, d) /\ Edges(n) \subseteq Edges(m)
<1>1. 0..e \subseteq 0..d /\ 0..n \subseteq 0..m /\ 1..n \subseteq 1..m
  OBVIOUS
<1>2. Nodes(n, e) \subseteq Nodes(m, d)
  BY <1>1 DEF Nodes
<1>3. Edges(n) \subseteq Edges(m)
  BY <1>1 DEF Edges
<1> QED BY <1>2, <1>3

LEMMA LocalsGrow ==
  ASSUME TypeOK, Len(node') \in Nat, Len(edge') \in Nat, Len(strings') \in Nat,
         Len(node) <= Len(node'), Len(edge) <= Len(edge'), Len(strings) <= Len(strings')
  PROVE  SkipType \subseteq SkipType' /\ EndType \subseteq EndType'
         /\ 0..Len(node) \subseteq 0..Len(node')
<1>1. 0..Len(node) \subseteq 0..Len(node') /\ 0..Len(edge) \subseteq 0..Len(edge')
      /\ 0..Len(strings) \subseteq 0..Len(strings')
  BY Domains
<1>2. SkipType \subseteq SkipType'
  BY <1>1 DEF SkipType
<1>3. EndType \subseteq EndType'
  BY <1>1 DEF EndType
<1> QED BY <1>1, <1>2, <1>3

LEMMA AddStringIInv ==
  ASSUME IInv, NEW w \in Inputs, AddString(w)
  PROVE  IInv'
<1>1. /\ strings \in Seq(Inputs) /\ hash \in Seq(Int) /\ phases \in Seq(Int)
      /\ Len(hash) = Len(strings) /\ Len(phases) = Len(strings) /\ Len(strings) \in Nat
  BY Domains DEF IInv, TypeOK, TableType
<1>2. strings' \in Seq(Inputs) /\ Len(strings') = Len(strings) + 1
  BY <1>1, AppendProperties DEF AddString
<1>3. hash' \in Seq(Int) /\ Len(hash') = Len(strings')
      /\ phases' \in Seq(Int) /\ Len(phases') = Len(strings')
  BY <1>1, <1>2, AppendProperties DEF AddString
<1>4. TableType'
  BY <1>2, <1>3 DEF AddString, IInv, TypeOK, TableType, doneVars
<1>5. SkipType \subseteq SkipType' /\ EndType' = EndType
  BY <1>1, <1>2, LocalsGrow, Domains DEF AddString, shapeVars, IInv, EndType
<1>6. ShapeType'
  <2>1. 1..Len(strings) \subseteq 1..Len(strings') /\ 0..Len(strings) \subseteq 0..Len(strings')
    BY <1>1, <1>2
  <2>2. EdgeType \subseteq EdgeType'
    BY <2>1 DEF AddString, shapeVars, EdgeType
  <2>3. edge \in Seq(EdgeType')
    BY <2>2, SeqMonotonic DEF IInv, TypeOK, ShapeType
  <2>4. NodeType' = NodeType
    BY DEF AddString, shapeVars, NodeType
  <2> QED BY <2>3, <2>4 DEF AddString, shapeVars, IInv, TypeOK, ShapeType
<1>7. TreeShape' /\ \A n : kids(n)' = kids(n)
  BY EdgeEnds, Domains, SameShape DEF AddString, shapeVars, IInv
<1>8. Len(w) + 1 \in Int
  BY InputsAssumption, LenProperties
<1>9. skip' \in SkipType /\ skip'.node \in DOMAIN node \cup { NULL } /\ pc' \in { "enter", "check" }
      /\ (pc' = "check" => skip'.node \in DOMAIN node)
  <2>1. CASE allow_duplicates
    BY <2>1, Domains DEF AddString, NoWalk, SkipType, NULL, IInv
  <2>2. CASE ~ allow_duplicates
    BY <1>8, <2>2, Domains DEF AddString, WalkFromRoot, SkipType, IInv
  <2> QED BY <2>1, <2>2
<1>10. LocalType'
  BY <1>5, <1>9 DEF AddString, IInv, TypeOK, LocalType, shapeVars, loopVars, Pcs
<1>11. WellPlaced'
  <2>1. cur' \in DOMAIN strings'
    BY <1>1, <1>2, LenProperties DEF cur
  <2>2. lst_node_is_leaf(Root)' <=> lst_node_is_leaf(Root)
    BY <1>7 DEF lst_node_is_leaf
  <2> QED BY <1>9, <2>1, <2>2 DEF AddString, IInv, WellPlaced, doneVars, shapeVars
<1> QED BY <1>4, <1>6, <1>7, <1>10, <1>11 DEF IInv, TypeOK

\* The nodes `after` are the nodes `before`, but for where they link to.
LinksOnly(after, before, n, e) ==
  /\ after \in Seq(Nodes(n, e)) /\ Len(after) = Len(before)
  /\ \A m \in 1..Len(before) :
       /\ after[m].up_edge = before[m].up_edge /\ after[m].num_kids = before[m].num_kids
       /\ after[m].index = before[m].index
       /\ m # prev_new_node => after[m].suffix_link_node = before[m].suffix_link_node

(* The suffix link of the last extension's inner node.                     *)
LEMMA NodesLinked ==
  ASSUME NEW n \in Nat, NEW e \in Nat, NEW grown \in Seq(Nodes(n, e)),
         prev_new_node \in 0..Len(grown), NEW target \in 0..n
  PROVE  LinksOnly(Linked(grown, target), grown, n, e)
<1>1. CASE prev_new_node = NULL
  BY <1>1 DEF Linked, LinksOnly
<1>2. CASE prev_new_node # NULL
  <2> DEFINE p == prev_new_node
             x == [grown[p] EXCEPT !.suffix_link_node = target]
  <2>1. p \in 1..Len(grown)
    BY <1>2, LenProperties DEF NULL
  <2>2. grown[p] \in Nodes(n, e)
    BY <2>1, ElementOfSeq
  <2>3. /\ x \in Nodes(n, e) /\ x.up_edge = grown[p].up_edge
        /\ x.num_kids = grown[p].num_kids /\ x.index = grown[p].index
    BY <2>2 DEF Nodes
  <2>4. Linked(grown, target) = [grown EXCEPT ![p] = x]
    BY <1>2 DEF Linked
  <2> HIDE DEF x
  <2>5. /\ [grown EXCEPT ![p] = x] \in Seq(Nodes(n, e))
        /\ Len([grown EXCEPT ![p] = x]) = Len(grown)
        /\ \A m \in 1..Len(grown) : [grown EXCEPT ![p] = x][m] = IF m = p THEN x ELSE grown[m]
    BY <2>1, <2>3, ExceptSeq
  <2> QED BY <2>3, <2>4, <2>5 DEF LinksOnly
<1> QED BY <1>1, <1>2

LEMMA Appended ==
  ASSUME NEW S, NEW seq \in Seq(S), NEW elt \in S, NEW longer, longer = Append(seq, elt)
  PROVE  /\ longer \in Seq(S) /\ Len(longer) = Len(seq) + 1
         /\ \A m \in 1..Len(seq) : longer[m] = seq[m]
         /\ longer[Len(seq) + 1] = elt
BY AppendProperties

(* The nodes, and the edges, once there is a leaf below node n.            *)
MoreNodes(grown, n) ==
  /\ grown \in Seq(Nodes(Len(node) + 1, Len(edge) + 1))
  /\ Len(grown) = Len(node) + 1
  /\ \A m \in DOMAIN node :
       /\ grown[m].up_edge = node[m].up_edge
       /\ grown[m].num_kids = node[m].num_kids + (IF m = n THEN 1 ELSE 0)
       /\ grown[m].index = node[m].index
       /\ m # prev_new_node => grown[m].suffix_link_node = node[m].suffix_link_node
  /\ grown[Len(node) + 1].up_edge = Len(edge) + 1
  /\ grown[Len(node) + 1].num_kids = 0

MoreEdges(edges, n) ==
  /\ edges \in Seq(Edges(Len(node) + 1))
  /\ Len(edges) = Len(edge) + 1
  /\ \A e \in DOMAIN edge : edges[e] = edge[e]
  /\ edges[Len(edge) + 1].src = n /\ edges[Len(edge) + 1].dst = Len(node) + 1
  /\ edges[Len(edge) + 1].phase # Local

LEMMA LeafBelow ==
  ASSUME IInv, NEW n \in DOMAIN node, NEW k \in Int
  PROVE  \A grown : grown = Append([node EXCEPT ![n].num_kids = @ + 1],
                                   node_new(Len(edge) + 1, 0, k)) =>
           MoreNodes(grown, n)
<1> DEFINE S == Nodes(Len(node) + 1, Len(edge) + 1)
           x == [node[n] EXCEPT !.num_kids = @ + 1]
           new == node_new(Len(edge) + 1, 0, k)
           more == [node EXCEPT ![n] = x]
<1>1. Len(node) \in Nat /\ Len(edge) \in Nat /\ DOMAIN node = 1..Len(node)
  BY Domains DEF IInv
<1>2. node \in Seq(S)
  <2>1. node \in Seq(Nodes(Len(node), Len(edge)))
    BY DEF IInv, TypeOK, ShapeType, NodeType, Nodes
  <2>2. Nodes(Len(node), Len(edge)) \subseteq S
    BY <1>1, NodesEdgesGrow
  <2> HIDE DEF S
  <2> QED BY <2>1, <2>2, SeqMonotonic
<1>3. \A m \in DOMAIN node : node[m] \in S
  <2> HIDE DEF S
  <2> QED BY <1>1, <1>2, ElementOfSeq
<1>4. /\ x \in S /\ x.up_edge = node[n].up_edge /\ x.num_kids = node[n].num_kids + 1
      /\ x.index = node[n].index /\ x.suffix_link_node = node[n].suffix_link_node
  <2>1. node[n] \in S /\ node[n].num_kids + 1 \in Nat
    BY <1>3 DEF Nodes
  <2>2. x = [node[n] EXCEPT !.num_kids = node[n].num_kids + 1]
    OBVIOUS
  <2> QED BY <2>1, <2>2 DEF Nodes
<1>5. new \in S /\ new.up_edge = Len(edge) + 1 /\ new.num_kids = 0
  BY <1>1 DEF node_new, Nodes, NULL
<1>6. \A m \in DOMAIN node : node[m].num_kids \in Nat
  BY <1>3 DEF Nodes
<1>7. [node EXCEPT ![n].num_kids = @ + 1] = more
  OBVIOUS
<1> SUFFICES ASSUME NEW grown, grown = Append(more, new) PROVE MoreNodes(grown, n)
  BY <1>7
<1> HIDE DEF S, x, new
<1>8. /\ more \in Seq(S) /\ Len(more) = Len(node)
      /\ \A m \in 1..Len(node) : more[m] = IF m = n THEN x ELSE node[m]
  BY <1>1, <1>2, <1>4, ExceptSeq
<1> HIDE DEF more
<1>9. /\ grown \in Seq(S) /\ Len(grown) = Len(node) + 1
      /\ \A m \in 1..Len(node) : grown[m] = more[m]
      /\ grown[Len(node) + 1] = new
  <2>1. more \in Seq(S) /\ new \in S
    BY <1>5, <1>8
  <2>2. /\ grown \in Seq(S) /\ Len(grown) = Len(more) + 1
        /\ \A m \in 1..Len(more) : grown[m] = more[m]
        /\ grown[Len(more) + 1] = new
    BY <2>1, Appended
  <2> QED BY <1>8, <2>2
<1>10. ASSUME NEW m \in DOMAIN node
       PROVE  /\ grown[m].up_edge = node[m].up_edge
              /\ grown[m].num_kids = node[m].num_kids + (IF m = n THEN 1 ELSE 0)
              /\ grown[m].index = node[m].index
              /\ grown[m].suffix_link_node = node[m].suffix_link_node
  BY <1>1, <1>4, <1>6, <1>8, <1>9
<1> QED BY <1>5, <1>9, <1>10 DEF MoreNodes, S

LEMMA LeafBelowLinked ==
  ASSUME IInv, NEW n \in DOMAIN node, NEW grown, MoreNodes(grown, n)
  PROVE  MoreNodes(Linked(grown, n), n)
<1> DEFINE leaf == Len(node) + 1
           new  == Len(edge) + 1
<1>1. /\ leaf \in Nat /\ new \in Nat /\ prev_new_node \in 0..leaf /\ n \in 0..leaf
      /\ \A m \in DOMAIN node : m \in 1..leaf
  BY Domains DEF IInv, TypeOK, LocalType
<1>2. grown \in Seq(Nodes(leaf, new)) /\ Len(grown) = leaf /\ leaf \in 1..leaf
  BY <1>1 DEF MoreNodes
<1> HIDE DEF leaf, new
<1>3. /\ Linked(grown, n) \in Seq(Nodes(leaf, new)) /\ Len(Linked(grown, n)) = leaf
      /\ \A m \in 1..leaf :
           /\ Linked(grown, n)[m].up_edge = grown[m].up_edge
           /\ Linked(grown, n)[m].num_kids = grown[m].num_kids
           /\ Linked(grown, n)[m].index = grown[m].index
           /\ m # prev_new_node =>
                Linked(grown, n)[m].suffix_link_node = grown[m].suffix_link_node
  <2>1. prev_new_node \in 0..Len(grown)
    BY <1>1, <1>2
  <2>2. LinksOnly(Linked(grown, n), grown, leaf, new)
    BY <1>1, <1>2, <2>1, NodesLinked
  <2> QED BY <1>2, <2>2 DEF LinksOnly
<1> QED BY <1>1, <1>2, <1>3 DEF MoreNodes, leaf, new

LEMMA EdgeBelow ==
  ASSUME IInv, cur \in DOMAIN strings, NEW n \in DOMAIN node, NEW start \in Int
  PROVE  \A edges : edges = Append(edge, edge_leaf_new(n, Len(node) + 1, cur, start, cur)) =>
           MoreEdges(edges, n)
<1> DEFINE leaf == Len(node) + 1
           below == edge_leaf_new(n, leaf, cur, start, cur)
<1>1. /\ Len(node) \in Nat /\ Len(edge) \in Nat /\ DOMAIN node = 1..Len(node)
      /\ DOMAIN edge = 1..Len(edge) /\ cur \in 1..Len(strings) /\ Len(strings) \in Nat
  BY Domains DEF IInv
<1>2. below \in Edges(leaf) /\ below.src = n /\ below.dst = leaf /\ below.phase # Local
  BY <1>1 DEF edge_leaf_new, edge_new, Edges, Local
<1>3. edge \in Seq(Edges(leaf))
  <2>1. edge \in Seq(Edges(Len(node)))
    BY DEF IInv, TypeOK, ShapeType, EdgeType, Edges
  <2>2. Edges(Len(node)) \subseteq Edges(leaf)
    BY <1>1, NodesEdgesGrow
  <2> HIDE DEF leaf
  <2> QED BY <2>1, <2>2, SeqMonotonic
<1> SUFFICES ASSUME NEW edges, edges = Append(edge, below) PROVE MoreEdges(edges, n)
  OBVIOUS
<1> HIDE DEF below, leaf
<1>4. /\ edges \in Seq(Edges(leaf)) /\ Len(edges) = Len(edge) + 1
      /\ \A m \in 1..Len(edge) : edges[m] = edge[m]
      /\ edges[Len(edge) + 1] = below
  BY <1>2, <1>3, Appended
<1> QED BY <1>1, <1>2, <1>4 DEF MoreEdges, leaf

(* A leaf below node n keeps the tree in shape.                            *)
LEMMA LeafAdded ==
  ASSUME IInv, NEW n \in DOMAIN node, n = Root \/ ~ lst_node_is_leaf(n), strings' = strings,
         NEW leaf, leaf = Len(node) + 1, NEW new, new = Len(edge) + 1,
         MoreNodes(node', n), MoreEdges(edge', n),
         leafs' = LinkLeaf(leafs, leaf)
  PROVE  /\ ShapeType' /\ TreeShape'
         /\ \A m \in DOMAIN node : kids(m) \subseteq kids(m)'
<1>1. /\ Len(node) \in Nat /\ Len(edge) \in Nat /\ DOMAIN node = 1..Len(node)
      /\ DOMAIN edge = 1..Len(edge) /\ TypeOK /\ TreeShape
  BY Domains DEF IInv
<1>2. /\ node' \in Seq(Nodes(leaf, new)) /\ Len(node') = leaf
      /\ \A m \in DOMAIN node :
           /\ node'[m].up_edge = node[m].up_edge
           /\ node'[m].num_kids = node[m].num_kids + (IF m = n THEN 1 ELSE 0)
      /\ node'[leaf].up_edge = new /\ node'[leaf].num_kids = 0
      /\ edge' \in Seq(Edges(leaf)) /\ Len(edge') = new
      /\ \A e \in DOMAIN edge : edge'[e] = edge[e]
      /\ edge'[new].src = n /\ edge'[new].dst = leaf /\ edge'[new].phase # Local
  BY DEF MoreNodes, MoreEdges
<1>3. /\ DOMAIN node' = DOMAIN node \cup { leaf } /\ leaf \notin DOMAIN node
      /\ DOMAIN edge' = DOMAIN edge \cup { new } /\ new \notin DOMAIN edge
  <2>1. DOMAIN node' = 1..leaf /\ DOMAIN edge' = 1..new
    BY <1>2, LenProperties
  <2> QED BY <1>1, <2>1
<1>4. ShapeType'
  <2>1. leafs \in Seq(DOMAIN node') /\ leaf \in DOMAIN node'
    BY <1>3, SeqMonotonic DEF IInv, TypeOK, ShapeType
  <2>2. leafs' \in Seq(DOMAIN node')
    BY <2>1, LeafLinked
  <2>3. NodeType' = Nodes(leaf, new) /\ EdgeType' = Edges(leaf)
    BY <1>2 DEF NodeType, EdgeType, Nodes, Edges
  <2>4. Root \in DOMAIN node'
    BY <1>3, Domains DEF IInv
  <2> QED BY <1>2, <2>2, <2>3, <2>4 DEF ShapeType
<1>5. TreeShape' /\ \A m \in DOMAIN node : kids(m) \subseteq kids(m)'
  BY <1>2, <1>1, <1>3, Grafted
<1> QED BY <1>4, <1>5

LEMMA EnterFirstStringIInv ==
  ASSUME IInv, EnterFirstString
  PROVE  IInv'
<1> DEFINE leaf == Len(node) + 1
           new  == Len(edge) + 1
<1>1. /\ cur \in DOMAIN strings /\ cur \in 1..Len(hash) /\ Root \in DOMAIN node
      /\ Len(node) \in Nat /\ Len(edge) \in Nat /\ Len(strings) \in Nat /\ 0 \in Int
  BY Domains DEF EnterFirstString, IInv, TypeOK, TableType, WellPlaced
<1>2. MoreNodes(node', Root)
  <2>1. node' = Append([node EXCEPT ![Root].num_kids = @ + 1], node_new(Len(edge) + 1, 0, 0))
    BY DEF EnterFirstString
  <2> QED BY <1>1, <2>1, LeafBelow
<1>3. MoreEdges(edge', Root)
  <2>1. edge' = Append(edge, edge_leaf_new(Root, Len(node) + 1, cur, 0, cur))
    BY DEF EnterFirstString
  <2> QED BY <1>1, <2>1, EdgeBelow
<1>4. strings' = strings /\ leafs' = LinkLeaf(leafs, leaf)
  BY DEF EnterFirstString, Register
<1> HIDE DEF leaf, new
<1>5. ShapeType' /\ TreeShape'
  BY <1>1, <1>2, <1>3, <1>4, LeafAdded DEF leaf, new
<1>6. new \in DOMAIN edge' /\ Len(node') \in Nat /\ Len(edge') \in Nat
      /\ Len(node) <= Len(node') /\ Len(edge) <= Len(edge')
  BY <1>1, <1>2, <1>3, LenProperties DEF MoreNodes, MoreEdges, new
<1>7. TableType'
  BY <1>1, ExceptSeq DEF EnterFirstString, Register, IInv, TypeOK, TableType, doneVars
<1>8. SkipType \subseteq SkipType' /\ 0..Len(node) \subseteq 0..Len(node')
  BY <1>1, <1>4, <1>6, LocalsGrow DEF IInv
<1>9. end' = stree_path_end_edge(new, 0) /\ end' \in EndType' /\ end'.node = NULL /\ end'.edge = new
  BY <1>1, <1>3, <1>6 DEF MoreEdges, EnterFirstString, stree_path_end_edge, EndType, new, NULL
<1>10. LocalType'
  <2>1. i' \in Int /\ pc' \in Pcs
    BY DEF EnterFirstString, Pcs
  <2> QED BY <1>8, <1>9, <2>1 DEF EnterFirstString, IInv, TypeOK, LocalType
<1>11. WellPlaced'
  <2>1. ~ lst_node_is_leaf(Root)'
    BY <1>3, <1>6 DEF MoreEdges, new, lst_node_is_leaf, kids
  <2> QED BY <1>1, <1>4, <1>6, <1>9, <2>1 DEF EnterFirstString, WellPlaced, cur
<1> QED BY <1>5, <1>7, <1>10, <1>11 DEF IInv, TypeOK

(* The locals after an extension.                                          *)
LEMMA ExtensionLocals ==
  ASSUME IInv, NEW inner \in 0..Len(node'), NextExtension(inner), strings' = strings,
         Len(node') \in Nat, Len(edge') \in Nat, Len(node) <= Len(node'), Len(edge) <= Len(edge'),
         end' \in EndType', stop_extensions' \in BOOLEAN
  PROVE  LocalType'
<1>1. NoWalk \in SkipType'
  BY Domains DEF IInv, NoWalk, SkipType, NULL
<1>2. j' \in Int /\ i' \in Int /\ last_extension' \in Int /\ pc' \in Pcs
  BY DEF NextExtension, IInv, TypeOK, LocalType, Pcs
<1>3. use_end' \in BOOLEAN /\ find_skipstring' \in BOOLEAN
  BY DEF NextExtension, IInv, TypeOK, LocalType
<1>4. prev_new_node' \in 0..Len(node') /\ skip' \in SkipType'
  BY <1>1 DEF NextExtension
<1> QED BY <1>2, <1>3, <1>4 DEF LocalType

LEMMA AddLeafAtIInv ==
  ASSUME IInv, end.node # NULL, ~ lst_node_is_leaf(end.node), AddLeafAt(end.node),
         NextExtension(NULL), UNCHANGED stop_extensions
  PROVE  IInv'
<1> DEFINE leaf == Len(node) + 1
           new  == Len(edge) + 1
           n    == end.node
<1>1. /\ cur \in DOMAIN strings /\ n \in DOMAIN node /\ n \in 0..leaf
      /\ Len(node) \in Nat /\ Len(edge) \in Nat /\ leaf \in Nat /\ new \in Nat
      /\ j \in Int /\ skip.extra \in Int /\ prev_new_node \in 0..leaf
  <2>1. TypeOK /\ LocalType /\ WellPlaced /\ pc = "insert"
    BY DEF NextExtension, IInv, TypeOK
  <2>2. Len(node) \in Nat /\ Len(edge) \in Nat /\ DOMAIN node = 1..Len(node)
    BY <2>1, Domains
  <2>3. cur \in DOMAIN strings /\ n \in DOMAIN node
    BY <2>1 DEF WellPlaced, NULL
  <2>4. j \in Int /\ skip.extra \in Int /\ prev_new_node \in 0..Len(node)
    BY <2>1 DEF LocalType, SkipType
  <2> HIDE DEF n
  <2> QED BY <2>2, <2>3, <2>4
<1>2. MoreNodes(node', n)
  <2>1. PICK grown : grown = Append([node EXCEPT ![n].num_kids = @ + 1],
                                    node_new(Len(edge) + 1, 0, j))
    OBVIOUS
  <2>2. MoreNodes(grown, n)
    BY <1>1, <2>1, LeafBelow
  <2>3. node' = Linked(grown, n)
    BY <2>1 DEF AddLeafAt
  <2> QED BY <1>1, <2>2, <2>3, LeafBelowLinked
<1>3. MoreEdges(edge', n)
  <2>1. edge' = Append(edge, edge_leaf_new(n, Len(node) + 1, cur, skip.extra, cur))
    BY DEF AddLeafAt
  <2> QED BY <1>1, <2>1, EdgeBelow
<1>4. strings' = strings /\ leafs' = LinkLeaf(leafs, leaf) /\ end' = end
  BY DEF AddLeafAt, NextExtension, tableVars
<1> HIDE DEF leaf, new, n
<1>5. ShapeType' /\ TreeShape' /\ \A m \in DOMAIN node : kids(m) \subseteq kids(m)'
  <2>1. ~ lst_node_is_leaf(n)
    BY DEF n
  <2> QED BY <1>1, <1>2, <1>3, <1>4, <2>1, LeafAdded DEF leaf, new
<1>6. Len(node') \in Nat /\ Len(edge') \in Nat /\ Len(strings') \in Nat /\ NULL \in 0..Len(node')
      /\ Len(node) <= Len(node') /\ Len(edge) <= Len(edge') /\ Len(strings) <= Len(strings')
      /\ DOMAIN node \subseteq DOMAIN node' /\ DOMAIN edge \subseteq DOMAIN edge'
  <2>1. Len(strings) \in Nat /\ DOMAIN node = 1..Len(node) /\ DOMAIN edge = 1..Len(edge)
    BY Domains DEF IInv
  <2>2. Len(node') = leaf /\ Len(edge') = new /\ Len(strings') = Len(strings)
    BY <1>2, <1>3, <1>4 DEF MoreNodes, MoreEdges, leaf, new
  <2>3. DOMAIN node' = 1..Len(node') /\ DOMAIN edge' = 1..Len(edge')
    BY <1>2, <1>3, LenProperties DEF MoreNodes, MoreEdges
  <2> QED BY <1>1, <2>1, <2>2, <2>3 DEF leaf, new, NULL
<1>7. TableType'
  BY DEF AddLeafAt, NextExtension, IInv, TypeOK, TableType, tableVars, doneVars
<1>8. EndType \subseteq EndType'
  BY <1>6, LocalsGrow DEF IInv
<1>9. LocalType'
  <2>1. end' \in EndType' /\ stop_extensions' \in BOOLEAN
    BY <1>4, <1>8 DEF IInv, TypeOK, LocalType
  <2> QED BY <1>4, <1>6, <2>1, ExtensionLocals
<1>10. WellPlaced'
  <2>1. ~ lst_node_is_leaf(Root)'
    BY <1>5, Domains DEF NextExtension, IInv, WellPlaced, lst_node_is_leaf
  <2> QED BY <1>4, <1>6, <2>1 DEF NextExtension, IInv, WellPlaced, cur, tableVars
<1> QED BY <1>5, <1>7, <1>9, <1>10 DEF IInv, TypeOK

(* Steps that set the suffix link at most.                                 *)
LEMMA Relinked ==
  ASSUME IInv, NEW target \in 0..Len(node), node' = Linked(node, target), strings' = strings,
         edge' \in Seq(EdgeType), Len(edge') = Len(edge),
         \A e \in DOMAIN edge : /\ edge'[e].src = edge[e].src /\ edge'[e].dst = edge[e].dst
                                /\ edge'[e].phase = edge[e].phase,
         leafs' = leafs
  PROVE  /\ ShapeType' /\ TreeShape' /\ EndType' = EndType
         /\ Len(node') = Len(node) /\ DOMAIN node' = DOMAIN node /\ DOMAIN edge' = DOMAIN edge
         /\ lst_node_is_leaf(Root)' <=> lst_node_is_leaf(Root)
<1>1. /\ Len(node) \in Nat /\ Len(edge) \in Nat /\ DOMAIN node = 1..Len(node)
      /\ DOMAIN edge = 1..Len(edge) /\ TypeOK /\ TreeShape /\ Root \in DOMAIN node
      /\ \A e \in DOMAIN edge : edge[e].dst \in DOMAIN node
  BY Domains, EdgeEnds DEF IInv
<1>2. /\ node' \in Seq(Nodes(Len(node), Len(edge))) /\ Len(node') = Len(node)
      /\ \A m \in DOMAIN node : /\ node'[m].up_edge = node[m].up_edge
                                /\ node'[m].num_kids = node[m].num_kids
  <2>1. node \in Seq(Nodes(Len(node), Len(edge))) /\ prev_new_node \in 0..Len(node)
    BY DEF IInv, TypeOK, LocalType, ShapeType, NodeType, Nodes
  <2> QED BY <1>1, <2>1, NodesLinked DEF LinksOnly
<1>3. DOMAIN node' = DOMAIN node /\ DOMAIN edge' = DOMAIN edge
  BY <1>1, <1>2, LenProperties
<1>4. NodeType' = Nodes(Len(node), Len(edge)) /\ EdgeType' = EdgeType /\ EndType' = EndType
  BY <1>2 DEF NodeType, EdgeType, Nodes, EndType
<1>5. ShapeType'
  BY <1>1, <1>2, <1>3, <1>4 DEF IInv, TypeOK, ShapeType
<1>6. TreeShape' /\ \A n : kids(n)' = kids(n)
  BY <1>1, <1>2, <1>3, SameShape
<1> QED BY <1>2, <1>3, <1>4, <1>5, <1>6 DEF lst_node_is_leaf

(* The end of a path after one more item.                                  *)
LEMMA AdvanceEnd ==
  ASSUME IInv, NEW e, end.node # NULL => e \in DOMAIN edge
  PROVE  LET p == stree_path_end_advance(end, e)
         IN  /\ p \in EndType
             /\ \/ p.node \in DOMAIN node /\ p.edge = NULL
                \/ p.node = NULL /\ p.edge \in DOMAIN edge
<1> DEFINE down == IF end.node # NULL THEN e ELSE end.edge
           off  == end.offset + 1
<1>1. down \in DOMAIN edge
  BY Domains DEF IInv, WellPlaced, NULL
<1>2. edge[down].dst \in DOMAIN node /\ off \in Int
  BY SMTT(30), <1>1, EdgeEnds DEF IInv, TypeOK, LocalType, EndType
<1>3. stree_path_end_advance(end, e) \in { stree_path_end_node(edge[down].dst),
                                           stree_path_end_edge(down, off) }
  BY DEF stree_path_end_advance
<1> HIDE DEF down, off
<1>4. /\ stree_path_end_node(edge[down].dst) \in EndType
      /\ stree_path_end_edge(down, off) \in EndType
  BY <1>1, <1>2, Domains DEF stree_path_end_node, stree_path_end_edge, EndType, NULL, IInv
<1> QED BY <1>1, <1>2, <1>3, <1>4 DEF stree_path_end_node, stree_path_end_edge

LEMMA ExtendLabelIInv ==
  ASSUME IInv, end.node # NULL, lst_node_is_leaf(end.node),
         ExtendLabel(node[end.node].up_edge), NextExtension(NULL), UNCHANGED stop_extensions
  PROVE  IInv'
<1> DEFINE e == node[end.node].up_edge
<1>1. end.node \in DOMAIN node \ { Root }
  BY DEF NextExtension, IInv, WellPlaced
<1>2. e \in DOMAIN edge
  BY <1>1 DEF IInv, TreeShape, EdgesAgree
<1>3. /\ edge[e].phase \in 0..Len(strings) /\ lst_edge_get_length(e) + 1 - 2 \in Int
      /\ edge[e].end_local + 1 \in Int /\ edge[e] \in EdgeType
  <2>1. TypeOK
    BY DEF IInv
  <2>2. /\ edge[e].phase \in 0..Len(strings) /\ lst_edge_get_length(e) \in Int
        /\ edge[e].end_local \in Int
    BY <1>2, <2>1, EdgeEnds
  <2>3. edge[e] \in EdgeType
    BY <1>2, <2>1, Domains
  <2> HIDE DEF e
  <2> QED BY <2>2, <2>3
<1>4. /\ edge' \in Seq(EdgeType) /\ Len(edge') = Len(edge)
      /\ \A d \in DOMAIN edge : /\ edge'[d].src = edge[d].src /\ edge'[d].dst = edge[d].dst
                                /\ edge'[d].phase = edge[d].phase
  <2>1. edge \in Seq(EdgeType) /\ e \in 1..Len(edge) /\ DOMAIN edge = 1..Len(edge)
    BY <1>2, Domains DEF IInv, TypeOK, ShapeType
  <2>2. CASE edge[e].phase = Local
    <3> DEFINE x == [edge[e] EXCEPT !.end_local = edge[e].end_local + 1]
    <3>1. x \in EdgeType /\ x.src = edge[e].src /\ x.dst = edge[e].dst /\ x.phase = edge[e].phase
      BY <1>3 DEF EdgeType
    <3>2. edge' = [edge EXCEPT ![e] = x]
      BY <2>2 DEF ExtendLabel
    <3> HIDE DEF x, e
    <3>3. /\ edge' \in Seq(EdgeType) /\ Len(edge') = Len(edge)
          /\ \A d \in 1..Len(edge) : edge'[d] = IF d = e THEN x ELSE edge[d]
      BY <2>1, <3>1, <3>2, ExceptSeq
    <3> QED BY <2>1, <3>1, <3>3
  <2>3. CASE edge[e].phase # Local
    BY <2>1, <2>3 DEF ExtendLabel
  <2> QED BY <2>2, <2>3
<1>5. TableType'
  <2>1. CASE edge[e].phase = Local
    BY <2>1
       DEF ExtendLabel, NextExtension, IInv, TypeOK, TableType, tableVars, doneVars
  <2>2. CASE edge[e].phase # Local
    <3> DEFINE p == edge[e].phase
    <3>1. p \in 1..Len(phases) /\ phases \in Seq(Int) /\ phases[p] + 1 \in Int
      <4>1. TypeOK /\ phases \in Seq(Int) /\ Len(phases) = Len(strings)
        BY DEF IInv, TypeOK, TableType
      <4>2. p \in 1..Len(phases)
        <5>1. Len(strings) \in Nat
          BY <4>1, Domains
        <5>2. p \in 0..Len(strings) /\ p # 0
          BY <1>3, <2>2 DEF Local
        <5> HIDE DEF p
        <5> QED BY <4>1, <5>1, <5>2
      <4> HIDE DEF p
      <4>3. phases[p] \in Int
        BY <4>1, <4>2, ElementOfSeq
      <4> QED BY <4>1, <4>2, <4>3
    <3>2. phases' = [phases EXCEPT ![p] = phases[p] + 1]
      BY <2>2 DEF ExtendLabel
    <3> HIDE DEF p
    <3>3. phases' \in Seq(Int) /\ Len(phases') = Len(phases)
      BY <3>1, <3>2, ExceptSeq
    <3> QED BY <3>3 DEF NextExtension, IInv, TypeOK, TableType, tableVars, doneVars
  <2> QED BY <2>1, <2>2
<1>6. /\ end.node \in 0..Len(node) /\ node' = Linked(node, end.node)
      /\ leafs' = leafs /\ strings' = strings
  <2>1. DOMAIN node = 1..Len(node) /\ Len(node) \in Nat
    BY Domains DEF IInv
  <2>2. end.node \in 0..Len(node)
    BY <1>1, <2>1
  <2> QED BY <2>2 DEF ExtendLabel, NextExtension, tableVars
<1>7. /\ ShapeType' /\ TreeShape' /\ EndType' = EndType
      /\ Len(node') = Len(node) /\ DOMAIN node' = DOMAIN node /\ DOMAIN edge' = DOMAIN edge
      /\ lst_node_is_leaf(Root)' <=> lst_node_is_leaf(Root)
  BY <1>4, <1>6, Relinked
<1>8. end' \in EndType /\ end'.node = NULL /\ end'.edge \in DOMAIN edge
  BY <1>2, <1>3, Domains DEF ExtendLabel, stree_path_end_edge, EndType, NULL, IInv
<1>9. LocalType'
  <2>1. NULL \in 0..Len(node') /\ Len(node') \in Nat /\ Len(edge') \in Nat
        /\ Len(node) <= Len(node') /\ Len(edge) <= Len(edge')
    BY <1>4, <1>7, Domains DEF IInv, NULL
  <2>2. stop_extensions' \in BOOLEAN
    BY DEF IInv, TypeOK, LocalType
  <2> QED BY <1>6, <1>7, <1>8, <2>1, <2>2, ExtensionLocals
<1>10. WellPlaced'
  BY <1>6, <1>7, <1>8 DEF NextExtension, IInv, WellPlaced, cur
<1> QED BY <1>5, <1>7, <1>9, <1>10 DEF IInv, TypeOK

LEMMA StopIInv ==
  ASSUME IInv, NextExtension(NULL), NEW target \in 0..Len(node), node' = Linked(node, target),
         NEW e, end.node # NULL => e \in DOMAIN edge,
         end' = stree_path_end_advance(end, e), stop_extensions' = TRUE,
         UNCHANGED << phases, edge, leafs >>
  PROVE  IInv'
<1>1. edge \in Seq(EdgeType) /\ strings' = strings
  BY DEF NextExtension, tableVars, IInv, TypeOK, ShapeType
<1>2. /\ ShapeType' /\ TreeShape' /\ EndType' = EndType
      /\ Len(node') = Len(node) /\ DOMAIN node' = DOMAIN node /\ DOMAIN edge' = DOMAIN edge
      /\ lst_node_is_leaf(Root)' <=> lst_node_is_leaf(Root)
  BY <1>1, Relinked
<1>3. /\ end' \in EndType
      /\ \/ end'.node \in DOMAIN node /\ end'.edge = NULL
         \/ end'.node = NULL /\ end'.edge \in DOMAIN edge
  BY AdvanceEnd
<1>4. TableType'
  BY DEF NextExtension, IInv, TypeOK, TableType, tableVars, doneVars
<1>5. LocalType'
  <2>1. NULL \in 0..Len(node') /\ Len(node') \in Nat /\ Len(edge') \in Nat
        /\ Len(node) <= Len(node') /\ Len(edge) <= Len(edge')
    BY <1>2, Domains DEF IInv, NULL
  <2>2. stop_extensions' \in BOOLEAN
    OBVIOUS
  <2> QED BY <1>1, <1>2, <1>3, <2>1, <2>2, ExtensionLocals
<1>6. WellPlaced'
  BY <1>1, <1>2, <1>3 DEF NextExtension, IInv, WellPlaced, cur
<1> QED BY <1>2, <1>4, <1>5, <1>6 DEF IInv, TypeOK

(* The nodes, and the edges, once edge up is split above node old.         *)
SplitsNodes(grown, old, up) ==
  /\ grown \in Seq(Nodes(Len(node) + 2, Len(edge) + 2))
  /\ Len(grown) = Len(node) + 2
  /\ \A m \in DOMAIN node :
       /\ grown[m].up_edge = IF m = old THEN Len(edge) + 1 ELSE node[m].up_edge
       /\ grown[m].num_kids = node[m].num_kids
       /\ grown[m].index = node[m].index
       /\ m # prev_new_node => grown[m].suffix_link_node = node[m].suffix_link_node
  /\ grown[Len(node) + 1].up_edge = up /\ grown[Len(node) + 1].num_kids = 2
  /\ grown[Len(node) + 1].suffix_link_node = NULL
  /\ grown[Len(node) + 2].up_edge = Len(edge) + 2
  /\ grown[Len(node) + 2].num_kids = 0

SplitsEdges(edges, up, upper, lower, side) ==
  /\ edges \in Seq(Edges(Len(node) + 2))
  /\ Len(edges) = Len(edge) + 2
  /\ \A e \in DOMAIN edge : edges[e] = IF e = up THEN upper ELSE edge[e]
  /\ edges[Len(edge) + 1] = lower /\ edges[Len(edge) + 2] = side

LEMMA SplitNodes ==
  ASSUME IInv, NEW old \in DOMAIN node, NEW up \in DOMAIN edge, NEW k \in Int
  PROVE  \A grown :
           grown = Append(Append([node EXCEPT ![old].up_edge = Len(edge) + 1],
                                 node_new(up, 2, -1)),
                          node_new(Len(edge) + 2, 0, k)) =>
             SplitsNodes(grown, old, up)
<1> DEFINE S == Nodes(Len(node) + 2, Len(edge) + 2)
           x == [node[old] EXCEPT !.up_edge = Len(edge) + 1]
           inner == node_new(up, 2, -1)
           leaf == node_new(Len(edge) + 2, 0, k)
           moved == [node EXCEPT ![old] = x]
<1>1. /\ Len(node) \in Nat /\ Len(edge) \in Nat /\ DOMAIN node = 1..Len(node)
      /\ DOMAIN edge = 1..Len(edge)
  BY Domains DEF IInv
<1>2. node \in Seq(S)
  <2>1. node \in Seq(Nodes(Len(node), Len(edge)))
    BY DEF IInv, TypeOK, ShapeType, NodeType, Nodes
  <2>2. Nodes(Len(node), Len(edge)) \subseteq S
    BY <1>1, NodesEdgesGrow
  <2> HIDE DEF S
  <2> QED BY <2>1, <2>2, SeqMonotonic
<1>3. node[old] \in S
  <2> HIDE DEF S
  <2> QED BY <1>1, <1>2, ElementOfSeq
<1>4. /\ x \in S /\ x.up_edge = Len(edge) + 1 /\ x.num_kids = node[old].num_kids
      /\ x.index = node[old].index /\ x.suffix_link_node = node[old].suffix_link_node
  BY SMTT(30), <1>1, <1>3 DEF Nodes
<1>5. /\ inner \in S /\ inner.up_edge = up /\ inner.num_kids = 2
      /\ inner.suffix_link_node = NULL
      /\ leaf \in S /\ leaf.up_edge = Len(edge) + 2 /\ leaf.num_kids = 0
  BY <1>1 DEF node_new, Nodes, NULL
<1>6. [node EXCEPT ![old].up_edge = Len(edge) + 1] = moved
  OBVIOUS
<1> SUFFICES ASSUME NEW grown, grown = Append(Append(moved, inner), leaf)
             PROVE  SplitsNodes(grown, old, up)
  BY <1>6
<1> HIDE DEF S, x, inner, leaf
<1>7. /\ moved \in Seq(S) /\ Len(moved) = Len(node)
      /\ \A m \in 1..Len(node) : moved[m] = IF m = old THEN x ELSE node[m]
  BY <1>1, <1>2, <1>4, ExceptSeq
<1> HIDE DEF moved
<1> DEFINE middle == Append(moved, inner)
<1>8. /\ middle \in Seq(S) /\ Len(middle) = Len(node) + 1
      /\ \A m \in 1..Len(node) : middle[m] = moved[m]
      /\ middle[Len(node) + 1] = inner
  BY <1>5, <1>7, Appended
<1>9. grown = Append(middle, leaf)
  OBVIOUS
<1> HIDE DEF middle
<1>10. /\ grown \in Seq(S) /\ Len(grown) = Len(middle) + 1
       /\ \A m \in 1..Len(middle) : grown[m] = middle[m]
       /\ grown[Len(middle) + 1] = leaf
  BY <1>5, <1>8, <1>9, Appended
<1>11. Len(grown) = Len(node) + 2 /\ grown[Len(node) + 2] = leaf /\ grown[Len(node) + 1] = inner
  BY SMTT(30), <1>1, <1>8, <1>10
<1>12. ASSUME NEW m \in DOMAIN node
       PROVE  /\ grown[m].up_edge = IF m = old THEN Len(edge) + 1 ELSE node[m].up_edge
              /\ grown[m].num_kids = node[m].num_kids
              /\ grown[m].index = node[m].index
              /\ grown[m].suffix_link_node = node[m].suffix_link_node
  <2>1. grown[m] = IF m = old THEN x ELSE node[m]
    BY <1>1, <1>7, <1>8, <1>10
  <2> QED BY <1>4, <2>1
<1> QED BY <1>5, <1>10, <1>11, <1>12 DEF SplitsNodes, S

LEMMA SplitEdges ==
  ASSUME IInv, NEW up \in DOMAIN edge, NEW upper \in Edges(Len(node) + 2),
         NEW lower \in Edges(Len(node) + 2), NEW side \in Edges(Len(node) + 2)
  PROVE  \A edges :
           edges = Append(Append([edge EXCEPT ![up] = upper], lower), side) =>
             SplitsEdges(edges, up, upper, lower, side)
<1> DEFINE S == Edges(Len(node) + 2)
           shorter == [edge EXCEPT ![up] = upper]
           longer == Append(shorter, lower)
<1>1. Len(node) \in Nat /\ Len(edge) \in Nat /\ DOMAIN edge = 1..Len(edge)
  BY Domains DEF IInv
<1>2. edge \in Seq(S)
  <2>1. edge \in Seq(Edges(Len(node)))
    BY DEF IInv, TypeOK, ShapeType, EdgeType, Edges
  <2>2. Edges(Len(node)) \subseteq S
    BY <1>1, NodesEdgesGrow
  <2> HIDE DEF S
  <2> QED BY <2>1, <2>2, SeqMonotonic
<1>3. upper \in S /\ lower \in S /\ side \in S
  OBVIOUS
<1> HIDE DEF S
<1>4. /\ shorter \in Seq(S) /\ Len(shorter) = Len(edge)
      /\ \A e \in 1..Len(edge) : shorter[e] = IF e = up THEN upper ELSE edge[e]
  BY <1>1, <1>2, <1>3, ExceptSeq
<1> SUFFICES ASSUME NEW edges, edges = Append(longer, side)
             PROVE  SplitsEdges(edges, up, upper, lower, side)
  OBVIOUS
<1> HIDE DEF shorter
<1>5. /\ longer \in Seq(S) /\ Len(longer) = Len(edge) + 1
      /\ \A e \in 1..Len(edge) : longer[e] = shorter[e]
      /\ longer[Len(edge) + 1] = lower
  BY SMTT(40), <1>3, <1>4, Appended
<1> HIDE DEF longer
<1>6. /\ edges \in Seq(S) /\ Len(edges) = Len(longer) + 1
      /\ \A e \in 1..Len(longer) : edges[e] = longer[e]
      /\ edges[Len(longer) + 1] = side
  BY <1>3, <1>5, Appended
<1> QED BY <1>1, <1>4, <1>5, <1>6 DEF SplitsEdges, S

LEMMA SplitNodesLinked ==
  ASSUME IInv, NEW old \in DOMAIN node, NEW up, NEW grown, SplitsNodes(grown, old, up)
  PROVE  SplitsNodes(Linked(grown, Len(node) + 1), old, up)
<1> DEFINE inner == Len(node) + 1
           leaf  == Len(node) + 2
           side  == Len(edge) + 2
<1>1. /\ leaf \in Nat /\ side \in Nat /\ prev_new_node \in 0..leaf /\ inner \in 0..leaf
      /\ inner # prev_new_node
      /\ inner \in 1..leaf /\ leaf \in 1..leaf /\ \A m \in DOMAIN node : m \in 1..leaf
  BY Domains DEF IInv, TypeOK, LocalType
<1>2. grown \in Seq(Nodes(leaf, side)) /\ Len(grown) = leaf
  BY DEF SplitsNodes
<1> HIDE DEF inner, leaf, side
<1>3. /\ Linked(grown, inner) \in Seq(Nodes(leaf, side)) /\ Len(Linked(grown, inner)) = leaf
      /\ \A m \in 1..leaf :
           /\ Linked(grown, inner)[m].up_edge = grown[m].up_edge
           /\ Linked(grown, inner)[m].num_kids = grown[m].num_kids
           /\ Linked(grown, inner)[m].index = grown[m].index
           /\ m # prev_new_node =>
                Linked(grown, inner)[m].suffix_link_node = grown[m].suffix_link_node
  <2>1. prev_new_node \in 0..Len(grown)
    BY <1>1, <1>2
  <2>2. LinksOnly(Linked(grown, inner), grown, leaf, side)
    BY <1>1, <1>2, <2>1, NodesLinked
  <2> QED BY <1>2, <2>2 DEF LinksOnly
<1> QED BY <1>1, <1>2, <1>3, ZenonT(40) DEF SplitsNodes, inner, leaf, side

(* The tree after the split: node inner between the ends of edge up.       *)
EdgeSplit(up, inner, leaf, low, side) ==
  /\ up \in DOMAIN edge /\ inner # leaf /\ low # side
  /\ inner \notin DOMAIN node /\ leaf \notin DOMAIN node
  /\ DOMAIN node' = DOMAIN node \cup { inner, leaf }
  /\ DOMAIN edge' = DOMAIN edge \cup { low, side }
  /\ low \notin DOMAIN edge /\ side \notin DOMAIN edge
  /\ \A e \in DOMAIN edge \ { up } : edge'[e] = edge[e]
  /\ edge'[up].src = edge[up].src /\ edge'[up].dst = inner
  /\ edge'[low].src = inner /\ edge'[low].dst = edge[up].dst
  /\ edge'[side].src = inner /\ edge'[side].dst = leaf

LEMMA SplitEdgeIInv ==
  ASSUME IInv, SplitEdge
  PROVE  IInv' /\ EdgeSplit(end.edge, Len(node) + 1, Len(node) + 2, Len(edge) + 1, Len(edge) + 2)
<1> DEFINE up    == end.edge
           old   == edge[up].dst
           inner == Len(node) + 1
           leaf  == Len(node) + 2
           low   == Len(edge) + 1
           side  == Len(edge) + 2
           split == edge[up].start_index + end.offset
           lower == IF lst_node_is_leaf(old)
                      THEN edge_leaf_new(inner, old, edge[up].str, split, edge[up].phase)
                      ELSE edge_new(inner, old, edge[up].str, split, end_index(up))
           upper == [edge[up] EXCEPT !.phase = Local, !.end_local = split - 1, !.dst = inner]
           aside == edge_leaf_new(inner, leaf, cur, skip.extra, cur)
<1>1. /\ TypeOK /\ TreeShape /\ WellPlaced /\ end.node = NULL /\ NextExtension(inner)
      /\ UNCHANGED << phases, end, stop_extensions >> /\ pc = "insert"
  BY DEF SplitEdge, IInv, NextExtension
<1>2. /\ up \in DOMAIN edge /\ cur \in DOMAIN strings /\ ~ lst_node_is_leaf(Root)
      /\ strings' = strings
  BY <1>1, Domains DEF NextExtension, WellPlaced, NULL, tableVars
<1>3. /\ edge[up].src \in DOMAIN node /\ old \in DOMAIN node /\ edge[up].str \in DOMAIN strings
      /\ edge[up].start_index \in Int /\ edge[up].phase \in 0..Len(strings)
      /\ end_index(up) \in Int /\ edge[up] \in EdgeType
  BY <1>1, <1>2, EdgeEnds, Domains
<1>4. split \in Int /\ j \in Int /\ skip.extra \in Int /\ prev_new_node \in 0..Len(node)
  <2>1. end.offset \in Int /\ j \in Int /\ skip.extra \in Int /\ prev_new_node \in 0..Len(node)
    BY <1>1 DEF TypeOK, LocalType, EndType, SkipType
  <2> HIDE DEF up
  <2> QED BY SMTT(30), <1>3, <2>1
<1>5. /\ Len(node) \in Nat /\ Len(edge) \in Nat /\ DOMAIN node = 1..Len(node)
      /\ DOMAIN edge = 1..Len(edge) /\ Len(strings) \in Nat /\ DOMAIN strings = 1..Len(strings)
  BY <1>1, Domains
<1>6. lst_node_is_leaf(old) <=> edge[up].phase # Local
  BY <1>1, <1>2 DEF TreeShape, LeafEdgesOpen
<1>7. /\ lower \in Edges(leaf) /\ lower.src = inner /\ lower.dst = old
      /\ lower.phase # Local <=> lst_node_is_leaf(old)
  <2> HIDE DEF old, split
  <2>1. inner \in 1..leaf /\ old \in 1..leaf /\ edge[up].str \in 1..Len(strings)
    BY <1>3, <1>5
  <2>2. CASE lst_node_is_leaf(old)
    <3>1. lower = edge_leaf_new(inner, old, edge[up].str, split, edge[up].phase)
      BY <2>2
    <3> HIDE DEF lower, inner, up
    <3>2. lower = [src |-> inner, dst |-> old, str |-> edge[up].str, start_index |-> split,
                   end_local |-> 0, phase |-> edge[up].phase]
      BY <3>1 DEF edge_leaf_new, edge_new
    <3> QED BY <1>3, <1>4, <1>6, <2>1, <2>2, <3>2 DEF Edges
  <2>3. CASE ~ lst_node_is_leaf(old)
    BY <1>3, <1>4, <1>5, <2>1, <2>3 DEF edge_new, Edges, Local
  <2> QED BY <2>2, <2>3
<1>8. /\ upper \in Edges(leaf) /\ upper.src = edge[up].src /\ upper.dst = inner
      /\ upper.phase = Local
  <2> HIDE DEF split
  <2>1. edge[up] \in Edges(leaf) /\ inner \in 1..leaf
    <3>1. Len(node) <= leaf /\ leaf \in Nat /\ inner \in 1..leaf
      BY <1>5
    <3>2. Edges(Len(node)) = EdgeType
      BY DEF Edges, EdgeType
    <3> HIDE DEF leaf, up
    <3> QED BY <1>3, <1>5, <3>1, <3>2, NodesEdgesGrow
  <2>2. Local \in 0..Len(strings) /\ split - 1 \in Int
    BY <1>4, <1>5 DEF Local
  <2> HIDE DEF inner, leaf, up
  <2> QED BY <2>1, <2>2 DEF Edges
<1>9. /\ aside \in Edges(leaf) /\ aside.src = inner /\ aside.dst = leaf
      /\ aside.phase # Local
  BY SMTT(40), <1>2, <1>4, <1>5 DEF edge_leaf_new, edge_new, Edges, Local
<1>10. /\ edge' \in Seq(Edges(leaf)) /\ Len(edge') = side
       /\ \A e \in DOMAIN edge : edge'[e] = IF e = up THEN upper ELSE edge[e]
       /\ edge'[low] = lower /\ edge'[side] = aside
  <2>1. edge' = Append(Append([edge EXCEPT ![up] = upper], lower), aside)
    BY DEF SplitEdge
  <2> HIDE DEF upper, lower, aside, up
  <2>2. SplitsEdges(edge', up, upper, lower, aside)
    BY <1>1, <1>2, <1>7, <1>8, <1>9, <2>1, SplitEdges
  <2> QED BY <2>2 DEF SplitsEdges
<1>11. /\ node' \in Seq(Nodes(leaf, side)) /\ Len(node') = leaf
       /\ \A m \in DOMAIN node :
            /\ node'[m].up_edge = IF m = old THEN low ELSE node[m].up_edge
            /\ node'[m].num_kids = node[m].num_kids
       /\ node'[inner].up_edge = up /\ node'[inner].num_kids = 2
       /\ node'[leaf].up_edge = side /\ node'[leaf].num_kids = 0
  <2>1. PICK grown : grown = Append(Append([node EXCEPT ![old].up_edge = Len(edge) + 1],
                                           node_new(up, 2, -1)),
                                    node_new(Len(edge) + 2, 0, j))
    OBVIOUS
  <2>2. node' = Linked(grown, inner)
    BY <2>1 DEF SplitEdge
  <2> HIDE DEF old, up
  <2>3. SplitsNodes(grown, old, up)
    BY <1>2, <1>3, <1>4, <2>1, SplitNodes
  <2>4. SplitsNodes(node', old, up)
    BY <1>3, <2>2, <2>3, SplitNodesLinked
  <2> QED BY <2>4 DEF SplitsNodes
<1>12. leafs' = LinkLeaf(IF lst_node_is_leaf(old) THEN LinkLeaf(leafs, old) ELSE leafs, leaf)
  BY DEF SplitEdge
<1> HIDE DEF up, old, inner, leaf, low, side, split, lower, upper, aside
<1>13. /\ DOMAIN node' = DOMAIN node \cup { inner, leaf } /\ inner # leaf
       /\ inner \notin DOMAIN node /\ leaf \notin DOMAIN node
       /\ DOMAIN edge' = DOMAIN edge \cup { low, side } /\ low # side
       /\ low \notin DOMAIN edge /\ side \notin DOMAIN edge
  <2>1. DOMAIN node' = 1..leaf /\ DOMAIN edge' = 1..side
    BY <1>10, <1>11, LenProperties
  <2> QED BY SMTT(30), <1>5, <2>1 DEF inner, leaf, low, side
<1>14. TreeShape' /\ \A m \in DOMAIN node : kids(m)' = kids(m)
  <2>1. /\ old = edge[up].dst
        /\ \A e \in DOMAIN edge \ { up } : edge'[e] = edge[e]
        /\ edge'[up].src = edge[up].src /\ edge'[up].dst = inner /\ edge'[up].phase = Local
        /\ edge'[low].src = inner /\ edge'[low].dst = old
        /\ edge'[low].phase # Local <=> lst_node_is_leaf(old)
        /\ edge'[side].src = inner /\ edge'[side].dst = leaf /\ edge'[side].phase # Local
    BY <1>2, <1>7, <1>8, <1>9, <1>10 DEF old
  <2> QED BY <1>1, <1>2, <1>11, <1>12, <1>13, <2>1, SplitInShape
<1>15. ShapeType'
  <2>1. leafs \in Seq(DOMAIN node') /\ leaf \in DOMAIN node' /\ old \in DOMAIN node'
    BY <1>1, <1>3, <1>13, SeqMonotonic DEF TypeOK, ShapeType
  <2>2. LinkLeaf(leafs, old) \in Seq(DOMAIN node')
    BY <2>1, LeafLinked
  <2>3. leafs' \in Seq(DOMAIN node')
    BY <1>12, <2>1, <2>2, LeafLinked
  <2>4. NodeType' = Nodes(leaf, side) /\ EdgeType' = Edges(leaf)
    BY <1>2, <1>10, <1>11 DEF NodeType, EdgeType, Nodes, Edges
  <2>5. Root \in DOMAIN node'
    BY <1>1, <1>13, Domains
  <2> QED BY <1>10, <1>11, <2>3, <2>4, <2>5 DEF ShapeType
<1>16. TableType'
  BY <1>1 DEF NextExtension, TypeOK, TableType, tableVars, doneVars
<1>17. Len(node') \in Nat /\ Len(edge') \in Nat /\ Len(strings') \in Nat /\ inner \in 0..Len(node')
       /\ Len(node) <= Len(node') /\ Len(edge) <= Len(edge') /\ Len(strings) <= Len(strings')
  BY <1>2, <1>5, <1>10, <1>11 DEF inner, leaf, side
<1>18. LocalType'
  <2>1. EndType \subseteq EndType'
    BY <1>1, <1>17, LocalsGrow
  <2>2. end' \in EndType' /\ stop_extensions' \in BOOLEAN
    BY <1>1, <2>1 DEF TypeOK, LocalType
  <2> QED BY <1>1, <1>2, <1>17, <2>2, ExtensionLocals DEF IInv
<1>19. WellPlaced'
  <2>1. ~ lst_node_is_leaf(Root)'
    BY <1>1, <1>2, <1>14, Domains DEF lst_node_is_leaf
  <2> QED BY <1>1, <1>2, <1>13, <2>1 DEF NextExtension, WellPlaced, cur, up
<1>20. EdgeSplit(up, inner, leaf, low, side)
  BY <1>2, <1>7, <1>8, <1>9, <1>10, <1>13 DEF EdgeSplit, old
<1> QED BY <1>14, <1>15, <1>16, <1>18, <1>19, <1>20 DEF IInv, TypeOK, up, inner, leaf, low, side

-----------------------------------------------------------------------------
(* Every step preserves the invariant.                                     *)

LEMMA NextIInv ==
  ASSUME IInv, [Next]_vars
  PROVE  IInv'
<1>1. CASE \E w \in Inputs : AddString(w)
  BY <1>1, AddStringIInv
<1>2. CASE \E flag \in BOOLEAN : AllowDuplicates(flag)
  BY <1>2, AllowDuplicatesIInv
<1>3. CASE EnterFirstString
  BY <1>3, EnterFirstStringIInv
<1>4. CASE EnterNextString
  BY <1>4, EnterNextStringIInv
<1>5. CASE MatchStep
  BY <1>5, MatchStepIInv
<1>6. CASE CheckDuplicate
  BY <1>6, CheckDuplicateIInv
<1>7. CASE MatchResult
  BY <1>7, MatchResultIInv
<1>8. CASE BeginPhase
  BY <1>8, BeginPhaseIInv
<1>9. CASE EndPhase
  BY <1>9, EndPhaseIInv
<1>10. CASE EndString
  BY <1>10, EndStringIInv
<1>11. CASE ReuseEnd
  BY <1>11, ReuseEndIInv
<1>12. CASE ClimbToSuffixLink
  BY <1>12, ClimbToSuffixLinkIInv
<1>13. CASE FollowStep
  BY <1>13, FollowStepIInv
<1>14. CASE FollowResult
  BY <1>14, FollowResultIInv
<1>15. CASE ExtendAtNode
  <2>1. end.node # NULL /\ NextExtension(NULL) /\ UNCHANGED stop_extensions
    BY <1>15 DEF ExtendAtNode
  <2>2. CASE lst_node_is_leaf(end.node)
    BY <1>15, <2>1, <2>2, ExtendLabelIInv DEF ExtendAtNode
  <2>3. CASE ~ lst_node_is_leaf(end.node)
    BY <1>15, <2>1, <2>3, AddLeafAtIInv DEF ExtendAtNode
  <2> QED BY <2>2, <2>3
<1>16. CASE StopAtNode
  <2>1. NodeEdge \in DOMAIN edge
    BY <1>16, EdgeFound, KidsOf DEF StopAtNode, NodeEdge, IInv
  <2>2. end.node \in 0..Len(node)
    BY DEF IInv, TypeOK, LocalType, EndType
  <2> QED BY <1>16, <2>1, <2>2, StopIInv DEF StopAtNode
<1>17. CASE StopAtEdge
  <2>1. NULL \in 0..Len(node)
    BY Domains DEF IInv, NULL
  <2> QED BY <1>17, <2>1, StopIInv DEF StopAtEdge
<1>18. CASE SplitEdge
  BY <1>18, SplitEdgeIInv
<1>19. CASE UNCHANGED vars
  <2>1. ShapeType' /\ TreeShape' /\ SkipType' = SkipType /\ EndType' = EndType
        /\ (lst_node_is_leaf(Root)' <=> lst_node_is_leaf(Root))
    BY <1>19, SameTree DEF vars, tableVars
  <2>2. TableType' /\ LocalType'
    BY <1>19, <2>1
       DEF vars, tableVars, doneVars, loopVars, shapeVars, IInv, TypeOK, TableType, LocalType
  <2>3. WellPlaced'
    BY <1>19, <2>1
       DEF vars, tableVars, doneVars, loopVars, shapeVars, IInv, WellPlaced, cur
  <2> QED BY <2>1, <2>2, <2>3 DEF IInv, TypeOK
<1> QED BY <1>1, <1>2, <1>3, <1>4, <1>5, <1>6, <1>7, <1>8, <1>9, <1>10, <1>11, <1>12,
           <1>13, <1>14, <1>15, <1>16, <1>17, <1>18, <1>19 DEF Next, Work

LEMMA Invariance == Spec => []IInv
<1>1. Init => IInv
  BY InitIInv
<1>2. IInv /\ [Next]_vars => IInv'
  BY NextIInv
<1> QED BY <1>1, <1>2, PTL DEF Spec

(* The variables keep their types, and no pointer ever dangles.            *)
THEOREM TypeCorrect == Spec => []TypeOK
<1>1. IInv => TypeOK
  BY DEF IInv
<1> QED BY <1>1, Invariance, PTL

(* Every reachable tree is well formed: the pointers up and down agree,    *)
(* num_kids counts the kids, leafs lists the leafs once, and exactly the   *)
(* edges to leafs grow with a phase counter (stree_extend_at_edge).        *)
THEOREM ShapeCorrect == Spec => []TreeShape
<1>1. IInv => TreeShape
  BY DEF IInv
<1> QED BY <1>1, Invariance, PTL
-----------------------------------------------------------------------------
(* What a step leaves to the nodes that were there before.                 *)
NodesKept ==
  /\ DOMAIN node \subseteq DOMAIN node'
  /\ \A m \in DOMAIN node :
       /\ node'[m].index = node[m].index
       /\ m # prev_new_node => node'[m].suffix_link_node = node[m].suffix_link_node
       /\ lst_node_is_leaf(m) /\ m # Root => node'[m].num_kids = node[m].num_kids

LEMMA MoreNodesKept ==
  ASSUME IInv, NEW n \in DOMAIN node, n = Root \/ ~ lst_node_is_leaf(n), MoreNodes(node', n)
  PROVE  NodesKept
<1>1. Len(node) \in Nat /\ DOMAIN node = 1..Len(node) /\ DOMAIN node' = 1..(Len(node) + 1)
  BY Domains, LenProperties DEF IInv, MoreNodes
<1>2. \A m \in DOMAIN node : node[m].num_kids \in Nat
  BY Domains DEF IInv, NodeType
<1> QED BY <1>1, <1>2 DEF MoreNodes, NodesKept

LEMMA EnterFirstStringKeeps ==
  ASSUME IInv, EnterFirstString
  PROVE  NodesKept
<1>1. Root \in DOMAIN node /\ 0 \in Int
  BY Domains DEF IInv
<1>2. node' = Append([node EXCEPT ![Root].num_kids = @ + 1], node_new(Len(edge) + 1, 0, 0))
  BY DEF EnterFirstString
<1>3. MoreNodes(node', Root)
  BY <1>1, <1>2, LeafBelow
<1> QED BY <1>1, <1>3, MoreNodesKept

LEMMA AddLeafAtKeeps ==
  ASSUME IInv, end.node # NULL, ~ lst_node_is_leaf(end.node), AddLeafAt(end.node)
  PROVE  NodesKept
<1> DEFINE n == end.node
<1>1. n \in DOMAIN node /\ j \in Int
  BY DEF IInv, TypeOK, LocalType, WellPlaced, NULL
<1>2. PICK grown : grown = Append([node EXCEPT ![n].num_kids = @ + 1],
                                  node_new(Len(edge) + 1, 0, j))
  OBVIOUS
<1>3. node' = Linked(grown, n) /\ ~ lst_node_is_leaf(n)
  BY <1>2 DEF AddLeafAt
<1> HIDE DEF n
<1>4. MoreNodes(grown, n)
  BY <1>1, <1>2, LeafBelow
<1>5. MoreNodes(node', n)
  BY <1>1, <1>3, <1>4, LeafBelowLinked
<1> QED BY <1>1, <1>3, <1>5, MoreNodesKept

LEMMA RelinkedKeeps ==
  ASSUME IInv, NEW target \in 0..Len(node), node' = Linked(node, target)
  PROVE  NodesKept
<1>1. /\ Len(node) \in Nat /\ Len(edge) \in Nat /\ DOMAIN node = 1..Len(node)
      /\ prev_new_node \in 0..Len(node) /\ node \in Seq(Nodes(Len(node), Len(edge)))
  BY Domains DEF IInv, TypeOK, LocalType, ShapeType, NodeType, Nodes
<1>2. LinksOnly(node', node, Len(node), Len(edge))
  BY <1>1, NodesLinked
<1>3. DOMAIN node' = DOMAIN node
  BY <1>1, <1>2, LenProperties DEF LinksOnly
<1> QED BY <1>1, <1>2, <1>3 DEF LinksOnly, NodesKept

LEMMA SplitEdgeKeeps ==
  ASSUME IInv, SplitEdge
  PROVE  /\ NodesKept
         /\ prev_new_node' \in DOMAIN node' /\ node'[prev_new_node'].suffix_link_node = NULL
<1> DEFINE up  == end.edge
           old == edge[up].dst
<1>1. up \in DOMAIN edge /\ j \in Int
  <2>1. end.node = NULL /\ NULL \notin DOMAIN node
    <3>1. end.node = NULL
      BY DEF SplitEdge
    <3>2. TypeOK
      BY DEF IInv
    <3>3. NULL \notin 1..Len(node) /\ DOMAIN node = 1..Len(node)
      BY <3>2, Domains DEF NULL
    <3> QED BY <3>1, <3>3
  <2>2. end.edge \in DOMAIN edge
    BY <2>1 DEF IInv, WellPlaced
  <2>3. j \in Int
    BY DEF IInv, TypeOK, LocalType
  <2> QED BY <2>2, <2>3
<1>2. old \in DOMAIN node
  BY <1>1, EdgeEnds DEF IInv
<1>3. PICK grown : grown = Append(Append([node EXCEPT ![old].up_edge = Len(edge) + 1],
                                         node_new(up, 2, -1)),
                                  node_new(Len(edge) + 2, 0, j))
  OBVIOUS
<1>4. node' = Linked(grown, Len(node) + 1) /\ prev_new_node' = Len(node) + 1
  BY <1>3 DEF SplitEdge, NextExtension
<1> HIDE DEF up, old
<1>5. SplitsNodes(grown, old, up)
  BY <1>1, <1>2, <1>3, SplitNodes
<1>6. SplitsNodes(node', old, up)
  BY <1>2, <1>4, <1>5, SplitNodesLinked
<1>7. /\ Len(node) \in Nat /\ DOMAIN node = 1..Len(node) /\ DOMAIN node' = 1..(Len(node) + 2)
  BY <1>6, Domains, LenProperties DEF IInv, SplitsNodes
<1> QED BY <1>4, <1>6, <1>7 DEF SplitsNodes, NodesKept

LEMMA StepKeeps ==
  ASSUME IInv, LinkPending, [Next]_vars
  PROVE  NodesKept /\ LinkPending'
<1>1. NULL \notin DOMAIN node /\ NULL \in 0..Len(node)
  BY Domains DEF IInv, NULL
<1>2. CASE UNCHANGED << node, prev_new_node, pc >>
  BY <1>2 DEF NodesKept, LinkPending
<1>3. CASE \E w \in Inputs : AddString(w)
  BY <1>3 DEF AddString, shapeVars, loopVars, NodesKept, LinkPending
<1>4. CASE EnterFirstString
  <2>1. prev_new_node = NULL /\ prev_new_node' = NULL
    BY <1>4 DEF EnterFirstString, LinkPending
  <2> QED BY <1>4, <2>1, EnterFirstStringKeeps DEF LinkPending
<1>5. CASE EnterNextString \/ CheckDuplicate
  BY <1>5 DEF EnterNextString, CheckDuplicate, shapeVars, loopVars, NodesKept, LinkPending
<1>6. CASE MatchStep \/ MatchResult \/ BeginPhase \/ EndPhase
  BY <1>6 DEF MatchStep, MatchResult, BeginPhase, EndPhase, shapeVars, loopVars, NodesKept,
              LinkPending
<1>7. CASE EndString
  BY <1>7 DEF EndString, shapeVars, NodesKept, LinkPending
<1>8. CASE ReuseEnd \/ ClimbToSuffixLink \/ FollowStep \/ FollowResult
  BY <1>8 DEF ReuseEnd, ClimbToSuffixLink, FollowStep, FollowResult, shapeVars, loopVars,
              NodesKept, LinkPending
<1>9. CASE ExtendAtNode
  <2>1. LinkPending'
    BY <1>9 DEF ExtendAtNode, NextExtension, LinkPending
  <2>2. CASE lst_node_is_leaf(end.node)
    <3>1. node' = Linked(node, end.node)
      BY <1>9, <2>2 DEF ExtendAtNode, ExtendLabel
    <3>2. end.node \in 0..Len(node)
      BY DEF IInv, TypeOK, LocalType, EndType
    <3> QED BY <2>1, <3>1, <3>2, RelinkedKeeps
  <2>3. CASE ~ lst_node_is_leaf(end.node)
    BY <1>9, <2>1, <2>3, AddLeafAtKeeps DEF ExtendAtNode
  <2> QED BY <2>2, <2>3
<1>10. CASE StopAtNode \/ StopAtEdge
  <2>1. LinkPending'
    BY <1>10 DEF StopAtNode, StopAtEdge, NextExtension, LinkPending
  <2>2. end.node \in 0..Len(node)
    BY DEF IInv, TypeOK, LocalType, EndType
  <2>3. node' = Linked(node, end.node) \/ node' = Linked(node, NULL)
    BY <1>10 DEF StopAtNode, StopAtEdge
  <2> QED BY <1>1, <2>1, <2>2, <2>3, RelinkedKeeps
<1>11. CASE SplitEdge
  <2>1. pc' = "extend"
    BY <1>11 DEF SplitEdge, NextExtension
  <2> QED BY <1>11, <2>1, SplitEdgeKeeps DEF LinkPending
<1>12. CASE \E flag \in BOOLEAN : AllowDuplicates(flag)
  BY <1>2, <1>12 DEF AllowDuplicates, shapeVars, loopVars
<1>13. CASE UNCHANGED vars
  BY <1>2, <1>13 DEF vars, shapeVars, loopVars
<1> QED BY <1>3, <1>4, <1>5, <1>6, <1>7, <1>8, <1>9, <1>10, <1>11, <1>12, <1>13
        DEF Next, Work

(* Once a leaf, always a leaf (the split of a leaf edge goes through       *)
(* edge_leaf_new for it again), and no suffix link is set twice.           *)
THEOREM LeavesStay == Spec => OnceALeaf
<1> DEFINE Step ==
      /\ \A n \in Leaves : n \in Leaves' /\ node'[n].index = node[n].index
      /\ \A n \in Inner : node[n].suffix_link_node # NULL =>
           node'[n].suffix_link_node = node[n].suffix_link_node
<1>1. Init => LinkPending
  BY DEF Init, LinkPending
<1>2. IInv /\ LinkPending /\ [Next]_vars => LinkPending'
  BY StepKeeps
<1>3. IInv /\ LinkPending /\ [Next]_vars => Step
  <2> SUFFICES ASSUME IInv, LinkPending, [Next]_vars PROVE Step
    OBVIOUS
  <2>1. NodesKept
    BY StepKeeps
  <2>2. IInv'
    BY NextIInv
  <2>3. ASSUME NEW n \in Leaves PROVE n \in Leaves' /\ node'[n].index = node[n].index
    <3>1. n \in DOMAIN node /\ n # Root /\ kids(n) = {} /\ n \in DOMAIN node'
      BY <2>1 DEF Leaves, lst_node_is_leaf, NodesKept
    <3>2. node'[n].num_kids = Cardinality(kids(n)) /\ node'[n].index = node[n].index
      BY <2>1, <3>1 DEF NodesKept, lst_node_is_leaf, IInv, TreeShape, KidsCounted
    <3>3. node'[n].num_kids = Cardinality(kids(n)')
      BY <2>2, <3>1 DEF IInv, TreeShape, KidsCounted
    <3>4. IsFiniteSet(kids(n)')
      <4>1. edge' \in Seq(EdgeType')
        BY <2>2 DEF IInv, TypeOK, ShapeType
      <4>2. DOMAIN edge' = 1..Len(edge') /\ Len(edge') \in Nat
        BY <4>1, LenProperties
      <4>3. IsFiniteSet(DOMAIN edge')
        BY <4>2, FS_Interval
      <4>4. kids(n)' \in SUBSET (DOMAIN edge')
        BY DEF kids
      <4> QED BY <4>3, <4>4, FS_Subset
    <3>5. kids(n)' = {}
      BY <3>1, <3>2, <3>3, <3>4, FS_EmptySet
    <3> QED BY <3>1, <3>2, <3>5 DEF Leaves, lst_node_is_leaf
  <2>4. ASSUME NEW n \in Inner, node[n].suffix_link_node # NULL
        PROVE  node'[n].suffix_link_node = node[n].suffix_link_node
    <3>1. n \in DOMAIN node /\ n # NULL
      BY Domains DEF Inner, IInv, NULL
    <3>2. n # prev_new_node
      BY <2>4, <3>1 DEF LinkPending
    <3> QED BY <2>1, <3>1, <3>2 DEF NodesKept
  <2> QED BY <2>3, <2>4
<1>4. Spec => []LinkPending
  BY <1>1, <1>2, Invariance, PTL DEF Spec
<1> QED BY <1>3, <1>4, Invariance, PTL DEF Spec, OnceALeaf

-----------------------------------------------------------------------------
(* The tree has no cycle: in every set of nodes there is one none of whose *)
(* kids is in the set.                                                     *)
Grounded ==
  \A S \in SUBSET DOMAIN node :
    S # {} => \E n \in S : \A e \in DOMAIN edge : edge[e].src = n => edge[e].dst \notin S

LEMMA SameEdgesGrounded ==
  ASSUME Grounded, DOMAIN node' = DOMAIN node, DOMAIN edge' = DOMAIN edge,
         \A e \in DOMAIN edge : edge'[e].src = edge[e].src /\ edge'[e].dst = edge[e].dst
  PROVE  Grounded'
<1>1. ASSUME NEW S \in SUBSET DOMAIN node', S # {}
      PROVE  \E n \in S : \A e \in DOMAIN edge' : edge'[e].src = n => edge'[e].dst \notin S
  <2>1. PICK n \in S : \A e \in DOMAIN edge : edge[e].src = n => edge[e].dst \notin S
    BY <1>1 DEF Grounded
  <2> QED BY <2>1
<1> QED BY <1>1 DEF Grounded

LEMMA LeafAddedGrounded ==
  ASSUME IInv, Grounded, NEW n \in DOMAIN node, MoreNodes(node', n), MoreEdges(edge', n)
  PROVE  Grounded'
<1> DEFINE leaf == Len(node) + 1
           new  == Len(edge) + 1
<1>1. /\ Len(node) \in Nat /\ Len(edge) \in Nat /\ DOMAIN node = 1..Len(node)
      /\ DOMAIN edge = 1..Len(edge)
      /\ \A e \in DOMAIN edge : edge[e].src \in DOMAIN node /\ edge[e].dst \in DOMAIN node
  BY Domains, EdgeEnds DEF IInv
<1>2. DOMAIN node' = 1..leaf /\ DOMAIN edge' = 1..new
  BY LenProperties DEF MoreNodes, MoreEdges
<1>3. /\ DOMAIN node' = DOMAIN node \cup { leaf } /\ leaf \notin DOMAIN node
      /\ DOMAIN edge' = DOMAIN edge \cup { new }
  BY <1>1, <1>2
<1>4. /\ \A e \in DOMAIN edge : edge'[e] = edge[e]
      /\ edge'[new].src = n /\ edge'[new].dst = leaf
  BY DEF MoreEdges
<1> HIDE DEF leaf, new
<1>5. ASSUME NEW S \in SUBSET DOMAIN node', S # {}
      PROVE  \E m \in S : \A e \in DOMAIN edge' : edge'[e].src = m => edge'[e].dst \notin S
  <2>1. CASE leaf \in S
    <3>1. \A e \in DOMAIN edge' : edge'[e].src # leaf
      BY <1>1, <1>3, <1>4
    <3> QED BY <2>1, <3>1
  <2>2. CASE leaf \notin S
    <3>1. S \in SUBSET DOMAIN node
      BY <1>3, <2>2
    <3>2. PICK m \in S : \A e \in DOMAIN edge : edge[e].src = m => edge[e].dst \notin S
      BY <1>5, <3>1 DEF Grounded
    <3> QED BY <1>3, <1>4, <2>2, <3>2
  <2> QED BY <2>1, <2>2
<1> QED BY <1>5 DEF Grounded

LEMMA SplitGrounded ==
  ASSUME IInv, Grounded, NEW up, NEW inner, NEW leaf, NEW low, NEW side,
         EdgeSplit(up, inner, leaf, low, side)
  PROVE  Grounded'
<1> DEFINE old == edge[up].dst
<1>1. \A e \in DOMAIN edge : edge[e].src \in DOMAIN node /\ edge[e].dst \in DOMAIN node
  BY EdgeEnds DEF IInv
<1>2. /\ old \in DOMAIN node /\ inner \notin DOMAIN node /\ leaf \notin DOMAIN node /\ inner # leaf
      /\ DOMAIN node' = DOMAIN node \cup { inner, leaf }
      /\ DOMAIN edge' = DOMAIN edge \cup { low, side }
  BY <1>1 DEF EdgeSplit
<1>3. \A e \in DOMAIN edge' : edge'[e].src # leaf
  BY <1>1 DEF EdgeSplit
<1>4. \A e \in DOMAIN edge' : edge'[e].src = inner => edge'[e].dst \in { old, leaf }
  BY <1>1 DEF EdgeSplit
<1>5. \A e \in DOMAIN edge : /\ edge'[e].src = edge[e].src
                             /\ edge'[e].dst = IF e = up THEN inner ELSE edge[e].dst
  BY DEF EdgeSplit
<1>6. edge'[low].src = inner /\ edge'[side].src = inner /\ up \in DOMAIN edge
  BY DEF EdgeSplit
<1>7. \A e \in DOMAIN edge : edge[e].dst = old <=> e = up
  BY <1>6 DEF IInv, TreeShape, EdgesAgree
<1> HIDE DEF old
<1>8. ASSUME NEW S \in SUBSET DOMAIN node', S # {}
      PROVE  \E m \in S : \A e \in DOMAIN edge' : edge'[e].src = m => edge'[e].dst \notin S
  <2> DEFINE Before == S \ { inner }
  <2>1. CASE leaf \in S
    BY <1>3, <2>1
  <2>2. CASE leaf \notin S /\ Before = {}
    <3>1. S = { inner }
      BY <1>8, <2>2
    <3> QED BY <1>2, <1>4, <3>1
  <2>3. CASE leaf \notin S /\ Before # {}
    <3>1. Before \in SUBSET DOMAIN node
      BY <1>2, <2>3
    <3>2. PICK m \in Before : \A e \in DOMAIN edge : edge[e].src = m => edge[e].dst \notin Before
      BY <2>3, <3>1 DEF Grounded
    <3>3. CASE inner \in S /\ edge[up].src = m
      <4>1. old \notin Before
        BY <1>6, <3>2, <3>3 DEF old
      <4>2. old \notin S
        BY <1>2, <4>1
      <4> QED BY <1>4, <2>3, <3>3, <4>2
    <3>4. CASE inner \notin S \/ edge[up].src # m
      <4>1. m \in S /\ m # inner
        OBVIOUS
      <4>2. ASSUME NEW e \in DOMAIN edge', edge'[e].src = m PROVE edge'[e].dst \notin S
        <5>1. e \in DOMAIN edge
          BY <1>2, <1>6, <4>1, <4>2
        <5>2. CASE e = up
          BY <1>5, <3>4, <4>2, <5>1, <5>2
        <5>3. CASE e # up
          <6>1. edge'[e].dst = edge[e].dst /\ edge[e].src = m
            BY <1>5, <4>2, <5>1, <5>3
          <6>2. edge[e].dst \notin Before /\ edge[e].dst # inner
            BY <1>1, <1>2, <3>2, <5>1, <6>1
          <6> QED BY <6>1, <6>2
        <5> QED BY <5>2, <5>3
      <4> QED BY <4>1, <4>2
    <3> QED BY <3>3, <3>4
  <2> QED BY <2>1, <2>2, <2>3
<1> QED BY <1>8 DEF Grounded

LEMMA NextGrounded ==
  ASSUME IInv, Grounded, [Next]_vars
  PROVE  Grounded'
<1>1. CASE UNCHANGED shapeVars
  BY <1>1, SameEdgesGrounded DEF shapeVars
<1>2. CASE (\E w \in Inputs : AddString(w)) \/ (\E flag \in BOOLEAN : AllowDuplicates(flag))
  BY <1>1, <1>2 DEF AddString, AllowDuplicates
<1>3. CASE EnterFirstString
  <2>1. cur \in DOMAIN strings /\ Root \in DOMAIN node /\ 0 \in Int
    BY <1>3, Domains DEF EnterFirstString, IInv, WellPlaced
  <2>2. node' = Append([node EXCEPT ![Root].num_kids = @ + 1], node_new(Len(edge) + 1, 0, 0))
        /\ edge' = Append(edge, edge_leaf_new(Root, Len(node) + 1, cur, 0, cur))
    BY <1>3 DEF EnterFirstString
  <2>3. MoreNodes(node', Root) /\ MoreEdges(edge', Root)
    BY <2>1, <2>2, LeafBelow, EdgeBelow
  <2> QED BY <2>1, <2>3, LeafAddedGrounded
<1>4. CASE EnterNextString \/ MatchStep \/ CheckDuplicate \/ MatchResult
  BY <1>1, <1>4 DEF EnterNextString, MatchStep, CheckDuplicate, MatchResult
<1>5. CASE BeginPhase \/ EndPhase \/ EndString \/ ReuseEnd
  BY <1>1, <1>5 DEF BeginPhase, EndPhase, EndString, ReuseEnd
<1>6. CASE ClimbToSuffixLink \/ FollowStep \/ FollowResult
  BY <1>1, <1>6 DEF ClimbToSuffixLink, FollowStep, FollowResult
<1>7. ASSUME NEW target, node' = Linked(node, target), NEW e \in DOMAIN edge,
             \/ edge' = edge
             \/ edge' = [edge EXCEPT ![e].end_local = @ + 1]
      PROVE  Grounded'
  <2>1. DOMAIN node' = DOMAIN node
    BY <1>7 DEF Linked
  <2>2. \A d \in DOMAIN edge : edge[d] \in EdgeType
    BY Domains DEF IInv
  <2>3. DOMAIN edge' = DOMAIN edge
        /\ \A d \in DOMAIN edge : edge'[d].src = edge[d].src /\ edge'[d].dst = edge[d].dst
    BY SMTT(30), <1>7, <2>2 DEF EdgeType
  <2> QED BY <2>1, <2>3, SameEdgesGrounded
<1>8. CASE ExtendAtNode
  <2>1. end.node # NULL /\ pc = "insert"
    BY <1>8 DEF ExtendAtNode, NextExtension
  <2>2. end.node \in DOMAIN node
    BY <2>1 DEF IInv, WellPlaced
  <2>3. CASE lst_node_is_leaf(end.node)
    <3>1. end.node # Root
      BY <2>1, <2>3 DEF IInv, WellPlaced
    <3>2. node[end.node].up_edge \in DOMAIN edge
      BY <2>2, <3>1 DEF IInv, TreeShape, EdgesAgree
    <3>3. ExtendLabel(node[end.node].up_edge)
      BY <1>8, <2>3 DEF ExtendAtNode
    <3>4. node' = Linked(node, end.node)
          /\ \/ edge' = edge
             \/ edge' = [edge EXCEPT ![node[end.node].up_edge].end_local = @ + 1]
      BY <3>3 DEF ExtendLabel
    <3> QED BY <1>7, <3>2, <3>4
  <2>4. CASE ~ lst_node_is_leaf(end.node)
    <3>1. /\ cur \in DOMAIN strings /\ j \in Int /\ skip.extra \in Int
      BY <2>1 DEF IInv, WellPlaced, TypeOK, LocalType, SkipType
    <3>2. PICK grown : grown = Append([node EXCEPT ![end.node].num_kids = @ + 1],
                                      node_new(Len(edge) + 1, 0, j))
      OBVIOUS
    <3>3. /\ node' = Linked(grown, end.node)
          /\ edge' = Append(edge, edge_leaf_new(end.node, Len(node) + 1, cur, skip.extra, cur))
      BY <1>8, <2>4, <3>2 DEF ExtendAtNode, AddLeafAt
    <3>4. MoreNodes(grown, end.node)
      BY <2>2, <3>1, <3>2, LeafBelow
    <3>5. MoreNodes(node', end.node)
      BY <2>2, <3>3, <3>4, LeafBelowLinked
    <3>6. MoreEdges(edge', end.node)
      BY <2>2, <3>1, <3>3, EdgeBelow
    <3> QED BY <2>2, <3>5, <3>6, LeafAddedGrounded
  <2> QED BY <2>3, <2>4
<1>9. CASE StopAtNode \/ StopAtEdge
  <2>1. edge' = edge /\ (node' = Linked(node, end.node) \/ node' = Linked(node, NULL))
    BY <1>9 DEF StopAtNode, StopAtEdge
  <2>2. DOMAIN node' = DOMAIN node
    BY <2>1 DEF Linked
  <2> QED BY <2>1, <2>2, SameEdgesGrounded
<1>10. CASE SplitEdge
  BY <1>10, SplitEdgeIInv, SplitGrounded
<1>11. CASE UNCHANGED vars
  BY <1>1, <1>11 DEF vars
<1> QED BY <1>2, <1>3, <1>4, <1>5, <1>6, <1>8, <1>9, <1>10, <1>11 DEF Next, Work

-----------------------------------------------------------------------------
(* The queue of lst_alg_bus.                                               *)
LEMMA TailListed ==
  ASSUME NEW S, NEW list \in Seq(S), list # << >>
  PROVE  /\ Head(list) \in S /\ Tail(list) \in Seq(S) /\ Listed(list, Head(list))
         /\ NoneTwice(list) =>
              /\ NoneTwice(Tail(list))
              /\ \A x : Listed(Tail(list), x) <=> Listed(list, x) /\ x # Head(list)
<1>1. /\ Len(list) \in Nat /\ Len(list) # 0 /\ DOMAIN list = 1..Len(list)
      /\ Head(list) = list[1] /\ Head(list) \in S
  BY EmptySeq, LenProperties, HeadTailProperties
<1>2. /\ Tail(list) \in Seq(S) /\ Len(Tail(list)) = Len(list) - 1
      /\ \A k \in 1..Len(Tail(list)) : Tail(list)[k] = list[k + 1]
  BY HeadTailProperties
<1> DEFINE rest == Tail(list)
           first == Head(list)
<1>3. DOMAIN rest = 1..(Len(list) - 1) /\ \A k \in DOMAIN rest : rest[k] = list[k + 1]
  BY <1>1, <1>2, LenProperties
<1>4. 1 \in DOMAIN list /\ list[1] = first
  BY <1>1
<1>5. \A k \in DOMAIN rest : k + 1 \in DOMAIN list /\ k + 1 # 1 /\ k \in Int
  BY <1>1, <1>3
<1>6. \A k \in DOMAIN list : k = 1 \/ (k - 1 \in DOMAIN rest /\ list[k] = rest[k - 1])
  BY <1>1, <1>3
<1> HIDE DEF rest, first
<1>7. ASSUME NoneTwice(list) PROVE NoneTwice(rest)
  BY <1>3, <1>5, <1>7 DEF NoneTwice
<1>8. ASSUME NoneTwice(list), NEW x PROVE Listed(rest, x) <=> Listed(list, x) /\ x # first
  <2>1. Listed(rest, x) => Listed(list, x)
    BY <1>3, <1>5 DEF Listed
  <2>2. ~ Listed(rest, first)
    BY <1>3, <1>4, <1>5, <1>8 DEF Listed, NoneTwice
  <2>3. Listed(list, x) /\ x # first => Listed(rest, x)
    BY <1>4, <1>6 DEF Listed
  <2> QED BY <2>1, <2>2, <2>3
<1> QED BY <1>1, <1>2, <1>4, <1>7, <1>8 DEF Listed, rest, first

LEMMA AppendListed ==
  ASSUME NEW S, NEW list \in Seq(S), NEW n \in S, NEW longer, longer = Append(list, n)
  PROVE  /\ longer \in Seq(S)
         /\ \A x : Listed(longer, x) <=> Listed(list, x) \/ x = n
         /\ NoneTwice(list) /\ ~ Listed(list, n) => NoneTwice(longer)
<1>1. /\ longer \in Seq(S) /\ Len(longer) = Len(list) + 1
      /\ \A m \in 1..Len(list) : longer[m] = list[m]
      /\ longer[Len(list) + 1] = n
  BY Appended
<1>2. Len(list) \in Nat /\ DOMAIN list = 1..Len(list) /\ DOMAIN longer = 1..(Len(list) + 1)
  BY <1>1, LenProperties
<1> DEFINE last == Len(list) + 1
<1>3. /\ last \in DOMAIN longer /\ longer[last] = n /\ last \notin DOMAIN list
      /\ DOMAIN longer = DOMAIN list \cup { last } /\ \A m \in DOMAIN list : longer[m] = list[m]
  BY <1>1, <1>2
<1> HIDE DEF last
<1>4. \A x : Listed(longer, x) <=> Listed(list, x) \/ x = n
  BY <1>3 DEF Listed
<1>5. NoneTwice(list) /\ ~ Listed(list, n) => NoneTwice(longer)
  BY <1>3 DEF Listed, NoneTwice
<1> QED BY <1>1, <1>4, <1>5

(* What lst_alg_bus has done: the leafs before the cursor are visited, and *)
(* the inner nodes that have been queued and are in the queue no more;     *)
(* bus_visited counts the visited kids of each node, and a node that is    *)
(* out of the queue has had them all.                                      *)
LeafsVisited == { leafs[k] : k \in 1..(cursor - 1) }
InnerVisited == { n \in DOMAIN node : /\ ~ lst_node_is_leaf(n) /\ bus_visited[n] > 0
                                      /\ ~ Listed(queue, n) }
KidsVisited(n) == { e \in kids(n) : edge[e].dst \in LeafsVisited \cup InnerVisited }

Counting ==
  /\ cursor \in 1..(Len(leafs) + 1)
  /\ queue \in Seq(DOMAIN node) /\ NoneTwice(queue)
  /\ bus_visited \in [DOMAIN node -> Nat]
  /\ \A n \in DOMAIN node : bus_visited[n] = Cardinality(KidsVisited(n))
  /\ \A n : Listed(queue, n) => ~ lst_node_is_leaf(n) /\ bus_visited[n] > 0
  /\ \A n \in InnerVisited : bus_visited[n] = node[n].num_kids

BusInv == apc = "bus" => Counting

(* What the visit of a node does to the nodes visited and their kids.      *)
Visited == LeafsVisited \cup InnerVisited

Comes(n) ==
  /\ n \in DOMAIN node /\ n \notin Visited /\ Visited' = Visited \cup { n }
  /\ LeafsVisited' = IF lst_node_is_leaf(n) THEN LeafsVisited \cup { n } ELSE LeafsVisited
  /\ ~ lst_node_is_leaf(n) => KidsVisited(n) = kids(n)
  /\ n # Root =>
       LET pa == lst_node_get_parent(n)
       IN  pa \in DOMAIN node /\ pa # n /\ ~ lst_node_is_leaf(pa) /\ pa \notin Visited
  /\ \A m \in DOMAIN node :
       KidsVisited(m)' = IF n # Root /\ m = lst_node_get_parent(n)
                           THEN KidsVisited(m) \cup { node[n].up_edge } ELSE KidsVisited(m)

LEMMA CountedKids ==
  ASSUME IInv, Counting, NEW n \in DOMAIN node
  PROVE  /\ IsFiniteSet(kids(n)) /\ IsFiniteSet(KidsVisited(n)) /\ KidsVisited(n) \subseteq kids(n)
         /\ node[n].num_kids = Cardinality(kids(n))
         /\ bus_visited[n] \in Nat /\ node[n].num_kids \in Nat /\ bus_visited[n] <= node[n].num_kids
         /\ bus_visited[n] = node[n].num_kids => KidsVisited(n) = kids(n)
<1>1. IsFiniteSet(kids(n)) /\ node[n].num_kids = Cardinality(kids(n))
  BY KidsOf DEF IInv, TreeShape, KidsCounted
<1>2. KidsVisited(n) \subseteq kids(n)
  BY DEF KidsVisited
<1>3. IsFiniteSet(KidsVisited(n)) /\ Cardinality(KidsVisited(n)) <= Cardinality(kids(n))
      /\ (Cardinality(KidsVisited(n)) = Cardinality(kids(n)) => KidsVisited(n) = kids(n))
  BY <1>1, <1>2, FS_Subset
<1>4. Cardinality(KidsVisited(n)) \in Nat /\ Cardinality(kids(n)) \in Nat
  BY <1>1, <1>3, FS_CardinalityType
<1>5. bus_visited[n] = Cardinality(KidsVisited(n))
  BY DEF Counting
<1> QED BY <1>1, <1>2, <1>3, <1>4, <1>5

(* A visit to node n, which has had all its kids: its parent is counted,   *)
(* and is in the queue then.                                               *)
LEMMA LeafsAreLeafs ==
  ASSUME IInv, NEW k \in DOMAIN leafs
  PROVE  leafs[k] \in DOMAIN node /\ lst_node_is_leaf(leafs[k])
<1>1. leafs[k] \in DOMAIN node
  BY ElementOfSeq, Domains DEF IInv, TypeOK, ShapeType
<1> QED BY <1>1 DEF IInv, TreeShape, LeafsListed

LEMMA VisitCounts ==
  ASSUME IInv, Counting, NEW n \in DOMAIN node, n \notin LeafsVisited,
         lst_node_is_leaf(n) \/ (Listed(queue, n) /\ bus_visited[n] = node[n].num_kids),
         NEW rest \in Seq(DOMAIN node), NoneTwice(rest),
         \A x : Listed(rest, x) <=> Listed(queue, x) /\ x # n,
         CountVisit(n, rest), UNCHANGED << node, edge, leafs >>,
         cursor' \in 1..(Len(leafs) + 1),
         LeafsVisited' = IF lst_node_is_leaf(n) THEN LeafsVisited \cup { n } ELSE LeafsVisited
  PROVE  Counting' /\ Comes(n)
<1> DEFINE pa == lst_node_get_parent(n)
           up == node[n].up_edge
           Counted(m) == n # Root /\ m = pa
<1>1. \A m : kids(m)' = kids(m) /\ (lst_node_is_leaf(m)' <=> lst_node_is_leaf(m))
  BY DEF kids, lst_node_is_leaf
<1>2. n \notin LeafsVisited \cup InnerVisited
  BY DEF InnerVisited
<1>3. bus_visited \in [DOMAIN node -> Nat] /\ \A m \in DOMAIN node : bus_visited[m] \in Nat
  BY DEF Counting
<1>4. ASSUME n # Root
      PROVE  /\ pa \in DOMAIN node /\ up \in kids(pa) /\ up \notin KidsVisited(pa)
             /\ ~ lst_node_is_leaf(pa) /\ pa # n /\ bus_visited[pa] # node[pa].num_kids
             /\ Listed(rest, pa) <=> bus_visited[pa] > 0
  <2>1. up \in DOMAIN edge /\ edge[up].dst = n /\ pa = edge[up].src
    BY <1>4 DEF IInv, TreeShape, EdgesAgree, lst_node_get_parent
  <2> HIDE DEF up, pa
  <2>2. pa \in DOMAIN node
    BY <2>1, EdgeEnds DEF IInv
  <2>3. up \in kids(pa) /\ up \notin KidsVisited(pa)
    BY <1>2, <2>1 DEF kids, KidsVisited
  <2>4. ~ lst_node_is_leaf(pa) /\ bus_visited[pa] # node[pa].num_kids
    BY <2>2, <2>3, CountedKids DEF lst_node_is_leaf
  <2>5. pa # n
    BY <2>4
  <2>6. pa \notin InnerVisited
    BY <2>4 DEF Counting
  <2>7. Listed(queue, pa) <=> bus_visited[pa] > 0
    BY <2>2, <2>4, <2>6 DEF Counting, InnerVisited
  <2> QED BY <2>2, <2>3, <2>4, <2>5, <2>7
<1>5. /\ queue' \in Seq(DOMAIN node) /\ NoneTwice(queue')
      /\ \A x : Listed(queue', x) <=> (Listed(queue, x) /\ x # n) \/ Counted(x)
      /\ bus_visited' \in [DOMAIN node -> Nat]
      /\ \A m \in DOMAIN node : bus_visited'[m] = bus_visited[m] + (IF Counted(m) THEN 1 ELSE 0)
  <2>1. CASE n = Root
    <3>1. queue' = rest /\ bus_visited' = bus_visited
      BY <2>1 DEF CountVisit
    <3> HIDE DEF pa
    <3> QED BY <1>3, <2>1, <3>1
  <2>2. CASE n # Root
    <3>1. /\ bus_visited' = [bus_visited EXCEPT ![pa] = bus_visited[pa] + 1]
          /\ queue' = IF bus_visited[pa] = 0 THEN Append(rest, pa) ELSE rest
      BY <2>2 DEF CountVisit
    <3>2. pa \in DOMAIN node /\ (Listed(rest, pa) <=> bus_visited[pa] > 0)
      BY <1>4, <2>2
    <3> HIDE DEF pa
    <3>3. CASE bus_visited[pa] = 0
      <4>1. queue' = Append(rest, pa) /\ ~ Listed(rest, pa)
        BY <3>1, <3>2, <3>3
      <4>2. /\ queue' \in Seq(DOMAIN node) /\ NoneTwice(queue')
            /\ \A x : Listed(queue', x) <=> Listed(rest, x) \/ x = pa
        <5>1. NoneTwice(rest) /\ rest \in Seq(DOMAIN node)
          OBVIOUS
        <5> QED BY ONLY <3>2, <4>1, <5>1, AppendListed
      <4> QED BY <1>3, <2>2, <3>1, <3>2, <4>2
    <3>4. CASE bus_visited[pa] # 0
      <4>1. queue' = rest /\ Listed(rest, pa)
        BY <1>3, <3>1, <3>2, <3>4
      <4> QED BY <1>3, <2>2, <3>1, <3>2, <4>1
    <3> QED BY <3>3, <3>4
  <2> QED BY <2>1, <2>2
<1>6. \A m \in DOMAIN node :
        Counted(m) => ~ lst_node_is_leaf(m) /\ m # n /\ bus_visited[m] # node[m].num_kids
                      /\ m \notin InnerVisited
  <2>1. \A m \in InnerVisited : bus_visited[m] = node[m].num_kids
    BY DEF Counting
  <2> QED BY <1>4, <2>1
<1>7. InnerVisited' = IF lst_node_is_leaf(n) THEN InnerVisited ELSE InnerVisited \cup { n }
  <2> HIDE DEF Counted
  <2>1. ASSUME NEW m \in DOMAIN node
        PROVE  m \in InnerVisited' <=> m \in InnerVisited \/ (m = n /\ ~ lst_node_is_leaf(n))
    <3>1. m \in InnerVisited' <=> ~ lst_node_is_leaf(m) /\ bus_visited'[m] > 0 /\ ~ Listed(queue', m)
      BY <1>1 DEF InnerVisited
    <3>2. m \in InnerVisited <=> ~ lst_node_is_leaf(m) /\ bus_visited[m] > 0 /\ ~ Listed(queue, m)
      BY DEF InnerVisited
    <3>3. Listed(queue, n) => bus_visited[n] > 0
      BY DEF Counting
    <3>4. CASE Counted(m)
      BY <1>5, <1>6, <3>1, <3>4
    <3>5. CASE ~ Counted(m)
      <4>1. bus_visited'[m] = bus_visited[m] /\ (Listed(queue', m) <=> Listed(queue, m) /\ m # n)
        BY <1>3, <1>5, <3>5
      <4> QED BY <3>1, <3>2, <3>3, <4>1
    <3> QED BY <3>4, <3>5
  <2>2. InnerVisited \subseteq DOMAIN node /\ InnerVisited' \subseteq DOMAIN node
    BY DEF InnerVisited
  <2> QED BY <2>1, <2>2
<1>8. LeafsVisited' \cup InnerVisited' = LeafsVisited \cup InnerVisited \cup { n }
  BY <1>7
<1>9. \A m \in DOMAIN node :
         KidsVisited(m)' = IF Counted(m) THEN KidsVisited(m) \cup { up } ELSE KidsVisited(m)
  <2>1. ASSUME NEW m \in DOMAIN node, NEW e \in kids(m), edge[e].dst = n
        PROVE  Counted(m) /\ e = up
    <3>1. e \in DOMAIN edge /\ edge[e].src = m
      BY <2>1 DEF kids
    <3> QED BY <2>1, <3>1 DEF IInv, TreeShape, EdgesAgree, lst_node_get_parent
  <2>2. n # Root => up \in kids(pa) /\ edge[up].dst = n
    BY <1>4 DEF IInv, TreeShape, EdgesAgree
  <2> DEFINE Before == LeafsVisited \cup InnerVisited
             After  == (LeafsVisited \cup InnerVisited)'
  <2>3. \A m : /\ KidsVisited(m) = { e \in kids(m) : edge[e].dst \in Before }
               /\ KidsVisited(m)' = { e \in kids(m) : edge[e].dst \in After }
    BY <1>1 DEF KidsVisited
  <2>4. After = Before \cup { n }
    BY <1>8
  <2> HIDE DEF Before, After, up, pa
  <2> QED BY <2>1, <2>2, <2>3, <2>4
<1>10. \A m \in DOMAIN node : bus_visited'[m] = Cardinality(KidsVisited(m)')
  <2> SUFFICES ASSUME NEW m \in DOMAIN node PROVE bus_visited'[m] = Cardinality(KidsVisited(m)')
    OBVIOUS
  <2>1. IsFiniteSet(KidsVisited(m)) /\ bus_visited[m] = Cardinality(KidsVisited(m))
    BY CountedKids DEF Counting
  <2>2. CASE Counted(m)
    <3>1. up \notin KidsVisited(m)
      BY <1>4, <2>2
    <3> HIDE DEF Counted, up
    <3>2. Cardinality(KidsVisited(m) \cup { up }) = Cardinality(KidsVisited(m)) + 1
      BY <2>1, <3>1, FS_AddElement
    <3> QED BY <1>5, <1>9, <2>1, <2>2, <3>2
  <2>3. CASE ~ Counted(m)
    <3> HIDE DEF Counted, up
    <3> QED BY <1>3, <1>5, <1>9, <2>1, <2>3
  <2> QED BY <2>2, <2>3
<1>11. ASSUME NEW x, Listed(queue', x) PROVE (~ lst_node_is_leaf(x))' /\ bus_visited'[x] > 0
  <2>1. x \in DOMAIN node
    BY <1>5, <1>11, ElementOfSeq DEF Listed
  <2>2. CASE Counted(x)
    BY <1>1, <1>3, <1>5, <1>6, <2>1, <2>2
  <2>3. CASE ~ Counted(x)
    <3>1. Listed(queue, x)
      BY <1>5, <1>11, <2>3
    <3>2. ~ lst_node_is_leaf(x) /\ bus_visited[x] > 0
      BY <3>1 DEF Counting
    <3> HIDE DEF Counted
    <3> QED BY <1>1, <1>3, <1>5, <2>1, <2>3, <3>2
  <2> QED BY <2>2, <2>3
<1>12. ASSUME NEW m \in InnerVisited' PROVE bus_visited'[m] = node'[m].num_kids
  <2>1. m \in DOMAIN node /\ bus_visited[m] = node[m].num_kids
    <3>1. m \in InnerVisited \/ (m = n /\ ~ lst_node_is_leaf(n))
      BY <1>7, <1>12
    <3> QED BY <3>1 DEF Counting, InnerVisited
  <2>2. ~ Counted(m)
    BY <1>6, <2>1
  <2> HIDE DEF Counted
  <2> QED BY <1>3, <1>5, <2>1, <2>2
<1>13. Counting'
  BY <1>5, <1>10, <1>11, <1>12 DEF Counting
<1>14. Comes(n)
  <2>1. ~ lst_node_is_leaf(n) => KidsVisited(n) = kids(n)
    <3>1. ~ lst_node_is_leaf(n) => bus_visited[n] = node[n].num_kids
      OBVIOUS
    <3> QED BY <3>1, CountedKids
  <2>2. ASSUME n # Root
        PROVE  pa \in DOMAIN node /\ pa # n /\ ~ lst_node_is_leaf(pa) /\ pa \notin Visited
    <3>1. pa \in DOMAIN node /\ pa # n /\ ~ lst_node_is_leaf(pa)
      BY <1>4, <2>2
    <3>2. pa \notin InnerVisited
      BY <1>6, <2>2, <3>1
    <3>3. pa \notin LeafsVisited
      <4>1. \A k \in 1..(cursor - 1) : k \in DOMAIN leafs
        BY Domains DEF IInv, Counting
      <4> QED BY <3>1, <4>1, LeafsAreLeafs DEF LeafsVisited
    <3> QED BY <3>1, <3>2, <3>3 DEF Visited
  <2>3. \A m \in DOMAIN node :
           KidsVisited(m)' = IF n # Root /\ m = pa THEN KidsVisited(m) \cup { up } ELSE KidsVisited(m)
    BY <1>9
  <2>4. n \notin Visited /\ Visited' = Visited \cup { n }
    BY <1>2, <1>8 DEF Visited
  <2> QED BY <2>1, <2>2, <2>3, <2>4 DEF Comes
<1> QED BY <1>13, <1>14

LEMMA BusLeafCounts ==
  ASSUME IInv, Counting, BusLeaf
  PROVE  Counting' /\ Comes(leafs[cursor]) /\ lst_node_is_leaf(leafs[cursor])
<1> DEFINE n == leafs[cursor]
<1>1. /\ CountVisit(n, queue) /\ cursor' = cursor + 1 /\ cursor <= Len(leafs)
      /\ UNCHANGED << node, edge, leafs >>
  BY DEF BusLeaf, treeVars, vars, shapeVars
<1>2. /\ cursor \in DOMAIN leafs /\ Len(leafs) \in Nat /\ DOMAIN leafs = 1..Len(leafs)
      /\ cursor \in Nat /\ queue \in Seq(DOMAIN node) /\ NoneTwice(queue)
  BY <1>1, Domains DEF IInv, Counting
<1>3. n \in DOMAIN node /\ lst_node_is_leaf(n)
  BY <1>2, LeafsAreLeafs
<1>4. n \notin LeafsVisited
  <2>1. \A k \in 1..(cursor - 1) : k \in DOMAIN leafs /\ k # cursor
    BY <1>2
  <2> QED BY <1>2, <2>1 DEF LeafsVisited, IInv, TreeShape, LeafsListed
<1>5. LeafsVisited' = LeafsVisited \cup { n }
  <2>1. 1..(cursor' - 1) = 1..(cursor - 1) \cup { cursor } /\ leafs' = leafs
    BY <1>1, <1>2
  <2> QED BY <2>1 DEF LeafsVisited
<1>6. \A x : Listed(queue, x) <=> Listed(queue, x) /\ x # n
  BY <1>3 DEF Counting
<1>7. cursor' \in 1..(Len(leafs) + 1)
  BY <1>1, <1>2
<1>8. Counting' /\ Comes(n)
  <2> HIDE DEF n
  <2> QED BY <1>1, <1>2, <1>3, <1>4, <1>5, <1>6, <1>7, VisitCounts
<1> QED BY <1>3, <1>8

LEMMA BusRequeueCounts ==
  ASSUME IInv, Counting, BusRequeue
  PROVE  /\ Counting' /\ LeafsVisited' = LeafsVisited
         /\ \A m : KidsVisited(m)' = KidsVisited(m)
         /\ Visited' = Visited
<1> DEFINE n == Head(queue)
           rest == Tail(queue)
<1>1. /\ queue # << >> /\ queue' = Append(rest, n)
      /\ UNCHANGED << node, edge, leafs, cursor, bus_visited >>
  BY DEF BusRequeue, treeVars, vars, shapeVars
<1>2. queue \in Seq(DOMAIN node) /\ NoneTwice(queue)
  BY DEF Counting
<1>3. /\ n \in DOMAIN node /\ rest \in Seq(DOMAIN node) /\ NoneTwice(rest) /\ Listed(queue, n)
      /\ \A x : Listed(rest, x) <=> Listed(queue, x) /\ x # n
  BY ONLY <1>1, <1>2, TailListed
<1> HIDE DEF n, rest
<1>4. /\ queue' \in Seq(DOMAIN node) /\ NoneTwice(queue')
      /\ \A x : Listed(queue', x) <=> Listed(rest, x) \/ x = n
  <2>1. queue' = Append(rest, n) /\ ~ Listed(rest, n)
    BY <1>1, <1>3
  <2> QED BY ONLY ZenonT(40), <1>3, <2>1, AppendListed
<1>5. \A x : Listed(queue', x) <=> Listed(queue, x)
  BY <1>3, <1>4
<1>6. \A m : kids(m)' = kids(m) /\ (lst_node_is_leaf(m)' <=> lst_node_is_leaf(m))
  BY <1>1 DEF kids, lst_node_is_leaf
<1>7. LeafsVisited' = LeafsVisited /\ InnerVisited' = InnerVisited
  BY <1>1, <1>5, <1>6 DEF LeafsVisited, InnerVisited
<1>8. \A m : KidsVisited(m)' = KidsVisited(m)
  BY <1>1, <1>6, <1>7 DEF KidsVisited
<1>9. Counting'
  BY <1>1, <1>4, <1>5, <1>6, <1>7, <1>8 DEF Counting
<1> QED BY <1>7, <1>8, <1>9 DEF Visited

LEMMA BusInnerCounts ==
  ASSUME IInv, Counting, BusInner
  PROVE  Counting' /\ Comes(Head(queue)) /\ ~ lst_node_is_leaf(Head(queue))
<1> DEFINE n == Head(queue)
           rest == Tail(queue)
<1>1. /\ queue # << >> /\ bus_visited[n] >= node[n].num_kids /\ CountVisit(n, rest)
      /\ UNCHANGED << node, edge, leafs, cursor >>
  BY DEF BusInner, treeVars, vars, shapeVars
<1>2. queue \in Seq(DOMAIN node) /\ NoneTwice(queue) /\ cursor \in 1..(Len(leafs) + 1)
  BY DEF Counting
<1>3. /\ n \in DOMAIN node /\ rest \in Seq(DOMAIN node) /\ NoneTwice(rest) /\ Listed(queue, n)
      /\ \A x : Listed(rest, x) <=> Listed(queue, x) /\ x # n
  BY ONLY <1>1, <1>2, TailListed
<1> HIDE DEF n, rest
<1>4. ~ lst_node_is_leaf(n)
  BY <1>3 DEF Counting
<1>5. bus_visited[n] = node[n].num_kids
  BY <1>1, <1>3, CountedKids
<1>6. LeafsVisited' = LeafsVisited
  BY <1>1 DEF LeafsVisited
<1>7. n \notin LeafsVisited
  <2>1. \A k \in 1..(cursor - 1) : k \in DOMAIN leafs
    BY <1>2, Domains DEF IInv
  <2> QED BY <1>4, <2>1, LeafsAreLeafs DEF LeafsVisited
<1>8. Counting' /\ Comes(n)
  BY <1>1, <1>2, <1>3, <1>4, <1>5, <1>6, <1>7, VisitCounts
<1> QED BY <1>4, <1>8 DEF n

LEMMA StartBusCounts ==
  ASSUME IInv, NEW callback, StartBus(callback), UNCHANGED << node, edge, leafs >>
  PROVE  /\ Counting' /\ LeafsVisited' = {} /\ Visited' = {}
         /\ \A n : KidsVisited(n)' = {}
<1>1. /\ bus_visited' = [n \in DOMAIN node |-> 0] /\ cursor' = 1 /\ queue' = << >>
  BY DEF StartBus
<1>2. cursor' \in 1..(Len(leafs') + 1)
  BY <1>1, Domains DEF IInv
<1>3. queue' \in Seq(DOMAIN node') /\ DOMAIN queue' = {}
  BY <1>1, EmptySeq
<1>4. NoneTwice(queue') /\ \A x : ~ Listed(queue', x)
  BY <1>3 DEF NoneTwice, Listed
<1>5. LeafsVisited' = {} /\ InnerVisited' = {}
  BY <1>1 DEF LeafsVisited, InnerVisited
<1>6. \A n \in DOMAIN node : bus_visited'[n] = Cardinality(KidsVisited(n)')
  BY <1>1, <1>5, FS_EmptySet DEF KidsVisited
<1>7. Counting'
  BY <1>1, <1>2, <1>3, <1>4, <1>5, <1>6 DEF Counting
<1> QED BY <1>5, <1>7 DEF Visited, KidsVisited

(* The calls leave the tree alone but for needs_visitor_update.            *)
AlgInv == IInv /\ Grounded /\ BusInv

LEMMA SameTreeAlg ==
  ASSUME IInv, Grounded, UNCHANGED treeVars
  PROVE  IInv' /\ Grounded'
BY NextIInv, NextGrounded DEF treeVars

LEMMA AlgNextInv ==
  ASSUME AlgInv, [AlgNext]_allVars
  PROVE  AlgInv'
<1> USE DEF AlgInv
<1>1. CASE TreeStep
  <2>1. IInv' /\ Grounded'
    BY <1>1, NextIInv, NextGrounded DEF TreeStep
  <2>2. apc' # "bus"
    BY <1>1 DEF TreeStep, algVars
  <2> QED BY <2>1, <2>2 DEF BusInv
<1>2. CASE \E c \in Calls : Call(c)
  BY <1>2, SameTreeAlg DEF Call, BusInv
<1>3. CASE \E w \in Checked, b, d \in Behind : Call_substring_check(w, b, d)
  BY <1>3, SameTreeAlg DEF Call_substring_check, BusInv
<1>4. CASE \E s \in DOMAIN strings : lst_stree_remove_string(s)
  BY <1>4, SameTreeAlg DEF lst_stree_remove_string, BusInv
<1>5. CASE WithoutLabels \/ UseCachedLabels
  BY <1>5, SameTreeAlg DEF WithoutLabels, UseCachedLabels, StartSearch, BusInv
<1>6. CASE ClearLabels \/ BusCleared
  <2>1. UNCHANGED treeVars /\ \E callback : StartBus(callback)
    BY <1>6 DEF ClearLabels, BusCleared
  <2>2. Counting'
    BY <2>1, StartBusCounts DEF treeVars, vars, shapeVars
  <2> QED BY <2>1, <2>2, SameTreeAlg DEF BusInv
<1>7. CASE BusLeaf \/ BusRequeue \/ BusInner
  <2>1. UNCHANGED treeVars /\ Counting
    BY <1>7 DEF BusLeaf, BusRequeue, BusInner, BusInv
  <2>2. Counting'
    BY <1>7, <2>1, BusLeafCounts, BusRequeueCounts, BusInnerCounts
  <2> QED BY <2>1, <2>2, SameTreeAlg DEF BusInv
<1>8. CASE BusLabelled
  <2>1. /\ UNCHANGED << tableVars, num_strings, phases, shapeVars, pc, loopVars, end, skip >>
        /\ needs_visitor_update' = FALSE /\ apc' = "dfs"
    BY <1>8 DEF BusLabelled, StartSearch
  <2>2. ShapeType' /\ TreeShape' /\ SkipType' = SkipType /\ EndType' = EndType
        /\ (lst_node_is_leaf(Root)' <=> lst_node_is_leaf(Root))
    BY <2>1, SameTree DEF tableVars
  <2>3. TableType' /\ LocalType'
    BY <2>1, <2>2
       DEF tableVars, loopVars, shapeVars, IInv, TypeOK, TableType, LocalType
  <2>4. WellPlaced'
    BY <2>1, <2>2 DEF tableVars, loopVars, shapeVars, IInv, WellPlaced, cur
  <2>5. Grounded'
    BY <2>1, SameEdgesGrounded DEF shapeVars
  <2> QED BY <2>1, <2>2, <2>3, <2>4, <2>5 DEF IInv, TypeOK, BusInv
<1>9. CASE Visit \/ Prune
  BY <1>9, SameTreeAlg DEF Visit, Prune, BusInv
<1>10. CASE Collect \/ CollectCrashes
  BY <1>10, SameTreeAlg DEF Collect, CollectCrashes, BusInv
<1>11. CASE Round \/ RoundCrashes \/ WalkStep
  BY <1>11, SameTreeAlg DEF Round, RoundCrashes, WalkStep, BusInv
<1>12. CASE UNCHANGED allVars
  <2>1. UNCHANGED treeVars /\ UNCHANGED << apc, cursor, queue, bus_visited >>
    BY <1>12 DEF allVars, algVars, busVars
  <2>2. UNCHANGED << node, edge, leafs >>
    BY <2>1 DEF treeVars, vars, shapeVars
  <2>3. \A m : kids(m)' = kids(m) /\ (lst_node_is_leaf(m)' <=> lst_node_is_leaf(m))
    BY <2>2 DEF kids, lst_node_is_leaf
  <2>4. LeafsVisited' = LeafsVisited /\ InnerVisited' = InnerVisited
    BY <2>1, <2>2, <2>3 DEF LeafsVisited, InnerVisited
  <2>5. \A m : KidsVisited(m)' = KidsVisited(m)
    BY <2>2, <2>3, <2>4 DEF KidsVisited
  <2>6. Counting => Counting'
    BY <2>1, <2>2, <2>3, <2>4, <2>5 DEF Counting
  <2> QED BY <2>1, <2>6, SameTreeAlg DEF BusInv
<1> QED BY <1>1, <1>2, <1>3, <1>4, <1>5, <1>6, <1>7, <1>8, <1>9, <1>10, <1>11, <1>12
        DEF AlgNext, AlgWork

LEMMA InitAlgInv == AlgInit => AlgInv
<1>1. AlgInit => Init /\ apc = "idle"
  BY DEF AlgInit
<1>2. ASSUME Init PROVE Grounded
  <2>1. DOMAIN edge = {}
    BY <1>2 DEF Init
  <2> QED BY <2>1 DEF Grounded
<1> QED BY <1>1, <1>2, InitIInv DEF AlgInv, BusInv

(* At the end of the walk: if a node still had kids to come, there would   *)
(* be one whose kids are all complete; but a kid that is complete has been *)
(* visited, as a leaf of the list or when it left the queue.               *)
LEMMA AllCounted ==
  ASSUME IInv, Grounded, Counting, cursor > Len(leafs), queue = << >>
  PROVE  \A n \in DOMAIN node : bus_visited[n] = node[n].num_kids
<1> DEFINE S == { n \in DOMAIN node : bus_visited[n] # node[n].num_kids }
<1>1. SUFFICES ASSUME S # {} PROVE FALSE
  OBVIOUS
<1>2. PICK n \in S : \A e \in DOMAIN edge : edge[e].src = n => edge[e].dst \notin S
  BY <1>1 DEF Grounded
<1>3. ASSUME NEW e \in kids(n) PROVE edge[e].dst \in LeafsVisited \cup InnerVisited
  <2> DEFINE c == edge[e].dst
  <2>1. e \in DOMAIN edge /\ c \in DOMAIN node /\ c # Root
    BY <1>3, EdgeEnds DEF kids, IInv, TreeShape, EdgesAgree
  <2>2. bus_visited[c] = node[c].num_kids
    BY <1>2, <1>3, <2>1 DEF kids
  <2> HIDE DEF c, S
  <2>3. CASE lst_node_is_leaf(c)
    <3>1. PICK k \in DOMAIN leafs : leafs[k] = c
      BY <2>1, <2>3 DEF IInv, TreeShape, LeafsListed
    <3>2. k \in 1..(cursor - 1)
      BY Domains DEF IInv, Counting
    <3> QED BY <3>1, <3>2 DEF LeafsVisited, c
  <2>4. CASE ~ lst_node_is_leaf(c)
    <3>1. bus_visited[c] > 0
      <4>1. IsFiniteSet(kids(c)) /\ node[c].num_kids = Cardinality(kids(c))
            /\ node[c].num_kids \in Nat
        BY <2>1, CountedKids
      <4>2. Cardinality(kids(c)) # 0
        BY <2>4, <4>1, FS_EmptySet DEF lst_node_is_leaf
      <4> QED BY <2>2, <4>1, <4>2
    <3>2. ~ Listed(queue, c)
      BY EmptySeq DEF Listed
    <3> QED BY <2>1, <2>4, <3>1, <3>2 DEF InnerVisited, c
  <2> QED BY <2>3, <2>4
<1>4. KidsVisited(n) = kids(n)
  BY <1>3 DEF KidsVisited
<1>5. bus_visited[n] = node[n].num_kids
  BY <1>4, CountedKids DEF Counting
<1> QED BY <1>5

(* lst_alg_bus counts at every node each of its kids, and no kid twice;    *)
(* when it is over it has counted them all: it neither leaves out a node   *)
(* of the tree nor comes to one before its kids.                           *)
THEOREM VisitsCounted == AlgSpec => []BusCountsKids
<1>1. AlgInit => AlgInv
  BY InitAlgInv
<1>2. AlgInv /\ [AlgNext]_allVars => AlgInv'
  BY AlgNextInv
<1>3. AlgInv => BusCountsKids
  <2> SUFFICES ASSUME IInv, Grounded, Counting PROVE BusCountsKids
    BY DEF AlgInv, BusInv, BusCountsKids
  <2>1. \A n \in DOMAIN node : bus_visited[n] <= node[n].num_kids
    BY CountedKids
  <2>2. IsInjective(queue)
    BY DEF Counting, NoneTwice, IsInjective
  <2>3. cursor > Len(leafs) /\ queue = << >> =>
          \A n \in DOMAIN node : bus_visited[n] = node[n].num_kids
    BY AllCounted
  <2> QED BY <2>1, <2>2, <2>3 DEF BusCountsKids
<1> QED BY <1>1, <1>2, <1>3, PTL DEF AlgSpec
-----------------------------------------------------------------------------
(* The words of the tree.  WordsInv, which is proved in UkkonenProof, adds *)
(* to the shape of the tree which items every node and edge stands for.    *)
(* Here is what it says, and that the steps that make no node keep it: the *)
(* match from the root, the head and the end of a phase, and the ways to   *)
(* the place of the next extension.                                        *)

(* Comparing items of two strings.                                         *)

(* The l items of string s from k on are those of string t from x on.      *)
Agree(s, k, t, x, l) == \A m \in 0..(l - 1) : Item(s, k + m) = Item(t, x + m)

LEMMA AgreeRefl ==
  ASSUME NEW s, NEW k, NEW l
  PROVE  Agree(s, k, s, k, l)
BY DEF Agree

LEMMA AgreeSym ==
  ASSUME NEW s, NEW k, NEW t, NEW x, NEW l, Agree(s, k, t, x, l)
  PROVE  Agree(t, x, s, k, l)
BY DEF Agree

LEMMA AgreeTrans ==
  ASSUME NEW s, NEW k, NEW t, NEW x, NEW l, NEW u, NEW y, Agree(s, k, t, x, l), Agree(t, x, u, y, l)
  PROVE  Agree(s, k, u, y, l)
BY DEF Agree

LEMMA AgreeItem ==
  ASSUME NEW s, NEW k, NEW t, NEW x, NEW l \in Int, Agree(s, k, t, x, l),
         NEW m \in Nat, m < l
  PROVE  Item(s, k + m) = Item(t, x + m)
BY DEF Agree

LEMMA AgreeSub ==
  ASSUME NEW s, NEW k \in Int, NEW t, NEW x \in Int, NEW l \in Int, Agree(s, k, t, x, l),
         NEW p \in Nat, NEW q \in Int, p + q <= l
  PROVE  Agree(s, k + p, t, x + p, q)
<1>1. ASSUME NEW m \in 0..(q - 1) PROVE Item(s, (k + p) + m) = Item(t, (x + p) + m)
  <2>1. PICK r \in Nat : r = p + m
    OBVIOUS
  <2>2. r \in 0..(l - 1) /\ (k + p) + m = k + r /\ (x + p) + m = x + r
    BY <2>1
  <2>3. Item(s, k + r) = Item(t, x + r)
    BY <2>2 DEF Agree
  <2> QED BY <2>2, <2>3
<1> QED BY <1>1 DEF Agree

LEMMA AgreeShorter ==
  ASSUME NEW s, NEW k, NEW t, NEW x, NEW l \in Int, Agree(s, k, t, x, l), NEW q \in Int, q <= l
  PROVE  Agree(s, k, t, x, q)
BY DEF Agree

LEMMA AgreeNext ==
  ASSUME NEW s, NEW k, NEW t, NEW x, NEW l \in Nat, Agree(s, k, t, x, l),
         Item(s, k + l) = Item(t, x + l)
  PROVE  Agree(s, k, t, x, l + 1)
<1>1. ASSUME NEW m \in 0..l PROVE Item(s, k + m) = Item(t, x + m)
  <2>1. m = l \/ m \in 0..(l - 1)
    OBVIOUS
  <2> QED BY <2>1 DEF Agree
<1>2. (l + 1) - 1 = l
  OBVIOUS
<1> QED BY <1>1, <1>2 DEF Agree

LEMMA AgreeJoin ==
  ASSUME NEW s, NEW k \in Int, NEW t, NEW x \in Int, NEW p \in Nat, NEW q \in Int,
         Agree(s, k, t, x, p), Agree(s, k + p, t, x + p, q)
  PROVE  Agree(s, k, t, x, p + q)
<1>1. ASSUME NEW m \in 0..(p + q - 1) PROVE Item(s, k + m) = Item(t, x + m)
  <2>1. CASE m < p
    BY <2>1, AgreeItem
  <2>2. CASE m >= p
    <3>1. m - p \in Nat /\ m - p < q /\ (k + p) + (m - p) = k + m /\ (x + p) + (m - p) = x + m
      BY <2>2
    <3>2. Item(s, (k + p) + (m - p)) = Item(t, (x + p) + (m - p))
      BY <3>1, AgreeItem
    <3> QED BY <3>1, <3>2
  <2> QED BY <2>1, <2>2
<1> QED BY <1>1 DEF Agree

(* The marker of a string is an item of no other one.                      *)
LEMMA Markers ==
  ASSUME TypeOK, NEW s \in DOMAIN strings, NEW k \in Int
  PROVE  /\ Len(strings[s]) \in Nat /\ Len(strings[s]) >= 1
         /\ 0 <= k /\ k < Len(strings[s]) => Item(s, k) \in Nat
         /\ k >= Len(strings[s]) => Item(s, k) = -s
         /\ \A t \in DOMAIN strings : 0 <= k /\ k <= Len(strings[s]) /\ Item(s, k) = -t =>
              t = s /\ k = Len(strings[s])
<1>1. strings \in Seq(Inputs)
  BY DEF TypeOK, TableType
<1>2. strings[s] \in Inputs /\ s \in Nat /\ \A t \in DOMAIN strings : t \in Nat /\ t >= 1
  BY <1>1, ElementOfSeq, Domains
<1>3. strings[s] \in Seq(Nat) /\ strings[s] # << >>
  BY <1>2, InputsAssumption
<1>4. Len(strings[s]) \in Nat /\ DOMAIN strings[s] = 1..Len(strings[s])
      /\ \A m \in 1..Len(strings[s]) : strings[s][m] \in Nat
  BY <1>3, LenProperties, ElementOfSeq
<1>5. Len(strings[s]) >= 1
  BY <1>3, <1>4, EmptySeq
<1>6. 0 <= k /\ k < Len(strings[s]) => Item(s, k) \in Nat
  BY <1>4 DEF Item
<1>7. k >= Len(strings[s]) => Item(s, k) = -s
  BY <1>4 DEF Item
<1> QED BY <1>2, <1>4, <1>5, <1>6, <1>7

-----------------------------------------------------------------------------
(* What the nodes stand for.  d[n] is the length of the word of node n; it *)
(* is read in the string of the edge up from n, from position Pos on.      *)

(* The number of suffixes of a string that have their leafs.               *)
Made(t) ==
  IF t # cur \/ pc = "idle" THEN Len(strings[t]) + 1
  ELSE IF pc = "phase" THEN last_extension + 1
  ELSE IF pc = "extend" THEN (IF stop_extensions THEN j - 1 ELSE j)
  ELSE IF pc \in { "follow", "insert" } THEN j
  ELSE 0

Open(e) == edge[e].phase # Local

From(d, e) == edge[e].start_index - d[edge[e].src]

Str(n) == edge[node[n].up_edge].str
Pos(d, n) == From(d, node[n].up_edge)

(* Node n reads the l items of string s from k on.                         *)
AtNode(d, n, s, k, l) == d[n] = l /\ (n # Root => Agree(Str(n), Pos(d, n), s, k, l))

(* The first l items read down to the end of edge e.                       *)
OnEdge(d, e, s, k, l) == Agree(edge[e].str, From(d, e), s, k, l)

InnerOrRoot(n) == n \in DOMAIN node /\ (n = Root \/ ~ lst_node_is_leaf(n))

Depths(d) ==
  /\ d \in [DOMAIN node -> Nat] /\ d[Root] = 0
  /\ \A e \in DOMAIN edge :
       lst_edge_get_length(e) >= 1 /\ d[edge[e].dst] = d[edge[e].src] + lst_edge_get_length(e)

(* The label of an edge continues the word of its upper end within one of  *)
(* the suffixes made; that of a leaf goes on to the end of its suffix.     *)
Window(d, e) ==
  /\ edge[e].str \in Registered
  /\ From(d, e) >= 0 /\ From(d, e) < Made(edge[e].str)
  /\ end_index(e) <= phases[edge[e].str]
  /\ Open(e) => edge[e].phase = edge[e].str /\ node[edge[e].dst].index = From(d, e)
  /\ AtNode(d, edge[e].src, edge[e].str, From(d, e), d[edge[e].src])

Windows(d) == \A e \in DOMAIN edge : Window(d, e)

Forks ==
  /\ \A e, f \in DOMAIN edge :
       edge[e].src = edge[f].src
         /\ Item(edge[e].str, edge[e].start_index) = Item(edge[f].str, edge[f].start_index) => e = f
  /\ \A n \in Inner : \A e \in kids(n) : \E f \in kids(n) : f # e

HasSuffix(t, x) ==
  \E e \in DOMAIN edge : Open(e) /\ edge[e].str = t /\ node[edge[e].dst].index = x

Complete ==
  /\ \A t \in Registered : \A x \in 0..(Made(t) - 1) : HasSuffix(t, x)
  /\ \A t \in Registered : /\ phases[t] <= Len(strings[t])
                           /\ t # cur \/ pc = "idle" => phases[t] = Len(strings[t])

LinkRight(d, n) ==
  LET m == node[n].suffix_link_node
  IN  InnerOrRoot(m) /\ AtNode(d, m, Str(n), Pos(d, n) + 1, d[n] - 1)

Links(d) ==
  /\ node[Root].suffix_link_node = NULL
  /\ \A n \in Inner \ { prev_new_node } : LinkRight(d, n)

(* The tree is one of words.                                               *)
Worded(d) == TypeOK /\ TreeShape /\ Depths(d) /\ Windows(d) /\ Forks

LEMMA EdgeWords ==
  ASSUME NEW d, Worded(d), NEW e \in DOMAIN edge
  PROVE  /\ edge[e].src \in DOMAIN node /\ edge[e].dst \in DOMAIN node /\ edge[e].dst # Root
         /\ node[edge[e].dst].up_edge = e /\ edge[e].str \in DOMAIN strings
         /\ edge[e].start_index \in Nat /\ end_index(e) \in Int
         /\ d[edge[e].src] \in Nat /\ d[edge[e].dst] \in Nat
         /\ From(d, e) \in Nat /\ edge[e].start_index = From(d, e) + d[edge[e].src]
         /\ d[edge[e].dst] = end_index(e) - From(d, e) + 1 /\ d[edge[e].src] < d[edge[e].dst]
         /\ Str(edge[e].dst) = edge[e].str /\ Pos(d, edge[e].dst) = From(d, e)
<1>1. /\ edge[e].src \in DOMAIN node /\ edge[e].dst \in DOMAIN node
      /\ edge[e].str \in DOMAIN strings /\ edge[e].start_index \in Int
      /\ end_index(e) \in Int
  BY EdgeEnds DEF Worded
<1>2. edge[e].dst # Root /\ node[edge[e].dst].up_edge = e
  BY DEF Worded, TreeShape, EdgesAgree
<1>3. d[edge[e].src] \in Nat /\ d[edge[e].dst] \in Nat
  BY <1>1 DEF Worded, Depths
<1>4. /\ lst_edge_get_length(e) >= 1
      /\ d[edge[e].dst] = d[edge[e].src] + lst_edge_get_length(e)
  BY DEF Worded, Depths
<1>5. lst_edge_get_length(e) = end_index(e) - edge[e].start_index + 1
  BY DEF lst_edge_get_length
<1>6. From(d, e) = edge[e].start_index - d[edge[e].src] /\ From(d, e) >= 0
  BY DEF From, Worded, Windows, Window
<1>7. Str(edge[e].dst) = edge[e].str /\ Pos(d, edge[e].dst) = From(d, e)
  BY <1>2 DEF Str, Pos
<1> QED BY <1>1, <1>2, <1>3, <1>4, <1>5, <1>6, <1>7

LEMMA NodeWords ==
  ASSUME NEW d, Worded(d), NEW n \in DOMAIN node, n # Root
  PROVE  /\ node[n].up_edge \in DOMAIN edge /\ edge[node[n].up_edge].dst = n
         /\ Str(n) \in DOMAIN strings /\ Pos(d, n) \in Nat /\ d[n] \in Nat /\ d[n] >= 1
         /\ AtNode(d, n, Str(n), Pos(d, n), d[n])
<1>1. node[n].up_edge \in DOMAIN edge /\ edge[node[n].up_edge].dst = n
  BY DEF Worded, TreeShape, EdgesAgree
<1>2. AtNode(d, n, Str(n), Pos(d, n), d[n])
  BY AgreeRefl DEF AtNode
<1> QED BY <1>1, <1>2, EdgeWords DEF Str, Pos

(* Words that have one more item in common than there are items above edge *)
(* e have all those of e in common; and no two nodes have the same word.   *)
Through(d, e, m) ==
  d[m] > d[edge[e].src] /\ OnEdge(d, e, Str(m), Pos(d, m), d[edge[e].src] + 1) =>
    d[m] >= d[edge[e].dst] /\ OnEdge(d, e, Str(m), Pos(d, m), d[edge[e].dst])

Same(d, n, m) ==
  d[n] = d[m] /\ Agree(Str(n), Pos(d, n), Str(m), Pos(d, m), d[n]) => n = m

\* Both, for nodes of at most z items together.
Settled(d, z) ==
  /\ \A e \in DOMAIN edge, m \in DOMAIN node \ { Root } :
       d[edge[e].dst] + d[m] < z => Through(d, e, m)
  /\ \A n, m \in DOMAIN node \ { Root } : d[n] + d[m] < z => Same(d, n, m)

LEMMA SameUpperEnd ==
  ASSUME NEW d, Worded(d), NEW z \in Nat, Settled(d, z),
         NEW e \in DOMAIN edge, NEW f \in DOMAIN edge,
         d[edge[e].src] = d[edge[f].src], d[edge[e].src] + d[edge[f].src] < z,
         OnEdge(d, e, edge[f].str, From(d, f), d[edge[e].src] + 1)
  PROVE  e = f
<1> DEFINE p == edge[e].src
           q == edge[f].src
<1>1. /\ p \in DOMAIN node /\ q \in DOMAIN node /\ d[p] \in Nat /\ d[p] = d[q]
      /\ edge[e].start_index = From(d, e) + d[p] /\ edge[f].start_index = From(d, f) + d[p]
      /\ From(d, e) \in Nat /\ From(d, f) \in Nat
  BY EdgeWords
<1>2. Agree(edge[e].str, From(d, e), edge[f].str, From(d, f), d[p] + 1)
  BY DEF OnEdge
<1>3. Item(edge[e].str, edge[e].start_index) = Item(edge[f].str, edge[f].start_index)
  BY <1>1, <1>2, AgreeItem
<1>4. p = q
  <2>1. CASE p = Root \/ q = Root
    <3>1. d[p] = 0 /\ d[q] = 0
      BY <1>1, <2>1 DEF Worded, Depths
    <3> QED BY <1>1, <3>1, NodeWords
  <2>2. CASE p # Root /\ q # Root
    <3>1. AtNode(d, p, edge[e].str, From(d, e), d[p]) /\ AtNode(d, q, edge[f].str, From(d, f), d[q])
      BY DEF Worded, Windows, Window
    <3>2. /\ Agree(Str(p), Pos(d, p), edge[e].str, From(d, e), d[p])
          /\ Agree(edge[f].str, From(d, f), Str(q), Pos(d, q), d[p])
      BY <1>1, <2>2, <3>1, AgreeSym DEF AtNode
    <3>3. Agree(edge[e].str, From(d, e), edge[f].str, From(d, f), d[p])
      BY <1>1, <1>2, AgreeShorter
    <3>4. Agree(Str(p), Pos(d, p), Str(q), Pos(d, q), d[p])
      BY <3>2, <3>3, AgreeTrans
    <3>5. Same(d, p, q)
      BY <1>1, <2>2 DEF Settled
    <3> QED BY <1>1, <3>4, <3>5 DEF Same
  <2> QED BY <2>1, <2>2
<1> QED BY <1>3, <1>4 DEF Worded, Forks

LEMMA WordsSettled ==
  ASSUME NEW d, Worded(d)
  PROVE  /\ \A e \in DOMAIN edge, m \in DOMAIN node \ { Root } : Through(d, e, m)
         /\ \A n, m \in DOMAIN node \ { Root } : Same(d, n, m)
<1>1. ASSUME NEW z \in Nat, Settled(d, z), NEW e \in DOMAIN edge, NEW m \in DOMAIN node \ { Root },
             d[edge[e].dst] + d[m] = z
      PROVE  Through(d, e, m)
  <2> DEFINE f == node[m].up_edge
             p == edge[e].src
             q == edge[f].src
  <2>1. /\ f \in DOMAIN edge /\ edge[f].dst = m /\ Str(m) = edge[f].str /\ Pos(d, m) = From(d, f)
        /\ p \in DOMAIN node /\ q \in DOMAIN node /\ d[p] \in Nat /\ d[q] \in Nat /\ d[m] \in Nat
        /\ d[edge[e].dst] \in Nat /\ d[p] < d[edge[e].dst] /\ d[q] < d[m]
    BY NodeWords, EdgeWords DEF Str, Pos
  <2>2. SUFFICES ASSUME d[m] > d[p], Agree(edge[e].str, From(d, e), edge[f].str, From(d, f), d[p] + 1)
                 PROVE  /\ d[m] >= d[edge[e].dst]
                        /\ Agree(edge[e].str, From(d, e), edge[f].str, From(d, f), d[edge[e].dst])
    BY <2>1 DEF Through, OnEdge
  <2>3. CASE d[q] > d[p]
    <3>1. q # Root
      BY <2>1, <2>3 DEF Worded, Depths
    <3>2. AtNode(d, q, edge[f].str, From(d, f), d[q])
      BY <2>1 DEF Worded, Windows, Window
    <3>3. Agree(Str(q), Pos(d, q), edge[f].str, From(d, f), d[q])
      BY <3>1, <3>2 DEF AtNode
    <3>4. Agree(edge[f].str, From(d, f), Str(q), Pos(d, q), d[p] + 1)
      BY <2>1, <2>3, <3>3, AgreeShorter, AgreeSym
    <3>5. Agree(edge[e].str, From(d, e), Str(q), Pos(d, q), d[p] + 1)
      BY <2>2, <3>4, AgreeTrans
    <3>6. Through(d, e, q)
      BY <1>1, <2>1, <3>1 DEF Settled
    <3>7. /\ d[q] >= d[edge[e].dst]
          /\ Agree(edge[e].str, From(d, e), Str(q), Pos(d, q), d[edge[e].dst])
      BY <2>3, <3>5, <3>6 DEF Through, OnEdge
    <3>8. Agree(Str(q), Pos(d, q), edge[f].str, From(d, f), d[edge[e].dst])
      BY <2>1, <3>3, <3>7, AgreeShorter
    <3> QED BY <2>1, <3>7, <3>8, AgreeTrans
  <2>4. CASE d[q] < d[p]
    <3>1. p # Root
      BY <2>1, <2>4 DEF Worded, Depths
    <3>2. AtNode(d, p, edge[e].str, From(d, e), d[p])
      BY <2>1 DEF Worded, Windows, Window
    <3>3. Agree(edge[e].str, From(d, e), Str(p), Pos(d, p), d[q] + 1)
      BY <2>1, <2>4, <3>1, <3>2, AgreeShorter, AgreeSym DEF AtNode
    <3>4. Agree(edge[f].str, From(d, f), edge[e].str, From(d, e), d[q] + 1)
      BY <2>1, <2>2, <2>4, AgreeShorter, AgreeSym
    <3>5. Agree(edge[f].str, From(d, f), Str(p), Pos(d, p), d[q] + 1)
      BY <3>3, <3>4, AgreeTrans
    <3>6. Through(d, f, p)
      BY <1>1, <2>1, <3>1 DEF Settled
    <3> QED BY <2>1, <2>2, <2>4, <3>5, <3>6 DEF Through, OnEdge
  <2>5. CASE d[q] = d[p]
    <3>1. d[p] + d[q] < z
      BY <1>1, <2>1, <2>5
    <3>2. e = f
      <4> HIDE DEF f
      <4> QED BY <1>1, <2>1, <2>2, <2>5, <3>1, SameUpperEnd DEF OnEdge
    <3> QED BY <2>1, <3>2, AgreeRefl
  <2> QED BY <2>1, <2>3, <2>4, <2>5
<1>2. ASSUME NEW z \in Nat, Settled(d, z), NEW n \in DOMAIN node \ { Root },
             NEW m \in DOMAIN node \ { Root }, d[n] + d[m] = z
      PROVE  Same(d, n, m)
  <2> DEFINE e == node[n].up_edge
             f == node[m].up_edge
             p == edge[e].src
             q == edge[f].src
  <2>1. /\ f \in DOMAIN edge /\ edge[f].dst = m /\ Str(m) = edge[f].str /\ Pos(d, m) = From(d, f)
        /\ e \in DOMAIN edge /\ edge[e].dst = n /\ Str(n) = edge[e].str /\ Pos(d, n) = From(d, e)
        /\ p \in DOMAIN node /\ q \in DOMAIN node /\ d[p] \in Nat /\ d[q] \in Nat /\ d[m] \in Nat
        /\ d[n] \in Nat /\ d[p] < d[n] /\ d[q] < d[m]
    BY NodeWords, EdgeWords DEF Str, Pos
  <2>2. SUFFICES ASSUME d[n] = d[m], Agree(edge[e].str, From(d, e), edge[f].str, From(d, f), d[n])
                 PROVE  n = m
    BY <2>1 DEF Same
  <2>3. CASE d[q] > d[p]
    <3>1. q # Root
      BY <2>1, <2>3 DEF Worded, Depths
    <3>2. AtNode(d, q, edge[f].str, From(d, f), d[q])
      BY <2>1 DEF Worded, Windows, Window
    <3>3. Agree(edge[f].str, From(d, f), Str(q), Pos(d, q), d[p] + 1)
      BY <2>1, <2>3, <3>1, <3>2, AgreeShorter, AgreeSym DEF AtNode
    <3>4. Agree(edge[e].str, From(d, e), edge[f].str, From(d, f), d[p] + 1)
      BY <2>1, <2>2, AgreeShorter
    <3>5. Agree(edge[e].str, From(d, e), Str(q), Pos(d, q), d[p] + 1)
      BY <3>3, <3>4, AgreeTrans
    <3>6. Through(d, e, q)
      BY <1>2, <2>1, <3>1 DEF Settled
    <3> QED BY <2>1, <2>2, <2>3, <3>5, <3>6 DEF Through, OnEdge
  <2>4. CASE d[q] < d[p]
    <3>1. p # Root
      BY <2>1, <2>4 DEF Worded, Depths
    <3>2. AtNode(d, p, edge[e].str, From(d, e), d[p])
      BY <2>1 DEF Worded, Windows, Window
    <3>3. Agree(edge[e].str, From(d, e), Str(p), Pos(d, p), d[q] + 1)
      BY <2>1, <2>4, <3>1, <3>2, AgreeShorter, AgreeSym DEF AtNode
    <3>4. Agree(edge[f].str, From(d, f), edge[e].str, From(d, e), d[q] + 1)
      BY <2>1, <2>2, <2>4, AgreeShorter, AgreeSym
    <3>5. Agree(edge[f].str, From(d, f), Str(p), Pos(d, p), d[q] + 1)
      BY <3>3, <3>4, AgreeTrans
    <3>6. Through(d, f, p)
      BY <1>2, <2>1, <2>2, <3>1 DEF Settled
    <3> QED BY <2>1, <2>2, <2>4, <3>5, <3>6 DEF Through, OnEdge
  <2>5. CASE d[q] = d[p]
    <3>1. d[p] + d[q] < z /\ d[p] + 1 <= d[n]
      BY <1>2, <2>1, <2>5
    <3>2. Agree(edge[e].str, From(d, e), edge[f].str, From(d, f), d[p] + 1)
      BY <2>1, <2>2, <3>1, AgreeShorter
    <3>3. e = f
      <4> HIDE DEF e, f
      <4> QED BY <1>2, <2>1, <2>5, <3>1, <3>2, SameUpperEnd DEF OnEdge
    <3> QED BY <2>1, <3>3
  <2> QED BY <2>1, <2>3, <2>4, <2>5
<1> DEFINE Bad == { z \in Nat : ~ Settled(d, z) }
<1>3. Settled(d, 0)
  <2>1. ASSUME NEW m \in DOMAIN node PROVE d[m] \in Nat
    BY DEF Worded, Depths
  <2>2. \A e \in DOMAIN edge : edge[e].dst \in DOMAIN node
    BY EdgeWords
  <2> QED BY <2>1, <2>2 DEF Settled
<1>4. ASSUME NEW z \in Nat, Settled(d, z) PROVE Settled(d, z + 1)
  <2>1. \A m \in DOMAIN node : d[m] \in Nat
    BY DEF Worded, Depths
  <2>2. ASSUME NEW e \in DOMAIN edge, NEW m \in DOMAIN node \ { Root }, d[edge[e].dst] + d[m] < z + 1
        PROVE  Through(d, e, m)
    <3>1. d[edge[e].dst] + d[m] < z \/ d[edge[e].dst] + d[m] = z
      BY <2>1, <2>2, EdgeWords
    <3>2. CASE d[edge[e].dst] + d[m] < z
      BY <1>4, <3>2 DEF Settled
    <3>3. CASE d[edge[e].dst] + d[m] = z
      BY <1>1, <1>4, <3>3
    <3> QED BY <3>1, <3>2, <3>3
  <2>3. ASSUME NEW n \in DOMAIN node \ { Root }, NEW m \in DOMAIN node \ { Root }, d[n] + d[m] < z + 1
        PROVE  Same(d, n, m)
    <3>1. d[n] + d[m] < z \/ d[n] + d[m] = z
      BY <2>1, <2>3
    <3>2. CASE d[n] + d[m] < z
      BY <1>4, <3>2 DEF Settled
    <3>3. CASE d[n] + d[m] = z
      BY <1>2, <1>4, <3>3
    <3> QED BY <3>1, <3>2, <3>3
  <2> QED BY <2>2, <2>3 DEF Settled
<1>5. \A z \in Nat : Settled(d, z)
  <2>1. CASE Bad # {}
    <3>1. PICK z \in Bad : \A y \in Bad : z <= y
      BY <2>1, LeastNatural
    <3>2. z \in Nat /\ ~ Settled(d, z) /\ z # 0
      BY <1>3
    <3>3. z - 1 \in Nat /\ Settled(d, z - 1)
      BY <3>1, <3>2
    <3>4. Settled(d, (z - 1) + 1)
      BY <1>4, <3>3
    <3> QED BY <3>2, <3>4
  <2> QED BY <2>1
<1>6. ASSUME NEW e \in DOMAIN edge, NEW m \in DOMAIN node \ { Root } PROVE Through(d, e, m)
  <2>1. d[edge[e].dst] + d[m] \in Nat
    BY EdgeWords, NodeWords
  <2>2. PICK z \in Nat : z = d[edge[e].dst] + d[m]
    BY <2>1
  <2> QED BY <1>1, <1>5, <2>2
<1>7. ASSUME NEW n \in DOMAIN node \ { Root }, NEW m \in DOMAIN node \ { Root } PROVE Same(d, n, m)
  <2>1. PICK z \in Nat : z = d[n] + d[m]
    BY NodeWords
  <2> QED BY <1>2, <1>5, <2>1
<1> QED BY <1>6, <1>7

(* Below a node whose word the one of another node continues, an edge      *)
(* leads on in its direction.                                              *)
LEMMA KidTowards ==
  ASSUME NEW d, Worded(d), NEW n \in DOMAIN node, NEW m0 \in DOMAIN node \ { Root },
         d[m0] > d[n], AtNode(d, n, Str(m0), Pos(d, m0), d[n])
  PROVE  \E e \in kids(n) : OnEdge(d, e, Str(m0), Pos(d, m0), d[n] + 1)
<1> DEFINE Leads(m) == d[m] > d[n] /\ AtNode(d, n, Str(m), Pos(d, m), d[n]) =>
                         \E e \in kids(n) : OnEdge(d, e, Str(m), Pos(d, m), d[n] + 1)
           Bad == { z \in Nat : \E m \in DOMAIN node \ { Root } : d[m] = z /\ ~ Leads(m) }
<1>1. SUFFICES ASSUME Bad # {} PROVE FALSE
  <2>1. d[m0] \in Nat
    BY NodeWords
  <2> QED BY <2>1
<1>2. PICK z \in Bad : \A y \in Bad : z <= y
  BY <1>1, LeastNatural
<1>3. PICK m \in DOMAIN node \ { Root } : d[m] = z /\ ~ Leads(m)
  BY <1>2
<1> DEFINE f == node[m].up_edge
           q == edge[f].src
<1>4. /\ f \in DOMAIN edge /\ edge[f].dst = m /\ Str(m) = edge[f].str /\ Pos(d, m) = From(d, f)
      /\ q \in DOMAIN node /\ d[q] \in Nat /\ d[m] \in Nat /\ d[q] < d[m] /\ d[n] \in Nat
  <2>1. d[n] \in Nat
    BY DEF Worded, Depths
  <2> QED BY <2>1, NodeWords, EdgeWords DEF Str, Pos
<1>5. d[m] > d[n] /\ AtNode(d, n, edge[f].str, From(d, f), d[n])
      /\ ~ \E e \in kids(n) : OnEdge(d, e, edge[f].str, From(d, f), d[n] + 1)
  BY <1>3, <1>4
<1>6. AtNode(d, q, edge[f].str, From(d, f), d[q])
  BY <1>4 DEF Worded, Windows, Window
<1>7. CASE d[q] > d[n]
  <2>1. q # Root
    BY <1>4, <1>7 DEF Worded, Depths
  <2>2. Agree(Str(q), Pos(d, q), edge[f].str, From(d, f), d[q])
    BY <1>6, <2>1 DEF AtNode
  <2>3. Agree(edge[f].str, From(d, f), Str(q), Pos(d, q), d[n])
        /\ Agree(Str(q), Pos(d, q), edge[f].str, From(d, f), d[n] + 1)
    BY <1>4, <1>7, <2>2, AgreeShorter, AgreeSym
  <2>4. AtNode(d, n, Str(q), Pos(d, q), d[n])
    BY <1>5, <2>3, AgreeTrans DEF AtNode
  <2>5. Leads(q)
    BY <1>2, <1>3, <1>4, <2>1
  <2>6. PICK e \in kids(n) : OnEdge(d, e, Str(q), Pos(d, q), d[n] + 1)
    BY <1>7, <2>4, <2>5
  <2>7. OnEdge(d, e, edge[f].str, From(d, f), d[n] + 1)
    BY <2>3, <2>6, AgreeTrans DEF OnEdge
  <2> QED BY <1>5, <2>7
<1>8. CASE d[q] = d[n]
  <2>1. q = n
    <3>1. CASE q = Root \/ n = Root
      <4>1. d[q] = 0 /\ d[n] = 0
        BY <1>8, <3>1 DEF Worded, Depths
      <4> QED BY <1>4, <4>1, NodeWords
    <3>2. CASE q # Root /\ n # Root
      <4>1. Agree(Str(q), Pos(d, q), edge[f].str, From(d, f), d[q])
            /\ Agree(Str(n), Pos(d, n), edge[f].str, From(d, f), d[q])
        BY <1>5, <1>6, <1>8, <3>2 DEF AtNode
      <4>2. Agree(Str(q), Pos(d, q), Str(n), Pos(d, n), d[q])
        BY <4>1, AgreeSym, AgreeTrans
      <4> QED BY <1>4, <1>8, <3>2, <4>2, WordsSettled DEF Same
    <3> QED BY <3>1, <3>2
  <2>2. f \in kids(n) /\ OnEdge(d, f, edge[f].str, From(d, f), d[n] + 1)
    BY <1>4, <2>1, AgreeRefl DEF kids, OnEdge
  <2> QED BY <1>5, <2>2
<1>9. CASE d[q] < d[n]
  <2>1. n # Root
    BY <1>4, <1>9 DEF Worded, Depths
  <2>2. Agree(edge[f].str, From(d, f), Str(n), Pos(d, n), d[q] + 1)
    BY <1>4, <1>5, <1>9, <2>1, AgreeShorter, AgreeSym DEF AtNode
  <2>3. Through(d, f, n)
    BY <1>4, <2>1, WordsSettled
  <2> QED BY <1>4, <1>5, <1>9, <2>2, <2>3 DEF Through, OnEdge
<1> QED BY <1>4, <1>7, <1>8, <1>9

(* The l items of s from k on can be read from the root: a suffix that was *)
(* made begins with them.                                                  *)
Readable(s, k, l) ==
  l <= 0 \/ \E t \in Registered : \E x \in 0..(Made(t) - 1) :
              l <= phases[t] - x + 1 /\ Agree(t, x, s, k, l)

LEMMA LeafOfSuffix ==
  ASSUME NEW d, Worded(d), Complete, NEW t \in Registered, NEW x \in 0..(Made(t) - 1)
  PROVE  \E m \in DOMAIN node \ { Root } :
           Str(m) = t /\ Pos(d, m) = x /\ d[m] = phases[t] - x + 1
<1>1. PICK e \in DOMAIN edge : Open(e) /\ edge[e].str = t /\ node[edge[e].dst].index = x
  BY DEF Complete, HasSuffix
<1>2. From(d, e) = x /\ edge[e].phase = t
  BY <1>1 DEF Worded, Windows, Window
<1>3. end_index(e) = phases[t]
  BY <1>1, <1>2 DEF Open, end_index
<1> QED BY <1>1, <1>2, <1>3, EdgeWords

LEMMA LeafReading ==
  ASSUME NEW d, Worded(d), Complete, NEW s, NEW k, NEW l \in Int, l > 0, Readable(s, k, l)
  PROVE  \E m \in DOMAIN node \ { Root } : d[m] >= l /\ Agree(Str(m), Pos(d, m), s, k, l)
<1>1. PICK t \in Registered : \E x \in 0..(Made(t) - 1) :
        l <= phases[t] - x + 1 /\ Agree(t, x, s, k, l)
  BY DEF Readable
<1>2. PICK x \in 0..(Made(t) - 1) : l <= phases[t] - x + 1 /\ Agree(t, x, s, k, l)
  BY <1>1
<1>3. PICK m \in DOMAIN node \ { Root } : Str(m) = t /\ Pos(d, m) = x /\ d[m] = phases[t] - x + 1
  BY LeafOfSuffix
<1> QED BY <1>2, <1>3

(* A word that can be read and reaches into edge e by an item follows it.  *)
LEMMA Follows ==
  ASSUME NEW d, Worded(d), Complete, NEW s, NEW k, NEW l \in Int, Readable(s, k, l),
         NEW e \in DOMAIN edge, l > d[edge[e].src], OnEdge(d, e, s, k, d[edge[e].src] + 1)
  PROVE  \A q \in Int : q <= l /\ q <= d[edge[e].dst] => OnEdge(d, e, s, k, q)
<1>1. d[edge[e].src] \in Nat /\ d[edge[e].dst] \in Nat
  BY EdgeWords
<1>2. PICK m \in DOMAIN node \ { Root } : d[m] >= l /\ Agree(Str(m), Pos(d, m), s, k, l)
  BY <1>1, LeafReading
<1>3. d[m] \in Nat
  BY NodeWords
<1>4. Agree(s, k, Str(m), Pos(d, m), d[edge[e].src] + 1)
  BY <1>1, <1>2, AgreeShorter, AgreeSym
<1>5. OnEdge(d, e, Str(m), Pos(d, m), d[edge[e].src] + 1)
  BY <1>4, AgreeTrans DEF OnEdge
<1>6. Through(d, e, m)
  BY WordsSettled
<1>7. OnEdge(d, e, Str(m), Pos(d, m), d[edge[e].dst])
  BY <1>1, <1>2, <1>3, <1>5, <1>6 DEF Through
<1>8. ASSUME NEW q \in Int, q <= l, q <= d[edge[e].dst] PROVE OnEdge(d, e, s, k, q)
  <2>1. Agree(edge[e].str, From(d, e), Str(m), Pos(d, m), q)
    BY <1>1, <1>7, <1>8, AgreeShorter DEF OnEdge
  <2>2. Agree(Str(m), Pos(d, m), s, k, q)
    BY <1>2, <1>8, AgreeShorter
  <2> QED BY <2>1, <2>2, AgreeTrans DEF OnEdge
<1> QED BY <1>8

LEMMA GoesOn ==
  ASSUME NEW d, Worded(d), Complete, NEW s, NEW k, NEW l \in Int, Readable(s, k, l),
         NEW n \in DOMAIN node, l > d[n], AtNode(d, n, s, k, d[n])
  PROVE  \E e \in kids(n) : OnEdge(d, e, s, k, d[n] + 1)
<1>1. d[n] \in Nat
  BY DEF Worded, Depths
<1>2. PICK m \in DOMAIN node \ { Root } : d[m] >= l /\ Agree(Str(m), Pos(d, m), s, k, l)
  BY <1>1, LeafReading
<1>3. d[m] \in Nat
  BY NodeWords
<1>4. Agree(s, k, Str(m), Pos(d, m), d[n]) /\ Agree(Str(m), Pos(d, m), s, k, d[n] + 1)
  BY <1>1, <1>2, AgreeShorter, AgreeSym
<1>5. AtNode(d, n, Str(m), Pos(d, m), d[n])
  BY <1>4, AgreeTrans DEF AtNode
<1>6. PICK e \in kids(n) : OnEdge(d, e, Str(m), Pos(d, m), d[n] + 1)
  BY <1>1, <1>2, <1>3, <1>5, KidTowards
<1>7. OnEdge(d, e, s, k, d[n] + 1)
  BY <1>4, <1>6, AgreeTrans DEF OnEdge
<1> QED BY <1>7

(* What node_find_edge_with_startitem finds.                               *)
LEMMA EdgeChosen ==
  ASSUME NEW d, Worded(d), Complete, NEW n \in DOMAIN node,
         NEW s \in DOMAIN strings, NEW k \in Int, k < num_items(s),
         NEW r, r = node_find_edge_with_startitem(n, s, k)
  PROVE  /\ r # NULL => /\ r \in kids(n) /\ r \in DOMAIN edge /\ edge[r].src = n
                        /\ Item(edge[r].str, edge[r].start_index) = Item(s, k)
                        /\ lst_string_eq(edge[r].str, edge[r].start_index, s, k)
         /\ r = NULL => \A e \in kids(n) : Item(edge[e].str, edge[e].start_index) # Item(s, k)
<1> DEFINE fit == { e \in kids(n) : lst_string_eq(edge[e].str, edge[e].start_index, s, k) }
<1>1. ASSUME NEW e \in kids(n)
      PROVE  /\ e \in DOMAIN edge /\ e # NULL /\ edge[e].src = n
             /\ lst_string_eq(edge[e].str, edge[e].start_index, s, k) <=>
                  Item(edge[e].str, edge[e].start_index) = Item(s, k)
  <2>1. e \in DOMAIN edge /\ edge[e].src = n
    BY DEF kids
  <2>2. e # NULL
    BY <2>1, Domains DEF Worded, NULL
  <2>3. edge[e].str \in Registered /\ end_index(e) <= phases[edge[e].str]
        /\ lst_edge_get_length(e) >= 1
    BY <2>1 DEF Worded, Windows, Window, Depths
  <2>4. phases[edge[e].str] <= Len(strings[edge[e].str])
    BY <2>3 DEF Complete
  <2>5. /\ edge[e].start_index \in Nat /\ end_index(e) \in Int /\ phases[edge[e].str] \in Int
        /\ Len(strings[edge[e].str]) \in Nat
    BY <2>1, EdgeWords, Domains, Markers DEF Worded
  <2>6. edge[e].start_index < num_items(edge[e].str)
    BY SMTT(30), <2>3, <2>4, <2>5 DEF lst_edge_get_length, num_items
  <2> QED BY <2>1, <2>2, <2>6 DEF lst_string_eq
<1>2. r = IF fit = {} THEN NULL ELSE CHOOSE e \in fit : TRUE
  BY DEF node_find_edge_with_startitem
<1>3. CASE fit = {}
  BY <1>1, <1>2, <1>3
<1>4. CASE fit # {}
  <2>1. r \in fit
    BY <1>2, <1>4
  <2> QED BY <1>1, <2>1
<1> QED BY <1>3, <1>4

(* lst_string_items_common finds all the common items.                     *)
LEMMA CommonMost ==
  ASSUME NEW s1, NEW off1, NEW s2, NEW off2, NEW max \in Int, NEW z \in Nat, z <= max,
         \A m \in 0..(z - 1) : lst_string_eq(s1, off1 + m, s2, off2 + m)
  PROVE  lst_string_items_common(s1, off1, s2, off2, max) >= z
<1> DEFINE agree == { 0 } \cup { n \in 1..max :
                      \A m \in 0..(n - 1) : lst_string_eq(s1, off1 + m, s2, off2 + m) }
<1>1. agree \in SUBSET Nat /\ agree # {} /\ max \in Nat /\ \A n \in agree : n <= max
  OBVIOUS
<1>2. z \in agree
  OBVIOUS
<1>3. \E m \in agree : \A n \in agree : n <= m
  <2> HIDE DEF agree
  <2> QED BY <1>1, GreatestNatural
<1>4. \A n \in agree : n <= lst_string_items_common(s1, off1, s2, off2, max)
  BY <1>3 DEF lst_string_items_common
<1> QED BY <1>2, <1>4

(* The leafs are longer than the words that are looked for.                *)
LEMMA NotLeaf ==
  ASSUME NEW d, Worded(d), Complete, cur \in DOMAIN strings,
         NEW n \in DOMAIN node, NEW k \in Nat, NEW l \in Int, AtNode(d, n, cur, k, l),
         k + l - 1 <= Len(strings[cur]),
         \A x \in 0..(Made(cur) - 1) : phases[cur] - x + 1 # l,
         Made(cur) \in Int
  PROVE  InnerOrRoot(n)
<1>1. SUFFICES ASSUME n # Root, lst_node_is_leaf(n) PROVE FALSE
  BY DEF InnerOrRoot
<1> DEFINE e == node[n].up_edge
           t == edge[e].str
<1>2. /\ e \in DOMAIN edge /\ edge[e].dst = n /\ d[n] \in Nat /\ d[n] >= 1
      /\ Str(n) = t /\ Pos(d, n) = From(d, e)
  BY <1>1, NodeWords DEF Str, Pos
<1>3. /\ From(d, e) \in Nat /\ t \in DOMAIN strings /\ d[n] = end_index(e) - From(d, e) + 1
      /\ end_index(e) \in Int
  BY <1>2, EdgeWords
<1>4. Open(e)
  BY <1>1, <1>2 DEF Worded, TreeShape, LeafEdgesOpen, Open
<1>5. edge[e].phase = t /\ t \in Registered /\ From(d, e) < Made(t)
  BY <1>2, <1>4 DEF Worded, Windows, Window
<1>6. end_index(e) = phases[t]
  BY <1>4, <1>5 DEF Open, end_index
<1>7. d[n] = l /\ Agree(t, From(d, e), cur, k, l)
  BY <1>1, <1>2 DEF AtNode
<1>8. t # cur
  BY <1>3, <1>5, <1>6, <1>7
<1>9. phases[t] = Len(strings[t])
  BY <1>5, <1>8 DEF Complete
<1>10. /\ l - 1 \in Nat /\ l - 1 < l /\ From(d, e) + (l - 1) = Len(strings[t])
       /\ Len(strings[t]) \in Int /\ k + (l - 1) \in Nat
  <2>1. Len(strings[t]) = phases[t] /\ Len(strings[t]) \in Int
    BY <1>3, <1>6, <1>9
  <2>2. l = Len(strings[t]) - From(d, e) + 1 /\ l >= 1 /\ From(d, e) \in Nat
    BY <1>2, <1>3, <1>6, <1>7, <2>1
  <2>3. PICK z \in Int : z = Len(strings[t])
    BY <2>1
  <2>4. PICK x \in Nat : x = From(d, e)
    BY <2>2
  <2>5. l = z - x + 1 /\ l >= 1
    BY <2>2, <2>3, <2>4
  <2>6. l - 1 \in Nat /\ l - 1 < l /\ x + (l - 1) = z /\ k + (l - 1) \in Nat
    BY <2>5
  <2> QED BY <2>1, <2>3, <2>4, <2>6
<1>11. Item(t, From(d, e) + (l - 1)) = Item(cur, k + (l - 1))
  BY <1>7, <1>10 DEF Agree
<1>12. Item(t, From(d, e) + (l - 1)) = -t
  <2>1. Item(t, Len(strings[t])) = -t
    BY SMTT(30), <1>3, <1>10, Markers DEF Worded
  <2> QED BY <1>10, <2>1
<1>13. 0 <= k + (l - 1) /\ k + (l - 1) <= Len(strings[cur]) /\ k + (l - 1) \in Int
  BY <1>10, Markers DEF Worded
<1>14. t = cur
  BY SMTT(30), <1>3, <1>11, <1>12, <1>13, Markers DEF Worded
<1> QED BY <1>8, <1>14

-----------------------------------------------------------------------------
(* Where an addition stands.                                               *)

(* p points to where the l items of s from k on end.                       *)
At(d, p, s, k, l) ==
  IF p.node # NULL THEN InnerOrRoot(p.node) /\ AtNode(d, p.node, s, k, l) /\ p.offset = 0
  ELSE /\ p.edge \in DOMAIN edge
       /\ l = d[edge[p.edge].src] + p.offset
       /\ OnEdge(d, p.edge, s, k, l)

Interior(p) == p.node = NULL => p.offset \in 1..(lst_edge_get_length(p.edge) - 1)

(* The inner node that the last extension, of suffix j - 1, created.       *)
Pending(d) ==
  prev_new_node # NULL =>
    j >= 1 /\ prev_new_node \in Inner /\ AtNode(d, prev_new_node, cur, j - 1, i - j + 1)

Working == { "match", "phase", "extend", "follow", "insert" }

Between ==
  /\ pc \in { "idle", "check", "enter" } => num_strings > 0 \/ DOMAIN edge = {}
  /\ pc \in { "idle", "check", "enter" } =>
       prev_new_node = NULL /\ ~ stop_extensions /\ find_skipstring /\ last_extension = 0
  /\ pc \in { "check", "enter" } => cur \notin Registered /\ phases[cur] = 0
  /\ pc \in Working => cur \in Registered

\* All suffixes of the items before item i can be read.
Implicit == \A k \in 0..i : Readable(cur, k, i - k)

MatchRight(d) ==
  pc = "match" =>
    /\ prev_new_node = NULL /\ ~ stop_extensions
    /\ skip.done >= 0 /\ skip.done <= Len(strings[cur]) /\ skip.todo = num_items(cur) - skip.done
    /\ InnerOrRoot(skip.node) /\ AtNode(d, skip.node, cur, 0, skip.done)

PhaseRight(d) ==
  pc = "phase" =>
    /\ 0 <= i /\ i <= num_items(cur) /\ -1 <= last_extension /\ last_extension < i
    /\ i = num_items(cur) => last_extension = i - 1
    /\ last_extension >= 0 => phases[cur] = i - 1
    /\ Implicit
    /\ prev_new_node = NULL
    /\ At(d, end, cur, last_extension + 1, i - last_extension - 1)
    /\ IF stop_extensions \/ ~ find_skipstring THEN Interior(end)
       ELSE last_extension = i - 1 /\ (end.node = NULL => end.offset = 0)

\* After Rule 3; before the first extension of a phase that uses end again;
\* and after any other extension, or at the start of a phase, at the root.
Stopped(d) ==
  /\ j >= 1 /\ i < Len(strings[cur]) /\ prev_new_node = NULL /\ find_skipstring
  /\ At(d, end, cur, j - 1, i - j + 2) /\ Interior(end)

Reusing(d) ==
  prev_new_node = NULL /\ j <= i /\ At(d, end, cur, j, i - j) /\ Interior(end)

Extended(d) ==
  \/ /\ j >= 1 /\ At(d, end, cur, j - 1, i - j + 1)
     /\ end.node = NULL => end.offset > 0 /\ edge[end.edge].dst = prev_new_node
     /\ end.node # NULL => prev_new_node = NULL
     /\ Pending(d)
  \/ j = i /\ At(d, end, cur, j, 0) /\ prev_new_node = NULL /\ (end.node = NULL => end.offset = 0)

InPhase == i \in 0..Len(strings[cur]) /\ phases[cur] = i /\ Implicit

ExtendRight(d) ==
  pc = "extend" =>
    /\ InPhase /\ 0 <= j /\ j <= i + 1
    /\ IF stop_extensions THEN Stopped(d)
       ELSE IF use_end \/ ~ find_skipstring THEN Reusing(d) ELSE Extended(d)

\* From the node of p the rest of items j to i - 1 is read below it.
Heading(d, p) ==
  /\ p.extra = i /\ InnerOrRoot(p.node) /\ p.todo >= 0 /\ d[p.node] + p.todo = i - j
  /\ AtNode(d, p.node, cur, j, d[p.node])
  /\ p.todo > 0 =>
       /\ p.str \in Registered /\ p.start + p.done >= 0
       /\ p.start + p.done + p.todo <= num_items(p.str)
       /\ Agree(p.str, p.start + p.done, cur, j + d[p.node], p.todo)

FollowRight(d) ==
  pc = "follow" =>
    /\ InPhase /\ 0 <= j /\ j <= i /\ ~ stop_extensions /\ ~ use_end
    /\ Pending(d) /\ Heading(d, skip)

InsertRight(d) ==
  pc = "insert" =>
    /\ InPhase /\ 0 <= j /\ j <= i /\ ~ stop_extensions /\ ~ use_end
    /\ Pending(d) /\ skip.extra = i
    /\ At(d, end, cur, j, i - j) /\ Interior(end)

TreeRight(d) == Depths(d) /\ Windows(d) /\ Forks /\ Complete

ControlRight(d) ==
  Between /\ MatchRight(d) /\ PhaseRight(d) /\ ExtendRight(d) /\ FollowRight(d) /\ InsertRight(d)

Right(d) == TreeRight(d) /\ Links(d) /\ ControlRight(d)

WordsInv == IInv /\ \E d : Right(d)

-----------------------------------------------------------------------------
(* Steps that leave the tree alone.                                        *)
textVars == << strings, phases, node, edge >>

LEMMA SameText ==
  ASSUME UNCHANGED textVars
  PROVE  /\ cur' = cur /\ Inner' = Inner
         /\ \A s, k : Item(s, k)' = Item(s, k)
         /\ \A e : end_index(e)' = end_index(e) /\ lst_edge_get_length(e)' = lst_edge_get_length(e)
         /\ \A e : Open(e)' <=> Open(e)
         /\ \A n : kids(n)' = kids(n) /\ Str(n)' = Str(n) /\ (InnerOrRoot(n)' <=> InnerOrRoot(n))
         /\ \A t, x : HasSuffix(t, x)' <=> HasSuffix(t, x)
         /\ Forks' <=> Forks
<1>1. strings' = strings /\ phases' = phases /\ node' = node /\ edge' = edge
  BY DEF textVars
<1>2. cur' = cur
  BY <1>1 DEF cur
<1>3. \A n : kids(n)' = kids(n)
  BY <1>1 DEF kids
<1>4. Inner' = Inner /\ \A n : (InnerOrRoot(n)' <=> InnerOrRoot(n))
  BY <1>1, <1>3 DEF Inner, InnerOrRoot, lst_node_is_leaf
<1>5. \A s, k : Item(s, k)' = Item(s, k)
  BY <1>1 DEF Item
<1>6. \A e : /\ end_index(e)' = end_index(e)
             /\ lst_edge_get_length(e)' = lst_edge_get_length(e)
  BY <1>1 DEF lst_edge_get_length, end_index
<1>7. \A e : Open(e)' <=> Open(e)
  BY <1>1 DEF Open
<1>8. \A n : Str(n)' = Str(n)
  BY <1>1 DEF Str
<1>9. \A t, x : HasSuffix(t, x)' <=> HasSuffix(t, x)
  BY <1>1, <1>7 DEF HasSuffix
<1>10. Forks' <=> Forks
  BY <1>1, <1>3, <1>4, <1>5 DEF Forks
<1> QED BY <1>2, <1>3, <1>4, <1>5, <1>6, <1>7, <1>8, <1>9, <1>10

LEMMA SameReading ==
  ASSUME UNCHANGED textVars, NEW d
  PROVE  /\ Depths(d)' <=> Depths(d)
         /\ \A e : From(d, e)' = From(d, e)
         /\ \A s, k, t, x, l : Agree(s, k, t, x, l)' <=> Agree(s, k, t, x, l)
         /\ \A n, s, k, l : AtNode(d, n, s, k, l)' <=> AtNode(d, n, s, k, l)
         /\ \A p, s, k, l : At(d, p, s, k, l)' <=> At(d, p, s, k, l)
         /\ \A p : Interior(p)' <=> Interior(p)
         /\ \A n : LinkRight(d, n)' <=> LinkRight(d, n)
<1>1. strings' = strings /\ phases' = phases /\ node' = node /\ edge' = edge
  BY DEF textVars
<1>2. \A s, k, t, x, l : Agree(s, k, t, x, l)' <=> Agree(s, k, t, x, l)
  BY SameText DEF Agree
<1>3. \A e : From(d, e)' = From(d, e)
  BY <1>1 DEF From
<1>4. \A n : Pos(d, n)' = Pos(d, n)
  BY <1>1, <1>3 DEF Pos
<1>5. \A n, s, k, l : AtNode(d, n, s, k, l)' <=> AtNode(d, n, s, k, l)
  BY <1>2, <1>4, SameText DEF AtNode
<1>6. \A p, s, k, l : At(d, p, s, k, l)' <=> At(d, p, s, k, l)
  BY <1>1, <1>2, <1>3, <1>5, SameText DEF At, OnEdge
<1>7. \A p : Interior(p)' <=> Interior(p)
  BY SameText DEF Interior
<1>8. Depths(d)' <=> Depths(d)
  BY <1>1, SameText DEF Depths
<1>9. \A n : LinkRight(d, n)' <=> LinkRight(d, n)
  BY <1>1, <1>4, <1>5, SameText DEF LinkRight
<1> QED BY <1>2, <1>3, <1>5, <1>6, <1>7, <1>8, <1>9

LEMMA SameWindows ==
  ASSUME UNCHANGED textVars, NEW d, TreeRight(d),
         \A t \in Registered : t \in Registered' /\ Made(t)' = Made(t)
  PROVE  Depths(d)' /\ Windows(d)' /\ Forks'
<1>1. strings' = strings /\ phases' = phases /\ node' = node /\ edge' = edge
  BY DEF textVars
<1>2. Depths(d)' /\ Forks'
  BY SameText, SameReading DEF TreeRight
<1>3. ASSUME NEW e \in DOMAIN edge
      PROVE  (/\ edge[e].str \in Registered
              /\ From(d, e) >= 0 /\ From(d, e) < Made(edge[e].str)
              /\ end_index(e) <= phases[edge[e].str]
              /\ Open(e) => edge[e].phase = edge[e].str /\ node[edge[e].dst].index = From(d, e)
              /\ AtNode(d, edge[e].src, edge[e].str, From(d, e), d[edge[e].src]))'
  <2>1. (/\ edge[e].str \in Registered
         /\ From(d, e) >= 0 /\ From(d, e) < Made(edge[e].str)
         /\ end_index(e) <= phases[edge[e].str]
         /\ Open(e) => edge[e].phase = edge[e].str /\ node[edge[e].dst].index = From(d, e)
         /\ AtNode(d, edge[e].src, edge[e].str, From(d, e), d[edge[e].src]))
    BY DEF TreeRight, Windows, Window
  <2> QED BY <1>1, <2>1, SameText, SameReading
<1>4. Windows(d)'
  BY <1>1, <1>3 DEF Windows, Window
<1> QED BY <1>2, <1>4

LEMMA SameWords ==
  ASSUME UNCHANGED << textVars, hash >>, NEW d, TreeRight(d),
         \A t \in Registered : Made(t)' = Made(t),
         pc # "idle" /\ pc' = "idle" /\ cur \in Registered => phases[cur] = Len(strings[cur])
  PROVE  TreeRight(d)' /\ \A s, k, l : Readable(s, k, l)' <=> Readable(s, k, l)
<1>1. /\ strings' = strings /\ phases' = phases /\ node' = node /\ edge' = edge
      /\ hash' = hash /\ UNCHANGED textVars
  BY DEF textVars
<1>2. Registered' = Registered
  BY <1>1 DEF Registered
<1>3. Depths(d)' /\ Windows(d)' /\ Forks'
  BY <1>1, <1>2, SameWindows
<1>4. Complete'
  BY <1>1, <1>2, SameText DEF TreeRight, Complete
<1>5. \A s, k, l : Readable(s, k, l)' <=> Readable(s, k, l)
  BY <1>1, <1>2, SameText, SameReading DEF Readable
<1> QED BY <1>3, <1>4, <1>5 DEF TreeRight

LEMMA SameLinks ==
  ASSUME UNCHANGED << textVars, prev_new_node >>, NEW d, Links(d)
  PROVE  Links(d)'
<1>1. UNCHANGED textVars /\ prev_new_node' = prev_new_node
  OBVIOUS
<1> QED BY <1>1, SameText, SameReading DEF Links, textVars

LEMMA SameHeading ==
  ASSUME UNCHANGED << textVars, hash, prev_new_node, i, j >>, NEW d
  PROVE  /\ \A p : Heading(d, p)' <=> Heading(d, p)
         /\ Pending(d)' <=> Pending(d)
<1>1. /\ UNCHANGED textVars /\ Registered' = Registered /\ cur' = cur /\ i' = i /\ j' = j
      /\ \A s : num_items(s)' = num_items(s)
      /\ prev_new_node' = prev_new_node
  BY DEF Registered, num_items, textVars, cur
<1>2. \A p : Heading(d, p)' <=> Heading(d, p)
  BY <1>1, SameText, SameReading DEF Heading
<1>3. Pending(d)' <=> Pending(d)
  BY <1>1, SameText, SameReading DEF Pending
<1> QED BY <1>2, <1>3

LEMMA RightWorded ==
  ASSUME IInv, NEW d, TreeRight(d)
  PROVE  Worded(d) /\ Complete
BY DEF IInv, TreeRight, Worded

-----------------------------------------------------------------------------
(* The first state, and the steps between two additions.                   *)

LEMMA InitRight == Init => \E d : Right(d)
<1> SUFFICES ASSUME Init PROVE \E d : Right(d)
  OBVIOUS
<1> DEFINE d == [n \in DOMAIN node |-> 0]
<1>1. /\ node = << node_new(NULL, 0, -1) >> /\ edge = << >> /\ strings = << >> /\ hash = << >>
      /\ pc = "idle"
  BY DEF Init
<1>2. DOMAIN node = { Root } /\ DOMAIN edge = {} /\ DOMAIN hash = {}
  BY <1>1 DEF Root
<1>3. Inner = {} /\ Registered = {}
  BY <1>2 DEF Inner, Registered
<1>4. TreeRight(d) /\ Links(d)
  BY <1>1, <1>2, <1>3 DEF TreeRight, Depths, Windows, Window, Forks, Complete, Links, node_new
<1>5. ControlRight(d)
  <2>1. prev_new_node = NULL /\ ~ stop_extensions /\ find_skipstring /\ last_extension = 0
    BY DEF Init
  <2> QED BY <1>1, <1>2, <2>1 DEF ControlRight, Between, MatchRight, PhaseRight, ExtendRight,
                                  FollowRight, InsertRight, Working
<1> QED BY <1>4, <1>5 DEF Right

(* A step between two additions, or one that starts an addition.           *)
LEMMA AllowDuplicatesRight ==
  ASSUME IInv, NEW d, Right(d), NEW flag \in BOOLEAN, AllowDuplicates(flag)
  PROVE  Right(d)'
<1>1. /\ UNCHANGED << textVars, hash >> /\ UNCHANGED << textVars, prev_new_node >>
      /\ UNCHANGED textVars /\ pc = "idle" /\ pc' = "idle" /\ num_strings' = num_strings
  BY DEF AllowDuplicates, textVars, doneVars, shapeVars, loopVars
<1>2. TreeRight(d) /\ Links(d) /\ Between
  BY DEF Right, ControlRight
<1>3. \A t : Made(t)' = Made(t)
  BY <1>1 DEF Made, textVars
<1>4. TreeRight(d)' /\ Links(d)'
  BY <1>1, <1>2, <1>3, SameWords, SameLinks
<1>5. Between'
  <2>1. UNCHANGED << prev_new_node, stop_extensions, find_skipstring, last_extension >>
    BY DEF AllowDuplicates, loopVars
  <2> QED BY <1>1, <1>2, <2>1 DEF Between, textVars, Working
<1>6. ControlRight(d)'
  BY <1>1, <1>5 DEF ControlRight, MatchRight, PhaseRight, ExtendRight, FollowRight, InsertRight
<1> QED BY <1>4, <1>6 DEF Right

LEMMA AddStringRight ==
  ASSUME IInv, NEW d, Right(d), NEW w \in Inputs, AddString(w)
  PROVE  Right(d)'
<1>1. /\ strings' = Append(strings, w) /\ hash' = Append(hash, -1) /\ phases' = Append(phases, 0)
      /\ node' = node /\ edge' = edge /\ prev_new_node' = prev_new_node
      /\ num_strings' = num_strings /\ pc = "idle" /\ pc' \in { "enter", "check" }
  BY DEF AddString, doneVars, shapeVars, loopVars
<1>2. TreeRight(d) /\ Links(d) /\ Between /\ Worded(d) /\ TypeOK
  BY RightWorded DEF Right, ControlRight, IInv
<1>3. /\ cur \in Nat /\ cur' = cur + 1 /\ DOMAIN strings = 1..cur /\ DOMAIN hash = 1..cur
      /\ DOMAIN phases = 1..cur /\ DOMAIN strings' = 1..(cur + 1) /\ DOMAIN hash' = 1..(cur + 1)
      /\ \A s \in 1..cur : strings'[s] = strings[s] /\ hash'[s] = hash[s] /\ phases'[s] = phases[s]
      /\ hash'[cur + 1] = -1 /\ phases'[cur + 1] = 0
  <2>1. strings \in Seq(Inputs) /\ hash \in Seq(Int) /\ phases \in Seq(Int)
        /\ Len(hash) = Len(strings) /\ Len(phases) = Len(strings)
    BY <1>2 DEF TypeOK, TableType
  <2> QED BY <1>1, <2>1 DEF cur
<1>4. Registered' = Registered /\ Registered \in SUBSET (1..cur)
  BY <1>3 DEF Registered
<1>5. \A s \in 1..cur : \A k : Item(s, k)' = Item(s, k)
  BY <1>1, <1>3 DEF Item
<1>6. \A s, t \in 1..cur : \A k, x, l : Agree(s, k, t, x, l)' <=> Agree(s, k, t, x, l)
  BY <1>5 DEF Agree
<1>7. \A e \in DOMAIN edge : edge[e].str \in 1..cur /\ edge[e].phase \in 0..cur
  <2>1. \A e \in DOMAIN edge : edge[e] \in EdgeType
    BY <1>2, Domains
  <2> QED BY <2>1 DEF EdgeType, cur
<1>8. \A e \in DOMAIN edge : end_index(e)' = end_index(e)
  BY <1>1, <1>3, <1>7 DEF end_index, Local
<1>9. \A e \in DOMAIN edge : lst_edge_get_length(e)' = lst_edge_get_length(e)
  BY <1>1, <1>8 DEF lst_edge_get_length
<1>10. (\A e : Open(e)' <=> Open(e)) /\ (\A e : From(d, e)' = From(d, e))
       /\ (\A n : kids(n)' = kids(n)) /\ (\A n : Str(n)' = Str(n))
  BY <1>1 DEF Open, From, kids, Str
<1>11. \A n : Pos(d, n)' = Pos(d, n)
  BY <1>1, <1>10 DEF Pos
<1>12. Inner' = Inner /\ \A n : InnerOrRoot(n)' <=> InnerOrRoot(n)
  BY <1>1, <1>10 DEF Inner, InnerOrRoot, lst_node_is_leaf
<1>13. \A n \in DOMAIN node : n # Root => Str(n) \in 1..cur
  BY <1>2, <1>3, NodeWords
<1>14. \A n \in DOMAIN node : \A s \in 1..cur : \A k, l : AtNode(d, n, s, k, l)' <=> AtNode(d, n, s, k, l)
  BY <1>6, <1>10, <1>11, <1>13 DEF AtNode
<1>15. \A t \in Registered : Made(t)' = Made(t) /\ Made(t) = Len(strings[t]) + 1
  <2>1. \A t \in Registered : t \in 1..cur /\ t # cur'
    BY <1>3, <1>4
  <2> QED BY <1>1, <1>3, <2>1 DEF Made
<1>16. Depths(d)'
  BY <1>1, <1>2, <1>9 DEF TreeRight, Depths
<1>17. Windows(d)'
  <2>1. ASSUME NEW e \in DOMAIN edge
        PROVE  (/\ edge[e].str \in Registered
                /\ From(d, e) >= 0 /\ From(d, e) < Made(edge[e].str)
                /\ end_index(e) <= phases[edge[e].str]
                /\ Open(e) => edge[e].phase = edge[e].str /\ node[edge[e].dst].index = From(d, e)
                /\ AtNode(d, edge[e].src, edge[e].str, From(d, e), d[edge[e].src]))'
    <3>1. (/\ edge[e].str \in Registered
           /\ From(d, e) >= 0 /\ From(d, e) < Made(edge[e].str)
           /\ end_index(e) <= phases[edge[e].str]
           /\ Open(e) => edge[e].phase = edge[e].str /\ node[edge[e].dst].index = From(d, e)
           /\ AtNode(d, edge[e].src, edge[e].str, From(d, e), d[edge[e].src]))
      BY <1>2 DEF TreeRight, Windows, Window
    <3>2. edge[e].src \in DOMAIN node /\ edge[e].str \in 1..cur
      BY <1>2, <1>7, EdgeWords
    <3>3. AtNode(d, edge[e].src, edge[e].str, From(d, e), d[edge[e].src])'
      BY <1>1, <1>10, <1>14, <3>1, <3>2
    <3> QED BY <1>1, <1>3, <1>4, <1>8, <1>10, <1>15, <3>1, <3>2, <3>3
  <2> QED BY <1>1, <2>1 DEF Windows, Window
<1>18. Forks'
  BY <1>1, <1>2, <1>5, <1>7, <1>10, <1>12 DEF TreeRight, Forks
<1>19. Complete'
  <2>1. \A t, x : HasSuffix(t, x)' <=> HasSuffix(t, x)
    BY <1>1, <1>10 DEF HasSuffix
  <2>2. \A t \in Registered : phases'[t] = phases[t] /\ strings'[t] = strings[t] /\ phases[t] = Len(strings[t])
    BY <1>1, <1>2, <1>3, <1>4 DEF TreeRight, Complete
  <2>3. \A t \in Registered : Len(strings[t]) \in Nat
    BY <1>2, <1>3, <1>4, Markers
  <2> QED BY <1>2, <1>4, <1>15, <2>1, <2>2, <2>3 DEF TreeRight, Complete
<1>20. Links(d)'
  <2>1. ASSUME NEW n \in Inner \ { prev_new_node } PROVE LinkRight(d, n)'
    <3>0. PICK m : m = node[n].suffix_link_node
      OBVIOUS
    <3>1. InnerOrRoot(m) /\ AtNode(d, m, Str(n), Pos(d, n) + 1, d[n] - 1)
      BY <1>2, <3>0 DEF Links, LinkRight
    <3>2. m \in DOMAIN node /\ Str(n) \in 1..cur
      BY <1>13, <3>1 DEF InnerOrRoot, Inner
    <3>3. InnerOrRoot(m)' /\ AtNode(d, m, Str(n), Pos(d, n) + 1, d[n] - 1)'
      <4>1. Str(n)' = Str(n) /\ Pos(d, n)' = Pos(d, n)
        BY <1>10, <1>11
      <4> QED BY <1>12, <1>14, <3>1, <3>2, <4>1
    <3> QED BY <1>1, <3>0, <3>3 DEF LinkRight
  <2> QED BY <1>1, <1>2, <1>12, <2>1 DEF Links
<1>21. Between'
  <2>1. pc' \notin Working /\ pc' # "idle"
    BY <1>1 DEF Working
  <2>2. UNCHANGED << prev_new_node, stop_extensions, find_skipstring, last_extension >>
    BY DEF AddString, loopVars
  <2> QED BY <1>1, <1>2, <1>3, <1>4, <2>1, <2>2 DEF Between
<1>22. ControlRight(d)'
  BY <1>1, <1>21 DEF ControlRight, MatchRight, PhaseRight, ExtendRight, FollowRight, InsertRight
<1> QED BY <1>16, <1>17, <1>18, <1>19, <1>20, <1>22 DEF Right, TreeRight

LEMMA EnterNextStringRight ==
  ASSUME IInv, NEW d, Right(d), EnterNextString
  PROVE  Right(d)'
<1>1. /\ UNCHANGED textVars /\ UNCHANGED << textVars, prev_new_node, stop_extensions >>
      /\ node' = node /\ edge' = edge /\ strings' = strings /\ phases' = phases
      /\ hash' = [hash EXCEPT ![cur] = string_index] /\ num_strings' = num_strings
      /\ pc = "enter" /\ pc' = "match" /\ skip' = WalkFromRoot(num_items(cur))
  BY DEF EnterNextString, Register, textVars, doneVars, shapeVars, loopVars
<1>2. TreeRight(d) /\ Links(d) /\ Between /\ Worded(d) /\ Complete /\ TypeOK /\ cur \in DOMAIN strings
  BY <1>1, RightWorded DEF Right, ControlRight, IInv, WellPlaced
<1>3. Registered' = Registered \cup { cur }
  <2>1. string_index >= 0 /\ cur \in DOMAIN hash
    BY <1>2, Domains DEF TypeOK, TableType
  <2> QED BY <1>1, <2>1 DEF Registered
<1>4. cur \notin Registered /\ phases[cur] = 0 /\ prev_new_node = NULL /\ ~ stop_extensions
  BY <1>1, <1>2 DEF Between
<1>5. Links(d)'
  BY <1>1, <1>2, SameLinks
<1>6. (\A t \in Registered : Made(t)' = Made(t)) /\ \A t : t = cur => Made(t)' = 0
  <2>1. cur' = cur
    BY <1>1, SameText
  <2> QED BY <1>1, <1>4, <2>1 DEF Made
<1>7. Depths(d)' /\ Windows(d)' /\ Forks'
  BY <1>1, <1>2, <1>3, <1>6, SameWindows
<1>8. Complete'
  <2>1. ASSUME NEW t \in Registered' PROVE \A x \in (0..(Made(t) - 1))' : HasSuffix(t, x)'
    <3>1. CASE t \in Registered
      BY <1>1, <1>2, <1>6, <3>1, SameText DEF Complete
    <3>2. CASE t = cur
      BY <1>6, <3>2
    <3> QED BY <1>3, <3>1, <3>2
  <2>2. ASSUME NEW t \in Registered'
        PROVE  (/\ phases[t] <= Len(strings[t])
                /\ t # cur \/ pc = "idle" => phases[t] = Len(strings[t]))'
    <3>1. CASE t \in Registered
      BY <1>1, <1>2, <1>4, <3>1, SameText DEF Complete
    <3>2. CASE t = cur
      <4>1. Len(strings[cur]) \in Nat
        BY <1>2, Markers
      <4> QED BY <1>1, <1>4, <3>2, <4>1, SameText
    <3> QED BY <1>3, <3>1, <3>2
  <2> QED BY <2>1, <2>2 DEF Complete
<1>9. Between'
  BY <1>1, <1>3, SameText DEF Between, Working
<1>10. MatchRight(d)'
  <2>1. skip'.done = 0 /\ skip'.todo = num_items(cur) /\ skip'.node = Root
    BY <1>1 DEF WalkFromRoot
  <2>2. Len(strings[cur]) \in Nat /\ num_items(cur) = Len(strings[cur]) + 1 /\ num_items(cur)' = num_items(cur)
    BY <1>1, <1>2, Markers, SameText DEF num_items
  <2>3. InnerOrRoot(Root) /\ AtNode(d, Root, cur, 0, 0)
    BY <1>2, Domains DEF InnerOrRoot, AtNode, TreeRight, Depths
  <2>4. InnerOrRoot(Root)' /\ AtNode(d, Root, cur, 0, 0)'
    BY <1>1, <2>3, SameText, SameReading
  <2> QED BY <1>1, <1>4, <2>1, <2>2, <2>4, SameText DEF MatchRight
<1>11. ControlRight(d)'
  BY <1>1, <1>9, <1>10 DEF ControlRight, PhaseRight, ExtendRight, FollowRight, InsertRight
<1> QED BY <1>5, <1>7, <1>8, <1>11 DEF Right, TreeRight

-----------------------------------------------------------------------------
(* The match of a string from the root.                                    *)
LEMMA CheckDuplicateRight ==
  ASSUME IInv, NEW d, Right(d), CheckDuplicate
  PROVE  Right(d)'
<1>1. /\ UNCHANGED << textVars, hash >> /\ UNCHANGED << textVars, prev_new_node >>
      /\ UNCHANGED textVars /\ pc = "check" /\ pc' \in { "idle", "enter" }
      /\ UNCHANGED << num_strings, prev_new_node, stop_extensions, find_skipstring, last_extension >>
      /\ hash' = hash /\ phases' = phases
  BY DEF CheckDuplicate, textVars, tableVars, doneVars, shapeVars, loopVars
<1>2. TreeRight(d) /\ Links(d) /\ Between
  BY DEF Right, ControlRight
<1>3. cur \notin Registered /\ cur' = cur /\ Registered' = Registered
  BY <1>1, <1>2, SameText DEF Between, Registered
<1>4. \A t \in Registered : Made(t)' = Made(t)
  BY <1>1, <1>3, SameText DEF Made, textVars
<1>5. Links(d)'
  BY <1>1, <1>2, SameLinks
<1>6. Between'
  BY <1>1, <1>2, <1>3 DEF Between, Working, textVars
<1>7. ControlRight(d)'
  BY <1>1, <1>6 DEF ControlRight, MatchRight, PhaseRight, ExtendRight, FollowRight, InsertRight
<1>8. TreeRight(d)'
  BY <1>1, <1>2, <1>3, <1>4, SameWords
<1> QED BY <1>5, <1>7, <1>8 DEF Right

LEMMA MadeType ==
  ASSUME TypeOK, NEW t \in Registered
  PROVE  Made(t) \in Int /\ phases[t] \in Int /\ t \in DOMAIN strings
<1>1. t \in DOMAIN strings /\ phases[t] \in Int
  BY Domains DEF Registered
<1>2. Len(strings[t]) \in Nat /\ last_extension \in Int /\ j \in Int
  BY <1>1, Markers DEF TypeOK, LocalType
<1> QED BY <1>1, <1>2 DEF Made

(* The words on an edge whose upper end reads a given word.                *)
LEMMA UpperWords ==
  ASSUME NEW d, Worded(d), NEW e \in DOMAIN edge, NEW s, NEW k,
         AtNode(d, edge[e].src, s, k, d[edge[e].src])
  PROVE  OnEdge(d, e, s, k, d[edge[e].src])
<1> DEFINE p == edge[e].src
<1>1. AtNode(d, p, edge[e].str, From(d, e), d[p])
  BY DEF Worded, Windows, Window
<1>2. CASE p = Root
  BY <1>2 DEF Worded, Depths, OnEdge, Agree
<1>3. CASE p # Root
  BY <1>1, <1>3, AgreeSym, AgreeTrans DEF AtNode, OnEdge
<1> QED BY <1>2, <1>3

LEMMA OntoEdge ==
  ASSUME NEW d, Worded(d), NEW e \in DOMAIN edge, NEW s, NEW k \in Int, NEW q \in Int,
         AtNode(d, edge[e].src, s, k, d[edge[e].src]),
         Agree(edge[e].str, edge[e].start_index, s, k + d[edge[e].src], q)
  PROVE  OnEdge(d, e, s, k, d[edge[e].src] + q)
<1>1. /\ d[edge[e].src] \in Nat /\ From(d, e) \in Int
      /\ edge[e].start_index = From(d, e) + d[edge[e].src]
  BY EdgeWords
<1>2. Agree(edge[e].str, From(d, e), s, k, d[edge[e].src])
  BY UpperWords DEF OnEdge
<1> QED BY <1>1, <1>2, AgreeJoin DEF OnEdge

(* What ends at a node or in an edge can be read.                          *)
LEMMA AtReadable ==
  ASSUME NEW d, Worded(d), NEW p, NEW s, NEW k, NEW l \in Int, At(d, p, s, k, l), Interior(p)
  PROVE  Readable(s, k, l)
<1> SUFFICES ASSUME l > 0 PROVE Readable(s, k, l)
  BY DEF Readable
<1>1. ASSUME NEW e \in DOMAIN edge, OnEdge(d, e, s, k, l), l <= d[edge[e].dst]
      PROVE  Readable(s, k, l)
  <2>1. /\ From(d, e) \in Nat /\ end_index(e) \in Int /\ edge[e].str \in Registered
        /\ d[edge[e].dst] = end_index(e) - From(d, e) + 1 /\ From(d, e) < Made(edge[e].str)
        /\ end_index(e) <= phases[edge[e].str]
    BY EdgeWords DEF Worded, Windows, Window
  <2>2. Made(edge[e].str) \in Int /\ phases[edge[e].str] \in Int
    BY <2>1, MadeType DEF Worded
  <2>3. From(d, e) \in 0..(Made(edge[e].str) - 1) /\ l <= phases[edge[e].str] - From(d, e) + 1
    BY <1>1, <2>1, <2>2
  <2> QED BY <1>1, <2>1, <2>3 DEF Readable, OnEdge
<1>2. CASE p.node # NULL
  <2>1. InnerOrRoot(p.node) /\ AtNode(d, p.node, s, k, l)
    BY <1>2 DEF At
  <2>2. p.node \in DOMAIN node /\ p.node # Root
    BY <2>1 DEF InnerOrRoot, AtNode, Worded, Depths
  <2>3. /\ node[p.node].up_edge \in DOMAIN edge /\ edge[node[p.node].up_edge].dst = p.node
        /\ d[p.node] \in Nat
    BY <2>2, NodeWords
  <2>4. OnEdge(d, node[p.node].up_edge, s, k, l) /\ l = d[p.node]
    BY <2>1, <2>2 DEF AtNode, OnEdge, Str, Pos
  <2> QED BY <1>1, <2>3, <2>4
<1>3. CASE p.node = NULL
  <2>1. /\ p.edge \in DOMAIN edge /\ l = d[edge[p.edge].src] + p.offset /\ OnEdge(d, p.edge, s, k, l)
        /\ p.offset \in 1..(lst_edge_get_length(p.edge) - 1)
    BY <1>3 DEF At, Interior
  <2>2. /\ d[edge[p.edge].src] \in Nat /\ lst_edge_get_length(p.edge) \in Int
        /\ d[edge[p.edge].dst] = d[edge[p.edge].src] + lst_edge_get_length(p.edge)
    BY <2>1, EdgeWords, EdgeEnds DEF Worded, Depths
  <2>3. PICK o \in Int : o = p.offset
    BY <2>1
  <2>4. l <= d[edge[p.edge].dst]
    <3>1. l = d[edge[p.edge].src] + o /\ o < lst_edge_get_length(p.edge)
      BY <2>1, <2>2, <2>3
    <3> QED BY <2>2, <3>1
  <2> QED BY <1>1, <2>1, <2>4
<1> QED BY <1>2, <1>3

LEMMA ReadableShorter ==
  ASSUME TypeOK, NEW s, NEW k, NEW l \in Int, Readable(s, k, l), NEW q \in Int, q <= l
  PROVE  Readable(s, k, q)
<1> SUFFICES ASSUME q > 0 PROVE Readable(s, k, q)
  BY DEF Readable
<1>1. PICK t \in Registered : \E x \in 0..(Made(t) - 1) :
        l <= phases[t] - x + 1 /\ Agree(t, x, s, k, l)
  BY DEF Readable
<1>2. PICK x \in 0..(Made(t) - 1) : l <= phases[t] - x + 1 /\ Agree(t, x, s, k, l)
  BY <1>1
<1>3. phases[t] \in Int
  BY MadeType
<1>4. Agree(t, x, s, k, q) /\ q <= phases[t] - x + 1
  BY <1>2, <1>3, AgreeShorter
<1> QED BY <1>4 DEF Readable

LEMMA ReadableSame ==
  ASSUME NEW s, NEW k, NEW l, Readable(s, k, l), NEW t, NEW x, Agree(s, k, t, x, l)
  PROVE  Readable(t, x, l)
BY AgreeTrans DEF Readable

(* Every suffix of what a string begins with can be read, before there is  *)
(* anything of that string in the tree.                                    *)
LEMMA MatchReadable ==
  ASSUME TypeOK, Complete, Made(cur) = 0, NEW s, NEW l \in Int, Readable(s, 0, l), NEW q \in 0..l
  PROVE  Readable(s, q, l - q)
<1> SUFFICES ASSUME q < l PROVE Readable(s, q, l - q)
  BY DEF Readable
<1>1. PICK t \in Registered : \E x \in 0..(Made(t) - 1) :
        l <= phases[t] - x + 1 /\ Agree(t, x, s, 0, l)
  BY DEF Readable
<1>2. PICK x \in 0..(Made(t) - 1) : l <= phases[t] - x + 1 /\ Agree(t, x, s, 0, l)
  BY <1>1
<1>3. t # cur /\ phases[t] \in Int /\ Made(t) \in Int
  BY <1>2, MadeType
<1>4. phases[t] = Len(strings[t]) /\ Made(t) = Len(strings[t]) + 1
  BY <1>3 DEF Complete, Made
<1>5. x + q \in 0..(Made(t) - 1) /\ l - q <= phases[t] - (x + q) + 1
  BY <1>2, <1>3, <1>4
<1>6. Agree(t, x + q, s, 0 + q, l - q)
  BY <1>2, AgreeSub
<1> QED BY <1>5, <1>6 DEF Readable

(* An edge that the match of a string goes along.                          *)
LEMMA Matched ==
  ASSUME NEW d, Worded(d), Complete, cur \in DOMAIN strings, Made(cur) = 0, MatchRight(d), pc = "match",
         MatchEdge # NULL
  PROVE  /\ MatchEdge \in DOMAIN edge /\ edge[MatchEdge].src = skip.node
         /\ d[skip.node] = skip.done /\ skip.done \in Nat /\ MatchItems \in Nat /\ MatchItems >= 1
         /\ OnEdge(d, MatchEdge, cur, 0, skip.done + MatchItems)
         /\ skip.done + MatchItems <= Len(strings[cur])
<1> DEFINE e == MatchEdge
           n == MatchItems
<1>1. /\ skip.done \in Int /\ skip.todo \in Int /\ Len(strings[cur]) \in Nat
      /\ num_items(cur) = Len(strings[cur]) + 1
  <2>1. skip \in SkipType
    BY DEF Worded, TypeOK, LocalType
  <2> QED BY <2>1, Markers DEF SkipType, Worded, num_items
<1>2. /\ 0 <= skip.done /\ skip.done < num_items(cur) /\ skip.todo = num_items(cur) - skip.done
      /\ skip.node \in DOMAIN node /\ AtNode(d, skip.node, cur, 0, skip.done)
  BY <1>1 DEF MatchRight, InnerOrRoot
<1>3. /\ e \in DOMAIN edge /\ edge[e].src = skip.node
      /\ lst_string_eq(edge[e].str, edge[e].start_index, cur, skip.done)
  BY <1>1, <1>2, EdgeChosen DEF MatchEdge
<1>4. /\ n \in Nat
      /\ n <= skip.todo \/ n = 0
      /\ \A m \in 0..(n - 1) :
           lst_string_eq(edge[e].str, edge[e].start_index + m, cur, skip.done + m)
  BY <1>1, CommonItems DEF MatchItems
<1>5. n >= 1
  <2>1. edge[e].start_index + 0 = edge[e].start_index /\ skip.done + 0 = skip.done /\ 1 <= skip.todo
    BY <1>1, <1>2, <1>3, EdgeEnds DEF Worded
  <2>2. \A m \in 0..(1 - 1) : m = 0
    OBVIOUS
  <2>3. \A m \in 0..(1 - 1) :
          lst_string_eq(edge[e].str, edge[e].start_index + m, cur, skip.done + m)
    BY <1>3, <2>1, <2>2
  <2> QED BY <1>1, <2>1, <2>3, CommonMost DEF MatchItems
<1> HIDE DEF e, n
<1>6. Agree(edge[e].str, edge[e].start_index, cur, skip.done, n)
  BY <1>4 DEF Agree, lst_string_eq
<1>7. d[skip.node] = skip.done
  BY <1>2 DEF AtNode
<1>8. OnEdge(d, e, cur, 0, skip.done + n)
  <2>0. PICK k \in Int : k = 0
    OBVIOUS
  <2>1. AtNode(d, edge[e].src, cur, k, d[edge[e].src])
    BY <1>2, <1>3, <1>7, <2>0
  <2>2. Agree(edge[e].str, edge[e].start_index, cur, k + d[edge[e].src], n)
    BY <1>1, <1>3, <1>6, <1>7, <2>0
  <2>3. e \in DOMAIN edge /\ n \in Int
    BY <1>3, <1>4
  <2>4. OnEdge(d, e, cur, k, d[edge[e].src] + n)
    BY ONLY Worded(d), <2>1, <2>2, <2>3, OntoEdge
  <2> QED BY <1>3, <1>7, <2>0, <2>4
<1>9. skip.done + n <= Len(strings[cur])
  <2>1. PICK m \in Nat : m = n - 1
    BY <1>4, <1>5
  <2>2. lst_string_eq(edge[e].str, edge[e].start_index + m, cur, skip.done + m)
    BY <1>4, <2>1
  <2>3. /\ edge[e].str \in DOMAIN strings /\ edge[e].start_index \in Nat /\ From(d, e) \in Nat
        /\ edge[e].str \in Registered /\ From(d, e) < Made(edge[e].str)
    BY <1>3, EdgeWords DEF Worded, Windows, Window
  <2>4. edge[e].str # cur
    BY <2>3
  <2>5. edge[e].start_index + m <= Len(strings[edge[e].str]) /\ skip.done + m <= Len(strings[cur])
        /\ Item(edge[e].str, edge[e].start_index + m) = Item(cur, skip.done + m)
    <3>1. PICK z \in Nat : z = Len(strings[edge[e].str])
      BY <2>3, Markers DEF Worded
    <3>2. edge[e].start_index + m < z + 1 /\ skip.done + m < Len(strings[cur]) + 1
          /\ Item(edge[e].str, edge[e].start_index + m) = Item(cur, skip.done + m)
      BY <2>2, <3>1 DEF lst_string_eq, num_items
    <3> QED BY SMTT(30), <1>1, <2>1, <2>3, <3>1, <3>2
  <2>6. skip.done + m # Len(strings[cur])
    <3>1. SUFFICES ASSUME skip.done + m = Len(strings[cur]) PROVE FALSE
      OBVIOUS
    <3>2. Item(edge[e].str, edge[e].start_index + m) = -cur
      BY <1>1, <2>5, <3>1, Markers DEF Worded
    <3>3. edge[e].start_index + m \in Int /\ 0 <= edge[e].start_index + m
      BY <2>1, <2>3
    <3> QED BY <2>3, <2>4, <2>5, <3>2, <3>3, Markers DEF Worded
  <2> QED BY <1>1, <1>4, <2>1, <2>5, <2>6
<1> QED BY <1>1, <1>2, <1>3, <1>4, <1>5, <1>7, <1>8, <1>9 DEF e, n

LEMMA MatchStepRight ==
  ASSUME IInv, NEW d, Right(d), MatchStep
  PROVE  Right(d)'
<1> DEFINE e == MatchEdge
           z == lst_edge_get_length(e)
<1>1. /\ UNCHANGED << textVars, hash >> /\ UNCHANGED << textVars, prev_new_node >>
      /\ UNCHANGED textVars /\ pc \in { "check", "match" } /\ pc' = pc
      /\ UNCHANGED << num_strings, prev_new_node, stop_extensions, find_skipstring, last_extension, j >>
      /\ UNCHANGED << hash, phases >> /\ e # NULL /\ MatchItems >= z
      /\ skip' = [skip EXCEPT !.node = edge[e].dst, !.done = @ + z, !.todo = @ - z]
  BY DEF MatchStep, MatchWholeEdge, textVars, tableVars, doneVars, shapeVars, loopVars
<1>2. /\ TreeRight(d) /\ Links(d) /\ Between /\ Worded(d) /\ Complete /\ MatchRight(d) /\ TypeOK
      /\ cur \in DOMAIN strings
  BY <1>1, RightWorded DEF Right, ControlRight, IInv, WellPlaced
<1>3. cur' = cur /\ Registered' = Registered
  BY <1>1, SameText DEF Registered
<1>4. \A t : Made(t)' = Made(t)
  BY <1>1, <1>3, SameText DEF Made, textVars
<1>5. TreeRight(d)' /\ Links(d)'
  BY <1>1, <1>2, <1>4, SameWords, SameLinks
<1>6. Between'
  BY <1>1, <1>2, <1>3 DEF Between, Working, textVars
<1>7. ASSUME pc = "match" PROVE MatchRight(d)'
  <2>1. Made(cur) = 0
    BY <1>7 DEF Made
  <2>2. /\ e \in DOMAIN edge /\ edge[e].src = skip.node
        /\ d[skip.node] = skip.done /\ skip.done \in Nat /\ MatchItems \in Nat
        /\ OnEdge(d, e, cur, 0, skip.done + MatchItems)
        /\ skip.done + MatchItems <= Len(strings[cur])
    BY <1>1, <1>2, <1>7, <2>1, Matched
  <2>3. Len(strings[cur]) \in Nat /\ num_items(cur) = Len(strings[cur]) + 1 /\ num_items(cur)' = num_items(cur)
    <3>1. Len(strings[cur]) \in Nat
      BY <1>2, Markers
    <3> QED BY <1>1, <1>3, <3>1 DEF num_items, textVars
  <2>4. z \in Int /\ z >= 1 /\ edge[e].dst \in DOMAIN node /\ d[edge[e].dst] = skip.done + z
        /\ edge[e].dst # Root /\ Str(edge[e].dst) = edge[e].str /\ Pos(d, edge[e].dst) = From(d, e)
    <3>1. e \in DOMAIN edge /\ edge[e].src = skip.node /\ d[skip.node] = skip.done
      BY <2>2
    <3> HIDE DEF e
    <3>2. z \in Int
      BY <1>2, <3>1, EdgeEnds
    <3>3. z >= 1 /\ d[edge[e].dst] = d[edge[e].src] + z
      BY <1>2, <3>1 DEF Worded, Depths
    <3> QED BY <1>2, <3>1, <3>2, <3>3, EdgeWords
  <2>5. skip'.node = edge[e].dst /\ skip'.done = skip.done + z /\ skip'.todo = skip.todo - z
    <3>1. skip \in SkipType
      BY <1>2 DEF TypeOK, LocalType
    <3> QED BY <1>1, <3>1 DEF SkipType
  <2>6. skip.todo = num_items(cur) - skip.done
    BY <1>2, <1>7 DEF MatchRight
  <2> HIDE DEF e, z
  <2>7. AtNode(d, edge[e].dst, cur, 0, skip.done + z)
    <3>1. OnEdge(d, e, cur, 0, skip.done + z)
      BY <1>1, <2>2, <2>4, AgreeShorter DEF OnEdge
    <3> QED BY <2>4, <3>1 DEF AtNode, OnEdge
  <2>8. InnerOrRoot(edge[e].dst)
    <3>1. PICK l \in Int : l = skip.done + z
      BY <2>2, <2>4
    <3>2. AtNode(d, edge[e].dst, cur, 0, l) /\ 0 + l - 1 <= Len(strings[cur])
      BY <1>1, <2>2, <2>3, <2>4, <2>7, <3>1
    <3> QED BY <1>2, <2>1, <2>4, <3>2, NotLeaf
  <2>10. InnerOrRoot(skip'.node) /\ AtNode(d, skip'.node, cur, 0, skip'.done)
    BY <2>5, <2>7, <2>8
  <2>11. prev_new_node = NULL /\ ~ stop_extensions
    BY <1>2, <1>7 DEF MatchRight
  <2>12. skip'.done >= 0 /\ skip'.done <= Len(strings[cur]) /\ skip'.todo = num_items(cur) - skip'.done
    BY <1>1, <2>2, <2>3, <2>4, <2>5, <2>6
  <2> QED BY <1>1, <1>3, <2>3, <2>10, <2>11, <2>12, SameText, SameReading DEF MatchRight, textVars
<1>8. ControlRight(d)'
  BY <1>1, <1>6, <1>7 DEF ControlRight, MatchRight, PhaseRight, ExtendRight, FollowRight, InsertRight
<1> QED BY <1>5, <1>8 DEF Right

LEMMA MatchResultRight ==
  ASSUME IInv, NEW d, Right(d), MatchResult
  PROVE  Right(d)'
<1> DEFINE e == MatchEdge
           n == MatchItems
           z == lst_edge_get_length(e)
<1>1. /\ UNCHANGED << textVars, hash >> /\ UNCHANGED << textVars, prev_new_node >>
      /\ UNCHANGED textVars /\ pc = "match" /\ pc' = "phase"
      /\ UNCHANGED << num_strings, prev_new_node, stop_extensions, hash, phases >>
      /\ last_extension' = -1 /\ ~ find_skipstring' /\ MatchEnds
      /\ i' = MatchDone
      /\ end' = IF skip.todo > 0 /\ e # NULL THEN stree_path_end_edge(e, n)
                                             ELSE stree_path_end_node(skip.node)
  BY DEF MatchResult, textVars, tableVars, doneVars, shapeVars
<1>2. /\ TreeRight(d) /\ Links(d) /\ Between /\ Worded(d) /\ Complete /\ MatchRight(d) /\ TypeOK
      /\ cur \in DOMAIN strings
  BY <1>1, RightWorded DEF Right, ControlRight, IInv, WellPlaced
<1>3. cur' = cur /\ Registered' = Registered
  BY <1>1, SameText DEF Registered
<1>4. Made(cur) = 0 /\ \A t : Made(t)' = Made(t)
  BY <1>1, <1>3, SameText DEF Made, textVars
<1>5. TreeRight(d)' /\ Links(d)' /\ \A s, k, l : Readable(s, k, l)' <=> Readable(s, k, l)
  BY <1>1, <1>2, <1>4, SameWords, SameLinks
<1>6. Between'
  BY <1>1, <1>2, <1>3 DEF Between, Working, textVars
<1>7. Len(strings[cur]) \in Nat /\ num_items(cur)' = Len(strings[cur]) + 1
      /\ num_items(cur) = Len(strings[cur]) + 1
  <2>1. Len(strings[cur]) \in Nat
    BY <1>2, Markers
  <2> QED BY <1>1, <1>3, <2>1 DEF num_items, textVars
<1>8. /\ prev_new_node = NULL /\ skip.done \in Nat /\ skip.done <= Len(strings[cur]) /\ skip.todo > 0
      /\ InnerOrRoot(skip.node) /\ AtNode(d, skip.node, cur, 0, skip.done)
  <2>1. skip \in SkipType
    BY <1>2 DEF TypeOK, LocalType
  <2> QED BY <1>1, <1>2, <1>7, <2>1 DEF MatchRight, SkipType
<1>9. i' \in Nat /\ i' <= Len(strings[cur]) /\ At(d, end', cur, 0, i') /\ Interior(end')
  <2>1. CASE e = NULL
    <3>1. skip.node # NULL
      BY <1>2, <1>8, Domains DEF InnerOrRoot, NULL
    <3>2. end' = stree_path_end_node(skip.node) /\ i' = skip.done
      BY <1>1, <2>1 DEF MatchDone
    <3> QED BY <1>8, <3>1, <3>2 DEF At, Interior, stree_path_end_node
  <2>2. CASE e # NULL
    <3>1. /\ e \in DOMAIN edge /\ edge[e].src = skip.node
          /\ d[skip.node] = skip.done /\ n \in Nat /\ n >= 1
          /\ OnEdge(d, e, cur, 0, skip.done + n)
          /\ skip.done + n <= Len(strings[cur])
      BY <1>1, <1>2, <1>4, <2>2, Matched
    <3>2. end' = stree_path_end_edge(e, n) /\ i' = skip.done + n /\ n < z
      <4>1. ~ (n >= z)
        BY <1>1, <1>8, <2>2 DEF MatchEnds, MatchWholeEdge
      <4>2. z \in Int
        <5> HIDE DEF e
        <5> QED BY <1>2, <3>1, EdgeEnds
      <4> HIDE DEF e, n, z
      <4>3. n < z
        BY <3>1, <4>1, <4>2
      <4> QED BY <1>1, <1>8, <2>2, <4>3 DEF MatchDone, e, n, z
    <3>3. z \in Int
      <4> HIDE DEF e
      <4> QED BY <1>2, <3>1, EdgeEnds
    <3> HIDE DEF e, n
    <3>4. Interior(end')
      BY <3>1, <3>2, <3>3 DEF Interior, stree_path_end_edge
    <3>5. At(d, end', cur, 0, i')
      BY <3>1, <3>2 DEF At, stree_path_end_edge
    <3> QED BY <1>8, <3>1, <3>2, <3>4, <3>5
  <2> QED BY <2>1, <2>2
<1>10. Implicit'
  <2>1. Readable(cur, 0, i')
    BY <1>2, <1>9, AtReadable
  <2>2. \A k \in 0..i' : Readable(cur, k, i' - k)
    BY <1>2, <1>4, <1>9, <2>1, MatchReadable
  <2> QED BY <1>3, <1>5, <2>2 DEF Implicit
<1>11. PhaseRight(d)'
  <2>1. PICK y \in Nat : y = i'
    BY <1>9
  <2>2. last_extension' + 1 = 0 /\ i' - last_extension' - 1 = i'
    BY <1>1, <2>1
  <2>3. At(d, end, cur, last_extension + 1, i - last_extension - 1)' /\ Interior(end)'
    BY <1>1, <1>3, <1>9, <2>2, SameReading
  <2>4. 0 <= i' /\ i' < num_items(cur)' /\ last_extension' < i' /\ -1 <= last_extension' /\ ~ (last_extension' >= 0)
    BY <1>1, <1>7, <1>9
  <2> QED BY <1>1, <1>8, <1>9, <1>7, <1>10, <2>3, <2>4 DEF PhaseRight
<1>12. ControlRight(d)'
  BY <1>1, <1>6, <1>11 DEF ControlRight, MatchRight, ExtendRight, FollowRight, InsertRight
<1> QED BY <1>5, <1>12 DEF Right

-----------------------------------------------------------------------------
(* The head of a phase: the words of the leafs of the string get longer.   *)
LEMMA BeginPhaseRight ==
  ASSUME IInv, NEW d, Right(d), BeginPhase
  PROVE  \E dd : Right(dd)'
<1> DEFINE Longer(n) == n # Root /\ edge[node[n].up_edge].phase = cur
<1>0. PICK dd : dd = [n \in DOMAIN node |-> IF Longer(n) THEN d[n] + 1 ELSE d[n]]
  OBVIOUS
<1>1. /\ strings' = strings /\ hash' = hash /\ node' = node /\ edge' = edge
      /\ pc = "phase" /\ pc' = "extend" /\ i' = i /\ j' = last_extension + 1 /\ ~ stop_extensions'
      /\ use_end' = stop_extensions /\ phases' = [phases EXCEPT ![cur] = i] /\ i < num_items(cur)
      /\ UNCHANGED << num_strings, prev_new_node, find_skipstring, end, last_extension >>
  BY DEF BeginPhase, tableVars, doneVars, shapeVars
<1>2. /\ TreeRight(d) /\ Links(d) /\ Between /\ Worded(d) /\ Complete /\ PhaseRight(d) /\ TypeOK
      /\ cur \in DOMAIN strings /\ TreeShape
  BY <1>1, RightWorded DEF Right, ControlRight, IInv, WellPlaced
<1>3. cur' = cur /\ Registered' = Registered /\ cur # Local
  BY <1>1, <1>2, Domains DEF cur, Registered, Local
<1>4. i \in Nat /\ last_extension \in Int /\ num_items(cur) = Len(strings[cur]) + 1
      /\ Len(strings[cur]) \in Nat /\ phases[cur] \in Int /\ phases'[cur] = i
      /\ \A t : t # cur => phases'[t] = phases[t]
  <2>1. i \in Int /\ last_extension \in Int
    BY <1>2 DEF TypeOK, LocalType
  <2>2. Len(strings[cur]) \in Nat /\ phases[cur] \in Int /\ cur \in DOMAIN phases
    BY <1>2, Markers, Domains
  <2> QED BY <1>1, <1>2, <2>1, <2>2 DEF PhaseRight, num_items
<1>5. /\ -1 <= last_extension /\ last_extension < i /\ prev_new_node = NULL
      /\ At(d, end, cur, last_extension + 1, i - last_extension - 1) /\ Implicit
      /\ last_extension >= 0 => phases[cur] = i - 1
      /\ IF stop_extensions \/ ~ find_skipstring THEN Interior(end) ELSE last_extension = i - 1 /\ (end.node = NULL => end.offset = 0)
  BY <1>1, <1>2 DEF PhaseRight
<1>6. Made(cur) = last_extension + 1 /\ \A t : Made(t)' = Made(t)
  BY <1>1, <1>3 DEF Made
<1>7. ASSUME NEW e \in DOMAIN edge, edge[e].str = cur PROVE phases[cur] = i - 1
  <2>1. From(d, e) \in Nat /\ From(d, e) < Made(cur)
    BY <1>2, <1>7, EdgeWords DEF Worded, Windows, Window
  <2> QED BY <1>4, <1>5, <1>6, <2>1
<1>8. ASSUME NEW n, InnerOrRoot(n) PROVE ~ Longer(n) /\ n \in DOMAIN node /\ dd[n] = d[n]
  <2>1. n \in DOMAIN node
    BY <1>8 DEF InnerOrRoot
  <2>2. n # Root => node[n].up_edge \in DOMAIN edge /\ edge[node[n].up_edge].dst = n
                    /\ ~ lst_node_is_leaf(n)
    BY <1>2, <1>8, <2>1, NodeWords DEF InnerOrRoot
  <2>3. n # Root => edge[node[n].up_edge].phase = Local
    BY <1>2, <2>2 DEF TreeShape, LeafEdgesOpen
  <2> QED BY <1>0, <1>3, <2>1, <2>3
<1>9. \A e \in DOMAIN edge : InnerOrRoot(edge[e].src)
  <2>1. ASSUME NEW e \in DOMAIN edge PROVE InnerOrRoot(edge[e].src)
    <3>1. e \in kids(edge[e].src) /\ edge[e].src \in DOMAIN node
      BY <1>2, EdgeWords DEF kids
    <3> QED BY <3>1 DEF InnerOrRoot, lst_node_is_leaf
  <2> QED BY <2>1
<1>10. (\A n : kids(n)' = kids(n)) /\ (\A n : Str(n)' = Str(n)) /\ (\A e : Open(e)' <=> Open(e))
       /\ (\A s, k : Item(s, k)' = Item(s, k))
  BY <1>1 DEF kids, Str, Open, Item
<1>11. \A s, k, t, x, l : Agree(s, k, t, x, l)' <=> Agree(s, k, t, x, l)
  BY <1>10 DEF Agree
<1>12. Inner' = Inner /\ \A n : InnerOrRoot(n)' <=> InnerOrRoot(n)
  BY <1>1, <1>10 DEF Inner, InnerOrRoot, lst_node_is_leaf
<1> HIDE DEF Longer
<1>13. \A e \in DOMAIN edge : From(dd, e)' = From(d, e)
  BY <1>1, <1>8, <1>9 DEF From
<1>14. \A n \in DOMAIN node : n # Root => Pos(dd, n)' = Pos(d, n)
  <2>1. \A n \in DOMAIN node : n # Root => node[n].up_edge \in DOMAIN edge
    BY <1>2, NodeWords
  <2> QED BY <1>1, <1>13, <2>1 DEF Pos
<1>15. \A n, s, k, l : InnerOrRoot(n) => (AtNode(dd, n, s, k, l)' <=> AtNode(d, n, s, k, l))
  BY <1>8, <1>10, <1>11, <1>14 DEF AtNode
<1>16. \A e \in DOMAIN edge : /\ edge[e].phase = cur =>
                                   end_index(e)' = end_index(e) + 1 /\ end_index(e)' = i
                              /\ edge[e].phase # cur => end_index(e)' = end_index(e)
  <2>1. ASSUME NEW e \in DOMAIN edge, edge[e].phase = cur
        PROVE  end_index(e)' = end_index(e) + 1 /\ end_index(e)' = i
    <3>1. edge[e].str = cur
      BY <1>2, <1>3, <2>1 DEF Worded, Windows, Window, Open
    <3>2. phases[cur] = i - 1
      BY <1>7, <3>1
    <3> QED BY <1>1, <1>3, <1>4, <2>1, <3>2 DEF end_index
  <2> QED BY <1>1, <1>4, <2>1 DEF end_index
<1>17. Depths(dd)'
  <2>1. dd \in [DOMAIN node -> Nat] /\ dd[Root] = 0
    <3>1. d \in [DOMAIN node -> Nat] /\ d[Root] = 0 /\ Root \in DOMAIN node
      BY <1>2, Domains DEF Worded, Depths
    <3> QED BY <1>0, <3>1 DEF Longer
  <2>2. ASSUME NEW e \in DOMAIN edge
        PROVE  lst_edge_get_length(e)' >= 1
               /\ dd[edge[e].dst] = dd[edge[e].src] + lst_edge_get_length(e)'
    <3>1. /\ lst_edge_get_length(e) >= 1 /\ d[edge[e].dst] = d[edge[e].src] + lst_edge_get_length(e)
          /\ edge[e].dst \in DOMAIN node /\ edge[e].dst # Root /\ node[edge[e].dst].up_edge = e
          /\ end_index(e) \in Int /\ edge[e].start_index \in Int /\ d[edge[e].src] \in Nat
      BY <1>2, EdgeWords DEF Worded, Depths
    <3>2. dd[edge[e].src] = d[edge[e].src]
      BY <1>8, <1>9
    <3>3. lst_edge_get_length(e)' = end_index(e)' - edge[e].start_index + 1
      BY <1>1 DEF lst_edge_get_length
    <3>4. lst_edge_get_length(e) = end_index(e) - edge[e].start_index + 1
      BY DEF lst_edge_get_length
    <3>5. dd[edge[e].dst] = IF edge[e].phase = cur THEN d[edge[e].dst] + 1 ELSE d[edge[e].dst]
      BY <1>0, <3>1 DEF Longer
    <3>6. CASE edge[e].phase = cur
      BY <1>16, <3>1, <3>2, <3>3, <3>4, <3>5, <3>6
    <3>7. CASE edge[e].phase # cur
      BY <1>16, <3>1, <3>2, <3>3, <3>4, <3>5, <3>7
    <3> QED BY <3>6, <3>7
  <2> QED BY <1>1, <2>1, <2>2 DEF Depths
<1>18. Windows(dd)'
  <2>1. ASSUME NEW e \in DOMAIN edge
        PROVE  (/\ edge[e].str \in Registered
                /\ From(dd, e) >= 0 /\ From(dd, e) < Made(edge[e].str)
                /\ end_index(e) <= phases[edge[e].str]
                /\ Open(e) => edge[e].phase = edge[e].str /\ node[edge[e].dst].index = From(dd, e)
                /\ AtNode(dd, edge[e].src, edge[e].str, From(dd, e), dd[edge[e].src]))'
    <3>1. (/\ edge[e].str \in Registered
           /\ From(d, e) >= 0 /\ From(d, e) < Made(edge[e].str)
           /\ end_index(e) <= phases[edge[e].str]
           /\ Open(e) => edge[e].phase = edge[e].str /\ node[edge[e].dst].index = From(d, e)
           /\ AtNode(d, edge[e].src, edge[e].str, From(d, e), d[edge[e].src]))
      BY <1>2 DEF Worded, Windows, Window
    <3>2. end_index(e)' <= phases'[edge[e].str]
      <4>1. CASE edge[e].phase = cur
        <5>1. edge[e].str = cur
          BY <1>3, <3>1, <4>1 DEF Open
        <5> QED BY <1>4, <1>16, <4>1, <5>1
      <4>2. CASE edge[e].phase # cur /\ edge[e].str = cur
        <5>1. end_index(e) \in Int /\ phases[cur] = i - 1 /\ end_index(e) <= phases[cur]
          BY <1>2, <1>7, <3>1, <4>2, EdgeWords
        <5> QED BY <1>4, <1>16, <4>2, <5>1
      <4>3. CASE edge[e].phase # cur /\ edge[e].str # cur
        BY <1>4, <1>16, <3>1, <4>3
      <4> QED BY <4>1, <4>2, <4>3
    <3>3. dd[edge[e].src] = d[edge[e].src] /\ InnerOrRoot(edge[e].src)
      BY <1>8, <1>9
    <3>4. AtNode(dd, edge[e].src, edge[e].str, From(dd, e), dd[edge[e].src])'
      <4>1. From(dd, e)' = From(d, e)
        BY <1>13
      <4> QED BY <1>1, <1>15, <3>1, <3>3, <4>1
    <3> QED BY <1>1, <1>3, <1>6, <1>10, <1>13, <3>1, <3>2, <3>4
  <2> QED BY <1>1, <2>1 DEF Windows, Window
<1>19. Forks'
  BY <1>1, <1>2, <1>10, <1>12 DEF TreeRight, Forks
<1>20. Complete'
  <2>1. \A t, x : HasSuffix(t, x)' <=> HasSuffix(t, x)
    BY <1>1, <1>10 DEF HasSuffix
  <2>2. i <= Len(strings[cur])
    BY <1>1, <1>4
  <2> QED BY <1>1, <1>2, <1>3, <1>4, <1>6, <2>1, <2>2 DEF Complete
<1>21. Links(dd)'
  <2>1. ASSUME NEW n \in Inner \ { prev_new_node } PROVE LinkRight(dd, n)'
    <3>1. PICK m : m = node[n].suffix_link_node
      OBVIOUS
    <3>2. InnerOrRoot(m) /\ AtNode(d, m, Str(n), Pos(d, n) + 1, d[n] - 1)
      BY <1>2, <3>1 DEF Links, LinkRight
    <3>3. InnerOrRoot(n) /\ n \in DOMAIN node /\ n # Root
      BY DEF Inner, InnerOrRoot
    <3>4. dd[n] = d[n] /\ Pos(dd, n)' = Pos(d, n) /\ Str(n)' = Str(n)
      BY <1>8, <1>10, <1>14, <3>3
    <3>5. InnerOrRoot(m)' /\ AtNode(dd, m, Str(n), Pos(dd, n) + 1, dd[n] - 1)'
      BY <1>12, <1>15, <3>2, <3>4
    <3> QED BY <1>1, <3>1, <3>5 DEF LinkRight
  <2> QED BY <1>1, <1>2, <1>12, <2>1 DEF Links
<1>22. Between'
  BY <1>1, <1>2, <1>3 DEF Between, Working
<1>23. Implicit'
  <2>1. ASSUME NEW s, NEW k, NEW l \in Int, Readable(s, k, l) PROVE Readable(s, k, l)'
    <3>1. CASE l <= 0
      BY <3>1 DEF Readable
    <3>2. CASE ~ (l <= 0)
      <4>1. PICK t \in Registered : \E x \in 0..(Made(t) - 1) :
              l <= phases[t] - x + 1 /\ Agree(t, x, s, k, l)
        BY <2>1, <3>2 DEF Readable
      <4>2. PICK x \in 0..(Made(t) - 1) : l <= phases[t] - x + 1 /\ Agree(t, x, s, k, l)
        BY <4>1
      <4>3. phases[t] \in Int /\ phases'[t] \in Int /\ phases[t] <= phases'[t]
        <5>1. CASE t = cur
          BY <1>4, <1>5, <1>6, <4>2, <5>1
        <5>2. CASE t # cur
          BY <1>2, <1>4, <5>2, MadeType
        <5> QED BY <5>1, <5>2
      <4>4. x \in Int /\ l <= phases'[t] - x + 1
        <5>1. l <= phases[t] - x + 1 /\ x \in Int
          BY <4>2, <1>2, MadeType
        <5> QED BY <4>3, <5>1
      <4> QED BY <1>3, <1>6, <1>11, <4>2, <4>3, <4>4 DEF Readable
    <3> QED BY <3>1, <3>2
  <2>2. \A k \in 0..i : Readable(cur, k, i - k)
    BY <1>5 DEF Implicit
  <2>3. \A k \in 0..i : i - k \in Int
    BY <1>4
  <2> QED BY <1>1, <1>3, <2>1, <2>2, <2>3 DEF Implicit
<1>24. At(dd, end, cur, j, i - j)' /\ (Interior(end) => Interior(end)')
  <2>1. i - j' = i - last_extension - 1
    BY <1>1, <1>4
  <2>2. At(d, end, cur, j', i - j')
    BY <1>1, <1>5, <2>1
  <2>3. CASE end.node # NULL
    BY <1>1, <1>3, <1>12, <1>15, <2>2, <2>3 DEF At, Interior
  <2>4. CASE end.node = NULL
    <3>1. PICK e : e = end.edge
      OBVIOUS
    <3>2. /\ e \in DOMAIN edge /\ i - j' = d[edge[e].src] + end.offset
          /\ OnEdge(d, e, cur, j', i - j') /\ dd[edge[e].src] = d[edge[e].src]
      BY <1>8, <1>9, <2>2, <2>4, <3>1 DEF At
    <3>3. OnEdge(dd, e, cur, j, i - j)'
      BY <1>1, <1>3, <1>11, <1>13, <3>2 DEF OnEdge
    <3>4. At(dd, end, cur, j, i - j)'
      BY <1>1, <2>4, <3>1, <3>2, <3>3 DEF At
    <3>5. Interior(end) => Interior(end)'
      <4>1. lst_edge_get_length(e) \in Int /\ end_index(e) \in Int /\ edge[e].start_index \in Int
        BY <1>2, <3>2, EdgeEnds
      <4>2. lst_edge_get_length(e)' >= lst_edge_get_length(e) /\ lst_edge_get_length(e)' \in Int
        BY <1>1, <1>16, <3>2, <4>1 DEF lst_edge_get_length
      <4> QED BY <1>1, <3>1, <4>1, <4>2 DEF Interior
    <3> QED BY <3>4, <3>5
  <2> QED BY <2>3, <2>4
<1>25. ExtendRight(dd)'
  <2>1. InPhase'
    BY <1>1, <1>3, <1>4, <1>23 DEF InPhase
  <2>2. 0 <= j' /\ j' <= i /\ j' \in Int /\ ~ stop_extensions' /\ prev_new_node' = NULL
    BY <1>1, <1>4, <1>5
  <2>3. CASE use_end' \/ ~ find_skipstring'
    <3>1. Reusing(dd)'
      BY <1>1, <1>5, <1>24, <2>2, <2>3 DEF Reusing
    <3> QED BY <1>1, <1>4, <2>1, <2>2, <2>3, <3>1 DEF ExtendRight
  <2>4. CASE ~ (use_end' \/ ~ find_skipstring')
    <3>1. j' = i /\ i - j' = 0
      BY <1>1, <1>4, <1>5, <2>4
    <3>2. At(dd, end, cur, j, 0)' /\ (end'.node = NULL => end'.offset = 0)
      BY <1>1, <1>5, <1>24, <2>4, <3>1
    <3>3. Extended(dd)'
      BY <1>1, <2>2, <3>1, <3>2 DEF Extended
    <3> QED BY <1>1, <1>4, <2>1, <2>2, <2>4, <3>3 DEF ExtendRight
  <2> QED BY <2>3, <2>4
<1>26. ControlRight(dd)'
  BY <1>1, <1>22, <1>25 DEF ControlRight, MatchRight, PhaseRight, FollowRight, InsertRight
<1>27. Right(dd)'
  BY <1>17, <1>18, <1>19, <1>20, <1>21, <1>26 DEF Right, TreeRight
<1> QED BY <1>27

-----------------------------------------------------------------------------
(* The end of a phase: the extensions after Rule 3 have nothing to add.    *)
LEMMA RestReadable ==
  ASSUME NEW d, Worded(d), Complete, cur \in Registered, pc = "extend", stop_extensions,
         InPhase, Stopped(d), NEW k0 \in 0..(i + 1)
  PROVE  Readable(cur, k0, i + 1 - k0)
<1> DEFINE Bad == { k \in 0..(i + 1) : ~ Readable(cur, k, i + 1 - k) }
<1>1. SUFFICES ASSUME Bad # {} PROVE FALSE
  OBVIOUS
<1>2. Bad \in SUBSET Nat
  OBVIOUS
<1>3. PICK k \in Bad : \A y \in Bad : k <= y
  <2> HIDE DEF Bad
  <2> QED BY <1>1, <1>2, LeastNatural
<1>4. /\ i \in Nat /\ j \in Int /\ j >= 1 /\ Made(cur) = j - 1 /\ phases[cur] = i
      /\ k \in Nat /\ ~ Readable(cur, k, i + 1 - k) /\ k <= i + 1
  <2>1. j \in Int /\ i \in Nat
    BY DEF Worded, TypeOK, LocalType, InPhase
  <2> QED BY <2>1 DEF InPhase, Stopped, Made
<1>5. i + 1 - k > 0
  BY <1>4 DEF Readable
<1>6. k >= j - 1
  <2>1. SUFFICES ASSUME k < j - 1 PROVE FALSE
    BY <1>4
  <2>2. k \in 0..(Made(cur) - 1) /\ i + 1 - k <= phases[cur] - k + 1
    BY <1>4, <2>1
  <2>3. Agree(cur, k, cur, k, i + 1 - k)
    BY AgreeRefl
  <2> QED BY <1>4, <2>2, <2>3 DEF Readable
<1>7. Readable(cur, j - 1, i - j + 2)
  BY <1>4, AtReadable DEF Stopped
<1>8. PICK t \in Registered : \E x \in 0..(Made(t) - 1) :
        i - j + 2 <= phases[t] - x + 1 /\ Agree(t, x, cur, j - 1, i - j + 2)
  BY <1>4, <1>5, <1>6, <1>7 DEF Readable
<1>9. PICK x \in 0..(Made(t) - 1) :
        i - j + 2 <= phases[t] - x + 1 /\ Agree(t, x, cur, j - 1, i - j + 2)
  BY <1>8
<1>10. phases[t] \in Int /\ Made(t) \in Int /\ x \in Nat
  BY <1>9, MadeType DEF Worded
<1>11. PICK q \in Nat : q = k - (j - 1)
  BY <1>4, <1>6
<1>12. (j - 1) + q = k /\ i + 1 - k = (i - j + 2) - q
  BY <1>4, <1>11
<1>13. Agree(t, x + q, cur, k, i + 1 - k)
  <2>1. Agree(t, x + q, cur, (j - 1) + q, (i - j + 2) - q)
    <3>1. PICK l \in Int : l = i - j + 2
      BY <1>4
    <3>2. PICK y \in Int : y = j - 1
      BY <1>4
    <3>3. Agree(t, x, cur, y, l)
      BY <1>9, <3>1, <3>2
    <3>4. Agree(t, x + q, cur, y + q, l - q)
      BY <1>10, <3>3, AgreeSub
    <3> QED BY <3>1, <3>2, <3>4
  <2> QED BY <1>12, <2>1
<1>14. CASE t # cur
  <2>1. phases[t] = Len(strings[t]) /\ Made(t) = Len(strings[t]) + 1
    BY <1>14 DEF Complete, Made
  <2>2. x + q \in 0..(Made(t) - 1) /\ i + 1 - k <= phases[t] - (x + q) + 1
    BY <1>4, <1>5, <1>9, <1>10, <1>11, <1>12, <2>1
  <2> QED BY <1>4, <1>13, <2>2 DEF Readable
<1>15. CASE t = cur
  <2>1. x + q < k /\ x + q \in 0..(i + 1)
    BY <1>4, <1>9, <1>10, <1>11, <1>15
  <2>2. x + q \notin Bad
    <3>1. ~ (k <= x + q)
      BY <1>4, <1>10, <2>1
    <3> HIDE DEF Bad
    <3> QED BY <1>3, <3>1
  <2>3. Readable(cur, x + q, i + 1 - (x + q))
    BY <2>1, <2>2
  <2>4. i + 1 - (x + q) \in Int /\ i + 1 - k \in Int /\ i + 1 - k <= i + 1 - (x + q)
    BY <1>4, <1>10, <2>1
  <2>5. Readable(cur, x + q, i + 1 - k)
    BY <2>3, <2>4, ReadableShorter DEF Worded
  <2> QED BY <1>4, <1>13, <1>15, <2>5, ReadableSame
<1> QED BY <1>14, <1>15

LEMMA EndPhaseRight ==
  ASSUME IInv, NEW d, Right(d), EndPhase
  PROVE  Right(d)'
<1>1. /\ UNCHANGED << textVars, hash >> /\ UNCHANGED << textVars, prev_new_node >>
      /\ UNCHANGED textVars /\ pc = "extend" /\ pc' = "phase" /\ i' = i + 1
      /\ UNCHANGED << num_strings, prev_new_node, stop_extensions, find_skipstring, end >>
      /\ UNCHANGED << hash, phases, strings >> /\ ~ MoreExtensions
      /\ last_extension' = j - 1 - (IF stop_extensions THEN 1 ELSE 0)
  BY DEF EndPhase, textVars, tableVars, doneVars, shapeVars
<1>2. /\ TreeRight(d) /\ Links(d) /\ Between /\ Worded(d) /\ Complete /\ ExtendRight(d) /\ TypeOK
      /\ cur \in DOMAIN strings /\ cur \in Registered
  BY <1>1, RightWorded DEF Right, ControlRight, IInv, WellPlaced, Between, Working
<1>3. cur' = cur /\ Registered' = Registered
  BY <1>1, SameText DEF Registered
<1>4. /\ i \in Nat /\ j \in Int /\ j >= 0 /\ j <= i + 1 /\ InPhase /\ phases[cur] = i
      /\ Len(strings[cur]) \in Nat /\ i <= Len(strings[cur]) /\ num_items(cur)' = Len(strings[cur]) + 1
      /\ Made(cur) = (IF stop_extensions THEN j - 1 ELSE j)
  <2>1. j \in Int /\ Len(strings[cur]) \in Nat
    BY <1>2, Markers DEF TypeOK, LocalType
  <2> QED BY <1>1, <1>2, <1>3, <2>1 DEF ExtendRight, InPhase, num_items, textVars, Made
<1>5. \A t : Made(t)' = Made(t)
  <2>1. last_extension' + 1 = (IF stop_extensions THEN j - 1 ELSE j)
    BY <1>1, <1>4
  <2> QED BY <1>1, <1>3, <2>1 DEF Made
<1>6. TreeRight(d)' /\ Links(d)' /\ \A s, k, l : Readable(s, k, l)' <=> Readable(s, k, l)
  BY <1>1, <1>2, <1>5, SameWords, SameLinks
<1>7. Between'
  BY <1>1, <1>2, <1>3 DEF Between, Working
<1>8. CASE stop_extensions
  <2>1. Stopped(d)
    BY <1>1, <1>2, <1>8 DEF ExtendRight
  <2>2. Implicit'
    <3>1. \A k \in 0..(i + 1) : Readable(cur, k, i + 1 - k)
      BY <1>1, <1>2, <1>4, <1>8, <2>1, RestReadable
    <3>2. \A k \in 0..i' : Readable(cur, k, i' - k)
      BY <1>1, <1>4, <3>1
    <3> QED BY <1>3, <1>6, <3>2 DEF Implicit
  <2>3. last_extension' + 1 = j - 1 /\ i' - last_extension' - 1 = i - j + 2
    BY <1>1, <1>4, <1>8
  <2>4. At(d, end, cur, last_extension + 1, i - last_extension - 1)' /\ Interior(end)'
    BY <1>1, <1>3, <2>1, <2>3, SameReading DEF Stopped
  <2>5. PhaseRight(d)'
    <3>1. j >= 1 /\ i < Len(strings[cur]) /\ prev_new_node = NULL
      BY <2>1 DEF Stopped
    <3>2. 0 <= i' /\ i' < num_items(cur)' /\ -1 <= last_extension' /\ last_extension' < i' /\ i = i' - 1
      BY <1>1, <1>4, <1>8, <3>1
    <3> QED BY <1>1, <1>3, <1>4, <1>8, <2>2, <2>4, <3>1, <3>2 DEF PhaseRight
  <2> QED BY <1>1, <1>6, <1>7, <2>5
          DEF Right, ControlRight, MatchRight, ExtendRight, FollowRight, InsertRight
<1>9. CASE ~ stop_extensions
  <2>1. j = i + 1 /\ last_extension' = i
    BY <1>1, <1>4, <1>9 DEF MoreExtensions
  <2>2. ~ Reusing(d) /\ ~ (use_end \/ ~ find_skipstring)
    <3>1. ~ Reusing(d)
      BY <1>4, <2>1 DEF Reusing
    <3> QED BY <1>1, <1>2, <1>9, <3>1 DEF ExtendRight
  <2>3. /\ At(d, end, cur, j - 1, i - j + 1)
        /\ end.node = NULL => end.offset > 0 /\ edge[end.edge].dst = prev_new_node
        /\ end.node # NULL => prev_new_node = NULL
    <3>1. Extended(d)
      BY <1>1, <1>2, <1>9, <2>2 DEF ExtendRight
    <3> QED BY <1>4, <2>1, <3>1 DEF Extended
  <2>4. j - 1 = i /\ i - j + 1 = 0
    BY <1>4, <2>1
  <2>5. end.node # NULL
    <3>1. SUFFICES ASSUME end.node = NULL PROVE FALSE
      OBVIOUS
    <3>2. end.edge \in DOMAIN edge /\ 0 = d[edge[end.edge].src] + end.offset /\ end.offset > 0
      BY <2>3, <2>4, <3>1 DEF At
    <3>3. d[edge[end.edge].src] \in Nat /\ end.offset \in Int
      BY <1>2, <3>2, EdgeWords DEF TypeOK, LocalType, EndType
    <3> QED BY <3>2, <3>3
  <2>6. prev_new_node = NULL /\ InnerOrRoot(end.node) /\ d[end.node] = 0 /\ end.offset = 0
    BY <2>3, <2>4, <2>5 DEF At, AtNode
  <2>7. At(d, end, cur, i + 1, 0)
    BY <2>5, <2>6 DEF At, AtNode, Agree
  <2>8. last_extension' + 1 = i + 1 /\ i' - last_extension' - 1 = 0
    BY <1>1, <1>4, <2>1
  <2>9. At(d, end, cur, last_extension + 1, i - last_extension - 1)'
    BY <1>1, <1>3, <2>7, <2>8, SameReading
  <2>10. Implicit'
    <3>1. ASSUME NEW k \in 0..(i + 1) PROVE Readable(cur, k, i + 1 - k)
      <4>1. CASE k = i + 1
        BY <1>4, <4>1 DEF Readable
      <4>2. CASE k # i + 1
        <5>1. k \in 0..(Made(cur) - 1) /\ i + 1 - k <= phases[cur] - k + 1
          BY <1>4, <1>9, <2>1, <4>2
        <5> QED BY <1>2, <5>1, AgreeRefl DEF Readable
      <4> QED BY <4>1, <4>2
    <3>2. \A k \in 0..i' : Readable(cur, k, i' - k)
      BY <1>1, <1>4, <3>1
    <3> QED BY <1>3, <1>6, <3>2 DEF Implicit
  <2>11. PhaseRight(d)'
    <3>1. 0 <= i' /\ i' <= num_items(cur)' /\ -1 <= last_extension' /\ last_extension' < i' /\ i = i' - 1
      BY <1>1, <1>4, <2>1
    <3> QED BY <1>1, <1>3, <1>4, <1>9, <2>1, <2>2, <2>5, <2>6, <2>9, <2>10, <3>1 DEF PhaseRight
  <2> QED BY <1>1, <1>6, <1>7, <2>11
          DEF Right, ControlRight, MatchRight, ExtendRight, FollowRight, InsertRight
<1> QED BY <1>8, <1>9

LEMMA EndStringRight ==
  ASSUME IInv, NEW d, Right(d), EndString
  PROVE  Right(d)'
<1>1. /\ UNCHANGED << textVars, hash >> /\ UNCHANGED textVars /\ pc = "phase" /\ pc' = "idle"
      /\ UNCHANGED << hash, phases, strings >> /\ i >= num_items(cur)
      /\ num_strings' = num_strings + 1 /\ prev_new_node' = NULL /\ ~ stop_extensions'
      /\ find_skipstring' /\ last_extension' = 0
  BY DEF EndString, textVars, tableVars, shapeVars
<1>2. /\ TreeRight(d) /\ Links(d) /\ Between /\ Worded(d) /\ Complete /\ PhaseRight(d) /\ TypeOK
      /\ cur \in DOMAIN strings /\ cur \in Registered
  BY <1>1, RightWorded DEF Right, ControlRight, IInv, WellPlaced, Between, Working
<1>3. cur' = cur /\ Registered' = Registered
  BY <1>1, SameText DEF Registered
<1>4. /\ prev_new_node = NULL /\ last_extension + 1 = Len(strings[cur]) + 1
      /\ phases[cur] = Len(strings[cur])
  <2>1. Len(strings[cur]) \in Nat /\ i \in Int /\ last_extension \in Int
    BY <1>2, Markers DEF TypeOK, LocalType
  <2>2. /\ prev_new_node = NULL /\ i <= num_items(cur)
        /\ i = num_items(cur) => last_extension = i - 1
        /\ last_extension >= 0 => phases[cur] = i - 1
    BY <1>1, <1>2 DEF PhaseRight
  <2>3. i = num_items(cur) /\ num_items(cur) = Len(strings[cur]) + 1
    BY <1>1, <2>1, <2>2 DEF num_items
  <2> QED BY <2>1, <2>2, <2>3
<1>5. \A t : Made(t)' = Made(t)
  BY <1>1, <1>3, <1>4 DEF Made
<1>6. TreeRight(d)'
  BY <1>1, <1>2, <1>4, <1>5, SameWords
<1>7. Links(d)'
  BY <1>1, <1>2, <1>4, SameLinks
<1>8. Between'
  <2>1. num_strings' > 0
    BY <1>1, <1>2 DEF TypeOK, TableType
  <2> QED BY <1>1, <2>1 DEF Between, Working
<1>9. ControlRight(d)'
  BY <1>1, <1>8 DEF ControlRight, MatchRight, PhaseRight, ExtendRight, FollowRight, InsertRight
<1> QED BY <1>6, <1>7, <1>9 DEF Right

LEMMA ReuseEndRight ==
  ASSUME IInv, NEW d, Right(d), ReuseEnd
  PROVE  Right(d)'
<1>1. /\ UNCHANGED << textVars, hash >> /\ UNCHANGED << textVars, prev_new_node >>
      /\ UNCHANGED textVars /\ pc = "extend" /\ pc' = "insert" /\ i' = i /\ j' = j
      /\ UNCHANGED << num_strings, prev_new_node, stop_extensions, end >>
      /\ UNCHANGED << hash, phases, strings >> /\ ~ stop_extensions /\ skip' = EmptySkip(NULL)
      /\ use_end \/ ~ find_skipstring
      /\ ~ use_end'
  BY DEF ReuseEnd, MoreExtensions, textVars, tableVars, doneVars, shapeVars
<1>2. /\ TreeRight(d) /\ Links(d) /\ Between /\ ExtendRight(d)
  BY DEF Right, ControlRight
<1>3. cur' = cur /\ Registered' = Registered
  BY <1>1, SameText DEF Registered
<1>4. \A t : Made(t)' = Made(t)
  BY <1>1, <1>3 DEF Made
<1>5. TreeRight(d)' /\ Links(d)' /\ \A s, k, l : Readable(s, k, l)' <=> Readable(s, k, l)
  BY <1>1, <1>2, <1>4, SameWords, SameLinks
<1>6. Between'
  BY <1>1, <1>2, <1>3 DEF Between, Working
<1>7. InPhase /\ 0 <= j /\ Reusing(d)
  BY <1>1, <1>2 DEF ExtendRight
<1>8. InPhase'
  BY <1>1, <1>3, <1>5, <1>7 DEF InPhase, Implicit
<1>9. InsertRight(d)'
  <2>1. At(d, end, cur, j, i - j)' /\ Interior(end)' /\ prev_new_node' = NULL /\ j' <= i'
    BY <1>1, <1>3, <1>7, SameReading DEF Reusing
  <2>2. skip'.extra = i'
    BY <1>1 DEF EmptySkip, SkipString
  <2>3. Pending(d)'
    BY <2>1 DEF Pending
  <2> QED BY <1>1, <1>7, <1>8, <2>1, <2>2, <2>3 DEF InsertRight
<1>10. ControlRight(d)'
  BY <1>1, <1>6, <1>9 DEF ControlRight, MatchRight, PhaseRight, ExtendRight, FollowRight
<1> QED BY <1>5, <1>10 DEF Right

-----------------------------------------------------------------------------
(* The way to the next suffix: through a suffix link, or from the root.    *)
LEMMA HeadingEmpty ==
  ASSUME NEW d, NEW n, InnerOrRoot(n), i \in Nat, j \in Nat, AtNode(d, n, cur, j, i - j)
  PROVE  Heading(d, EmptySkip(n))
<1>1. d[n] = i - j
  BY DEF AtNode
<1> QED BY <1>1 DEF Heading, EmptySkip, SkipString, EMPTY

LEMMA HeadingNaive ==
  ASSUME NEW d, Worded(d), i \in Nat, j \in Nat, j <= i, cur \in Registered, i <= Len(strings[cur])
  PROVE  Heading(d, NaiveSkip)
<1>1. InnerOrRoot(Root) /\ d[Root] = 0 /\ Root # NULL
  BY Domains DEF Worded, Depths, InnerOrRoot, Root, NULL
<1>2. CASE i - 1 < j
  <2>1. i - j = 0
    BY <1>2
  <2>2. AtNode(d, Root, cur, j, i - j)
    BY <1>1, <2>1 DEF AtNode
  <2>3. Heading(d, EmptySkip(Root))
    BY <1>1, <2>2, HeadingEmpty
  <2> QED BY <1>2, <2>3 DEF NaiveSkip
<1>3. CASE ~ (i - 1 < j)
  <2>1. PICK p : p = SkipString(Root, cur, j, i - 1, i)
    OBVIOUS
  <2>2. /\ NaiveSkip = p /\ p.node = Root /\ p.str = cur /\ p.start = j /\ p.done = 0 /\ p.extra = i
        /\ p.todo = i - j
    BY <1>3, <2>1 DEF NaiveSkip, SkipString, EMPTY
  <2>3. Len(strings[cur]) \in Nat
    BY MadeType, Markers DEF Worded
  <2>4. p.start + p.done = j /\ p.start + p.done + p.todo <= num_items(cur) /\ j + d[p.node] = j
    BY <1>1, <2>2, <2>3 DEF num_items
  <2>5. Agree(p.str, p.start + p.done, cur, j + d[p.node], p.todo)
    BY <2>2, <2>4, AgreeRefl
  <2>6. AtNode(d, p.node, cur, j, d[p.node])
    BY <1>1, <2>2 DEF AtNode
  <2> QED BY <1>1, <2>2, <2>4, <2>5, <2>6 DEF Heading
<1> QED BY <1>2, <1>3

(* What a suffix link is good for.                                         *)
LEMMA LinkReads ==
  ASSUME NEW d, Worded(d), NEW n \in DOMAIN node, n # Root, NEW s, NEW k \in Int, NEW l \in Int,
         AtNode(d, n, s, k, l), LinkRight(d, n)
  PROVE  LET m == node[n].suffix_link_node
         IN  InnerOrRoot(m) /\ m # NULL /\ d[m] = l - 1 /\ AtNode(d, m, s, k + 1, l - 1)
<1>1. PICK m : m = node[n].suffix_link_node
  OBVIOUS
<1>2. InnerOrRoot(m) /\ AtNode(d, m, Str(n), Pos(d, n) + 1, d[n] - 1)
  BY <1>1 DEF LinkRight
<1>3. m # NULL
  BY <1>2, Domains DEF InnerOrRoot, NULL, Worded
<1>4. d[n] = l /\ Agree(Str(n), Pos(d, n), s, k, l) /\ Pos(d, n) \in Int
  BY NodeWords DEF AtNode
<1>5. Agree(Str(n), Pos(d, n) + 1, s, k + 1, l - 1)
  BY <1>4, AgreeSub
<1>6. AtNode(d, m, s, k + 1, l - 1)
  BY <1>2, <1>4, <1>5, AgreeTrans DEF AtNode
<1> QED BY <1>1, <1>2, <1>3, <1>6 DEF AtNode

LEMMA HeadingLink ==
  ASSUME NEW d, Worded(d), Complete, Links(d), NEW e \in DOMAIN edge, edge[e].src # Root,
         i \in Nat, j \in Nat, j >= 1, j <= i, cur \in Registered, i <= Len(strings[cur]),
         edge[e].dst = prev_new_node, NEW o \in Nat, o >= 1, i - j + 1 = d[edge[e].src] + o,
         OnEdge(d, e, cur, j - 1, i - j + 1), d[edge[e].dst] = i - j + 1
  PROVE  LET m == node[edge[e].src].suffix_link_node
             p == SkipString(m, edge[e].str, edge[e].start_index, edge[e].start_index + o - 1, i)
         IN  Heading(d, IF m = Root THEN NaiveSkip ELSE p) /\ p.node = m /\ p.start # EMPTY
<1> DEFINE n == edge[e].src
<1>1. /\ n \in DOMAIN node /\ d[n] \in Nat /\ From(d, e) \in Nat /\ edge[e].start_index \in Nat
      /\ edge[e].start_index = From(d, e) + d[n] /\ d[n] < d[edge[e].dst] /\ edge[e].str \in DOMAIN strings
      /\ d[edge[e].dst] = end_index(e) - From(d, e) + 1 /\ end_index(e) \in Int
  BY EdgeWords
<1>2. n \in Inner \ { prev_new_node }
  <2>1. e \in kids(n)
    BY DEF kids
  <2>2. n # edge[e].dst
    BY <1>1
  <2> QED BY <1>1, <2>1, <2>2 DEF Inner, lst_node_is_leaf
<1>3. LinkRight(d, n)
  BY <1>2 DEF Links
<1>4. PICK m : m = node[n].suffix_link_node
  OBVIOUS
<1>5. PICK k \in Int : k = j - 1
  OBVIOUS
<1>6. AtNode(d, n, cur, k, d[n])
  <2>1. AtNode(d, n, edge[e].str, From(d, e), d[n])
    BY DEF Worded, Windows, Window
  <2>2. Agree(edge[e].str, From(d, e), cur, k, d[n])
    <3>1. d[n] <= i - j + 1
      BY <1>1
    <3> QED BY <1>1, <1>5, <3>1, AgreeShorter DEF OnEdge
  <2> QED BY <2>1, <2>2, AgreeTrans DEF AtNode
<1>7. /\ InnerOrRoot(m) /\ m # NULL /\ d[m] = d[n] - 1
      /\ AtNode(d, m, cur, k + 1, d[n] - 1)
  <2>1. PICK l \in Int : l = d[n]
    BY <1>1
  <2>2. n # Root
    OBVIOUS
  <2> HIDE DEF n
  <2>3. InnerOrRoot(m) /\ m # NULL /\ d[m] = l - 1 /\ AtNode(d, m, cur, k + 1, l - 1)
    BY <1>1, <1>3, <1>4, <1>6, <2>1, <2>2, LinkReads
  <2> QED BY <2>1, <2>3
<1>8. PICK p : p = SkipString(m, edge[e].str, edge[e].start_index, edge[e].start_index + o - 1, i)
  OBVIOUS
<1>9. /\ p.node = m /\ p.str = edge[e].str /\ p.start = edge[e].start_index /\ p.done = 0
      /\ p.extra = i /\ p.todo = o /\ p.start # EMPTY
  BY SMTT(30), <1>1, <1>8 DEF SkipString, EMPTY
<1>10. Heading(d, p)
  <2>1. AtNode(d, m, cur, j, d[m]) /\ d[m] + o = i - j
    BY SMTT(30), <1>1, <1>5, <1>7
  <2>2. edge[e].str \in Registered /\ end_index(e) <= phases[edge[e].str]
        /\ phases[edge[e].str] <= Len(strings[edge[e].str])
    BY DEF Worded, Windows, Window, Complete
  <2>3. phases[edge[e].str] \in Int /\ Len(strings[edge[e].str]) \in Nat
    BY <1>1, <2>2, MadeType, Markers DEF Worded
  <2>4. edge[e].start_index + o = end_index(e) + 1
    <3>1. PICK y \in Nat : y = d[n]
      BY <1>1
    <3>2. PICK f \in Nat : f = From(d, e)
      BY <1>1
    <3>3. PICK z \in Int : z = end_index(e)
      BY <1>1
    <3>4. edge[e].start_index = f + y /\ i - j + 1 = z - f + 1 /\ i - j + 1 = y + o
      BY <1>1, <3>1, <3>2, <3>3
    <3>5. PICK l \in Int : l = i - j + 1
      OBVIOUS
    <3>6. f + y + o = z + 1
      BY <3>4, <3>5
    <3> QED BY <3>3, <3>4, <3>6
  <2>5. p.start + p.done >= 0 /\ p.start + p.done + p.todo <= num_items(p.str)
        /\ p.start + p.done = edge[e].start_index
    <3>1. PICK z \in Nat : z = Len(strings[edge[e].str])
      BY <2>3
    <3>2. end_index(e) <= z /\ num_items(p.str) = z + 1
      BY <1>1, <1>9, <2>2, <2>3, <3>1 DEF num_items
    <3>3. p.start + p.done = edge[e].start_index /\ p.todo = o
      BY <1>1, <1>9
    <3> QED BY <1>1, <2>4, <3>1, <3>2, <3>3
  <2>6. Agree(edge[e].str, edge[e].start_index, cur, j + d[m], o)
    <3>1. k + d[n] = j + d[m] /\ i - j + 1 \in Int /\ d[n] + o <= i - j + 1
      BY SMTT(30), <1>1, <1>5, <1>7
    <3>2. Agree(edge[e].str, From(d, e), cur, k, i - j + 1)
      BY <1>5 DEF OnEdge
    <3>3. Agree(edge[e].str, From(d, e) + d[n], cur, k + d[n], o)
      <4>1. PICK l \in Int : l = i - j + 1
        BY <3>1
      <4>2. PICK y \in Nat : y = d[n]
        BY <1>1
      <4>3. Agree(edge[e].str, From(d, e), cur, k, l) /\ y + o <= l
        BY <3>1, <3>2, <4>1, <4>2
      <4>4. Agree(edge[e].str, From(d, e) + y, cur, k + y, o)
        BY <1>1, <4>3, AgreeSub
      <4> QED BY <4>2, <4>4
    <3> QED BY <1>1, <3>1, <3>3
  <2> QED BY <1>7, <1>9, <2>1, <2>2, <2>5, <2>6 DEF Heading
<1>11. Heading(d, NaiveSkip)
  BY HeadingNaive
<1> QED BY <1>4, <1>8, <1>9, <1>10, <1>11

LEMMA ClimbToSuffixLinkRight ==
  ASSUME IInv, NEW d, Right(d), ClimbToSuffixLink
  PROVE  Right(d)'
<1>1. /\ UNCHANGED << textVars, hash >> /\ UNCHANGED << textVars, prev_new_node >>
      /\ UNCHANGED textVars /\ pc = "extend" /\ pc' = "follow" /\ i' = i /\ j' = j
      /\ UNCHANGED << num_strings, prev_new_node, stop_extensions, end >>
      /\ UNCHANGED << hash, phases, strings >> /\ ~ stop_extensions /\ j < i + 1
      /\ skip' = stree_get_skipstring /\ ~ (use_end \/ ~ find_skipstring)
      /\ ~ use_end'
  BY DEF ClimbToSuffixLink, MoreExtensions, textVars, tableVars, doneVars, shapeVars, loopVars
<1>2. /\ TreeRight(d) /\ Links(d) /\ Between /\ Worded(d) /\ Complete /\ ExtendRight(d) /\ TypeOK
      /\ cur \in DOMAIN strings /\ cur \in Registered
  BY <1>1, RightWorded DEF Right, ControlRight, IInv, WellPlaced, Between, Working
<1>3. cur' = cur /\ Registered' = Registered
  BY <1>1, SameText DEF Registered
<1>4. \A t : Made(t)' = Made(t)
  BY <1>1, <1>3 DEF Made
<1>5. TreeRight(d)' /\ Links(d)' /\ \A s, k, l : Readable(s, k, l)' <=> Readable(s, k, l)
  BY <1>1, <1>2, <1>4, SameWords, SameLinks
<1>6. Between'
  BY <1>1, <1>2, <1>3 DEF Between, Working
<1>7. InPhase /\ i \in Nat /\ j \in Nat /\ j <= i /\ i <= Len(strings[cur]) /\ Extended(d)
  <2>1. j \in Int /\ Len(strings[cur]) \in Nat
    BY <1>2, Markers DEF TypeOK, LocalType
  <2> QED BY <1>1, <1>2, <2>1 DEF ExtendRight, InPhase
<1>8. InPhase'
  BY <1>1, <1>3, <1>5, <1>7 DEF InPhase, Implicit
<1>9. Heading(d, NaiveSkip)
  BY <1>2, <1>7, HeadingNaive
<1>10. ASSUME NEW n \in DOMAIN node, d[n] = 0 PROVE n = Root
  BY <1>2, <1>10, NodeWords
<1>11. \A n : EmptySkip(n).start = EMPTY
  BY DEF EmptySkip, SkipString
<1>12. Heading(d, skip') /\ Pending(d)
  <2>1. CASE j = i /\ At(d, end, cur, j, 0) /\ prev_new_node = NULL /\ (end.node = NULL => end.offset = 0)
    <3>1. CASE end.node # NULL
      <4>1. end.node = Root
        BY <1>10, <2>1, <3>1 DEF At, AtNode, InnerOrRoot
      <4>2. node[Root].suffix_link_node = NULL
        BY <1>2 DEF Links
      <4>3. skip' = EmptySkip(Root)
        BY <1>1, <1>11, <3>1, <4>1, <4>2 DEF stree_get_skipstring, SkipFromNode
      <4>4. NaiveSkip = EmptySkip(Root)
        BY <1>7, <2>1 DEF NaiveSkip
      <4> QED BY <1>9, <2>1, <4>3, <4>4 DEF Pending
    <3>2. CASE end.node = NULL
      <4>1. end.edge \in DOMAIN edge /\ 0 = d[edge[end.edge].src] + end.offset /\ end.offset = 0
        BY <2>1, <3>2 DEF At
      <4>2. edge[end.edge].src = Root
        <5>1. d[edge[end.edge].src] \in Nat /\ edge[end.edge].src \in DOMAIN node
          BY <1>2, <4>1, EdgeWords
        <5> QED BY <1>10, <4>1, <5>1
      <4>3. skip' = NaiveSkip
        BY <1>1, <3>2, <4>2 DEF stree_get_skipstring, SkipFromEdge
      <4> QED BY <1>9, <2>1, <4>3 DEF Pending
    <3> QED BY <3>1, <3>2
  <2>2. CASE /\ j >= 1 /\ At(d, end, cur, j - 1, i - j + 1)
             /\ end.node = NULL => end.offset > 0 /\ edge[end.edge].dst = prev_new_node
             /\ end.node # NULL => prev_new_node = NULL
             /\ Pending(d)
    <3>1. CASE end.node # NULL
      <4>1. PICK n : n = end.node
        OBVIOUS
      <4>2. n \in DOMAIN node /\ InnerOrRoot(n) /\ AtNode(d, n, cur, j - 1, i - j + 1)
        BY <2>2, <3>1, <4>1 DEF At, InnerOrRoot
      <4>3. n # Root
        <5>1. d[n] = i - j + 1
          BY <4>2 DEF AtNode
        <5> QED BY <1>2, <1>7, <5>1 DEF Worded, Depths
      <4>4. n \in Inner \ { prev_new_node }
        BY <2>2, <3>1, <4>1, <4>2, <4>3 DEF Inner, InnerOrRoot
      <4>5. PICK m : m = node[n].suffix_link_node
        OBVIOUS
      <4>6. InnerOrRoot(m) /\ m # NULL /\ AtNode(d, m, cur, j, i - j)
        <5>1. PICK k \in Int : k = j - 1
          BY <1>7
        <5>2. PICK l \in Int : l = i - j + 1
          BY <1>7
        <5>3. LinkRight(d, n)
          BY <1>2, <4>4 DEF Links
        <5>4. InnerOrRoot(m) /\ m # NULL /\ AtNode(d, m, cur, k + 1, l - 1)
          BY <1>2, <4>2, <4>3, <4>5, <5>1, <5>2, <5>3, LinkReads
        <5> QED BY <1>7, <5>1, <5>2, <5>4
      <4>7. skip' = EmptySkip(m)
        BY <1>1, <1>11, <3>1, <4>1, <4>5, <4>6 DEF stree_get_skipstring, SkipFromNode
      <4> QED BY <1>7, <2>2, <4>6, <4>7, HeadingEmpty
    <3>2. CASE end.node = NULL
      <4>1. PICK e : e = end.edge
        OBVIOUS
      <4>2. PICK o : o = end.offset
        OBVIOUS
      <4>3. /\ e \in DOMAIN edge /\ i - j + 1 = d[edge[e].src] + o /\ OnEdge(d, e, cur, j - 1, i - j + 1)
            /\ o > 0 /\ o \in Int /\ edge[e].dst = prev_new_node
        <5>1. end.offset \in Int
          BY <1>2 DEF TypeOK, LocalType, EndType
        <5> QED BY <2>2, <3>2, <4>1, <4>2, <5>1 DEF At
      <4>4. d[edge[e].dst] = i - j + 1
        <5>1. prev_new_node # NULL
          BY <1>2, <4>3, EdgeWords, Domains DEF NULL
        <5> QED BY <2>2, <4>3, <5>1 DEF Pending, AtNode
      <4>5. CASE edge[e].src = Root
        <5>1. skip' = NaiveSkip
          BY <1>1, <3>2, <4>1, <4>5 DEF stree_get_skipstring, SkipFromEdge
        <5> QED BY <1>9, <2>2, <5>1
      <4>6. CASE edge[e].src # Root
        <5>1. PICK m : m = node[edge[e].src].suffix_link_node
          OBVIOUS
        <5>2. PICK p : p = SkipString(m, edge[e].str, edge[e].start_index,
                                      edge[e].start_index + o - 1, i)
          OBVIOUS
        <5>3. Heading(d, IF m = Root THEN NaiveSkip ELSE p) /\ p.node = m /\ p.start # EMPTY
          <6>1. o \in Nat /\ o >= 1
            BY <4>3
          <6> QED BY <1>2, <1>7, <2>2, <4>3, <4>4, <4>6, <5>1, <5>2, <6>1, HeadingLink
        <5>4. skip' = IF m = Root THEN NaiveSkip ELSE p
          BY <1>1, <3>2, <4>1, <4>2, <4>6, <5>1, <5>2, <5>3 DEF stree_get_skipstring, SkipFromEdge
        <5> QED BY <2>2, <5>3, <5>4
      <4> QED BY <4>5, <4>6
    <3> QED BY <3>1, <3>2
  <2> QED BY <1>7, <2>1, <2>2 DEF Extended
<1>13. FollowRight(d)'
  <2>1. PICK p : p = skip'
    OBVIOUS
  <2>2. Heading(d, p)' /\ Pending(d)'
    BY <1>1, <1>12, <2>1, SameHeading
  <2>3. Heading(d, skip)'
    BY <2>1, <2>2 DEF Heading
  <2> QED BY <1>1, <1>7, <1>8, <2>2, <2>3 DEF FollowRight
<1>14. ControlRight(d)'
  BY <1>1, <1>6, <1>13 DEF ControlRight, MatchRight, PhaseRight, ExtendRight, InsertRight
<1> QED BY <1>5, <1>14 DEF Right

-----------------------------------------------------------------------------
(* The walk down from there.                                               *)
LEMMA Followed ==
  ASSUME NEW d, Worded(d), Complete, InPhase, j \in Nat, j <= i, cur \in Registered,
         Heading(d, skip), skip.todo > 0
  PROVE  /\ FollowEdge # NULL /\ FollowEdge \in DOMAIN edge /\ edge[FollowEdge].src = skip.node
         /\ \A q \in Int : q <= i - j /\ q <= d[edge[FollowEdge].dst] => OnEdge(d, FollowEdge, cur, j, q)
<1> DEFINE n == skip.node
           r == FollowEdge
<1>1. /\ i \in Nat /\ n \in DOMAIN node /\ d[n] \in Nat /\ d[n] + skip.todo = i - j
      /\ skip.todo \in Int /\ skip.start \in Int /\ skip.done \in Int
  <2>1. skip \in SkipType
    BY DEF Worded, TypeOK, LocalType
  <2>2. n \in DOMAIN node
    BY DEF Heading, InnerOrRoot
  <2>3. d[n] \in Nat
    BY <2>2 DEF Worded, Depths
  <2>4. Len(strings[cur]) \in Nat
    BY MadeType, Markers DEF Worded
  <2> QED BY <2>1, <2>2, <2>3, <2>4 DEF SkipType, Heading, InPhase
<1>2. PICK s : s = skip.str
  OBVIOUS
<1>3. PICK k \in Int : k = skip.start + skip.done
  BY <1>1
<1>4. PICK z \in Int : z = skip.todo
  BY <1>1
<1>5. /\ s \in Registered /\ k >= 0 /\ k + z <= num_items(s) /\ s \in DOMAIN strings
      /\ Agree(s, k, cur, j + d[n], z) /\ AtNode(d, n, cur, j, d[n]) /\ num_items(s) \in Int
  <2>1. /\ s \in Registered /\ k >= 0 /\ k + z <= num_items(s)
        /\ Agree(s, k, cur, j + d[n], z) /\ AtNode(d, n, cur, j, d[n])
    BY <1>2, <1>3, <1>4 DEF Heading
  <2>2. s \in DOMAIN strings /\ Len(strings[s]) \in Nat
    BY <2>1, MadeType, Markers DEF Worded
  <2> QED BY <2>1, <2>2 DEF num_items
<1>6. Item(s, k) = Item(cur, j + d[n])
  <2>1. 0 \in 0..(z - 1) /\ k + 0 = k /\ (j + d[n]) + 0 = j + d[n]
    BY <1>1, <1>4
  <2> QED BY <1>5, <2>1 DEF Agree
<1>7. Readable(cur, j, i - j)
  BY <1>1 DEF InPhase, Implicit
<1>8. r = node_find_edge_with_startitem(n, s, k) /\ k < num_items(s)
  <2>1. k < num_items(s)
    BY <1>4, <1>5
  <2> QED BY <1>2, <1>3, <2>1 DEF FollowEdge
<1> HIDE DEF r, n
<1>9. /\ r # NULL => /\ r \in DOMAIN edge /\ edge[r].src = n
                     /\ Item(edge[r].str, edge[r].start_index) = Item(s, k)
      /\ r = NULL => \A e \in kids(n) : Item(edge[e].str, edge[e].start_index) # Item(s, k)
  BY <1>1, <1>5, <1>8, EdgeChosen
<1>10. r # NULL
  <2>1. PICK e \in kids(n) : OnEdge(d, e, cur, j, d[n] + 1)
    <3>1. i - j \in Int /\ i - j > d[n]
      BY <1>1, <1>4
    <3> QED BY <1>1, <1>5, <1>7, <3>1, GoesOn
  <2>2. e \in DOMAIN edge /\ edge[e].src = n
    BY DEF kids
  <2>3. Item(edge[e].str, edge[e].start_index) = Item(cur, j + d[n])
    <3>1. From(d, e) \in Nat /\ edge[e].start_index = From(d, e) + d[n]
      BY <2>2, EdgeWords
    <3>2. d[n] \in 0..((d[n] + 1) - 1)
      BY <1>1
    <3> QED BY <2>1, <3>1, <3>2 DEF OnEdge, Agree
  <2> QED BY <1>6, <1>9, <2>1, <2>3
<1>11. OnEdge(d, r, cur, j, d[n] + 1)
  <2>1. Agree(edge[r].str, edge[r].start_index, cur, j + d[n], 1)
    <3>1. Item(edge[r].str, edge[r].start_index) = Item(cur, j + d[n])
      BY <1>6, <1>9, <1>10
    <3>2. edge[r].start_index \in Int
      BY <1>9, <1>10, EdgeWords
    <3>3. \A m \in 0..(1 - 1) : m = 0
      OBVIOUS
    <3>4. edge[r].start_index + 0 = edge[r].start_index /\ (j + d[n]) + 0 = j + d[n]
      BY <1>1, <3>2
    <3> QED BY <3>1, <3>3, <3>4 DEF Agree
  <2>2. AtNode(d, edge[r].src, cur, j, d[edge[r].src])
        /\ Agree(edge[r].str, edge[r].start_index, cur, j + d[edge[r].src], 1)
    BY <1>5, <1>9, <1>10, <2>1
  <2>3. PICK y \in Int : y = 1
    OBVIOUS
  <2>4. OnEdge(d, r, cur, j, d[edge[r].src] + y)
    BY <1>9, <1>10, <2>2, <2>3, OntoEdge
  <2> QED BY <1>9, <1>10, <2>3, <2>4
<1>12. \A q \in Int : q <= i - j /\ q <= d[edge[r].dst] => OnEdge(d, r, cur, j, q)
  <2>1. PICK l \in Int : l = i - j
    BY <1>1
  <2>2. r \in DOMAIN edge /\ l > d[edge[r].src] /\ OnEdge(d, r, cur, j, d[edge[r].src] + 1)
    BY <1>1, <1>9, <1>10, <1>11, <2>1
  <2>3. Readable(cur, j, l)
    BY <1>7, <2>1
  <2> QED BY <2>1, <2>2, <2>3, Follows
<1> QED BY <1>9, <1>10, <1>12 DEF n, r

LEMMA FollowStepRight ==
  ASSUME IInv, NEW d, Right(d), FollowStep
  PROVE  Right(d)'
<1>1. /\ UNCHANGED << textVars, hash >> /\ UNCHANGED << textVars, prev_new_node >>
      /\ UNCHANGED << textVars, hash, prev_new_node, i, j >>
      /\ UNCHANGED textVars /\ pc = "follow" /\ pc' = "follow" /\ i' = i /\ j' = j
      /\ UNCHANGED << num_strings, prev_new_node, stop_extensions, use_end >>
      /\ UNCHANGED << hash, phases, strings >> /\ skip.todo > 0
      /\ skip.todo >= lst_edge_get_length(FollowEdge)
      /\ skip' = [skip EXCEPT !.node = edge[FollowEdge].dst,
                              !.done = @ + lst_edge_get_length(FollowEdge),
                              !.todo = @ - lst_edge_get_length(FollowEdge)]
  BY DEF FollowStep, FollowSkipsEdge, textVars, tableVars, doneVars, shapeVars, loopVars
<1>2. /\ TreeRight(d) /\ Links(d) /\ Between /\ Worded(d) /\ Complete /\ FollowRight(d) /\ TypeOK
      /\ cur \in DOMAIN strings /\ cur \in Registered
  BY <1>1, RightWorded DEF Right, ControlRight, IInv, WellPlaced, Between, Working
<1>3. cur' = cur /\ Registered' = Registered
  BY <1>1, SameText DEF Registered
<1>4. \A t : Made(t)' = Made(t)
  BY <1>1, <1>3 DEF Made
<1>5. TreeRight(d)' /\ Links(d)' /\ \A s, k, l : Readable(s, k, l)' <=> Readable(s, k, l)
  BY <1>1, <1>2, <1>4, SameWords, SameLinks
<1>6. Between'
  BY <1>1, <1>2, <1>3 DEF Between, Working
<1>7. /\ InPhase /\ i \in Nat /\ j \in Nat /\ j <= i /\ i <= Len(strings[cur]) /\ ~ stop_extensions
      /\ ~ use_end /\ Pending(d) /\ Heading(d, skip) /\ phases[cur] = i /\ Made(cur) = j
  <2>1. j \in Int /\ Len(strings[cur]) \in Nat
    BY <1>2, Markers DEF TypeOK, LocalType
  <2> QED BY <1>1, <1>2, <2>1 DEF FollowRight, InPhase, Made
<1>8. InPhase'
  BY <1>1, <1>3, <1>5, <1>7 DEF InPhase, Implicit
<1>9. PICK e : e = FollowEdge
  OBVIOUS
<1>10. PICK z : z = lst_edge_get_length(e)
  OBVIOUS
<1>11. PICK n : n = skip.node
  OBVIOUS
<1>12. /\ e \in DOMAIN edge /\ edge[e].src = n
       /\ \A q \in Int : q <= i - j /\ q <= d[edge[e].dst] => OnEdge(d, e, cur, j, q)
  BY <1>1, <1>2, <1>7, <1>9, <1>11, Followed
<1>13. /\ z \in Int /\ z >= 1 /\ d[edge[e].dst] = d[n] + z /\ d[n] \in Nat /\ edge[e].dst \in DOMAIN node
       /\ edge[e].dst # Root /\ Str(edge[e].dst) = edge[e].str /\ Pos(d, edge[e].dst) = From(d, e)
       /\ d[edge[e].dst] \in Nat
  <2>1. z \in Int
    BY <1>2, <1>10, <1>12, EdgeEnds
  <2>2. z >= 1 /\ d[edge[e].dst] = d[edge[e].src] + z
    BY <1>2, <1>10, <1>12 DEF Worded, Depths
  <2> QED BY <1>2, <1>12, <2>1, <2>2, EdgeWords
<1>14. PICK p : p = skip'
  OBVIOUS
<1>15. skip \in SkipType
  BY <1>2 DEF TypeOK, LocalType
<1>16. /\ p.node = edge[e].dst /\ p.done = skip.done + z /\ p.todo = skip.todo - z
       /\ p.str = skip.str /\ p.start = skip.start /\ p.extra = skip.extra
       /\ skip.done \in Int /\ skip.todo \in Int /\ skip.start \in Int /\ skip.todo >= z
  BY <1>1, <1>9, <1>10, <1>14, <1>15 DEF SkipType
<1>17. Heading(d, p)
  <2>1. /\ skip.extra = i /\ d[n] + skip.todo = i - j /\ skip.str \in Registered
        /\ skip.start + skip.done >= 0 /\ skip.start + skip.done + skip.todo <= num_items(skip.str)
        /\ Agree(skip.str, skip.start + skip.done, cur, j + d[n], skip.todo)
    BY <1>1, <1>7, <1>11 DEF Heading
  <2>2. PICK l \in Int : l = d[edge[e].dst]
    BY <1>13
  <2>3. d[n] + z = l /\ l <= i - j
    BY <1>7, <1>13, <1>16, <2>1, <2>2
  <2>4. AtNode(d, edge[e].dst, cur, j, l)
    <3>1. OnEdge(d, e, cur, j, l)
      BY <1>12, <2>2, <2>3
    <3> QED BY <1>13, <2>2, <3>1 DEF AtNode, OnEdge
  <2>5. InnerOrRoot(edge[e].dst)
    <3>1. j + l - 1 <= Len(strings[cur]) /\ \A x \in 0..(j - 1) : i - x + 1 # l
      <4>1. Len(strings[cur]) \in Nat
        BY <1>2, Markers
      <4> QED BY <1>7, <2>3, <4>1
    <3> QED BY <1>2, <1>7, <1>13, <2>4, <3>1, NotLeaf
  <2>6. p.todo >= 0 /\ d[p.node] + p.todo = i - j
    BY SMTT(30), <1>7, <1>13, <1>16, <2>1
  <2>7. PICK y \in Int : y = skip.start + skip.done
    BY <1>16
  <2>8. p.start + p.done = y + z /\ j + d[p.node] = (j + d[n]) + z
    <3>1. p.start + p.done = y + z
      BY <1>13, <1>16, <2>7
    <3>2. d[p.node] = d[n] + z
      BY <1>13, <1>16
    <3> QED BY <1>7, <1>13, <3>1, <3>2
  <2>9. Agree(p.str, p.start + p.done, cur, j + d[p.node], p.todo)
    <3>1. PICK x \in Int : x = j + d[n]
      BY <1>7, <1>13
    <3>2. Agree(skip.str, y, cur, x, skip.todo)
      BY <2>1, <2>7, <3>1
    <3>3. z \in Nat /\ z + p.todo <= skip.todo /\ p.todo \in Int
      BY <1>13, <1>16
    <3>4. Agree(skip.str, y + z, cur, x + z, p.todo)
      BY <1>16, <3>2, <3>3, AgreeSub
    <3> QED BY <1>16, <2>8, <3>1, <3>4
  <2>10. p.start + p.done >= 0 /\ p.start + p.done + p.todo <= num_items(p.str)
    <3>1. y >= 0 /\ y + skip.todo <= num_items(skip.str)
      BY <2>1, <2>7
    <3>2. num_items(skip.str) \in Int
      BY <1>2, <2>1, MadeType, Markers DEF num_items
    <3> QED BY <1>13, <1>16, <2>8, <2>7, <3>1, <3>2
  <2> QED BY <1>16, <2>1, <2>2, <2>4, <2>5, <2>6, <2>9, <2>10 DEF Heading
<1>18. FollowRight(d)'
  <2>1. Heading(d, p)' /\ Pending(d)'
    BY <1>1, <1>7, <1>17, SameHeading
  <2>2. Heading(d, skip)'
    BY <1>14, <2>1 DEF Heading
  <2> QED BY <1>1, <1>7, <1>8, <2>1, <2>2 DEF FollowRight
<1>19. ControlRight(d)'
  BY <1>1, <1>6, <1>18 DEF ControlRight, MatchRight, PhaseRight, ExtendRight, InsertRight
<1> QED BY <1>5, <1>19 DEF Right

LEMMA FollowResultRight ==
  ASSUME IInv, NEW d, Right(d), FollowResult
  PROVE  Right(d)'
<1>1. /\ UNCHANGED << textVars, hash >> /\ UNCHANGED << textVars, prev_new_node >>
      /\ UNCHANGED << textVars, hash, prev_new_node, i, j >>
      /\ UNCHANGED textVars /\ pc = "follow" /\ pc' = "insert" /\ i' = i /\ j' = j
      /\ UNCHANGED << num_strings, prev_new_node, stop_extensions, use_end, skip >>
      /\ UNCHANGED << hash, phases, strings >> /\ ~ FollowSkipsEdge
      /\ end' = IF skip.node = NULL THEN end
                ELSE IF skip.todo = 0 \/ FollowEdge = NULL THEN stree_path_end_node(skip.node)
                ELSE stree_path_end_edge(FollowEdge,
                       lst_string_items_common(edge[FollowEdge].str, edge[FollowEdge].start_index,
                                               skip.str, skip.start + skip.done, skip.todo))
  BY DEF FollowResult, textVars, tableVars, doneVars, shapeVars, loopVars
<1>2. /\ TreeRight(d) /\ Links(d) /\ Between /\ Worded(d) /\ Complete /\ FollowRight(d) /\ TypeOK
      /\ cur \in DOMAIN strings /\ cur \in Registered
  BY <1>1, RightWorded DEF Right, ControlRight, IInv, WellPlaced, Between, Working
<1>3. cur' = cur /\ Registered' = Registered
  BY <1>1, SameText DEF Registered
<1>4. \A t : Made(t)' = Made(t)
  BY <1>1, <1>3 DEF Made
<1>5. TreeRight(d)' /\ Links(d)' /\ \A s, k, l : Readable(s, k, l)' <=> Readable(s, k, l)
  BY <1>1, <1>2, <1>4, SameWords, SameLinks
<1>6. Between'
  BY <1>1, <1>2, <1>3 DEF Between, Working
<1>7. /\ InPhase /\ i \in Nat /\ j \in Nat /\ j <= i /\ i <= Len(strings[cur]) /\ ~ stop_extensions
      /\ ~ use_end /\ Pending(d) /\ Heading(d, skip)
  <2>1. j \in Int /\ Len(strings[cur]) \in Nat
    BY <1>2, Markers DEF TypeOK, LocalType
  <2> QED BY <1>1, <1>2, <2>1 DEF FollowRight, InPhase
<1>8. InPhase'
  BY <1>1, <1>3, <1>5, <1>7 DEF InPhase, Implicit
<1>9. PICK p : p = end'
  OBVIOUS
<1>10. PICK n : n = skip.node
  OBVIOUS
<1>11. /\ n \in DOMAIN node /\ n # NULL /\ InnerOrRoot(n) /\ AtNode(d, n, cur, j, d[n])
       /\ skip.extra = i /\ d[n] + skip.todo = i - j /\ skip.todo >= 0 /\ d[n] \in Nat
       /\ skip.todo \in Int /\ skip.start \in Int /\ skip.done \in Int
  <2>1. n \in DOMAIN node /\ d[n] \in Nat
    BY <1>2, <1>7, <1>10 DEF Heading, InnerOrRoot, Worded, Depths
  <2>2. skip \in SkipType
    BY <1>2 DEF TypeOK, LocalType
  <2> QED BY <1>2, <1>7, <1>10, <2>1, <2>2, Domains DEF Heading, NULL, SkipType
<1>12. At(d, p, cur, j, i - j) /\ Interior(p)
  <2>1. CASE skip.todo = 0
    <3>1. p = stree_path_end_node(n) /\ d[n] = i - j
      BY <1>1, <1>7, <1>9, <1>10, <1>11, <2>1
    <3>2. AtNode(d, n, cur, j, i - j)
      BY <1>11, <3>1
    <3> QED BY <1>11, <3>1, <3>2 DEF At, Interior, stree_path_end_node
  <2>2. CASE skip.todo # 0
    <3>1. PICK e : e = FollowEdge
      OBVIOUS
    <3>2. PICK z : z = lst_edge_get_length(e)
      OBVIOUS
    <3>3. skip.todo > 0
      BY <1>11, <2>2
    <3>4. /\ e # NULL /\ e \in DOMAIN edge /\ edge[e].src = n
          /\ \A q \in Int : q <= i - j /\ q <= d[edge[e].dst] => OnEdge(d, e, cur, j, q)
      BY <1>2, <1>7, <1>10, <3>1, <3>3, Followed
    <3>5. z \in Int /\ d[edge[e].dst] = d[n] + z
      BY <1>2, <3>2, <3>4, EdgeEnds DEF Worded, Depths
    <3>6. skip.todo < z
      <4>1. ~ (skip.todo >= z)
        BY <1>1, <1>10, <1>11, <3>1, <3>2, <3>3, <3>4 DEF FollowSkipsEdge
      <4> QED BY <1>11, <3>5, <4>1
    <3>7. OnEdge(d, e, cur, j, i - j)
      BY <1>7, <1>11, <3>4, <3>5, <3>6
    <3>8. PICK y \in Int : y = skip.start + skip.done
      BY <1>11
    <3>9. PICK c : c = lst_string_items_common(edge[e].str, edge[e].start_index, skip.str, y, skip.todo)
      OBVIOUS
    <3>10. p = stree_path_end_edge(e, c)
      BY <1>1, <1>9, <1>10, <1>11, <2>2, <3>1, <3>4, <3>8, <3>9
    <3>11. \A m \in 0..(skip.todo - 1) :
             lst_string_eq(edge[e].str, edge[e].start_index + m, skip.str, y + m)
      <4>1. PICK t : t = edge[e].str
        OBVIOUS
      <4>2. PICK x : x = edge[e].start_index
        OBVIOUS
      <4>3. PICK s : s = skip.str
        OBVIOUS
      <4>4. /\ t \in Registered /\ end_index(e) <= phases[t] /\ phases[t] <= Len(strings[t])
            /\ phases[t] \in Int /\ Len(strings[t]) \in Nat /\ x \in Nat /\ end_index(e) \in Int
            /\ z = end_index(e) - x + 1 /\ x = From(d, e) + d[n] /\ From(d, e) \in Nat
        <5>1. t \in Registered /\ end_index(e) <= phases[t] /\ phases[t] <= Len(strings[t])
          BY <1>2, <3>4, <4>1 DEF Worded, Windows, Window, Complete
        <5>2. phases[t] \in Int /\ Len(strings[t]) \in Nat
          BY <1>2, <5>1, MadeType, Markers
        <5> QED BY <1>2, <3>2, <3>4, <4>2, <5>1, <5>2, EdgeWords DEF lst_edge_get_length
      <4>5. /\ s \in Registered /\ y >= 0 /\ y + skip.todo <= num_items(s) /\ num_items(s) \in Int
            /\ Agree(s, y, cur, j + d[n], skip.todo)
        <5>1. /\ s \in Registered /\ y >= 0 /\ y + skip.todo <= num_items(s)
              /\ Agree(s, y, cur, j + d[n], skip.todo)
          BY <1>7, <1>10, <3>3, <3>8, <4>3 DEF Heading
        <5> QED BY <1>2, <5>1, MadeType, Markers DEF num_items
      <4>6. ASSUME NEW m \in 0..(skip.todo - 1) PROVE lst_string_eq(t, x + m, s, y + m)
        <5>0. m \in Nat /\ m < skip.todo
          BY <1>11
        <5>1. Item(s, y + m) = Item(cur, (j + d[n]) + m)
          BY <4>5 DEF Agree
        <5>2. Item(t, x + m) = Item(cur, (j + d[n]) + m)
          <6>1. PICK q \in Nat : q = d[n] + m
            BY <1>11
          <6>2. q \in 0..((i - j) - 1)
            BY <1>7, <1>11, <6>1
          <6>3. Item(t, From(d, e) + q) = Item(cur, j + q)
            BY <3>7, <4>1, <6>2 DEF OnEdge, Agree
          <6>4. From(d, e) + q = x + m /\ j + q = (j + d[n]) + m
            <7>1. PICK y1 \in Nat : y1 = d[n]
              BY <1>11
            <7>2. PICK f \in Nat : f = From(d, e)
              BY <4>4
            <7>3. q = y1 + m /\ x = f + y1 /\ m \in Int
              BY <1>11, <4>4, <6>1, <7>1, <7>2
            <7>4. j \in Int
              BY <1>7
            <7>5. (f + q = x + m /\ j + q = (j + y1) + m) /\ f = From(d, e) /\ y1 = d[n]
              BY ONLY <6>1, <7>1, <7>2, <7>3, <7>4
            <7> QED BY <7>5
          <6> QED BY <6>3, <6>4
        <5>3. y + m < num_items(s)
          BY <1>11, <4>5
        <5>4. x + m < num_items(t)
          <6>1. PICK l \in Nat : l = Len(strings[t])
            BY <4>4
          <6>2. PICK w \in Int : w = end_index(e)
            BY <4>4
          <6>3. w <= l
            BY <4>4, <6>1, <6>2
          <6>4. z = w - x + 1 /\ x \in Nat
            BY <4>4, <6>2
          <6>5. m < z /\ z \in Int
            BY <1>11, <3>5, <3>6, <5>0
          <6>6. x + m < l + 1
            BY ONLY <5>0, <6>1, <6>2, <6>3, <6>4, <6>5
          <6> QED BY <6>1, <6>6 DEF num_items
        <5> QED BY <5>1, <5>2, <5>3, <5>4 DEF lst_string_eq
      <4> QED BY <4>1, <4>2, <4>3, <4>6
    <3>12. c = skip.todo
      <4>1. c \in Nat /\ (c <= skip.todo \/ c = 0)
        BY <1>11, <3>9, CommonItems
      <4>2. c >= skip.todo
        <5>1. PICK l \in Nat : l = skip.todo
          BY <1>11
        <5> QED BY <3>9, <3>11, <5>1, CommonMost
      <4> QED BY <1>11, <4>1, <4>2
    <3>13. p.node = NULL /\ p.edge = e /\ p.offset = skip.todo
      BY <3>10, <3>12 DEF stree_path_end_edge
    <3> QED BY <1>11, <3>2, <3>3, <3>4, <3>5, <3>6, <3>7, <3>13 DEF At, Interior
  <2> QED BY <2>1, <2>2
<1>13. InsertRight(d)'
  <2>1. At(d, p, cur, j, i - j)' /\ Interior(p)' /\ Pending(d)'
    BY <1>1, <1>3, <1>7, <1>12, SameReading, SameHeading
  <2>2. At(d, end, cur, j, i - j)' /\ Interior(end)'
    BY <1>9, <2>1
  <2> QED BY <1>1, <1>7, <1>8, <1>11, <2>1, <2>2 DEF InsertRight
<1>14. ControlRight(d)'
  BY <1>1, <1>6, <1>13 DEF ControlRight, MatchRight, PhaseRight, ExtendRight, FollowRight
<1> QED BY <1>5, <1>14 DEF Right
=============================================================================
