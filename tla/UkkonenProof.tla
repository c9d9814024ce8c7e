---------------------------- MODULE UkkonenProof ----------------------------
(***************************************************************************)
(* Proofs about the words of SuffixTree, for every set of inputs and any   *)
(* number of additions: Ukkonen's construction of src/lst_stree.c, with    *)
(* its skipped phases, reused ends, suffix links, skip/count and early     *)
(* stop, makes the suffix tree of the strings added, and what can be read  *)
(* from the root at any moment implements SubstringIndex.                  *)
(*                                                                         *)
(* The invariant is WordsInv of SuffixTreeProof: to the shape of the tree  *)
(* it adds, for some depths d of the nodes, which items every node and     *)
(* edge stands for, which suffixes have their leafs, and for every pc how  *)
(* far the addition has come.  That the steps that make no node keep it is *)
(* proved there; here are the steps by which the tree grows.               *)
(*                                                                         *)
(* The last part is about the labels of src/lst_algorithms.c, which name   *)
(* for every node the strings that its word occurs in: what lst_alg_bus    *)
(* collects from the kids of a node is right because those words are.      *)
(* lst_alg_substring_check reads the tree item by item, so its answer is   *)
(* right for the same reason.                                              *)
(***************************************************************************)
EXTENDS SuffixTreeProof

(* The tree grows by a leaf.                                               *)

(* What a step that makes nodes and edges leaves of those there were: the  *)
(* words of the nodes, and the suffixes in which the edges are read.       *)
Grows(d, dd) ==
  /\ strings' = strings /\ phases' = phases
  /\ \A n \in DOMAIN node :
       /\ n \in DOMAIN node' /\ dd[n] = d[n] /\ kids(n) \subseteq kids(n)'
       /\ n # Root => Str(n)' = Str(n) /\ Pos(dd, n)' = Pos(d, n)
  /\ \A e \in DOMAIN edge :
       /\ e \in DOMAIN edge' /\ edge'[e].src = edge[e].src
       /\ edge'[e].str = edge[e].str /\ edge'[e].start_index = edge[e].start_index

LEMMA GrowsReading ==
  ASSUME TypeOK, NEW d, NEW dd, Grows(d, dd)
  PROVE  /\ cur' = cur
         /\ \A s, k : Item(s, k)' = Item(s, k)
         /\ \A s, k, t, x, l : Agree(s, k, t, x, l)' <=> Agree(s, k, t, x, l)
         /\ \A e \in DOMAIN edge : From(dd, e)' = From(d, e)
         /\ \A e \in DOMAIN edge : \A s, k, l : OnEdge(dd, e, s, k, l)' <=> OnEdge(d, e, s, k, l)
         /\ \A n \in DOMAIN node : InnerOrRoot(n) => InnerOrRoot(n)'
         /\ \A n \in DOMAIN node : \A s, k, l : AtNode(dd, n, s, k, l)' <=> AtNode(d, n, s, k, l)
         /\ \A p, s, k, l : At(d, p, s, k, l) => At(dd, p, s, k, l)'
<1>1. strings' = strings /\ phases' = phases
  BY DEF Grows
<1>2. cur' = cur /\ \A s, k : Item(s, k)' = Item(s, k)
  BY <1>1 DEF cur, Item
<1>3. \A s, k, t, x, l : Agree(s, k, t, x, l)' <=> Agree(s, k, t, x, l)
  BY <1>2 DEF Agree
<1>4. \A e \in DOMAIN edge : From(dd, e)' = From(d, e)
  BY EdgeEnds DEF Grows, From
<1>5. \A e \in DOMAIN edge : \A s, k, l : OnEdge(dd, e, s, k, l)' <=> OnEdge(d, e, s, k, l)
  BY <1>3, <1>4 DEF Grows, OnEdge
<1>6. \A n \in DOMAIN node : InnerOrRoot(n) => InnerOrRoot(n)'
  BY DEF Grows, InnerOrRoot, lst_node_is_leaf
<1>7. \A n \in DOMAIN node : \A s, k, l : AtNode(dd, n, s, k, l)' <=> AtNode(d, n, s, k, l)
  BY <1>3 DEF Grows, AtNode
<1>8. ASSUME NEW p, NEW s, NEW k, NEW l, At(d, p, s, k, l) PROVE At(dd, p, s, k, l)'
  <2>1. CASE p.node # NULL
    BY <1>6, <1>7, <1>8, <2>1 DEF At, InnerOrRoot
  <2>2. CASE p.node = NULL
    <3>1. /\ p.edge \in DOMAIN edge /\ l = d[edge[p.edge].src] + p.offset
          /\ OnEdge(d, p.edge, s, k, l)
      BY <1>8, <2>2 DEF At
    <3>2. /\ p.edge \in DOMAIN edge' /\ l = dd[edge'[p.edge].src] + p.offset
      BY <3>1, EdgeEnds DEF Grows
    <3> QED BY <1>5, <2>2, <3>1, <3>2 DEF At
  <2> QED BY <2>1, <2>2
<1> QED BY <1>2, <1>3, <1>4, <1>5, <1>6, <1>7, <1>8

(* An edge that the step leaves as it is.                                  *)
LEMMA KeptEdge ==
  ASSUME TypeOK, NEW d, NEW dd, Grows(d, dd), Depths(d), Registered \subseteq Registered',
         NEW e \in DOMAIN edge, edge'[e] = edge[e], Window(d, e),
         Made(edge[e].str) \in Int, Made(edge[e].str)' \in Int,
         Made(edge[e].str)' >= Made(edge[e].str),
         node'[edge[e].dst].index = node[edge[e].dst].index
  PROVE  /\ Window(dd, e)' /\ lst_edge_get_length(e)' >= 1
         /\ dd[edge'[e].dst] = dd[edge'[e].src] + lst_edge_get_length(e)'
<1>1. /\ edge[e].src \in DOMAIN node /\ edge[e].dst \in DOMAIN node /\ phases' = phases
      /\ edge[e].start_index \in Int /\ d[edge[e].src] \in Int
  BY EdgeEnds DEF Grows, Depths
<1>2. end_index(e)' = end_index(e) /\ lst_edge_get_length(e)' = lst_edge_get_length(e)
  BY <1>1 DEF lst_edge_get_length, end_index
<1>3. From(dd, e)' = From(d, e) /\ From(d, e) \in Int
  BY <1>1, GrowsReading DEF From
<1>4. Open(e)' <=> Open(e)
  BY DEF Open
<1>5. PICK m : m = edge[e].src
  OBVIOUS
<1>6. dd[m] = d[m] /\ dd[edge[e].dst] = d[edge[e].dst]
  BY <1>1, <1>5 DEF Grows
<1>7. AtNode(dd, edge[e].src, edge[e].str, From(dd, e), dd[edge[e].src])'
  <2>1. PICK t : t = edge[e].str
    OBVIOUS
  <2>2. PICK x : x = From(d, e)
    OBVIOUS
  <2>3. PICK l : l = d[m]
    OBVIOUS
  <2>4. AtNode(d, m, t, x, l)
    BY <1>5, <2>1, <2>2, <2>3 DEF Window
  <2>5. AtNode(dd, m, t, x, l)'
    BY <1>1, <1>5, <2>4, GrowsReading
  <2>6. (edge[e].src = m /\ edge[e].str = t /\ From(dd, e) = x /\ dd[edge[e].src] = l)'
    BY <1>3, <1>5, <1>6, <2>1, <2>2, <2>3
  <2> QED BY <2>5, <2>6
<1>8. From(d, e) < Made(edge[e].str)'
  BY <1>3 DEF Window
<1>9. (edge[e].str \in Registered)' /\ (From(dd, e) >= 0)' /\ (From(dd, e) < Made(edge[e].str))'
  BY <1>3, <1>8 DEF Window
<1>10. (/\ end_index(e) <= phases[edge[e].str]
        /\ Open(e) => edge[e].phase = edge[e].str /\ node[edge[e].dst].index = From(dd, e))'
  BY <1>1, <1>2, <1>3, <1>4 DEF Window
<1>11. Window(dd, e)'
  BY <1>7, <1>9, <1>10 DEF Window
<1> QED BY <1>2, <1>5, <1>6, <1>11 DEF Depths

LEMMA GrowsReadable ==
  ASSUME TypeOK, NEW d, NEW dd, Grows(d, dd), Registered \subseteq Registered',
         \A t \in Registered : Made(t) \in Int /\ Made(t)' \in Int /\ Made(t)' >= Made(t),
         NEW s, NEW k, NEW l, Readable(s, k, l)
  PROVE  Readable(s, k, l)'
<1>1. CASE l <= 0
  BY <1>1 DEF Readable
<1>2. CASE ~ (l <= 0)
  <2>1. PICK t \in Registered : \E x \in 0..(Made(t) - 1) :
          l <= phases[t] - x + 1 /\ Agree(t, x, s, k, l)
    BY <1>2 DEF Readable
  <2>2. PICK x \in 0..(Made(t) - 1) : l <= phases[t] - x + 1 /\ Agree(t, x, s, k, l)
    BY <2>1
  <2>3. x \in (0..(Made(t) - 1))'
    BY <2>1, <2>2
  <2>4. (l <= phases[t] - x + 1)' /\ Agree(t, x, s, k, l)'
    BY <2>2, GrowsReading DEF Grows
  <2>5. t \in Registered'
    BY <2>1
  <2> QED BY <2>3, <2>4, <2>5 DEF Readable
<1> QED BY <1>1, <1>2

(* The suffix links, once the one of the last extension's inner node is    *)
(* set to a node that reads the next suffix.                               *)
LEMMA LinkedRight ==
  ASSUME TypeOK, TreeShape, NEW d, Worded(d), NEW dd, Grows(d, dd), Links(d),
         Inner' \subseteq Inner \cup { prev_new_node' },
         \A n \in DOMAIN node \ { prev_new_node } :
           node'[n].suffix_link_node = node[n].suffix_link_node,
         prev_new_node # NULL => prev_new_node \in Inner,
         NEW k \in Int, NEW l \in Int, NEW m,
         prev_new_node # NULL =>
           /\ AtNode(d, prev_new_node, cur, k - 1, l + 1)
           /\ node'[prev_new_node].suffix_link_node = m
           /\ InnerOrRoot(m)' /\ AtNode(dd, m, cur, k, l)'
  PROVE  Links(dd)'
<1>1. node'[Root].suffix_link_node = NULL
  <2>1. Root # prev_new_node
    BY DEF Inner, NULL, Root
  <2> QED BY <2>1, Domains DEF Links
<1>2. ASSUME NEW n \in Inner, n # prev_new_node PROVE LinkRight(dd, n)'
  <2>1. n \in DOMAIN node /\ n # Root /\ LinkRight(d, n)
    BY <1>2 DEF Inner, Links
  <2>2. PICK q : q = node[n].suffix_link_node
    OBVIOUS
  <2>3. PICK t : t = Str(n)
    OBVIOUS
  <2>4. PICK x : x = Pos(d, n) + 1
    OBVIOUS
  <2>5. PICK z : z = d[n] - 1
    OBVIOUS
  <2>6. InnerOrRoot(q) /\ AtNode(d, q, t, x, z) /\ q \in DOMAIN node
    BY <2>1, <2>2, <2>3, <2>4, <2>5 DEF LinkRight, InnerOrRoot
  <2>7. InnerOrRoot(q)' /\ AtNode(dd, q, t, x, z)'
    BY <2>6, GrowsReading
  <2>8. node'[n].suffix_link_node = q /\ Str(n)' = t /\ Pos(dd, n)' + 1 = x /\ dd[n] - 1 = z
    BY <1>2, <2>1, <2>2, <2>3, <2>4, <2>5 DEF Grows
  <2> QED BY <2>7, <2>8 DEF LinkRight
<1>3. ASSUME NEW n \in Inner, n = prev_new_node PROVE LinkRight(dd, n)'
  <2>1. n = prev_new_node /\ prev_new_node # NULL
    BY <1>3, Domains DEF Inner, NULL
  <2>2. PICK t : t = Str(n)
    OBVIOUS
  <2>3. PICK x : x = Pos(d, n)
    OBVIOUS
  <2>4. n \in DOMAIN node /\ n # Root
    BY <1>3 DEF Inner
  <2>5. x \in Nat /\ d[n] = l + 1 /\ Agree(t, x, cur, k - 1, l + 1)
    BY <2>1, <2>2, <2>3, <2>4, NodeWords DEF AtNode
  <2>6. Agree(t, x + 1, cur, (k - 1) + 1, l)
    BY <2>5, AgreeSub
  <2>7. Agree(cur, k, t, x + 1, l)'
    <3>1. (k - 1) + 1 = k
      OBVIOUS
    <3>2. Agree(cur, k, t, x + 1, l)
      BY <2>6, <3>1, AgreeSym
    <3> QED BY <3>2, GrowsReading
  <2>8. AtNode(dd, m, t, x + 1, l)'
    <3>1. AtNode(dd, m, cur, k, l)'
      BY <2>1
    <3> QED BY <2>7, <3>1, GrowsReading DEF AtNode, Agree
  <2>9. Str(n)' = t /\ Pos(dd, n)' = x /\ dd[n] - 1 = l
    BY <2>2, <2>3, <2>4, <2>5 DEF Grows
  <2>10. node'[n].suffix_link_node = m /\ InnerOrRoot(m)'
    BY <2>1
  <2> QED BY <2>8, <2>9, <2>10 DEF LinkRight
<1>4. ASSUME NEW n \in Inner' \ { prev_new_node' } PROVE LinkRight(dd, n)'
  <2>1. n \in Inner
    BY <1>4
  <2> QED BY <1>2, <1>3, <2>1
<1> QED BY <1>1, <1>4 DEF Links

-----------------------------------------------------------------------------
(* A leaf more, for suffix x of the string, below node n.                  *)
LeafHung(n, leaf, new, x, start) ==
  /\ DOMAIN node' = DOMAIN node \cup { leaf } /\ leaf \notin DOMAIN node
  /\ DOMAIN edge' = DOMAIN edge \cup { new } /\ new \notin DOMAIN edge
  /\ \A m \in DOMAIN node : /\ node'[m].up_edge = node[m].up_edge
                            /\ node'[m].index = node[m].index
  /\ \A e \in DOMAIN edge : edge'[e] = edge[e]
  /\ edge'[new] = edge_leaf_new(n, leaf, cur, start, cur)
  /\ node'[leaf].up_edge = new /\ node'[leaf].index = x

LEMMA LeafHungKids ==
  ASSUME TypeOK, TreeShape, NEW n \in DOMAIN node, InnerOrRoot(n), NEW leaf, NEW new, NEW x, NEW start,
         LeafHung(n, leaf, new, x, start)
  PROVE  /\ \A m \in DOMAIN node : kids(m)' = IF m = n THEN kids(m) \cup { new } ELSE kids(m)
         /\ kids(leaf)' = {} /\ Inner' = Inner
<1>1. /\ DOMAIN node' = DOMAIN node \cup { leaf } /\ leaf \notin DOMAIN node
      /\ DOMAIN edge' = DOMAIN edge \cup { new } /\ new \notin DOMAIN edge
      /\ \A e \in DOMAIN edge : edge'[e] = edge[e]
      /\ edge'[new].src = n
  BY DEF LeafHung, edge_leaf_new, edge_new
<1>2. \A e \in DOMAIN edge : edge[e].src \in DOMAIN node
  BY EdgeEnds
<1>3. ASSUME NEW m \in DOMAIN node PROVE kids(m)' = IF m = n THEN kids(m) \cup { new } ELSE kids(m)
  BY <1>1 DEF kids
<1>4. kids(leaf)' = {}
  BY <1>1, <1>2 DEF kids
<1>5. \A m \in DOMAIN node \ { Root } : lst_node_is_leaf(m)' <=> lst_node_is_leaf(m)
  BY <1>3 DEF InnerOrRoot, lst_node_is_leaf
<1>6. lst_node_is_leaf(leaf)'
  BY <1>4 DEF lst_node_is_leaf
<1>7. Inner' = Inner
  BY <1>1, <1>5, <1>6 DEF Inner
<1> QED BY <1>3, <1>4, <1>7

LEMMA LeafHungGrows ==
  ASSUME TypeOK, TreeShape, NEW d, NEW n \in DOMAIN node, InnerOrRoot(n), NEW leaf, NEW new, NEW x, NEW start,
         LeafHung(n, leaf, new, x, start), strings' = strings, phases' = phases,
         NEW dd, \A m \in DOMAIN node : dd[m] = d[m]
  PROVE  Grows(d, dd)
<1>1. \A m \in DOMAIN node : m \in DOMAIN node' /\ kids(m) \subseteq kids(m)'
  BY LeafHungKids DEF LeafHung
<1>2. ASSUME NEW m \in DOMAIN node, m # Root PROVE Str(m)' = Str(m) /\ Pos(dd, m)' = Pos(d, m)
  <2>1. node[m].up_edge \in DOMAIN edge
    BY <1>2 DEF TreeShape, EdgesAgree
  <2>2. node'[m].up_edge = node[m].up_edge /\ edge'[node[m].up_edge] = edge[node[m].up_edge]
    BY <2>1 DEF LeafHung
  <2>3. dd[edge[node[m].up_edge].src] = d[edge[node[m].up_edge].src]
    BY <2>1, EdgeEnds
  <2> QED BY <2>2, <2>3 DEF Str, Pos, From
<1>3. \A e \in DOMAIN edge : e \in DOMAIN edge' /\ edge'[e] = edge[e]
  BY DEF LeafHung
<1> QED BY <1>1, <1>2, <1>3 DEF Grows

LEMMA LeafGrown ==
  ASSUME IInv, NEW d, TreeRight(d), pc # "idle", pc' # "idle", cur \in DOMAIN strings,
         NEW n \in DOMAIN node, InnerOrRoot(n), NEW leaf, NEW new, NEW x \in Nat,
         NEW start, start = x + d[n], LeafHung(n, leaf, new, x, start),
         strings' = strings, phases' = phases, Registered' = Registered \cup { cur },
         \A t \in Registered \ { cur } : Made(t)' = Made(t),
         cur \in Registered => Made(cur) = x, cur \notin Registered => x = 0, Made(cur)' = x + 1,
         AtNode(d, n, cur, x, d[n]), start <= phases[cur], phases[cur] <= Len(strings[cur]),
         \A e \in kids(n) : Item(edge[e].str, edge[e].start_index) # Item(cur, start)
  PROVE  \E dd : TreeRight(dd)' /\ Grows(d, dd)
<1>1. TypeOK /\ TreeShape /\ Depths(d) /\ Windows(d) /\ Forks /\ Complete
  BY DEF IInv, TreeRight
<1>2. /\ cur' = cur /\ phases[cur] \in Int /\ Len(strings[cur]) \in Nat /\ cur # Local
      /\ d[n] \in Nat /\ start \in Nat /\ Root \in DOMAIN node
  BY <1>1, Domains, Markers DEF cur, Local, Depths
<1>3. /\ DOMAIN node' = DOMAIN node \cup { leaf } /\ leaf \notin DOMAIN node
      /\ DOMAIN edge' = DOMAIN edge \cup { new } /\ new \notin DOMAIN edge
      /\ \A e \in DOMAIN edge : edge'[e] = edge[e]
      /\ \A m \in DOMAIN node : node'[m].index = node[m].index
      /\ edge'[new].src = n /\ edge'[new].dst = leaf /\ edge'[new].str = cur
      /\ edge'[new].start_index = start /\ edge'[new].phase = cur
      /\ node'[leaf].index = x
  BY DEF LeafHung, edge_leaf_new, edge_new
<1>4. PICK dd : dd = [m \in DOMAIN node' |-> IF m = leaf THEN d[n] + (phases[cur] - start + 1) ELSE d[m]]
  OBVIOUS
<1>5. /\ dd \in [DOMAIN node' -> Nat] /\ dd[leaf] = d[n] + (phases[cur] - start + 1)
      /\ \A m \in DOMAIN node : dd[m] = d[m]
  <2>1. d[n] + (phases[cur] - start + 1) \in Nat
    BY SMTT(30), <1>2
  <2> QED BY <1>1, <1>3, <1>4, <2>1 DEF Depths
<1>6. Grows(d, dd)
  BY <1>1, <1>5, LeafHungGrows
<1>7. /\ end_index(new)' = phases[cur] /\ lst_edge_get_length(new)' = phases[cur] - start + 1
      /\ From(dd, new)' = x /\ Open(new)'
  <2>1. end_index(new)' = phases[cur]
    BY <1>2, <1>3 DEF end_index
  <2>2. dd[n] = d[n]
    BY <1>5
  <2> QED BY <1>2, <1>3, <2>1, <2>2 DEF lst_edge_get_length, From, Open
<1>8. \A t \in Registered : Made(t) \in Int /\ Made(t)' \in Int /\ Made(t)' >= Made(t)
  <2>1. ASSUME NEW t \in Registered PROVE Made(t) \in Int /\ Made(t)' \in Int /\ Made(t)' >= Made(t)
    <3>1. Made(t) \in Int
      BY <1>1, MadeType
    <3>2. CASE t = cur
      <4>1. Made(t)' = x + 1
        BY <1>2, <3>2 DEF Made
      <4> QED BY <2>1, <3>1, <3>2, <4>1
    <3>3. CASE t # cur
      BY <3>1, <3>3
    <3> QED BY <3>2, <3>3
  <2> QED BY <2>1
<1>9. ASSUME NEW e \in DOMAIN edge
      PROVE  /\ Window(dd, e)' /\ lst_edge_get_length(e)' >= 1
             /\ dd[edge'[e].dst] = dd[edge'[e].src] + lst_edge_get_length(e)'
  <2>1. Window(d, e) /\ edge'[e] = edge[e] /\ node'[edge[e].dst].index = node[edge[e].dst].index
    BY <1>1, <1>3, EdgeEnds DEF Windows
  <2>2. edge[e].str \in Registered
    BY <2>1 DEF Window
  <2>3. Made(edge[e].str) \in Int /\ Made(edge[e].str)' \in Int /\ Made(edge[e].str)' >= Made(edge[e].str)
    <3>1. PICK t \in Registered : t = edge[e].str
      BY <2>2
    <3>2. edge'[e].str = t
      BY <2>1, <3>1
    <3> QED BY <1>8, <3>1, <3>2
  <2>4. Registered \subseteq Registered'
    OBVIOUS
  <2> QED BY <1>1, <1>6, <2>1, <2>3, <2>4, KeptEdge
<1>10. Depths(dd)'
  <2>1. dd[Root] = 0
    BY <1>1, <1>2, <1>5 DEF Depths
  <2>2. /\ lst_edge_get_length(new)' >= 1
        /\ dd[edge'[new].dst] = dd[edge'[new].src] + lst_edge_get_length(new)'
    BY <1>2, <1>3, <1>5, <1>7
  <2> QED BY <1>3, <1>5, <1>9, <2>1, <2>2 DEF Depths
<1>11. Windows(dd)'
  <2>1. AtNode(dd, edge[new].src, edge[new].str, From(dd, new), dd[edge[new].src])'
    <3>1. PICK s : s = cur
      OBVIOUS
    <3>2. PICK z : z = d[n]
      OBVIOUS
    <3>3. AtNode(dd, n, s, x, z)'
      BY <1>1, <1>6, <3>1, <3>2, GrowsReading
    <3>4. dd[n] = z
      BY <1>5, <3>2
    <3> QED BY <1>3, <1>7, <3>1, <3>3, <3>4
  <2>2. Window(dd, new)'
    BY <1>2, <1>3, <1>7, <2>1 DEF Window
  <2> QED BY <1>3, <1>9, <2>2 DEF Windows
<1>12. Forks'
  <2>1. \A s, k : Item(s, k)' = Item(s, k)
    BY <1>1, <1>6, GrowsReading
  <2>2. ASSUME NEW e \in DOMAIN edge', NEW f \in DOMAIN edge', edge'[e].src = edge'[f].src,
               Item(edge[e].str, edge[e].start_index)' = Item(edge[f].str, edge[f].start_index)'
        PROVE  e = f
    <3>1. CASE e \in DOMAIN edge /\ f \in DOMAIN edge
      BY <1>1, <1>3, <2>1, <2>2, <3>1 DEF Forks
    <3>2. CASE e = new /\ f \in DOMAIN edge
      <4>1. f \in kids(n)
        BY <1>3, <2>2, <3>2 DEF kids
      <4> QED BY <1>3, <2>1, <2>2, <3>2, <4>1
    <3>3. CASE f = new /\ e \in DOMAIN edge
      <4>1. e \in kids(n)
        BY <1>3, <2>2, <3>3 DEF kids
      <4> QED BY <1>3, <2>1, <2>2, <3>3, <4>1
    <3> QED BY <1>3, <3>1, <3>2, <3>3
  <2>3. ASSUME NEW m \in Inner', NEW e \in kids(m)' PROVE \E f \in kids(m)' : f # e
    <3>1. m \in Inner /\ m \in DOMAIN node
      BY <1>1, LeafHungKids DEF Inner
    <3>2. kids(m)' = IF m = n THEN kids(m) \cup { new } ELSE kids(m)
      BY <1>1, <3>1, LeafHungKids
    <3>3. kids(m) # {} /\ \A g \in kids(m) : \E f \in kids(m) : f # g
      BY <1>1, <3>1 DEF Forks, Inner, lst_node_is_leaf
    <3>4. CASE e \in kids(m)
      BY <3>2, <3>3, <3>4
    <3>5. CASE e = new
      BY <1>3, <3>2, <3>3, <3>5 DEF kids
    <3> QED BY <2>3, <3>2, <3>4, <3>5
  <2> QED BY <2>2, <2>3 DEF Forks
<1>13. Complete'
  <2>1. ASSUME NEW t \in Registered', NEW y \in 0..(Made(t)' - 1) PROVE HasSuffix(t, y)'
    <3>1. CASE t = cur /\ y = x
      BY <1>3, <1>7, <3>1 DEF HasSuffix
    <3>2. CASE ~ (t = cur /\ y = x)
      <4>1. t \in Registered /\ y \in 0..(Made(t) - 1)
        <5>1. CASE t = cur
          <6>1. Made(t)' = x + 1
            BY <1>2, <5>1 DEF Made
          <6> QED BY <2>1, <3>2, <5>1, <6>1
        <5>2. CASE t # cur
          BY <2>1, <5>2
        <5> QED BY <5>1, <5>2
      <4>2. HasSuffix(t, y)
        BY <1>1, <4>1 DEF Complete
      <4>3. PICK e \in DOMAIN edge : Open(e) /\ edge[e].str = t /\ node[edge[e].dst].index = y
        BY <4>2 DEF HasSuffix
      <4> QED BY <1>1, <1>3, <4>3, EdgeEnds DEF HasSuffix, Open
    <3> QED BY <3>1, <3>2
  <2>2. ASSUME NEW t \in Registered'
        PROVE  (/\ phases[t] <= Len(strings[t])
                /\ t # cur \/ pc = "idle" => phases[t] = Len(strings[t]))'
    BY <1>1, <1>2, <2>2 DEF Complete
  <2> QED BY <2>1, <2>2 DEF Complete
<1> QED BY <1>6, <1>10, <1>11, <1>12, <1>13 DEF TreeRight

LEMMA LeafEdgeType ==
  ASSUME IInv, cur \in DOMAIN strings, NEW n \in DOMAIN node, NEW start \in Int
  PROVE  edge_leaf_new(n, Len(node) + 1, cur, start, cur) \in Edges(Len(node) + 1)
<1>1. /\ Len(node) \in Nat /\ DOMAIN node = 1..Len(node)
      /\ cur \in 1..Len(strings) /\ Len(strings) \in Nat
  BY Domains DEF IInv
<1> QED BY <1>1 DEF edge_leaf_new, edge_new, Edges, Local

(* The two steps that hang a leaf.                                         *)
LEMMA HangLeaf ==
  ASSUME IInv, cur \in DOMAIN strings, NEW n \in DOMAIN node, NEW x \in Int, NEW start \in Int,
         NEW grown, grown = Append([node EXCEPT ![n].num_kids = @ + 1], node_new(Len(edge) + 1, 0, x)),
         node' = grown \/ node' = Linked(grown, n),
         edge' = Append(edge, edge_leaf_new(n, Len(node) + 1, cur, start, cur))
  PROVE  LeafHung(n, Len(node) + 1, Len(edge) + 1, x, start)
<1> DEFINE leaf == Len(node) + 1
           new  == Len(edge) + 1
           base == [node EXCEPT ![n].num_kids = @ + 1]
           hung == node_new(Len(edge) + 1, 0, x)
           below == edge_leaf_new(n, leaf, cur, start, cur)
<1>1. /\ Len(node) \in Nat /\ Len(edge) \in Nat /\ DOMAIN node = 1..Len(node)
      /\ DOMAIN edge = 1..Len(edge) /\ prev_new_node \in 0..Len(node)
  BY Domains DEF IInv, TypeOK, LocalType
<1>2. MoreNodes(grown, n)
  BY LeafBelow
<1>3. MoreNodes(node', n) /\ MoreEdges(edge', n)
  BY <1>2, LeafBelowLinked, EdgeBelow
<1>4. DOMAIN node' = DOMAIN node \cup { leaf } /\ leaf \notin DOMAIN node
      /\ DOMAIN edge' = DOMAIN edge \cup { new } /\ new \notin DOMAIN edge
  <2>1. DOMAIN node' = 1..leaf /\ DOMAIN edge' = 1..new
    BY <1>3, LenProperties DEF MoreNodes, MoreEdges
  <2> QED BY <1>1, <2>1
<1>5. edge'[new] = below
  <2>1. below \in Edges(leaf)
    BY LeafEdgeType
  <2>2. edge \in Seq(Edges(leaf))
    <3>1. edge \in Seq(Edges(Len(node)))
      BY DEF IInv, TypeOK, ShapeType, EdgeType, Edges
    <3>2. Edges(Len(node)) \subseteq Edges(leaf)
      BY <1>1, NodesEdgesGrow
    <3> HIDE DEF leaf
    <3> QED BY <3>1, <3>2, SeqMonotonic
  <2>3. edge' = Append(edge, below)
    OBVIOUS
  <2> HIDE DEF below
  <2> QED BY <2>1, <2>2, <2>3, AppendProperties
<1>6. node'[leaf].index = x
  <2>1. grown[leaf].index = x
    <3>2. Len(base) = Len(node)
      OBVIOUS
    <3>3. grown[leaf] = hung
      OBVIOUS
    <3> QED BY <3>3 DEF node_new
  <2>2. CASE node' = grown
    BY <2>1, <2>2
  <2>3. CASE node' = Linked(grown, n)
    <3>1. leaf # prev_new_node /\ leaf \in DOMAIN grown
      BY <1>1, <1>2, LenProperties DEF MoreNodes
    <3> HIDE DEF leaf
    <3> QED BY <2>1, <2>3, <3>1 DEF Linked
  <2> QED BY <2>1, <2>2, <2>3
<1> QED BY <1>3, <1>4, <1>5, <1>6 DEF LeafHung, MoreNodes, MoreEdges

-----------------------------------------------------------------------------
(* What is known when item i is added to items j to i - 1.                 *)
LEMMA AtInsertion ==
  ASSUME IInv, NEW d, Right(d), pc = "insert"
  PROVE  /\ TypeOK /\ TreeShape /\ TreeRight(d) /\ Links(d) /\ Worded(d) /\ Complete /\ Between
         /\ cur \in DOMAIN strings /\ cur \in Registered /\ InPhase
         /\ i \in Nat /\ j \in Nat /\ j <= i /\ Len(strings[cur]) \in Nat /\ i <= Len(strings[cur])
         /\ phases[cur] = i /\ Made(cur) = j /\ skip.extra = i
         /\ ~ stop_extensions /\ ~ use_end
         /\ At(d, end, cur, j, i - j) /\ Interior(end)
         /\ prev_new_node # NULL =>
              j >= 1 /\ prev_new_node \in Inner /\ AtNode(d, prev_new_node, cur, j - 1, i - j + 1)
<1>1. /\ TypeOK /\ TreeShape /\ TreeRight(d) /\ Links(d) /\ Worded(d) /\ Complete /\ Between
      /\ cur \in DOMAIN strings /\ cur \in Registered
  BY RightWorded DEF Right, ControlRight, IInv, WellPlaced, Between, Working
<1>2. /\ InPhase /\ 0 <= j /\ j <= i /\ ~ stop_extensions /\ ~ use_end
      /\ Pending(d) /\ skip.extra = i /\ At(d, end, cur, j, i - j) /\ Interior(end)
  BY DEF Right, ControlRight, InsertRight
<1>3. j \in Int /\ Len(strings[cur]) \in Nat
  BY <1>1, Markers DEF TypeOK, LocalType
<1>4. i \in Nat /\ i <= Len(strings[cur]) /\ phases[cur] = i
  BY <1>2, <1>3 DEF InPhase
<1>5. Made(cur) = j
  BY DEF Made
<1> QED BY <1>1, <1>2, <1>3, <1>4, <1>5 DEF Pending

LEMMA ExtensionsGoOn ==
  ASSUME IInv, NEW d, Right(d), NEW dd, Grows(d, dd), NEW new, NextExtension(new),
         Made(cur)' \in Int, Made(cur)' >= Made(cur)
  PROVE  /\ Between' /\ InPhase' /\ 0 <= j' /\ j' <= i' + 1 /\ Registered' = Registered
         /\ \A t \in Registered : Made(t) \in Int /\ Made(t)' \in Int /\ Made(t)' >= Made(t)
         /\ MatchRight(dd)' /\ PhaseRight(dd)' /\ FollowRight(dd)' /\ InsertRight(dd)'
<1>1. /\ pc = "insert" /\ pc' = "extend" /\ j' = j + 1 /\ i' = i
      /\ hash' = hash /\ strings' = strings /\ num_strings' = num_strings /\ phases' = phases
  BY DEF NextExtension, tableVars, doneVars, Grows
<1>2. /\ TypeOK /\ Between /\ InPhase /\ i \in Nat /\ j \in Nat /\ j <= i
      /\ cur \in Registered
  BY <1>1, AtInsertion
<1>3. Registered' = Registered /\ cur' = cur
  BY <1>1 DEF Registered, cur
<1>4. Between'
  BY <1>1, <1>2, <1>3 DEF Between, Working
<1>5. ASSUME NEW t \in Registered PROVE Made(t) \in Int /\ Made(t)' \in Int /\ Made(t)' >= Made(t)
  <2>1. Made(t) \in Int
    BY <1>2, MadeType
  <2>2. CASE t = cur
    <3>1. Made(t)' = Made(cur)'
      BY <1>3, <2>2 DEF Made
    <3> QED BY <2>1, <2>2, <3>1
  <2>3. CASE t # cur
    <3>1. Made(t)' = Made(t)
      BY <1>1, <1>3, <2>3 DEF Made
    <3> QED BY <2>1, <3>1
  <2> QED BY <2>2, <2>3
<1>6. InPhase'
  <2>1. ASSUME NEW k \in 0..i PROVE Readable(cur, k, i - k)'
    <3>1. PICK s : s = cur
      OBVIOUS
    <3>2. PICK l : l = i - k
      OBVIOUS
    <3>3. Readable(s, k, l)
      BY <1>2, <3>1, <3>2 DEF InPhase, Implicit
    <3>4. Readable(s, k, l)'
      BY <1>2, <1>3, <1>5, <3>3, GrowsReadable
    <3>5. cur' = s /\ i' - k = l
      BY <1>1, <1>3, <3>1, <3>2
    <3> QED BY <3>4, <3>5
  <2>2. Implicit'
    BY <1>1, <2>1 DEF Implicit
  <2> QED BY <1>1, <1>2, <1>3, <2>2 DEF InPhase
<1>7. MatchRight(dd)' /\ PhaseRight(dd)' /\ FollowRight(dd)' /\ InsertRight(dd)'
  BY <1>1 DEF MatchRight, PhaseRight, FollowRight, InsertRight
<1> QED BY <1>1, <1>2, <1>3, <1>4, <1>5, <1>6, <1>7

(* Rule 2 at a node.                                                       *)
LEMMA AddLeafAtRight ==
  ASSUME IInv, NEW d, Right(d), end.node # NULL, ~ lst_node_is_leaf(end.node), NodeEdge = NULL,
         AddLeafAt(end.node), NextExtension(NULL), UNCHANGED stop_extensions
  PROVE  \E dd : Right(dd)'
<1>1. PICK n : n = end.node
  OBVIOUS
<1>2. /\ pc = "insert" /\ pc' = "extend" /\ j' = j + 1 /\ i' = i /\ prev_new_node' = NULL
      /\ strings' = strings /\ phases' = phases /\ hash' = hash /\ end' = end
      /\ find_skipstring' = TRUE /\ use_end' = use_end /\ stop_extensions' = stop_extensions
  BY DEF NextExtension, AddLeafAt, tableVars
<1>3. /\ TypeOK /\ TreeShape /\ TreeRight(d) /\ Links(d) /\ Worded(d) /\ Complete /\ Between
      /\ cur \in DOMAIN strings /\ cur \in Registered /\ InPhase
      /\ i \in Nat /\ j \in Nat /\ j <= i /\ Len(strings[cur]) \in Nat /\ i <= Len(strings[cur])
      /\ phases[cur] = i /\ Made(cur) = j /\ skip.extra = i
      /\ ~ stop_extensions /\ ~ use_end
      /\ At(d, end, cur, j, i - j)
      /\ prev_new_node # NULL => prev_new_node \in Inner /\ AtNode(d, prev_new_node, cur, j - 1, i - j + 1)
  BY <1>2, AtInsertion
<1>4. InnerOrRoot(n) /\ n \in DOMAIN node /\ AtNode(d, n, cur, j, i - j) /\ end.offset = 0 /\ d[n] = i - j
  BY <1>1, <1>3 DEF At, AtNode, InnerOrRoot
<1>5. PICK leaf : leaf = Len(node) + 1
  OBVIOUS
<1>6. PICK new : new = Len(edge) + 1
  OBVIOUS
<1>7. PICK grown : grown = Append([node EXCEPT ![n].num_kids = @ + 1], node_new(Len(edge) + 1, 0, j))
  OBVIOUS
<1>8. node' = Linked(grown, n) /\ edge' = Append(edge, edge_leaf_new(n, Len(node) + 1, cur, i, cur))
  BY <1>1, <1>3, <1>7 DEF AddLeafAt
<1>9. LeafHung(n, leaf, new, j, i)
  <2>1. i \in Int /\ j \in Int
    BY <1>3
  <2>2. LeafHung(n, Len(node) + 1, Len(edge) + 1, j, i)
    BY <1>3, <1>4, <1>7, <1>8, <2>1, HangLeaf
  <2> QED BY <1>5, <1>6, <2>2
<1>10. \A e \in kids(n) : Item(edge[e].str, edge[e].start_index) # Item(cur, i)
  <2>1. NULL = node_find_edge_with_startitem(n, cur, i) /\ i < num_items(cur)
    BY <1>1, <1>3 DEF NodeEdge, num_items
  <2> QED BY <1>3, <1>4, <2>1, EdgeChosen
<1>11. Made(cur)' = j + 1 /\ cur' = cur /\ Registered' = Registered
  BY <1>2, <1>3 DEF Made, cur, Registered
<1>12. \A t \in Registered \ { cur } : Made(t)' = Made(t)
  BY <1>2, <1>11 DEF Made
<1>13. PICK dd : TreeRight(dd)' /\ Grows(d, dd)
  <2>1. PICK x \in Nat : x = j
    BY <1>3
  <2>2. PICK start : start = i
    OBVIOUS
  <2>3. start = x + d[n] /\ LeafHung(n, leaf, new, x, start) /\ AtNode(d, n, cur, x, d[n])
    BY <1>3, <1>4, <1>9, <2>1, <2>2
  <2>4. /\ Registered' = Registered \cup { cur } /\ Made(cur)' = x + 1 /\ Made(cur) = x
        /\ start <= phases[cur] /\ phases[cur] <= Len(strings[cur]) /\ pc # "idle" /\ pc' # "idle"
    BY <1>2, <1>3, <1>11, <2>1, <2>2
  <2>5. \A e \in kids(n) : Item(edge[e].str, edge[e].start_index) # Item(cur, start)
    BY <1>10, <2>2
  <2> QED BY <1>2, <1>3, <1>4, <1>12, <2>3, <2>4, <2>5, LeafGrown
<1>14. /\ Between' /\ InPhase' /\ 0 <= j' /\ j' <= i' + 1
       /\ MatchRight(dd)' /\ PhaseRight(dd)' /\ FollowRight(dd)' /\ InsertRight(dd)'
  BY <1>3, <1>11, <1>13, ExtensionsGoOn
<1>15. Links(dd)'
  <2>1. Inner' \subseteq Inner \cup { prev_new_node' }
    BY <1>3, <1>4, <1>9, LeafHungKids
  <2>2. /\ Len(node) \in Nat /\ DOMAIN node = 1..Len(node) /\ prev_new_node \in 0..Len(node) /\ j \in Int
    BY <1>3, Domains DEF TypeOK, LocalType
  <2>3. MoreNodes(grown, n) /\ MoreNodes(node', n)
    BY <1>3, <1>4, <1>7, <1>8, <2>2, LeafBelow, LeafBelowLinked
  <2>4. \A m \in DOMAIN node \ { prev_new_node } : node'[m].suffix_link_node = node[m].suffix_link_node
    BY <2>3 DEF MoreNodes
  <2>5. prev_new_node # NULL => node'[prev_new_node].suffix_link_node = n
    <3>1. SUFFICES ASSUME prev_new_node # NULL PROVE node'[prev_new_node].suffix_link_node = n
      OBVIOUS
    <3>2. DOMAIN grown = 1..(Len(node) + 1) /\ grown \in Seq(Nodes(Len(node) + 1, Len(edge) + 1))
      BY <2>3, LenProperties DEF MoreNodes
    <3>3. prev_new_node \in DOMAIN grown
      BY <2>2, <3>1, <3>2 DEF NULL
    <3>4. grown[prev_new_node] \in Nodes(Len(node) + 1, Len(edge) + 1)
      BY <3>2, <3>3, ElementOfSeq
    <3> QED BY <1>8, <3>1, <3>3, <3>4 DEF Linked, Nodes
  <2>6. PICK k \in Int : k = j
    BY <1>3
  <2>7. PICK l \in Int : l = i - j
    BY <1>3
  <2>8. prev_new_node # NULL => AtNode(d, prev_new_node, cur, k - 1, l + 1)
    BY <1>3, <2>6, <2>7
  <2>9. InnerOrRoot(n)' /\ AtNode(dd, n, cur, k, l)'
    <3>1. PICK s : s = cur
      OBVIOUS
    <3>2. AtNode(d, n, s, k, l)
      BY <1>4, <2>6, <2>7, <3>1
    <3>3. InnerOrRoot(n)' /\ AtNode(dd, n, s, k, l)'
      BY <1>3, <1>4, <1>13, <3>2, GrowsReading
    <3> QED BY <1>11, <3>1, <3>3
  <2> QED BY <1>3, <1>13, <2>1, <2>4, <2>5, <2>8, <2>9, LinkedRight
<1>16. ExtendRight(dd)'
  <2>1. At(dd, end, cur, j - 1, i - j + 1)'
    <3>1. PICK p : p = end
      OBVIOUS
    <3>2. PICK s : s = cur
      OBVIOUS
    <3>3. PICK k : k = j
      OBVIOUS
    <3>4. PICK l : l = i - j
      OBVIOUS
    <3>5. At(dd, p, s, k, l)'
      BY <1>3, <1>13, <3>1, <3>2, <3>3, <3>4, GrowsReading
    <3>6. end' = p /\ cur' = s /\ j' - 1 = k /\ i' - j' + 1 = l
      BY <1>2, <1>3, <1>11, <3>1, <3>2, <3>3, <3>4
    <3> QED BY <3>5, <3>6
  <2>2. Extended(dd)'
    BY <1>2, <1>3, <2>1 DEF Extended, Pending
  <2> QED BY <1>2, <1>3, <1>14, <2>2 DEF ExtendRight
<1> QED BY <1>13, <1>14, <1>15, <1>16 DEF Right, ControlRight

(* The first string.                                                       *)
LEMMA EnterFirstStringRight ==
  ASSUME IInv, NEW d, Right(d), EnterFirstString
  PROVE  \E dd : Right(dd)'
<1>1. /\ strings' = strings /\ phases' = phases
      /\ hash' = [hash EXCEPT ![cur] = string_index] /\ num_strings = 0
      /\ pc = "enter" /\ pc' = "phase" /\ i' = 1 /\ end' = stree_path_end_edge(Len(edge) + 1, 0)
      /\ UNCHANGED << last_extension, stop_extensions, find_skipstring, prev_new_node >>
  BY DEF EnterFirstString, Register, doneVars
<1>2. /\ TreeRight(d) /\ Links(d) /\ Between /\ Worded(d) /\ Complete /\ TypeOK /\ TreeShape
      /\ cur \in DOMAIN strings
  BY <1>1, RightWorded DEF Right, ControlRight, IInv, WellPlaced
<1>3. Registered' = Registered \cup { cur } /\ cur' = cur
  <2>1. string_index >= 0 /\ cur \in DOMAIN hash
    BY <1>2, Domains DEF TypeOK, TableType
  <2> QED BY <1>1, <2>1 DEF Registered, cur
<1>4. /\ cur \notin Registered /\ phases[cur] = 0 /\ prev_new_node = NULL /\ ~ stop_extensions
      /\ find_skipstring /\ last_extension = 0 /\ DOMAIN edge = {}
  <2>1. ~ (num_strings > 0)
    BY <1>1
  <2> QED BY <1>1, <1>2, <2>1 DEF Between
<1>5. Registered = {}
  <2>1. SUFFICES ASSUME NEW t \in Registered PROVE FALSE
    OBVIOUS
  <2>2. Made(t) = Len(strings[t]) + 1 /\ Len(strings[t]) \in Nat
    BY <1>2, <1>4, MadeType, Markers DEF Made
  <2>3. HasSuffix(t, 0)
    BY <1>2, <2>2 DEF Complete
  <2> QED BY <1>4, <2>3 DEF HasSuffix
<1>6. PICK new : new = Len(edge) + 1
  OBVIOUS
<1>7. PICK leaf : leaf = Len(node) + 1
  OBVIOUS
<1>8. LeafHung(Root, leaf, new, 0, 0)
  <2>1. /\ node' = Append([node EXCEPT ![Root].num_kids = @ + 1], node_new(Len(edge) + 1, 0, 0))
        /\ edge' = Append(edge, edge_leaf_new(Root, Len(node) + 1, cur, 0, cur))
    BY DEF EnterFirstString
  <2>2. PICK z \in Int : z = 0
    OBVIOUS
  <2>3. /\ node' = Append([node EXCEPT ![Root].num_kids = @ + 1], node_new(Len(edge) + 1, 0, z))
        /\ edge' = Append(edge, edge_leaf_new(Root, Len(node) + 1, cur, z, cur))
    BY <2>1, <2>2
  <2>4. Root \in DOMAIN node
    BY <1>2, Domains
  <2>5. LeafHung(Root, Len(node) + 1, Len(edge) + 1, z, z)
    BY <1>2, <2>3, <2>4, HangLeaf
  <2> QED BY <1>6, <1>7, <2>2, <2>5
<1>9. InnerOrRoot(Root) /\ Root \in DOMAIN node /\ d[Root] = 0 /\ Len(strings[cur]) \in Nat /\ Len(strings[cur]) >= 1
  BY <1>2, Domains, Markers DEF InnerOrRoot, Worded, Depths
<1>10. Made(cur)' = 1
  BY <1>1, <1>3, <1>4 DEF Made
<1>11. PICK dd : TreeRight(dd)' /\ Grows(d, dd)
  <2>1. PICK x \in Nat : x = 0
    OBVIOUS
  <2>2. PICK start : start = 0
    OBVIOUS
  <2>3. start = x + d[Root] /\ LeafHung(Root, leaf, new, x, start) /\ AtNode(d, Root, cur, x, d[Root])
    BY <1>8, <1>9, <2>1, <2>2 DEF AtNode
  <2>4. Made(cur)' = x + 1 /\ start <= phases[cur] /\ phases[cur] <= Len(strings[cur]) /\ pc # "idle" /\ pc' # "idle"
    BY <1>1, <1>4, <1>9, <1>10, <2>1, <2>2
  <2>5. \A e \in kids(Root) : Item(edge[e].str, edge[e].start_index) # Item(cur, start)
    BY <1>4 DEF kids
  <2> QED BY <1>1, <1>2, <1>3, <1>4, <1>5, <1>9, <2>1, <2>3, <2>4, <2>5, LeafGrown
<1>12. Inner = {} /\ Inner' = {}
  <2>1. Inner' = Inner
    BY <1>2, <1>8, <1>9, LeafHungKids
  <2>2. \A n : kids(n) = {}
    BY <1>4 DEF kids
  <2> QED BY <2>1, <2>2 DEF Inner, lst_node_is_leaf
<1>13. Links(dd)'
  <2>1. node'[Root].suffix_link_node = NULL
    <3>1. node'[Root] = [node[Root] EXCEPT !.num_kids = @ + 1]
      <4>1. node \in Seq(NodeType) /\ Len(node) \in Nat /\ Root \in 1..Len(node)
        BY <1>2, <1>9, Domains DEF TypeOK, ShapeType
      <4> QED BY <1>9, <4>1 DEF EnterFirstString
    <3>2. node[Root] \in NodeType
      BY <1>2, <1>9, Domains
    <3> QED BY <1>2, <3>1, <3>2 DEF Links, NodeType
  <2> QED BY <1>12, <2>1 DEF Links
<1>14. Between'
  BY <1>1, <1>3 DEF Between, Working
<1>15. PhaseRight(dd)'
  <2>1. Implicit'
    <3>1. ASSUME NEW k \in 0..1 PROVE Readable(cur, k, 1 - k)'
      <4>1. CASE k = 1
        BY <4>1 DEF Readable
      <4>2. CASE k = 0
        <5>1. cur \in Registered'
          BY <1>3
        <5>2. 0 \in (0..(Made(cur) - 1))'
          BY <1>10
        <5>3. (1 - 0 <= phases[cur] - 0 + 1)'
          BY <1>1, <1>3, <1>4
        <5>4. Agree(cur, 0, cur, 0, 1 - 0)'
          BY DEF Agree
        <5>5. cur' \in Registered'
          BY <1>3
        <5> QED BY <4>2, <5>2, <5>3, <5>4, <5>5 DEF Readable
      <4> QED BY <3>1, <4>1, <4>2
    <3> QED BY <1>1, <3>1 DEF Implicit
  <2>2. At(dd, end, cur, last_extension + 1, i - last_extension - 1)'
    <3>1. end' = stree_path_end_edge(new, 0) /\ new \in DOMAIN edge' /\ edge'[new].src = Root
      BY <1>1, <1>6, <1>8 DEF LeafHung, edge_leaf_new, edge_new
    <3>2. end'.node = NULL /\ end'.edge = new /\ end'.offset = 0
      BY <3>1 DEF stree_path_end_edge
    <3>3. dd[Root] = 0 /\ i' - last_extension' - 1 = 0
      BY <1>1, <1>4, <1>9, <1>11 DEF Grows
    <3>4. OnEdge(dd, new, cur, last_extension + 1, 0)'
      BY DEF OnEdge, Agree
    <3>5. At(dd, end, cur, last_extension + 1, 0)'
      BY <3>1, <3>2, <3>3, <3>4 DEF At
    <3> QED BY <3>3, <3>5
  <2>3. end'.offset = 0
    BY <1>1 DEF stree_path_end_edge
  <2>4. num_items(cur)' = Len(strings[cur]) + 1
    BY <1>1, <1>3 DEF num_items
  <2> QED BY <1>1, <1>3, <1>4, <1>9, <2>1, <2>2, <2>3, <2>4 DEF PhaseRight
<1>16. ControlRight(dd)'
  BY <1>1, <1>14, <1>15 DEF ControlRight, MatchRight, ExtendRight, FollowRight, InsertRight
<1> QED BY <1>11, <1>13, <1>16 DEF Right

-----------------------------------------------------------------------------
(* Extensions by Rule 3, which stop the phase.                             *)

(* A step that only sets a suffix link.                                    *)
LEMMA OnlyLinks ==
  ASSUME IInv, NEW d, TreeRight(d), NEW target \in 0..Len(node), node' = Linked(node, target),
         UNCHANGED << strings, phases, hash, edge >>, pc # "idle", pc' # "idle",
         \A t \in Registered : Made(t)' = Made(t)
  PROVE  /\ TreeRight(d)' /\ Grows(d, d) /\ Inner' = Inner
         /\ \A n \in DOMAIN node \ { prev_new_node } :
              node'[n].suffix_link_node = node[n].suffix_link_node
         /\ prev_new_node # NULL => node'[prev_new_node].suffix_link_node = target
         /\ \A e : lst_edge_get_length(e)' = lst_edge_get_length(e)
<1>1. /\ strings' = strings /\ phases' = phases /\ hash' = hash /\ edge' = edge
      /\ TypeOK /\ TreeShape /\ Depths(d) /\ Windows(d) /\ Forks /\ Complete
  BY DEF IInv, TreeRight
<1>2. /\ Len(node) \in Nat /\ Len(edge) \in Nat /\ DOMAIN node = 1..Len(node)
      /\ prev_new_node \in 0..Len(node) /\ node \in Seq(Nodes(Len(node), Len(edge)))
      /\ \A n \in DOMAIN node : node[n] \in NodeType
  BY <1>1, Domains DEF TypeOK, LocalType, ShapeType, NodeType, Nodes
<1>3. LinksOnly(node', node, Len(node), Len(edge))
  BY <1>2, NodesLinked
<1>4. /\ DOMAIN node' = DOMAIN node
      /\ \A n \in DOMAIN node : /\ node'[n].up_edge = node[n].up_edge
                                /\ node'[n].index = node[n].index
      /\ \A n \in DOMAIN node \ { prev_new_node } :
           node'[n].suffix_link_node = node[n].suffix_link_node
  BY <1>2, <1>3, LenProperties DEF LinksOnly
<1>5. prev_new_node # NULL => node'[prev_new_node].suffix_link_node = target
  BY <1>2 DEF Linked, NodeType, NULL
<1>6. /\ cur' = cur /\ Registered' = Registered
      /\ \A n : kids(n)' = kids(n) /\ \A s, k : Item(s, k)' = Item(s, k)
      /\ \A e : end_index(e)' = end_index(e) /\ (Open(e)' <=> Open(e))
  BY <1>1 DEF cur, Registered, kids, Item, end_index, Open
<1>7. \A e : lst_edge_get_length(e)' = lst_edge_get_length(e)
  BY <1>1, <1>6 DEF lst_edge_get_length
<1>8. Inner' = Inner
  BY <1>4, <1>6 DEF Inner, lst_node_is_leaf
<1>9. Grows(d, d)
  <2>1. ASSUME NEW n \in DOMAIN node, n # Root PROVE Str(n)' = Str(n) /\ Pos(d, n)' = Pos(d, n)
    BY <1>1, <1>4 DEF Str, Pos, From
  <2> QED BY <1>1, <1>4, <1>6, <2>1 DEF Grows
<1>10. Depths(d)'
  BY <1>1, <1>4, <1>7 DEF Depths
<1>11. Windows(d)'
  <2>1. ASSUME NEW e \in DOMAIN edge PROVE Window(d, e)'
    <3>1. Window(d, e) /\ edge'[e] = edge[e] /\ node'[edge[e].dst].index = node[edge[e].dst].index
      BY <1>1, <1>4, EdgeEnds DEF Windows
    <3>2. PICK t \in Registered : t = edge[e].str
      BY <3>1 DEF Window
    <3>3. Made(t) \in Int /\ Made(t)' = Made(t)
      BY <1>1, MadeType
    <3>4. PICK z \in Int : z = Made(t)
      BY <3>3
    <3>5. Made(edge[e].str) = z /\ Made(edge[e].str)' = z
      BY <1>1, <3>2, <3>3, <3>4
    <3>6. Made(edge[e].str) \in Int /\ Made(edge[e].str)' \in Int
          /\ Made(edge[e].str)' >= Made(edge[e].str)
      BY <3>5
    <3> QED BY <1>1, <1>6, <1>9, <3>1, <3>6, KeptEdge
  <2> QED BY <1>1, <2>1 DEF Windows
<1>12. Forks'
  BY <1>1, <1>6, <1>8 DEF Forks
<1>13. Complete'
  <2>1. \A t, x : HasSuffix(t, x) => HasSuffix(t, x)'
    BY <1>1, <1>4, <1>6, EdgeEnds DEF HasSuffix
  <2> QED BY <1>1, <1>6, <2>1 DEF Complete
<1> QED BY <1>4, <1>5, <1>7, <1>8, <1>9, <1>10, <1>11, <1>12, <1>13 DEF TreeRight

(* Rule 3: item i is there already, and the extensions of the phase stop.  *)
LEMMA Stopping ==
  ASSUME IInv, NEW d, Right(d), NextExtension(NULL), NEW target \in 0..Len(node),
         node' = Linked(node, target), stop_extensions' = TRUE, UNCHANGED << phases, edge, leafs >>,
         prev_new_node # NULL => InnerOrRoot(target) /\ AtNode(d, target, cur, j, i - j),
         i < Len(strings[cur]), NEW p, end' = p, At(d, p, cur, j, i - j + 1), Interior(p)
  PROVE  Right(d)'
<1>1. /\ pc = "insert" /\ pc' = "extend" /\ j' = j + 1 /\ i' = i /\ prev_new_node' = NULL
      /\ strings' = strings /\ phases' = phases /\ hash' = hash /\ edge' = edge
      /\ find_skipstring' = TRUE /\ use_end' = use_end /\ stop_extensions' = TRUE
  BY DEF NextExtension, tableVars
<1>2. /\ TypeOK /\ TreeShape /\ TreeRight(d) /\ Links(d) /\ Worded(d) /\ Complete
      /\ cur \in DOMAIN strings /\ cur \in Registered
      /\ i \in Nat /\ j \in Nat /\ j <= i /\ Made(cur) = j
      /\ prev_new_node # NULL => prev_new_node \in Inner /\ AtNode(d, prev_new_node, cur, j - 1, i - j + 1)
  BY <1>1, AtInsertion
<1>3. Made(cur)' = j /\ cur' = cur
  BY <1>1, <1>2 DEF Made, cur
<1>4. \A t \in Registered : Made(t)' = Made(t)
  <2>1. ASSUME NEW t \in Registered, t # cur PROVE Made(t)' = Made(t)
    BY <1>1, <1>3, <2>1 DEF Made
  <2> QED BY <1>2, <1>3, <2>1
<1>5. /\ TreeRight(d)' /\ Grows(d, d) /\ Inner' = Inner
      /\ \A n \in DOMAIN node \ { prev_new_node } :
           node'[n].suffix_link_node = node[n].suffix_link_node
      /\ prev_new_node # NULL => node'[prev_new_node].suffix_link_node = target
      /\ \A e : lst_edge_get_length(e)' = lst_edge_get_length(e)
  <2>1. UNCHANGED << strings, phases, hash, edge >> /\ pc # "idle" /\ pc' # "idle"
    BY <1>1
  <2> QED BY <1>2, <1>4, <2>1, OnlyLinks
<1>6. /\ Between' /\ InPhase' /\ 0 <= j' /\ j' <= i' + 1
      /\ MatchRight(d)' /\ PhaseRight(d)' /\ FollowRight(d)' /\ InsertRight(d)'
  BY <1>2, <1>3, <1>5, ExtensionsGoOn
<1>7. PICK s : s = cur
  OBVIOUS
<1>8. PICK k \in Int : k = j
  BY <1>2
<1>9. PICK l \in Int : l = i - j
  BY <1>2
<1>10. Links(d)'
  <2>1. prev_new_node # NULL =>
          /\ InnerOrRoot(target)' /\ AtNode(d, target, s, k, l)'
    <3>1. prev_new_node # NULL => InnerOrRoot(target) /\ AtNode(d, target, s, k, l)
      BY <1>7, <1>8, <1>9
    <3> QED BY <1>2, <1>5, <3>1, GrowsReading DEF InnerOrRoot
  <2>2. prev_new_node # NULL =>
          /\ AtNode(d, prev_new_node, cur, k - 1, l + 1)
          /\ node'[prev_new_node].suffix_link_node = target
          /\ InnerOrRoot(target)' /\ AtNode(d, target, cur, k, l)'
    BY <1>2, <1>3, <1>5, <1>7, <1>8, <1>9, <2>1
  <2>3. prev_new_node # NULL => prev_new_node \in Inner
    BY <1>2
  <2>4. Inner' \subseteq Inner \cup { prev_new_node' }
    BY <1>5
  <2> QED BY <1>2, <1>5, <2>2, <2>3, <2>4, LinkedRight
<1>11. Stopped(d)'
  <2>1. At(d, p, s, k, l + 1)'
    <3>1. At(d, p, s, k, l + 1)
      BY <1>7, <1>8, <1>9
    <3> QED BY <1>2, <1>5, <3>1, GrowsReading
  <2>2. cur' = s /\ j' - 1 = k /\ i' - j' + 2 = l + 1 /\ j' >= 1 /\ i' < Len(strings'[cur'])
    BY <1>1, <1>2, <1>3, <1>7, <1>8, <1>9
  <2>3. At(d, end, cur, j - 1, i - j + 2)'
    BY <2>1, <2>2
  <2>4. Interior(p)'
    BY <1>5 DEF Interior
  <2>5. Interior(end)'
    BY <2>4
  <2> QED BY <1>1, <2>2, <2>3, <2>5 DEF Stopped
<1>12. ExtendRight(d)'
  BY <1>1, <1>6, <1>11 DEF ExtendRight
<1> QED BY <1>5, <1>6, <1>10, <1>12 DEF Right, ControlRight

(* Item i, found on an edge below items j to i - 1, is not the marker.     *)
LEMMA NotLast ==
  ASSUME NEW d, Worded(d), Complete, cur \in DOMAIN strings, i \in Nat, i <= Len(strings[cur]),
         j \in Nat, Made(cur) = j, NEW e \in DOMAIN edge, NEW o \in Nat,
         o < lst_edge_get_length(e), d[edge[e].src] + o = i - j,
         Item(edge[e].str, edge[e].start_index + o) = Item(cur, i)
  PROVE  i < Len(strings[cur])
<1>1. PICK t : t = edge[e].str
  OBVIOUS
<1>2. PICK x : x = edge[e].start_index + o
  OBVIOUS
<1>3. /\ edge[e].start_index \in Nat /\ end_index(e) \in Int /\ t \in DOMAIN strings
      /\ d[edge[e].src] \in Nat /\ From(d, e) \in Nat
      /\ edge[e].start_index = From(d, e) + d[edge[e].src]
  BY <1>1, EdgeWords
<1>4. t \in Registered /\ From(d, e) < Made(t) /\ end_index(e) <= phases[t]
  BY <1>1 DEF Worded, Windows, Window
<1>5. phases[t] <= Len(strings[t]) /\ phases[t] \in Int /\ Len(strings[t]) \in Nat /\ Len(strings[cur]) \in Nat
  BY <1>3, <1>4, Domains, Markers DEF Worded, Complete
<1>6. x \in Nat /\ x <= Len(strings[t]) /\ x = From(d, e) + (i - j)
  <2>1. PICK a \in Nat : a = edge[e].start_index
    BY <1>3
  <2>6. PICK b \in Int : b = end_index(e)
    BY <1>3
  <2>7. x = a + o /\ o < b - a + 1
    BY <1>2, <2>1, <2>6 DEF lst_edge_get_length
  <2>8. x \in Nat /\ x <= b
    BY <2>7
  <2>9. b <= phases[t]
    BY <1>4, <2>6
  <2>2. x \in Nat /\ x <= Len(strings[t])
    BY <1>5, <2>8, <2>9
  <2>3. PICK y \in Nat : y = From(d, e)
    BY <1>3
  <2>4. PICK z \in Nat : z = d[edge[e].src]
    BY <1>3
  <2>5. x = (y + z) + o /\ z + o = i - j
    BY <1>2, <1>3, <2>3, <2>4
  <2> QED BY <2>2, <2>3, <2>5
<1>7. SUFFICES ASSUME i = Len(strings[cur]) PROVE FALSE
  BY <1>5
<1>8. Item(cur, i) = -cur
  BY <1>7, Markers DEF Worded
<1>9. Item(t, x) = -cur
  BY <1>1, <1>2, <1>8
<1>10. x \in Int /\ 0 <= x
  BY <1>6
<1>11. cur = t /\ x = Len(strings[t])
  BY <1>3, <1>6, <1>9, <1>10, Markers DEF Worded
<1>12. From(d, e) = j
  <2>1. PICK y \in Nat : y = From(d, e)
    BY <1>3
  <2>2. y + (i - j) = i
    BY <1>6, <1>7, <1>11, <2>1
  <2> QED BY <2>1, <2>2
<1> QED BY <1>4, <1>11, <1>12

(* One item further, stree_path_end_advance points to the end of item i.   *)
LEMMA Advanced ==
  ASSUME NEW d, Worded(d), Complete, cur \in DOMAIN strings, i \in Nat, i <= Len(strings[cur]),
         j \in Nat, j <= i, Made(cur) = j, phases[cur] = i,
         NEW e \in DOMAIN edge, NEW o \in Nat,
         o < lst_edge_get_length(e), d[edge[e].src] + o = i - j,
         OnEdge(d, e, cur, j, i - j), Item(edge[e].str, edge[e].start_index + o) = Item(cur, i),
         NEW p, p = IF o + 1 = lst_edge_get_length(e) THEN stree_path_end_node(edge[e].dst)
                                                     ELSE stree_path_end_edge(e, o + 1)
  PROVE  At(d, p, cur, j, i - j + 1) /\ Interior(p)
<1>1. /\ edge[e].dst \in DOMAIN node /\ edge[e].dst # Root /\ node[edge[e].dst].up_edge = e
      /\ d[edge[e].src] \in Nat /\ From(d, e) \in Nat /\ lst_edge_get_length(e) \in Int
      /\ edge[e].start_index = From(d, e) + d[edge[e].src]
      /\ Str(edge[e].dst) = edge[e].str /\ Pos(d, edge[e].dst) = From(d, e)
      /\ d[edge[e].dst] = d[edge[e].src] + lst_edge_get_length(e)
      /\ e # NULL /\ edge[e].dst # NULL /\ Len(strings[cur]) \in Nat
  <2>1. TypeOK
    BY DEF Worded
  <2>2. edge[e].dst \in DOMAIN node /\ lst_edge_get_length(e) \in Int
    BY <2>1, EdgeEnds
  <2>3. e # NULL /\ edge[e].dst # NULL
    BY SMTT(30), <2>1, <2>2, Domains DEF NULL
  <2>4. d[edge[e].dst] = d[edge[e].src] + lst_edge_get_length(e)
    BY DEF Worded, Depths
  <2>5. Len(strings[cur]) \in Nat
    BY <2>1, Markers
  <2> QED BY <2>2, <2>3, <2>4, <2>5, EdgeWords
<1>2. OnEdge(d, e, cur, j, i - j + 1)
  <2>1. PICK l \in Nat : l = i - j
    OBVIOUS
  <2>2. PICK x \in Nat : x = From(d, e)
    BY <1>1
  <2>3. PICK z \in Nat : z = d[edge[e].src]
    BY <1>1
  <2>4. x + l = (x + z) + o /\ j + l = i
    BY <2>1, <2>3
  <2>5. Item(edge[e].str, x + l) = Item(cur, j + l)
    BY <1>1, <2>2, <2>3, <2>4
  <2>6. Agree(edge[e].str, x, cur, j, l)
    BY <2>1, <2>2 DEF OnEdge
  <2> QED BY <2>1, <2>2, <2>5, <2>6, AgreeNext DEF OnEdge
<1>3. CASE o + 1 = lst_edge_get_length(e)
  <2>1. PICK n : n = edge[e].dst
    OBVIOUS
  <2>2. p.node = n /\ p.offset = 0 /\ p.node # NULL
    BY <1>1, <1>3, <2>1 DEF stree_path_end_node
  <2>3. d[n] = i - j + 1
    <3>1. PICK z \in Nat : z = d[edge[e].src]
      BY <1>1
    <3>2. d[n] = z + (o + 1) /\ z + o = i - j
      BY <1>1, <1>3, <2>1, <3>1
    <3> QED BY <3>2
  <2>4. AtNode(d, n, cur, j, i - j + 1)
    BY <1>1, <1>2, <2>1, <2>3 DEF AtNode, OnEdge
  <2>5. PICK k \in Nat : k = j
    OBVIOUS
  <2>6. PICK l \in Int : l = i - j + 1
    OBVIOUS
  <2>7. AtNode(d, n, cur, k, l) /\ k + l - 1 <= Len(strings[cur]) /\ Made(cur) \in Int
        /\ \A x \in 0..(Made(cur) - 1) : phases[cur] - x + 1 # l
    BY <2>4, <2>5, <2>6
  <2>8. InnerOrRoot(n)
    BY <1>1, <2>1, <2>7, NotLeaf
  <2> QED BY <2>2, <2>4, <2>8 DEF At, Interior
<1>4. CASE o + 1 # lst_edge_get_length(e)
  <2>1. p.node = NULL /\ p.edge = e /\ p.offset = o + 1
    BY <1>4 DEF stree_path_end_edge, NULL
  <2>2. i - j + 1 = d[edge[e].src] + (o + 1)
    <3>1. PICK z \in Nat : z = d[edge[e].src]
      BY <1>1
    <3>2. z + o = i - j
      BY <3>1
    <3> QED BY <3>1, <3>2
  <2>3. p.offset \in 1..(lst_edge_get_length(e) - 1)
    BY SMTT(30), <1>1, <1>4, <2>1
  <2> QED BY <1>2, <2>1, <2>2, <2>3 DEF At, Interior
<1> QED BY <1>3, <1>4

LEMMA StopAtNodeRight ==
  ASSUME IInv, NEW d, Right(d), StopAtNode
  PROVE  Right(d)'
<1>1. /\ pc = "insert" /\ end.node # NULL /\ NodeEdge # NULL /\ NextExtension(NULL)
      /\ end' = stree_path_end_advance(end, NodeEdge) /\ node' = Linked(node, end.node)
      /\ stop_extensions' = TRUE /\ UNCHANGED << phases, edge, leafs >>
  BY DEF StopAtNode, NextExtension
<1>2. /\ TypeOK /\ Worded(d) /\ Complete
      /\ cur \in DOMAIN strings /\ i \in Nat /\ j \in Nat /\ j <= i
      /\ Len(strings[cur]) \in Nat /\ i <= Len(strings[cur])
      /\ phases[cur] = i /\ Made(cur) = j /\ skip.extra = i
      /\ At(d, end, cur, j, i - j)
  BY <1>1, AtInsertion
<1>3. PICK n : n = end.node
  OBVIOUS
<1>4. PICK e : e = NodeEdge
  OBVIOUS
<1>5. InnerOrRoot(n) /\ n \in DOMAIN node /\ AtNode(d, n, cur, j, i - j) /\ end.offset = 0 /\ d[n] = i - j
  BY <1>1, <1>2, <1>3 DEF At, AtNode, InnerOrRoot
<1>6. e \in DOMAIN edge /\ edge[e].src = n /\ Item(edge[e].str, edge[e].start_index) = Item(cur, i)
  <2>1. e = node_find_edge_with_startitem(n, cur, i) /\ i < num_items(cur) /\ e # NULL /\ i \in Int
    BY <1>1, <1>2, <1>3, <1>4 DEF NodeEdge, num_items
  <2> QED BY <1>2, <1>5, <2>1, EdgeChosen
<1>7. PICK o \in Nat : o = 0
  OBVIOUS
<1>8. /\ o < lst_edge_get_length(e) /\ d[edge[e].src] + o = i - j
      /\ Item(edge[e].str, edge[e].start_index + o) = Item(cur, i)
  <2>1. lst_edge_get_length(e) >= 1 /\ lst_edge_get_length(e) \in Int /\ edge[e].start_index \in Int
    BY <1>2, <1>6, EdgeEnds DEF Worded, Depths
  <2> QED BY <1>2, <1>5, <1>6, <1>7, <2>1
<1>9. OnEdge(d, e, cur, j, i - j)
  <2>1. AtNode(d, edge[e].src, cur, j, d[edge[e].src])
    BY <1>5, <1>6
  <2>2. OnEdge(d, e, cur, j, d[edge[e].src])
    BY <1>2, <1>6, <2>1, UpperWords
  <2> QED BY <1>5, <1>6, <2>2
<1>10. PICK p : p = end'
  OBVIOUS
<1>11. p = IF o + 1 = lst_edge_get_length(e) THEN stree_path_end_node(edge[e].dst)
                                            ELSE stree_path_end_edge(e, o + 1)
  BY <1>1, <1>4, <1>5, <1>7, <1>10 DEF stree_path_end_advance
<1>12. At(d, p, cur, j, i - j + 1) /\ Interior(p)
  BY <1>2, <1>6, <1>8, <1>9, <1>11, Advanced
<1>13. i < Len(strings[cur])
  BY <1>2, <1>6, <1>8, NotLast
<1>14. n \in 0..Len(node)
  BY <1>2, <1>5, Domains
<1> QED BY <1>1, <1>3, <1>5, <1>10, <1>12, <1>13, <1>14, Stopping

(* Where an edge goes on with item i.                                      *)
LEMMA WithinEdge ==
  ASSUME IInv, NEW d, Right(d), pc = "insert", end.node = NULL
  PROVE  /\ end.edge \in DOMAIN edge /\ end.offset \in Nat /\ end.offset >= 1
         /\ end.offset < lst_edge_get_length(end.edge)
         /\ d[edge[end.edge].src] + end.offset = i - j
         /\ OnEdge(d, end.edge, cur, j, i - j)
         /\ EdgeHasItem =>
              Item(edge[end.edge].str, edge[end.edge].start_index + end.offset) = Item(cur, i)
<1>1. /\ TypeOK /\ At(d, end, cur, j, i - j) /\ Interior(end) /\ skip.extra = i
  BY AtInsertion
<1>2. /\ end.edge \in DOMAIN edge /\ i - j = d[edge[end.edge].src] + end.offset
      /\ OnEdge(d, end.edge, cur, j, i - j)
      /\ end.offset \in 1..(lst_edge_get_length(end.edge) - 1)
  BY <1>1 DEF At, Interior
<1>3. lst_edge_get_length(end.edge) \in Int
  BY <1>1, <1>2, EdgeEnds
<1>4. EdgeHasItem =>
        Item(edge[end.edge].str, edge[end.edge].start_index + end.offset) = Item(cur, i)
  BY <1>1 DEF EdgeHasItem, lst_string_eq
<1> QED BY <1>2, <1>3, <1>4

(* After a split at suffix j - 1, suffix j does not end within an edge that*)
(* goes on with item i: the edge would have been split before.             *)
LEMMA NothingPending ==
  ASSUME IInv, NEW d, Right(d), pc = "insert", end.node = NULL, EdgeHasItem
  PROVE  prev_new_node = NULL
<1>1. /\ TypeOK /\ TreeShape /\ Worded(d) /\ Complete /\ cur \in DOMAIN strings
      /\ i \in Nat /\ j \in Nat /\ j <= i /\ Made(cur) = j
      /\ prev_new_node # NULL =>
           j >= 1 /\ prev_new_node \in Inner /\ AtNode(d, prev_new_node, cur, j - 1, i - j + 1)
  BY AtInsertion
<1>2. PICK e : e = end.edge
  OBVIOUS
<1>3. PICK o \in Nat : o = end.offset
  BY WithinEdge
<1>4. /\ e \in DOMAIN edge /\ o >= 1 /\ o < lst_edge_get_length(e)
      /\ d[edge[e].src] + o = i - j /\ OnEdge(d, e, cur, j, i - j)
      /\ Item(edge[e].str, edge[e].start_index + o) = Item(cur, i)
  BY <1>2, <1>3, WithinEdge
<1>5. SUFFICES ASSUME prev_new_node # NULL PROVE FALSE
  OBVIOUS
<1>6. PICK p : p = prev_new_node
  OBVIOUS
<1>7. p \in Inner /\ p \in DOMAIN node /\ p # Root /\ d[p] = i - j + 1
      /\ Agree(Str(p), Pos(d, p), cur, j - 1, i - j + 1)
  BY <1>1, <1>5, <1>6 DEF AtNode, Inner
<1>8. PICK f \in kids(p) : Item(edge[f].str, edge[f].start_index) # Item(cur, i)
  <2>1. PICK g \in kids(p) : TRUE
    BY <1>7 DEF Inner, lst_node_is_leaf
  <2>2. PICK h \in kids(p) : h # g
    BY <1>1, <1>7 DEF Worded, Forks
  <2>3. Item(edge[g].str, edge[g].start_index) # Item(edge[h].str, edge[h].start_index)
    BY <1>1, <2>2 DEF Worded, Forks, kids
  <2> QED BY <2>3
<1>9. f \in DOMAIN edge /\ edge[f].src = p
  BY <1>8 DEF kids
<1>10. PICK t : t = edge[f].str
  OBVIOUS
<1>11. PICK x \in Nat : x = From(d, f)
  BY <1>1, <1>9, EdgeWords
<1>12. PICK l \in Nat : l = i - j
  BY <1>1
<1>13. /\ t \in DOMAIN strings /\ t \in Registered /\ x < Made(t)
       /\ edge[f].start_index = x + (l + 1) /\ end_index(f) \in Int /\ end_index(f) <= phases[t]
       /\ edge[f].start_index <= end_index(f) /\ AtNode(d, p, t, x, d[p])
       /\ phases[t] \in Int /\ Len(strings[t]) \in Nat /\ phases[t] <= Len(strings[t])
       /\ Made(t) \in Int
  <2>1. Window(d, f) /\ lst_edge_get_length(f) >= 1
    BY <1>1, <1>9 DEF Worded, Windows, Depths
  <2>2. /\ t \in DOMAIN strings /\ end_index(f) \in Int /\ edge[f].start_index \in Nat
        /\ edge[f].start_index = x + (l + 1)
    BY <1>1, <1>7, <1>9, <1>10, <1>11, <1>12, EdgeWords
  <2>3. edge[f].start_index <= end_index(f)
    BY <2>1, <2>2 DEF lst_edge_get_length
  <2>4. phases[t] \in Int /\ Made(t) \in Int
    BY <1>1, <1>10, <2>1, MadeType DEF Window
  <2>5. Len(strings[t]) \in Nat
    BY <1>1, <2>2, Markers
  <2> QED BY <1>1, <1>9, <1>10, <1>11, <2>1, <2>2, <2>3, <2>4, <2>5 DEF Window, Complete
<1>14. Agree(t, x + 1, cur, j, l)
  <2>1. Agree(Str(p), Pos(d, p), t, x, l + 1)
    BY <1>7, <1>12, <1>13 DEF AtNode
  <2>2. PICK k \in Int : k = j - 1
    BY <1>1
  <2>3. Agree(t, x, cur, k, l + 1)
    <3>1. Agree(Str(p), Pos(d, p), cur, k, l + 1)
      BY <1>7, <1>12, <2>2
    <3> QED BY <2>1, <3>1, AgreeSym, AgreeTrans
  <2>4. Agree(t, x + 1, cur, k + 1, l)
    BY <2>3, AgreeSub
  <2>5. k + 1 = j
    BY <1>1, <2>2
  <2> QED BY <2>4, <2>5
<1>15. x + 1 < Made(t)
  <2>1. x + (l + 1) <= phases[t]
    BY <1>13
  <2>2. CASE t # cur
    <3>1. Made(t) = Len(strings[t]) + 1
      BY <2>2 DEF Made
    <3> QED BY <1>13, <2>1, <3>1
  <2>3. CASE t = cur
    <3>1. x + 1 # j
      <4>1. SUFFICES ASSUME x + 1 = j PROVE FALSE
        OBVIOUS
      <4>2. edge[f].start_index = i
        BY <1>1, <1>12, <1>13, <4>1
      <4> QED BY <1>8, <1>10, <2>3, <4>2
    <3> QED BY <1>1, <1>13, <2>3, <3>1
  <2> QED BY <2>2, <2>3
<1>16. Readable(t, x + 1, l + 1)
  <2>1. PICK y \in Nat : y = x + 1
    OBVIOUS
  <2>2. PICK z \in Int : z = phases[t]
    BY <1>13
  <2>3. PICK a \in Int : a = end_index(f)
    BY <1>13
  <2>4. y \in 0..(Made(t) - 1)
    BY <1>13, <1>15, <2>1
  <2>5. x + (l + 1) <= a /\ a <= z
    BY <1>13, <2>2, <2>3
  <2>6. l + 1 <= z - y + 1
    BY <2>1, <2>5
  <2>7. Agree(t, y, t, y, l + 1)
    BY AgreeRefl
  <2> QED BY <1>13, <2>1, <2>2, <2>4, <2>6, <2>7 DEF Readable
<1>17. PICK z \in Nat : z = d[edge[e].src]
  BY <1>1, <1>4, EdgeWords
<1>18. z + o = l
  BY <1>4, <1>12, <1>17
<1>19. OnEdge(d, e, t, x + 1, l + 1)
  <2>1. OnEdge(d, e, t, x + 1, l)
    <3>1. Agree(cur, j, t, x + 1, l)
      BY <1>14, AgreeSym
    <3> QED BY <1>4, <1>12, <3>1, AgreeTrans DEF OnEdge
  <2>2. OnEdge(d, e, t, x + 1, d[edge[e].src] + 1)
    BY <1>4, <1>17, <1>18, <2>1, AgreeShorter DEF OnEdge
  <2>3. l + 1 > d[edge[e].src]
    BY <1>17, <1>18
  <2>4. l + 1 <= d[edge[e].dst]
    <3>1. d[edge[e].dst] = z + lst_edge_get_length(e) /\ lst_edge_get_length(e) \in Int
      BY <1>1, <1>4, <1>17, EdgeEnds DEF Worded, Depths
    <3> QED BY <1>4, <1>18, <3>1
  <2>5. PICK q \in Int : q = l + 1
    OBVIOUS
  <2>6. Readable(t, x + 1, q) /\ q > d[edge[e].src] /\ q <= d[edge[e].dst]
    BY <1>16, <2>3, <2>4, <2>5
  <2>7. PICK y : y = x + 1
    OBVIOUS
  <2>8. Readable(t, y, q) /\ OnEdge(d, e, t, y, d[edge[e].src] + 1)
    BY <2>2, <2>6, <2>7
  <2>9. OnEdge(d, e, t, y, q)
    BY <1>1, <1>4, <2>6, <2>8, Follows
  <2> QED BY <2>5, <2>7, <2>9
<1>20. PICK y \in Nat : y = From(d, e)
  BY <1>1, <1>4, EdgeWords
<1>21. Item(edge[e].str, y + l) = Item(t, (x + 1) + l)
  BY <1>19, <1>20, AgreeItem DEF OnEdge
<1>22. edge[e].start_index + o = y + l
  <2>1. edge[e].start_index = y + z
    BY <1>1, <1>4, <1>17, <1>20, EdgeWords
  <2> QED BY <1>18, <2>1
<1>23. edge[f].start_index = (x + 1) + l
  BY <1>13
<1> QED BY <1>4, <1>8, <1>10, <1>21, <1>22, <1>23

LEMMA StopAtEdgeRight ==
  ASSUME IInv, NEW d, Right(d), StopAtEdge
  PROVE  Right(d)'
<1>1. /\ pc = "insert" /\ end.node = NULL /\ EdgeHasItem /\ NextExtension(NULL)
      /\ end' = stree_path_end_advance(end, NULL) /\ node' = Linked(node, NULL)
      /\ stop_extensions' = TRUE /\ UNCHANGED << phases, edge, leafs >>
  BY DEF StopAtEdge, NextExtension
<1>2. /\ TypeOK /\ Worded(d) /\ Complete
      /\ cur \in DOMAIN strings /\ i \in Nat /\ j \in Nat /\ j <= i
      /\ Len(strings[cur]) \in Nat /\ i <= Len(strings[cur])
      /\ phases[cur] = i /\ Made(cur) = j
  BY <1>1, AtInsertion
<1>3. PICK e : e = end.edge
  OBVIOUS
<1>4. PICK o \in Nat : o = end.offset
  BY <1>1, WithinEdge
<1>5. /\ e \in DOMAIN edge /\ o >= 1 /\ o < lst_edge_get_length(e)
      /\ d[edge[e].src] + o = i - j /\ OnEdge(d, e, cur, j, i - j)
      /\ Item(edge[e].str, edge[e].start_index + o) = Item(cur, i)
  BY <1>1, <1>3, <1>4, WithinEdge
<1>6. prev_new_node = NULL
  BY <1>1, NothingPending
<1>7. PICK p : p = end'
  OBVIOUS
<1>8. p = IF o + 1 = lst_edge_get_length(e) THEN stree_path_end_node(edge[e].dst)
                                           ELSE stree_path_end_edge(e, o + 1)
  BY <1>1, <1>3, <1>4, <1>7 DEF stree_path_end_advance
<1>9. At(d, p, cur, j, i - j + 1) /\ Interior(p)
  BY <1>2, <1>5, <1>8, Advanced
<1>10. i < Len(strings[cur])
  BY <1>2, <1>5, NotLast
<1>11. PICK target \in 0..Len(node) : target = NULL
  BY <1>2, Domains DEF NULL
<1> QED BY <1>1, <1>6, <1>7, <1>9, <1>10, <1>11, Stopping

-----------------------------------------------------------------------------
(* Extensions that split an edge.                                          *)

(* The tree after edge up is split above node old, o items down.           *)
Halved(up, inner, leaf, low, side, o) ==
  /\ EdgeSplit(up, inner, leaf, low, side)
  /\ edge'[up].str = edge[up].str /\ edge'[up].start_index = edge[up].start_index
  /\ edge'[up].phase = Local /\ edge'[up].end_local = edge[up].start_index + o - 1
  /\ edge'[low].str = edge[up].str /\ edge'[low].start_index = edge[up].start_index + o
  /\ edge'[low].phase = edge[up].phase
  /\ edge'[low].phase = Local => edge'[low].end_local = end_index(up)
  /\ edge'[side].str = cur /\ edge'[side].start_index = skip.extra /\ edge'[side].phase = cur
  /\ \A m \in DOMAIN node :
       /\ node'[m].up_edge = IF m = edge[up].dst THEN low ELSE node[m].up_edge
       /\ node'[m].index = node[m].index
       /\ m # prev_new_node => node'[m].suffix_link_node = node[m].suffix_link_node
  /\ node'[inner].up_edge = up /\ node'[leaf].up_edge = side /\ node'[leaf].index = j
  /\ prev_new_node # NULL => node'[prev_new_node].suffix_link_node = inner

LEMMA TwoMore ==
  ASSUME NEW S, NEW s \in Seq(S), NEW k \in DOMAIN s, NEW a \in S, NEW b \in S, NEW c \in S,
         NEW r, r = Append(Append([s EXCEPT ![k] = a], b), c)
  PROVE  /\ \A e \in DOMAIN s : r[e] = IF e = k THEN a ELSE s[e]
         /\ r[Len(s) + 1] = b /\ r[Len(s) + 2] = c
         /\ r \in Seq(S) /\ Len(r) = Len(s) + 2
<1>1. Len(s) \in Nat /\ DOMAIN s = 1..Len(s)
  BY LenProperties
<1>2. PICK t : t = [s EXCEPT ![k] = a]
  OBVIOUS
<1>3. t \in Seq(S) /\ Len(t) = Len(s) /\ \A e \in 1..Len(s) : t[e] = IF e = k THEN a ELSE s[e]
  BY <1>1, <1>2, ExceptSeq
<1>4. PICK u : u = Append(t, b)
  OBVIOUS
<1>5. u \in Seq(S) /\ Len(u) = Len(s) + 1 /\ u[Len(s) + 1] = b /\ \A e \in 1..Len(s) : u[e] = t[e]
  BY <1>3, <1>4, Appended
<1>6. r = Append(u, c)
  BY <1>2, <1>4
<1>7. r \in Seq(S) /\ Len(r) = Len(u) + 1 /\ r[Len(u) + 1] = c /\ \A e \in 1..Len(u) : r[e] = u[e]
  BY <1>5, <1>6, Appended
<1> QED BY <1>1, <1>3, <1>5, <1>7

LEMMA SplitHalved ==
  ASSUME IInv, SplitEdge
  PROVE  Halved(end.edge, Len(node) + 1, Len(node) + 2, Len(edge) + 1, Len(edge) + 2, end.offset)
<1>1. /\ TypeOK /\ TreeShape /\ WellPlaced /\ end.node = NULL /\ pc = "insert"
      /\ strings' = strings /\ phases' = phases
      /\ EdgeSplit(end.edge, Len(node) + 1, Len(node) + 2, Len(edge) + 1, Len(edge) + 2)
  BY SplitEdgeIInv DEF SplitEdge, IInv, NextExtension, tableVars
<1>2. PICK up : up = end.edge
  OBVIOUS
<1>3. up \in DOMAIN edge
  BY <1>1, <1>2 DEF EdgeSplit
<1>4. PICK old : old = edge[up].dst
  OBVIOUS
<1>5. PICK inner : inner = Len(node) + 1
  OBVIOUS
<1>6. PICK split : split = edge[up].start_index + end.offset
  OBVIOUS
<1>7. PICK lower : lower = IF lst_node_is_leaf(old)
                      THEN edge_leaf_new(inner, old, edge[up].str, split, edge[up].phase)
                      ELSE edge_new(inner, old, edge[up].str, split, end_index(up))
  OBVIOUS
<1>8. PICK upper : upper = [edge[up] EXCEPT !.phase = Local, !.end_local = split - 1, !.dst = inner]
  OBVIOUS
<1>9. PICK aside : aside = edge_leaf_new(inner, Len(node) + 2, cur, skip.extra, cur)
  OBVIOUS
<1>10. PICK grown : grown = Append(Append([node EXCEPT ![old].up_edge = Len(edge) + 1],
                                          node_new(up, 2, -1)),
                                   node_new(Len(edge) + 2, 0, j))
  OBVIOUS
<1>11. edge' = Append(Append([edge EXCEPT ![up] = upper], lower), aside) /\ node' = Linked(grown, inner)
  BY <1>2, <1>4, <1>5, <1>6, <1>7, <1>8, <1>9, <1>10 DEF SplitEdge
<1>12. /\ Len(node) \in Nat /\ Len(edge) \in Nat /\ DOMAIN node = 1..Len(node)
       /\ DOMAIN edge = 1..Len(edge) /\ prev_new_node \in 0..Len(node) /\ j \in Int
       /\ edge[up] \in EdgeType /\ old \in DOMAIN node /\ node \in Seq(NodeType)
       /\ edge \in Seq(EdgeType) /\ \A m \in DOMAIN node : node[m] \in NodeType
  BY <1>1, <1>3, <1>4, Domains, EdgeEnds DEF TypeOK, LocalType, ShapeType
<1>13. lst_node_is_leaf(old) <=> edge[up].phase # Local
  BY <1>1, <1>3, <1>4 DEF TreeShape, LeafEdgesOpen
<1>14. /\ lower.str = edge[up].str /\ lower.start_index = split /\ lower.phase = edge[up].phase
       /\ lower.phase = Local => lower.end_local = end_index(up)
  <2>1. CASE lst_node_is_leaf(old)
    BY <1>7, <1>13, <2>1 DEF edge_leaf_new, edge_new
  <2>2. CASE ~ lst_node_is_leaf(old)
    BY <1>7, <1>13, <2>2 DEF edge_new
  <2> QED BY <2>1, <2>2
<1>15. /\ upper.str = edge[up].str /\ upper.start_index = edge[up].start_index
       /\ upper.phase = Local /\ upper.end_local = split - 1
  BY <1>8, <1>12 DEF EdgeType
<1>16. aside.str = cur /\ aside.start_index = skip.extra /\ aside.phase = cur
  BY <1>9 DEF edge_leaf_new, edge_new
<1>17. /\ edge'[up] = upper /\ edge'[Len(edge) + 1] = lower /\ edge'[Len(edge) + 2] = aside
  <2>1. PICK S : S = EdgeType \cup { upper, lower, aside }
    OBVIOUS
  <2>2. edge \in Seq(S)
    BY <1>12, <2>1, SeqMonotonic
  <2>3. upper \in S /\ lower \in S /\ aside \in S
    BY <2>1
  <2> QED BY <1>3, <1>11, <2>2, <2>3, TwoMore
<1>18. SplitsNodes(grown, old, up)
  BY <1>3, <1>10, <1>12, SplitNodes
<1>19. SplitsNodes(node', old, up)
  BY <1>5, <1>11, <1>12, <1>18, SplitNodesLinked
<1>20. grown \in Seq(Nodes(Len(node) + 2, Len(edge) + 2)) /\ Len(grown) = Len(node) + 2
       /\ DOMAIN grown = 1..(Len(node) + 2)
  BY <1>18, LenProperties DEF SplitsNodes
<1>21. grown[Len(node) + 2].index = j
  <2>1. PICK x : x = [node[old] EXCEPT !.up_edge = Len(edge) + 1]
    OBVIOUS
  <2>2. PICK b : b = node_new(up, 2, -1)
    OBVIOUS
  <2>3. PICK c : c = node_new(Len(edge) + 2, 0, j)
    OBVIOUS
  <2>4. grown = Append(Append([node EXCEPT ![old] = x], b), c)
    BY <1>10, <2>1, <2>2, <2>3
  <2>5. PICK S : S = NodeType \cup { x, b, c }
    OBVIOUS
  <2>6. node \in Seq(S) /\ x \in S /\ b \in S /\ c \in S
    BY <1>12, <2>5, SeqMonotonic
  <2>7. grown[Len(node) + 2] = c
    BY <1>12, <2>4, <2>6, TwoMore
  <2> QED BY <2>3, <2>7 DEF node_new
<1>22. node'[Len(node) + 2].index = j
  <2>1. Len(node) + 2 # prev_new_node /\ Len(node) + 2 \in DOMAIN grown
    BY <1>12, <1>20
  <2> QED BY <1>11, <1>21, <2>1 DEF Linked
<1>23. prev_new_node # NULL => node'[prev_new_node].suffix_link_node = inner
  <2>1. SUFFICES ASSUME prev_new_node # NULL PROVE node'[prev_new_node].suffix_link_node = inner
    OBVIOUS
  <2>2. prev_new_node \in DOMAIN grown
    BY <1>12, <1>20, <2>1 DEF NULL
  <2>3. grown[prev_new_node] \in Nodes(Len(node) + 2, Len(edge) + 2)
    BY <1>20, <2>2, ElementOfSeq
  <2> QED BY <1>11, <2>1, <2>2, <2>3 DEF Linked, Nodes
<1>24. /\ node'[inner].up_edge = up /\ node'[Len(node) + 2].up_edge = Len(edge) + 2
       /\ \A m \in DOMAIN node :
            /\ node'[m].up_edge = IF m = old THEN Len(edge) + 1 ELSE node[m].up_edge
            /\ node'[m].index = node[m].index
            /\ m # prev_new_node => node'[m].suffix_link_node = node[m].suffix_link_node
  BY <1>5, <1>19 DEF SplitsNodes
<1>25. PICK leaf : leaf = Len(node) + 2
  OBVIOUS
<1>26. PICK low : low = Len(edge) + 1
  OBVIOUS
<1>27. PICK side : side = Len(edge) + 2
  OBVIOUS
<1>28. PICK o : o = end.offset
  OBVIOUS
<1>29. EdgeSplit(up, inner, leaf, low, side)
  BY <1>1, <1>2, <1>5, <1>25, <1>26, <1>27
<1>30. /\ edge'[up].str = edge[up].str /\ edge'[up].start_index = edge[up].start_index
       /\ edge'[up].phase = Local /\ edge'[up].end_local = edge[up].start_index + o - 1
       /\ edge'[low].str = edge[up].str /\ edge'[low].start_index = edge[up].start_index + o
       /\ edge'[low].phase = edge[up].phase
       /\ edge'[low].phase = Local => edge'[low].end_local = end_index(up)
       /\ edge'[side].str = cur /\ edge'[side].start_index = skip.extra /\ edge'[side].phase = cur
  <2>1. /\ edge'[up].str = edge[up].str /\ edge'[up].start_index = edge[up].start_index
        /\ edge'[up].phase = Local
    BY <1>15, <1>17
  <2>2. edge'[up].end_local = edge[up].start_index + o - 1
    <3>1. edge'[up].end_local = split - 1
      BY <1>15, <1>17
    <3>2. edge[up].start_index \in Int /\ end.offset \in Int
      BY <1>1, <1>3, EdgeEnds DEF TypeOK, LocalType, EndType
    <3>3. split - 1 = edge[up].start_index + o - 1
      BY <1>6, <1>28, <3>2
    <3> QED BY <3>1, <3>3
  <2>3. edge'[low] = lower /\ edge'[side] = aside
    BY <1>17, <1>26, <1>27
  <2> QED BY <1>6, <1>14, <1>16, <1>28, <2>1, <2>2, <2>3
<1>31. /\ \A m \in DOMAIN node :
            /\ node'[m].up_edge = IF m = edge[up].dst THEN low ELSE node[m].up_edge
            /\ node'[m].index = node[m].index
            /\ m # prev_new_node => node'[m].suffix_link_node = node[m].suffix_link_node
       /\ node'[inner].up_edge = up /\ node'[leaf].up_edge = side /\ node'[leaf].index = j
  BY <1>4, <1>22, <1>24, <1>25, <1>26, <1>27
<1>32. Halved(up, inner, leaf, low, side, o)
  BY <1>23, <1>29, <1>30, <1>31 DEF Halved
<1> QED BY <1>2, <1>5, <1>25, <1>26, <1>27, <1>28, <1>32

LEMMA SplitKids ==
  ASSUME TypeOK, TreeShape, NEW up, NEW inner, NEW leaf, NEW low, NEW side,
         EdgeSplit(up, inner, leaf, low, side)
  PROVE  /\ \A m \in DOMAIN node : kids(m)' = kids(m)
         /\ kids(inner)' = { low, side } /\ kids(leaf)' = {} /\ Inner' = Inner \cup { inner }
<1>1. /\ up \in DOMAIN edge /\ inner \notin DOMAIN node /\ leaf \notin DOMAIN node /\ inner # leaf
      /\ DOMAIN node' = DOMAIN node \cup { inner, leaf }
      /\ DOMAIN edge' = DOMAIN edge \cup { low, side }
      /\ low \notin DOMAIN edge /\ side \notin DOMAIN edge
      /\ \A e \in DOMAIN edge : edge'[e].src = edge[e].src
      /\ edge'[low].src = inner /\ edge'[side].src = inner
  BY DEF EdgeSplit
<1>2. \A e \in DOMAIN edge : edge[e].src \in DOMAIN node
  BY EdgeEnds
<1>3. \A m \in DOMAIN node : kids(m)' = kids(m)
  BY <1>1 DEF kids
<1>4. kids(inner)' = { low, side } /\ kids(leaf)' = {}
  BY <1>1, <1>2 DEF kids
<1>5. Root \in DOMAIN node
  BY Domains
<1>6. Inner' = Inner \cup { inner }
  BY <1>1, <1>3, <1>4, <1>5 DEF Inner, lst_node_is_leaf
<1> QED BY <1>3, <1>4, <1>6

LEMMA SplitGrows ==
  ASSUME TypeOK, TreeShape, NEW d, Depths(d), NEW up, NEW inner, NEW leaf, NEW low, NEW side, NEW o \in Nat,
         Halved(up, inner, leaf, low, side, o), strings' = strings, phases' = phases,
         NEW dd, \A m \in DOMAIN node : dd[m] = d[m], dd[inner] = d[edge[up].src] + o
  PROVE  Grows(d, dd) /\ From(dd, low)' = From(d, up)
<1>1. /\ up \in DOMAIN edge /\ EdgeSplit(up, inner, leaf, low, side)
      /\ \A e \in DOMAIN edge \ { up } : edge'[e] = edge[e]
      /\ DOMAIN edge' = DOMAIN edge \cup { low, side } /\ DOMAIN node' = DOMAIN node \cup { inner, leaf }
      /\ edge'[up].str = edge[up].str /\ edge'[up].start_index = edge[up].start_index
      /\ edge'[up].src = edge[up].src /\ edge'[low].src = inner
      /\ edge'[low].str = edge[up].str /\ edge'[low].start_index = edge[up].start_index + o
      /\ \A m \in DOMAIN node : node'[m].up_edge = IF m = edge[up].dst THEN low ELSE node[m].up_edge
  BY DEF Halved, EdgeSplit
<1>2. /\ edge[up].start_index \in Int /\ edge[up].src \in DOMAIN node /\ d[edge[up].src] \in Nat
      /\ node[edge[up].dst].up_edge = up
  BY <1>1, EdgeEnds DEF Depths, TreeShape, EdgesAgree
<1>3. From(dd, low)' = From(d, up)
  <2>1. From(dd, low)' = (edge[up].start_index + o) - (d[edge[up].src] + o)
    BY <1>1 DEF From
  <2>2. PICK z \in Int : z = edge[up].start_index
    BY <1>2
  <2>3. PICK y \in Nat : y = d[edge[up].src]
    BY <1>2
  <2>4. (z + o) - (y + o) = z - y
    OBVIOUS
  <2> QED BY <2>1, <2>2, <2>3, <2>4 DEF From
<1>4. ASSUME NEW m \in DOMAIN node, m # Root PROVE Str(m)' = Str(m) /\ Pos(dd, m)' = Pos(d, m)
  <2>1. CASE m = edge[up].dst
    <3>1. node'[m].up_edge = low /\ node[m].up_edge = up
      BY <1>1, <1>2, <2>1
    <3> QED BY <1>1, <1>3, <3>1 DEF Str, Pos
  <2>2. CASE m # edge[up].dst
    <3>1. node[m].up_edge \in DOMAIN edge /\ edge[node[m].up_edge].dst = m
      BY <1>4 DEF TreeShape, EdgesAgree
    <3>2. /\ node'[m].up_edge = node[m].up_edge /\ edge'[node[m].up_edge] = edge[node[m].up_edge]
          /\ edge[node[m].up_edge].src \in DOMAIN node
      BY <1>1, <2>2, <3>1, EdgeEnds
    <3> QED BY <3>2 DEF Str, Pos, From
  <2> QED BY <2>1, <2>2
<1>5. \A m \in DOMAIN node : m \in DOMAIN node' /\ kids(m) \subseteq kids(m)'
  BY <1>1, SplitKids
<1>6. ASSUME NEW e \in DOMAIN edge
      PROVE  /\ e \in DOMAIN edge' /\ edge'[e].src = edge[e].src
             /\ edge'[e].str = edge[e].str /\ edge'[e].start_index = edge[e].start_index
  BY <1>1
<1> QED BY <1>3, <1>4, <1>5, <1>6 DEF Grows

(* The words once edge up is split after o items, where the string goes on *)
(* with another item than the edge.                                        *)
LEMMA SplitGrown ==
  ASSUME IInv, NEW d, TreeRight(d), pc # "idle", pc' # "idle", cur \in DOMAIN strings,
         cur \in Registered, strings' = strings, phases' = phases, hash' = hash,
         NEW x \in Nat, NEW l \in Nat, NEW start, start = x + l, skip.extra = start, j = x,
         phases[cur] = start, start <= Len(strings[cur]), Made(cur) = x, Made(cur)' = x + 1,
         \A t \in Registered \ { cur } : Made(t)' = Made(t),
         NEW up \in DOMAIN edge, NEW inner, NEW leaf, NEW low, NEW side, NEW o \in Nat,
         Halved(up, inner, leaf, low, side, o), o >= 1, o < lst_edge_get_length(up),
         d[edge[up].src] + o = l, OnEdge(d, up, cur, x, l),
         Item(edge[up].str, edge[up].start_index + o) # Item(cur, start)
  PROVE  \E dd : TreeRight(dd)' /\ Grows(d, dd) /\ AtNode(dd, inner, cur, x, l)'
<1>1. TypeOK /\ TreeShape /\ Depths(d) /\ Windows(d) /\ Forks /\ Complete /\ Worded(d)
  BY RightWorded DEF IInv, TreeRight
<1>2. PICK old : old = edge[up].dst
  OBVIOUS
<1>3. PICK s : s = cur
  OBVIOUS
<1>4. /\ cur' = s /\ Registered' = Registered /\ phases[s] = start /\ Len(strings[s]) \in Nat /\ s # Local
      /\ Root \in DOMAIN node /\ s \in Registered
  BY <1>1, <1>3, Domains, Markers DEF cur, Local, Registered
<1>5. /\ EdgeSplit(up, inner, leaf, low, side)
      /\ inner # leaf /\ low # side /\ inner \notin DOMAIN node /\ leaf \notin DOMAIN node
      /\ DOMAIN node' = DOMAIN node \cup { inner, leaf }
      /\ DOMAIN edge' = DOMAIN edge \cup { low, side }
      /\ low \notin DOMAIN edge /\ side \notin DOMAIN edge
      /\ \A e \in DOMAIN edge \ { up } : edge'[e] = edge[e]
      /\ edge'[up].src = edge[up].src /\ edge'[up].dst = inner
      /\ edge'[low].src = inner /\ edge'[low].dst = old
      /\ edge'[side].src = inner /\ edge'[side].dst = leaf
  BY <1>2 DEF Halved, EdgeSplit
<1>6. /\ edge'[up].str = edge[up].str /\ edge'[up].start_index = edge[up].start_index
      /\ edge'[up].phase = Local /\ edge'[up].end_local = edge[up].start_index + o - 1
      /\ edge'[low].str = edge[up].str /\ edge'[low].start_index = edge[up].start_index + o
      /\ edge'[low].phase = edge[up].phase
      /\ edge'[low].phase = Local => edge'[low].end_local = end_index(up)
      /\ edge'[side].str = s /\ edge'[side].start_index = start /\ edge'[side].phase = s
      /\ node'[inner].up_edge = up /\ node'[leaf].index = x
      /\ \A m \in DOMAIN node : node'[m].index = node[m].index
  BY <1>3 DEF Halved
<1>7. /\ edge[up].src \in DOMAIN node /\ old \in DOMAIN node /\ edge[up].start_index \in Int
      /\ d[edge[up].src] \in Nat /\ From(d, up) \in Nat /\ lst_edge_get_length(up) \in Int
      /\ edge[up].start_index = From(d, up) + d[edge[up].src]
      /\ d[old] = d[edge[up].src] + lst_edge_get_length(up) /\ end_index(up) \in Int
      /\ edge[up].phase \in 0..Len(strings) /\ edge[up].str \in DOMAIN strings
  BY <1>1, <1>2, EdgeWords, EdgeEnds DEF Depths
<1>8. PICK a \in Int : a = edge[up].start_index
  BY <1>7
<1>9. PICK b \in Int : b = end_index(up)
  BY <1>7
<1>10. PICK z \in Nat : z = d[edge[up].src]
  BY <1>7
<1>11. z + o = l /\ lst_edge_get_length(up) = b - a + 1 /\ o < b - a + 1 /\ From(d, up) = a - z
  BY <1>7, <1>8, <1>9, <1>10 DEF lst_edge_get_length, From
<1>12. PICK dd : dd = [m \in DOMAIN node' |-> IF m = leaf THEN l + 1 ELSE IF m = inner THEN l ELSE d[m]]
  OBVIOUS
<1>13. /\ dd \in [DOMAIN node' -> Nat] /\ dd[leaf] = l + 1 /\ dd[inner] = l
       /\ \A m \in DOMAIN node : dd[m] = d[m]
  BY <1>1, <1>5, <1>12 DEF Depths
<1>14. Grows(d, dd) /\ From(dd, low)' = From(d, up)
  <2>1. dd[inner] = d[edge[up].src] + o
    BY <1>13
  <2> QED BY <1>1, <1>13, <2>1, SplitGrows
<1>15. /\ end_index(up)' = a + o - 1 /\ lst_edge_get_length(up)' = o /\ ~ Open(up)'
       /\ From(dd, up)' = From(d, up)
  <2>1. end_index(up)' = a + o - 1
    BY <1>6, <1>8 DEF end_index
  <2>2. lst_edge_get_length(up)' = (a + o - 1) - a + 1
    BY <1>6, <1>8, <2>1 DEF lst_edge_get_length
  <2>3. From(dd, up)' = From(d, up)
    BY <1>1, <1>14, GrowsReading
  <2> QED BY <1>6, <2>1, <2>2, <2>3 DEF Open
<1>16. /\ end_index(low)' = b /\ lst_edge_get_length(low)' = b - a - o + 1 /\ (Open(low)' <=> Open(up))
  <2>1. end_index(low)' = b
    <3>1. CASE edge[up].phase = Local
      BY <1>6, <1>9, <3>1 DEF end_index
    <3>2. CASE edge[up].phase # Local
      BY <1>6, <1>9, <3>2 DEF end_index
    <3> QED BY <3>1, <3>2
  <2>2. lst_edge_get_length(low)' = b - (a + o) + 1
    BY <1>6, <1>8, <2>1 DEF lst_edge_get_length
  <2>3. b - (a + o) + 1 = b - a - o + 1
    OBVIOUS
  <2> QED BY <1>6, <2>1, <2>2, <2>3 DEF Open
<1>17. /\ end_index(side)' = start /\ lst_edge_get_length(side)' = 1 /\ From(dd, side)' = x /\ Open(side)'
  <2>1. end_index(side)' = start
    BY <1>4, <1>6 DEF end_index
  <2>2. lst_edge_get_length(side)' = start - start + 1 /\ From(dd, side)' = start - l
    BY <1>5, <1>6, <1>13, <2>1 DEF lst_edge_get_length, From
  <2>3. start - start + 1 = 1 /\ start - l = x
    OBVIOUS
  <2> QED BY <1>4, <1>6, <2>1, <2>2, <2>3 DEF Open
<1>18. ASSUME NEW t \in Registered PROVE Made(t) \in Int /\ Made(t)' \in Int /\ Made(t)' >= Made(t)
  <2>1. Made(t) \in Int
    BY <1>1, MadeType
  <2>2. CASE t = cur
    <3>1. Made(t)' = x + 1
      BY <1>3, <1>4, <2>2 DEF Made
    <3> QED BY <2>1, <2>2, <3>1
  <2>3. CASE t # cur
    BY <2>1, <2>3
  <2> QED BY <2>2, <2>3
<1>19. PICK y \in Nat : y = From(d, up)
  BY <1>7
<1>20. PICK t : t = edge[up].str
  OBVIOUS
<1>21. /\ t \in Registered /\ y < Made(t)' /\ b <= phases[t] /\ phases[t] \in Int
       /\ Open(up) => edge[up].phase = t /\ node[old].index = y
       /\ AtNode(d, edge[up].src, t, y, z)
  <2>1. Window(d, up)
    BY <1>1 DEF Windows
  <2>2. t \in Registered /\ y < Made(t)
    BY <1>19, <1>20, <2>1 DEF Window
  <2>3. y < Made(t)'
    BY <1>18, <2>2
  <2>4. phases[t] \in Int
    BY <1>1, <2>2, MadeType
  <2> QED BY <1>2, <1>9, <1>10, <1>19, <1>20, <2>1, <2>2, <2>3, <2>4 DEF Window
<1>22. Str(inner)' = t /\ Pos(dd, inner)' = y
  BY <1>6, <1>15, <1>19, <1>20 DEF Str, Pos
<1>23. AtNode(dd, inner, s, x, l)' /\ AtNode(dd, inner, t, y, l)'
  <2>1. OnEdge(dd, up, s, x, l)'
    BY <1>1, <1>3, <1>14, GrowsReading
  <2>2. Agree(t, y, s, x, l)'
    BY <1>6, <1>15, <1>19, <1>20, <2>1 DEF OnEdge
  <2>3. Agree(t, y, t, y, l)'
    BY DEF Agree
  <2> QED BY <1>13, <1>22, <2>2, <2>3 DEF AtNode
<1>24. ASSUME NEW e \in DOMAIN edge, e # up
       PROVE  /\ Window(dd, e)' /\ lst_edge_get_length(e)' >= 1
              /\ dd[edge'[e].dst] = dd[edge'[e].src] + lst_edge_get_length(e)'
  <2>1. Window(d, e) /\ edge'[e] = edge[e] /\ node'[edge[e].dst].index = node[edge[e].dst].index
    BY <1>1, <1>5, <1>6, <1>24, EdgeEnds DEF Windows
  <2>2. PICK u \in Registered : u = edge[e].str
    BY <2>1 DEF Window
  <2>3. edge'[e].str = u
    BY <2>1, <2>2
  <2>4. Made(edge[e].str) \in Int /\ Made(edge[e].str)' \in Int /\ Made(edge[e].str)' >= Made(edge[e].str)
    BY <1>18, <2>2, <2>3
  <2> QED BY <1>1, <1>4, <1>14, <2>1, <2>4, KeptEdge
<1>25. Depths(dd)'
  <2>1. dd[Root] = 0
    BY <1>1, <1>4, <1>13 DEF Depths
  <2>2. /\ lst_edge_get_length(up)' >= 1
        /\ dd[edge'[up].dst] = dd[edge'[up].src] + lst_edge_get_length(up)'
    BY <1>5, <1>7, <1>13, <1>15
  <2>3. /\ lst_edge_get_length(side)' >= 1
        /\ dd[edge'[side].dst] = dd[edge'[side].src] + lst_edge_get_length(side)'
    BY <1>5, <1>13, <1>17
  <2>4. /\ lst_edge_get_length(low)' >= 1
        /\ dd[edge'[low].dst] = dd[edge'[low].src] + lst_edge_get_length(low)'
    <3>1. dd[edge'[low].dst] = z + (b - a + 1) /\ dd[edge'[low].src] = l
      BY <1>5, <1>7, <1>10, <1>11, <1>13
    <3>2. b - a - o + 1 >= 1 /\ z + (b - a + 1) = l + (b - a - o + 1)
      BY SMTT(30), <1>11
    <3> QED BY <1>16, <3>1, <3>2
  <2> QED BY <1>5, <1>13, <1>24, <2>1, <2>2, <2>3, <2>4 DEF Depths
<1>26. Window(dd, up)'
  <2>1. AtNode(dd, edge[up].src, edge[up].str, From(dd, up), dd[edge[up].src])'
    <3>1. PICK m : m = edge[up].src
      OBVIOUS
    <3>2. AtNode(dd, m, t, y, z)'
      BY <1>1, <1>7, <1>14, <1>21, <3>1, GrowsReading
    <3>3. (edge[up].src = m /\ edge[up].str = t /\ From(dd, up) = y /\ dd[edge[up].src] = z)'
      BY <1>5, <1>6, <1>7, <1>10, <1>13, <1>15, <1>19, <1>20, <3>1
    <3> QED BY <3>2, <3>3
  <2>2. (edge[up].str \in Registered /\ From(dd, up) >= 0 /\ From(dd, up) < Made(edge[up].str))'
    <3>1. Made(edge[up].str)' = Made(t)'
      BY <1>6, <1>20
    <3> QED BY <1>4, <1>6, <1>15, <1>19, <1>20, <1>21, <3>1
  <2>3. (end_index(up) <= phases[edge[up].str])'
    <3>1. a + o - 1 <= b
      BY <1>11
    <3>2. a + o - 1 <= phases[t]
      BY <1>21, <3>1
    <3> QED BY <1>6, <1>15, <1>20, <3>2
  <2> QED BY <1>15, <2>1, <2>2, <2>3 DEF Window
<1>27. Window(dd, low)'
  <2>1. AtNode(dd, edge[low].src, edge[low].str, From(dd, low), dd[edge[low].src])'
    <3>1. (edge[low].src = inner /\ edge[low].str = t /\ From(dd, low) = y /\ dd[edge[low].src] = l)'
      BY <1>5, <1>6, <1>13, <1>14, <1>19, <1>20
    <3> QED BY <1>23, <3>1
  <2>2. (edge[low].str \in Registered /\ From(dd, low) >= 0 /\ From(dd, low) < Made(edge[low].str))'
    <3>1. Made(edge[low].str)' = Made(t)'
      BY <1>6, <1>20
    <3> QED BY <1>4, <1>6, <1>14, <1>19, <1>20, <1>21, <3>1
  <2>3. (end_index(low) <= phases[edge[low].str])'
    BY <1>6, <1>16, <1>20, <1>21
  <2>4. (Open(low) => edge[low].phase = edge[low].str /\ node[edge[low].dst].index = From(dd, low))'
    BY <1>5, <1>6, <1>7, <1>14, <1>16, <1>19, <1>20, <1>21
  <2> QED BY <2>1, <2>2, <2>3, <2>4 DEF Window
<1>28. Window(dd, side)'
  <2>1. AtNode(dd, edge[side].src, edge[side].str, From(dd, side), dd[edge[side].src])'
    <3>1. (edge[side].src = inner /\ edge[side].str = s /\ From(dd, side) = x /\ dd[edge[side].src] = l)'
      BY <1>5, <1>6, <1>13, <1>17
    <3> QED BY <1>23, <3>1
  <2>2. (edge[side].str \in Registered /\ From(dd, side) >= 0 /\ From(dd, side) < Made(edge[side].str))'
    <3>1. Made(edge[side].str)' = x + 1
      BY <1>4, <1>6
    <3> QED BY <1>4, <1>6, <1>17, <3>1
  <2>3. (end_index(side) <= phases[edge[side].str])'
    BY <1>4, <1>6, <1>17
  <2>4. (edge[side].phase = edge[side].str /\ node[edge[side].dst].index = From(dd, side))'
    BY <1>5, <1>6, <1>17
  <2> QED BY <2>1, <2>2, <2>3, <2>4 DEF Window
<1>29. Windows(dd)'
  BY <1>5, <1>24, <1>26, <1>27, <1>28 DEF Windows
<1>30. Forks'
  <2>1. \A u, k : Item(u, k)' = Item(u, k)
    BY <1>1, <1>14, GrowsReading
  <2>2. \A e \in DOMAIN edge : /\ edge'[e].src = edge[e].src /\ edge'[e].str = edge[e].str
                               /\ edge'[e].start_index = edge[e].start_index
                               /\ edge[e].src \in DOMAIN node
    BY <1>1, <1>14, EdgeEnds DEF Grows
  <2>3. Item(edge[low].str, edge[low].start_index)' # Item(edge[side].str, edge[side].start_index)'
    BY <1>3, <1>6, <2>1
  <2>4. ASSUME NEW e \in DOMAIN edge', NEW f \in DOMAIN edge', edge'[e].src = edge'[f].src,
               Item(edge[e].str, edge[e].start_index)' = Item(edge[f].str, edge[f].start_index)'
        PROVE  e = f
    <3>1. CASE e \in DOMAIN edge /\ f \in DOMAIN edge
      BY <1>1, <2>1, <2>2, <2>4, <3>1 DEF Forks
    <3>2. CASE e \in { low, side } /\ f \in { low, side }
      BY <2>3, <2>4, <3>2
    <3>3. CASE e \in DOMAIN edge /\ f \in { low, side }
      BY <1>5, <2>2, <2>4, <3>3
    <3>4. CASE f \in DOMAIN edge /\ e \in { low, side }
      BY <1>5, <2>2, <2>4, <3>4
    <3> QED BY <1>5, <3>1, <3>2, <3>3, <3>4
  <2>5. ASSUME NEW m \in Inner', NEW e \in kids(m)' PROVE \E f \in kids(m)' : f # e
    <3>1. /\ \A n \in DOMAIN node : kids(n)' = kids(n)
          /\ kids(inner)' = { low, side } /\ Inner' = Inner \cup { inner }
      BY <1>1, <1>5, SplitKids
    <3>2. CASE m = inner
      BY <1>5, <2>5, <3>1, <3>2
    <3>3. CASE m \in Inner
      BY <1>1, <2>5, <3>1, <3>3 DEF Forks, Inner
    <3> QED BY <2>5, <3>1, <3>2, <3>3
  <2> QED BY <2>4, <2>5 DEF Forks
<1>31. Complete'
  <2>1. ASSUME NEW u \in Registered', NEW k \in 0..(Made(u)' - 1) PROVE HasSuffix(u, k)'
    <3>1. CASE u = s /\ k = x
      BY <1>5, <1>6, <1>17, <3>1 DEF HasSuffix
    <3>2. CASE ~ (u = s /\ k = x)
      <4>1. u \in Registered /\ k \in 0..(Made(u) - 1)
        <5>1. CASE u = s
          <6>1. Made(u)' = x + 1
            BY <1>4, <5>1 DEF Made
          <6> QED BY <1>3, <1>4, <2>1, <3>2, <5>1, <6>1
        <5>2. CASE u # s
          BY <1>3, <1>4, <2>1, <5>2
        <5> QED BY <5>1, <5>2
      <4>2. HasSuffix(u, k)
        BY <1>1, <4>1 DEF Complete
      <4>3. PICK e \in DOMAIN edge : Open(e) /\ edge[e].str = u /\ node[edge[e].dst].index = k
        BY <4>2 DEF HasSuffix
      <4>4. CASE e = up
        <5>1. (Open(low) /\ edge[low].str = u /\ node[edge[low].dst].index = k)'
          BY ZenonT(30), <1>2, <1>5, <1>6, <1>7, <1>16, <4>3, <4>4
        <5> QED BY <1>5, <5>1 DEF HasSuffix
      <4>5. CASE e # up
        <5>1. (Open(e) /\ edge[e].str = u /\ node[edge[e].dst].index = k)'
          BY ZenonT(30), <1>1, <1>5, <1>6, <4>3, <4>5, EdgeEnds DEF Open
        <5> QED BY <1>5, <5>1 DEF HasSuffix
      <4> QED BY <4>4, <4>5
    <3> QED BY <3>1, <3>2
  <2>2. ASSUME NEW u \in Registered'
        PROVE  (/\ phases[u] <= Len(strings[u])
                /\ u # cur \/ pc = "idle" => phases[u] = Len(strings[u]))'
    BY <1>1, <1>3, <1>4, <2>2 DEF Complete
  <2> QED BY <2>1, <2>2 DEF Complete
<1>32. AtNode(dd, inner, cur, x, l)'
  BY <1>4, <1>23
<1> QED BY <1>14, <1>25, <1>29, <1>30, <1>31, <1>32 DEF TreeRight

LEMMA SplitEdgeRight ==
  ASSUME IInv, NEW d, Right(d), SplitEdge
  PROVE  \E dd : Right(dd)'
<1>1. PICK inner : inner = Len(node) + 1
  OBVIOUS
<1>2. /\ pc = "insert" /\ pc' = "extend" /\ j' = j + 1 /\ i' = i /\ prev_new_node' = inner
      /\ strings' = strings /\ phases' = phases /\ hash' = hash /\ end' = end
      /\ find_skipstring' = TRUE /\ use_end' = use_end /\ stop_extensions' = stop_extensions
      /\ end.node = NULL /\ ~ EdgeHasItem /\ NextExtension(inner)
  BY <1>1 DEF SplitEdge, NextExtension, tableVars
<1>3. /\ TypeOK /\ TreeShape /\ TreeRight(d) /\ Links(d) /\ Worded(d) /\ Complete
      /\ cur \in DOMAIN strings /\ cur \in Registered
      /\ i \in Nat /\ j \in Nat /\ j <= i /\ Len(strings[cur]) \in Nat /\ i <= Len(strings[cur])
      /\ phases[cur] = i /\ Made(cur) = j /\ skip.extra = i
      /\ ~ stop_extensions /\ ~ use_end /\ At(d, end, cur, j, i - j)
      /\ prev_new_node # NULL => prev_new_node \in Inner /\ AtNode(d, prev_new_node, cur, j - 1, i - j + 1)
  BY <1>2, AtInsertion
<1>4. PICK up : up = end.edge
  OBVIOUS
<1>5. PICK o \in Nat : o = end.offset
  BY <1>2, WithinEdge
<1>6. /\ up \in DOMAIN edge /\ o >= 1 /\ o < lst_edge_get_length(up)
      /\ d[edge[up].src] + o = i - j /\ OnEdge(d, up, cur, j, i - j)
  BY <1>2, <1>4, <1>5, WithinEdge
<1>7. PICK leaf : leaf = Len(node) + 2
  OBVIOUS
<1>8. PICK low : low = Len(edge) + 1
  OBVIOUS
<1>9. PICK side : side = Len(edge) + 2
  OBVIOUS
<1>10. Halved(up, inner, leaf, low, side, o)
  BY <1>1, <1>4, <1>5, <1>7, <1>8, <1>9, SplitHalved
<1>11. Item(edge[up].str, edge[up].start_index + o) # Item(cur, i)
  <2>1. PICK a \in Int : a = edge[up].start_index
    BY <1>3, <1>6, EdgeEnds
  <2>2. PICK b \in Int : b = end_index(up)
    BY <1>3, <1>6, EdgeEnds
  <2>3. PICK t : t = edge[up].str
    OBVIOUS
  <2>4. a + o <= b
    BY <1>6, <2>1, <2>2 DEF lst_edge_get_length
  <2>5. t \in Registered /\ b <= phases[t] /\ phases[t] <= Len(strings[t])
    BY <1>3, <1>6, <2>2, <2>3 DEF Worded, Windows, Window, Complete
  <2>6. phases[t] \in Int /\ t \in DOMAIN strings
    BY <1>3, <2>5, MadeType
  <2>7. Len(strings[t]) \in Nat
    BY <1>3, <2>6, Markers
  <2>8. a + o < num_items(t) /\ i < num_items(cur)
    BY <1>3, <2>4, <2>5, <2>6, <2>7 DEF num_items
  <2>9. ~ lst_string_eq(cur, i, t, a + o)
    BY <1>2, <1>3, <1>4, <1>5, <2>1, <2>3 DEF EdgeHasItem
  <2> QED BY <2>1, <2>3, <2>8, <2>9 DEF lst_string_eq
<1>12. Made(cur)' = j + 1 /\ cur' = cur
  BY <1>2, <1>3 DEF Made, cur
<1>13. \A t \in Registered \ { cur } : Made(t)' = Made(t)
  BY <1>2, <1>12 DEF Made
<1>14. PICK x \in Nat : x = j
  BY <1>3
<1>15. PICK l \in Nat : l = i - j
  BY <1>3
<1>16. PICK start : start = i
  OBVIOUS
<1>17. PICK dd : TreeRight(dd)' /\ Grows(d, dd) /\ AtNode(dd, inner, cur, x, l)'
  <2>1. /\ start = x + l /\ skip.extra = start /\ j = x /\ phases[cur] = start
        /\ start <= Len(strings[cur]) /\ Made(cur) = x /\ Made(cur)' = x + 1
        /\ pc # "idle" /\ pc' # "idle"
    BY <1>2, <1>3, <1>12, <1>14, <1>15, <1>16
  <2>2. /\ d[edge[up].src] + o = l /\ OnEdge(d, up, cur, x, l)
        /\ Item(edge[up].str, edge[up].start_index + o) # Item(cur, start)
    BY <1>6, <1>11, <1>14, <1>15, <1>16
  <2> QED BY <1>2, <1>3, <1>6, <1>10, <1>13, <2>1, <2>2, SplitGrown
<1>18. /\ Between' /\ InPhase' /\ 0 <= j' /\ j' <= i' + 1
       /\ MatchRight(dd)' /\ PhaseRight(dd)' /\ FollowRight(dd)' /\ InsertRight(dd)'
  BY <1>2, <1>3, <1>12, <1>17, ExtensionsGoOn
<1>19. /\ EdgeSplit(up, inner, leaf, low, side) /\ edge'[up].dst = inner
       /\ DOMAIN node' = DOMAIN node \cup { inner, leaf }
       /\ \A m \in DOMAIN node : m # prev_new_node => node'[m].suffix_link_node = node[m].suffix_link_node
       /\ prev_new_node # NULL => node'[prev_new_node].suffix_link_node = inner
  BY <1>10 DEF Halved, EdgeSplit
<1>20. kids(inner)' = { low, side } /\ Inner' = Inner \cup { inner }
  BY <1>3, <1>19, SplitKids
<1>21. InnerOrRoot(inner)'
  BY <1>19, <1>20 DEF InnerOrRoot, lst_node_is_leaf
<1>22. Links(dd)'
  <2>1. prev_new_node # NULL =>
          /\ AtNode(d, prev_new_node, cur, x - 1, l + 1)
          /\ node'[prev_new_node].suffix_link_node = inner
          /\ InnerOrRoot(inner)' /\ AtNode(dd, inner, cur, x, l)'
    BY <1>3, <1>14, <1>15, <1>17, <1>19, <1>21
  <2>2. Inner' \subseteq Inner \cup { prev_new_node' }
    BY <1>2, <1>20
  <2>3. /\ \A n \in DOMAIN node \ { prev_new_node } :
             node'[n].suffix_link_node = node[n].suffix_link_node
        /\ prev_new_node # NULL => prev_new_node \in Inner
        /\ x \in Int /\ l \in Int
    BY <1>3, <1>19
  <2> QED BY <1>3, <1>17, <2>1, <2>2, <2>3, LinkedRight
<1>23. ExtendRight(dd)'
  <2>1. At(dd, end, cur, j - 1, i - j + 1)'
    <3>1. PICK p : p = end
      OBVIOUS
    <3>2. PICK s : s = cur
      OBVIOUS
    <3>3. At(dd, p, s, x, l)'
      BY <1>3, <1>14, <1>15, <1>17, <3>1, <3>2, GrowsReading
    <3>4. end' = p /\ cur' = s /\ j' - 1 = x /\ i' - j' + 1 = l
      BY <1>2, <1>3, <1>12, <1>14, <1>15, <3>1, <3>2
    <3> QED BY <3>3, <3>4
  <2>2. Pending(dd)'
    <3>1. j' >= 1 /\ j' - 1 = x /\ i' - j' + 1 = l
      BY <1>2, <1>3, <1>14, <1>15
    <3> QED BY <1>2, <1>17, <1>20, <3>1 DEF Pending
  <2>3. end'.node = NULL /\ end'.offset > 0 /\ edge'[end'.edge].dst = prev_new_node' /\ j' >= 1
    BY <1>2, <1>3, <1>4, <1>5, <1>6, <1>19
  <2>4. Extended(dd)'
    BY <2>1, <2>2, <2>3 DEF Extended
  <2> QED BY <1>2, <1>3, <1>18, <2>4 DEF ExtendRight
<1> QED BY <1>17, <1>18, <1>22, <1>23 DEF Right, ControlRight

(* Rule 1 never applies: the path of an extension does not end at a leaf.  *)
LEMMA ExtendAtNodeRight ==
  ASSUME IInv, NEW d, Right(d), ExtendAtNode
  PROVE  \E dd : Right(dd)'
<1>1. /\ end.node # NULL /\ NextExtension(NULL) /\ UNCHANGED stop_extensions /\ pc = "insert"
  BY DEF ExtendAtNode, NextExtension
<1>2. At(d, end, cur, j, i - j) /\ WellPlaced
  BY <1>1, AtInsertion DEF IInv
<1>3. ~ lst_node_is_leaf(end.node)
  <2>1. InnerOrRoot(end.node) /\ ~ lst_node_is_leaf(Root)
    BY <1>1, <1>2 DEF At, WellPlaced
  <2> QED BY <2>1 DEF InnerOrRoot
<1>4. NodeEdge = NULL /\ AddLeafAt(end.node)
  BY <1>3 DEF ExtendAtNode
<1> QED BY <1>1, <1>3, <1>4, AddLeafAtRight

-----------------------------------------------------------------------------
(* All of the steps.                                                       *)

\* Nothing that the words are about depends on needs_visitor_update.
LEMMA StutterRight ==
  ASSUME IInv, NEW d, Right(d),
         UNCHANGED << tableVars, num_strings, phases, shapeVars, pc, loopVars, end, skip >>
  PROVE  Right(d)'
<1>1. /\ UNCHANGED << textVars, hash >> /\ UNCHANGED << textVars, prev_new_node >>
      /\ UNCHANGED << textVars, hash, prev_new_node, i, j >>
      /\ UNCHANGED textVars /\ pc' = pc /\ i' = i /\ j' = j /\ num_strings' = num_strings
      /\ prev_new_node' = prev_new_node /\ last_extension' = last_extension /\ use_end' = use_end
      /\ stop_extensions' = stop_extensions /\ find_skipstring' = find_skipstring
      /\ end' = end /\ skip' = skip /\ phases' = phases /\ strings' = strings /\ hash' = hash
      /\ edge' = edge
  BY DEF tableVars, shapeVars, loopVars, textVars
<1>2. TreeRight(d) /\ Links(d) /\ ControlRight(d)
  BY DEF Right
<1>3. cur' = cur /\ Registered' = Registered /\ \A s : num_items(s)' = num_items(s)
  BY <1>1 DEF cur, Registered, num_items
<1>4. \A t : Made(t)' = Made(t)
  BY <1>1, <1>3 DEF Made
<1>5. TreeRight(d)' /\ \A s, k, l : Readable(s, k, l)' <=> Readable(s, k, l)
  BY <1>1, <1>2, <1>4, SameWords
<1>6. Links(d)'
  BY <1>1, <1>2, SameLinks
<1>7. Implicit' <=> Implicit
  BY <1>1, <1>3, <1>5 DEF Implicit
<1>8. Heading(d, skip)' <=> Heading(d, skip)
  <2>1. PICK p : p = skip
    OBVIOUS
  <2>2. Heading(d, p)' <=> Heading(d, p)
    BY <1>1, SameHeading
  <2> QED BY <1>1, <2>1, <2>2
<1>9. Pending(d)' <=> Pending(d)
  BY <1>1, SameHeading
<1>10. PICK p : p = end
  OBVIOUS
<1>11. PICK s : s = cur
  OBVIOUS
<1>12. /\ \A k, l : At(d, p, s, k, l)' <=> At(d, p, s, k, l)
       /\ Interior(p)' <=> Interior(p)
       /\ \A n, k, l : AtNode(d, n, s, k, l)' <=> AtNode(d, n, s, k, l)
       /\ \A n : InnerOrRoot(n)' <=> InnerOrRoot(n)
  BY <1>1, SameReading, SameText
<1>13. /\ end = p /\ end' = p /\ cur = s /\ cur' = s
       /\ Interior(end)' <=> Interior(end)
  BY <1>1, <1>3, <1>10, <1>11, <1>12
<1>14. Between'
  <2>1. Between
    BY <1>2 DEF ControlRight
  <2> QED BY <1>1, <1>3, <2>1 DEF Between
<1>15. MatchRight(d)'
  <2>1. MatchRight(d)
    BY <1>2 DEF ControlRight
  <2> QED BY <1>1, <1>3, <1>12, <1>13, <2>1 DEF MatchRight
<1>16. PhaseRight(d)'
  <2>1. PICK k : k = last_extension + 1
    OBVIOUS
  <2>2. PICK l : l = i - last_extension - 1
    OBVIOUS
  <2>3. At(d, end, cur, last_extension + 1, i - last_extension - 1)' <=>
          At(d, end, cur, last_extension + 1, i - last_extension - 1)
    BY <1>1, <1>12, <1>13, <2>1, <2>2
  <2>4. PhaseRight(d)
    BY <1>2 DEF ControlRight
  <2> QED BY <1>1, <1>3, <1>7, <1>13, <2>3, <2>4 DEF PhaseRight
<1>17. ExtendRight(d)'
  <2>1. Stopped(d)' <=> Stopped(d)
    <3>1. PICK k : k = j - 1
      OBVIOUS
    <3>2. PICK l : l = i - j + 2
      OBVIOUS
    <3>3. At(d, end, cur, j - 1, i - j + 2)' <=> At(d, end, cur, j - 1, i - j + 2)
      BY <1>1, <1>12, <1>13, <3>1, <3>2
    <3> QED BY <1>1, <1>3, <1>13, <3>3 DEF Stopped
  <2>2. Reusing(d)' <=> Reusing(d)
    <3>1. PICK k : k = j
      OBVIOUS
    <3>2. PICK l : l = i - j
      OBVIOUS
    <3>3. At(d, end, cur, j, i - j)' <=> At(d, end, cur, j, i - j)
      BY <1>1, <1>12, <1>13, <3>1, <3>2
    <3> QED BY <1>1, <1>13, <3>3 DEF Reusing
  <2>3. Extended(d)' <=> Extended(d)
    <3>1. PICK k : k = j - 1
      OBVIOUS
    <3>2. PICK l : l = i - j + 1
      OBVIOUS
    <3>3. At(d, end, cur, j - 1, i - j + 1)' <=> At(d, end, cur, j - 1, i - j + 1)
      BY <1>1, <1>12, <1>13, <3>1, <3>2
    <3>4. PICK m : m = j
      OBVIOUS
    <3>5. At(d, end, cur, j, 0)' <=> At(d, end, cur, j, 0)
      BY <1>1, <1>12, <1>13, <3>4
    <3> QED BY <1>1, <1>9, <3>3, <3>5 DEF Extended
  <2>4. ExtendRight(d)
    BY <1>2 DEF ControlRight
  <2> QED BY <1>1, <1>3, <1>7, <2>1, <2>2, <2>3, <2>4 DEF ExtendRight, InPhase
<1>18. FollowRight(d)'
  <2>1. FollowRight(d)
    BY <1>2 DEF ControlRight
  <2> QED BY <1>1, <1>3, <1>7, <1>8, <1>9, <2>1 DEF FollowRight, InPhase
<1>19. InsertRight(d)'
  <2>1. PICK k : k = j
    OBVIOUS
  <2>2. PICK l : l = i - j
    OBVIOUS
  <2>3. At(d, end, cur, j, i - j)' <=> At(d, end, cur, j, i - j)
    BY <1>1, <1>12, <1>13, <2>1, <2>2
  <2>4. InsertRight(d)
    BY <1>2 DEF ControlRight
  <2> QED BY <1>1, <1>3, <1>7, <1>9, <1>13, <2>3, <2>4 DEF InsertRight, InPhase
<1> QED BY <1>5, <1>6, <1>14, <1>15, <1>16, <1>17, <1>18, <1>19 DEF Right, ControlRight

LEMMA NextRight ==
  ASSUME IInv, NEW d, Right(d), [Next]_vars
  PROVE  \E dd : Right(dd)'
<1>1. CASE \E w \in Inputs : AddString(w)
  BY <1>1, AddStringRight
<1>2. CASE \E flag \in BOOLEAN : AllowDuplicates(flag)
  BY <1>2, AllowDuplicatesRight
<1>3. CASE EnterFirstString
  BY <1>3, EnterFirstStringRight
<1>4. CASE EnterNextString
  BY <1>4, EnterNextStringRight
<1>5. CASE MatchStep
  BY <1>5, MatchStepRight
<1>6. CASE CheckDuplicate
  BY <1>6, CheckDuplicateRight
<1>7. CASE MatchResult
  BY <1>7, MatchResultRight
<1>8. CASE BeginPhase
  BY <1>8, BeginPhaseRight
<1>9. CASE EndPhase
  BY <1>9, EndPhaseRight
<1>10. CASE EndString
  BY <1>10, EndStringRight
<1>11. CASE ReuseEnd
  BY <1>11, ReuseEndRight
<1>12. CASE ClimbToSuffixLink
  BY <1>12, ClimbToSuffixLinkRight
<1>13. CASE FollowStep
  BY <1>13, FollowStepRight
<1>14. CASE FollowResult
  BY <1>14, FollowResultRight
<1>15. CASE ExtendAtNode
  BY <1>15, ExtendAtNodeRight
<1>16. CASE StopAtNode
  BY <1>16, StopAtNodeRight
<1>17. CASE StopAtEdge
  BY <1>17, StopAtEdgeRight
<1>18. CASE SplitEdge
  BY <1>18, SplitEdgeRight
<1>19. CASE UNCHANGED vars
  BY <1>19, StutterRight DEF vars, doneVars
<1> QED BY <1>1, <1>2, <1>3, <1>4, <1>5, <1>6, <1>7, <1>8, <1>9, <1>10, <1>11, <1>12,
           <1>13, <1>14, <1>15, <1>16, <1>17, <1>18, <1>19 DEF Next, Work

(* Whatever is added, in whatever state the last addition left the tree:   *)
(* the nodes, edges, links and cursors stand for the items they should.    *)
LEMMA WordsInvariance == Spec => []WordsInv
<1>1. Init => WordsInv
  BY InitIInv, InitRight DEF WordsInv
<1>2. WordsInv /\ [Next]_vars => WordsInv'
  <2>1. SUFFICES ASSUME WordsInv, [Next]_vars PROVE WordsInv'
    OBVIOUS
  <2>2. IInv
    BY <2>1 DEF WordsInv
  <2>3. PICK d : Right(d)
    BY <2>1 DEF WordsInv
  <2>4. IInv'
    BY <2>1, <2>2, NextIInv
  <2>5. \E dd : Right(dd)'
    BY <2>1, <2>2, <2>3, NextRight
  <2> QED BY <2>4, <2>5 DEF WordsInv
<1> QED BY <1>1, <1>2, PTL DEF Spec

-----------------------------------------------------------------------------
(* The words themselves: the l items of string s from position k on.       *)
Span(s, k, l) == Items(s, k, k + l - 1)

LEMMA SpanItems ==
  ASSUME TypeOK, NEW s \in DOMAIN strings, NEW k \in Nat, NEW l \in Nat
  PROVE  /\ Span(s, k, l) \in Seq(Int) /\ Len(Span(s, k, l)) = l
         /\ \A n \in 1..l : Span(s, k, l)[n] = Item(s, k + (n - 1))
<1>1. (k + (l - 1)) - k + 1 = l
  OBVIOUS
<1>2. Span(s, k, l) = [n \in 1..l |-> Item(s, k + (n - 1))]
  BY <1>1 DEF Span, Items
<1>3. ASSUME NEW n \in 1..l PROVE Item(s, k + (n - 1)) \in Int
  <2>1. PICK m \in Nat : m = k + (n - 1)
    OBVIOUS
  <2>2. s \in Int
    BY Domains
  <2>3. Item(s, m) \in Int
    BY <2>2, Markers
  <2> QED BY <2>1, <2>3
<1>4. Span(s, k, l) \in [1..l -> Int]
  BY <1>2, <1>3
<1>5. Span(s, k, l) \in Seq(Int)
  BY <1>4, SeqDef
<1>6. Len(Span(s, k, l)) = l
  BY <1>4, <1>5, LenProperties
<1> QED BY <1>2, <1>5, <1>6

LEMMA SpansAgree ==
  ASSUME TypeOK, NEW s \in DOMAIN strings, NEW k \in Nat, NEW t \in DOMAIN strings, NEW x \in Nat,
         NEW l \in Nat
  PROVE  Span(s, k, l) = Span(t, x, l) <=> Agree(s, k, t, x, l)
<1>1. ASSUME Span(s, k, l) = Span(t, x, l), NEW m \in 0..(l - 1)
      PROVE  Item(s, k + m) = Item(t, x + m)
  <2>1. PICK n \in 1..l : n = m + 1
    OBVIOUS
  <2>2. k + (n - 1) = k + m /\ x + (n - 1) = x + m
    BY <2>1
  <2>3. Span(s, k, l)[n] = Item(s, k + (n - 1)) /\ Span(t, x, l)[n] = Item(t, x + (n - 1))
    BY SpanItems
  <2>4. Item(s, k + (n - 1)) = Item(t, x + (n - 1))
    BY <1>1, <2>3
  <2> QED BY <2>2, <2>4
<1>2. ASSUME Agree(s, k, t, x, l) PROVE Span(s, k, l) = Span(t, x, l)
  <2>1. ASSUME NEW n \in 1..l PROVE Span(s, k, l)[n] = Span(t, x, l)[n]
    <3>1. n - 1 \in 0..(l - 1)
      OBVIOUS
    <3>2. Item(s, k + (n - 1)) = Item(t, x + (n - 1))
      BY <1>2, <3>1 DEF Agree
    <3> QED BY <3>2, SpanItems
  <2> QED BY <2>1, SpanItems, SeqEqual
<1> QED BY <1>1, <1>2 DEF Agree

LEMMA SpanJoin ==
  ASSUME TypeOK, NEW s \in DOMAIN strings, NEW k \in Nat, NEW l \in Nat, NEW p \in Nat
  PROVE  Span(s, k, l) \o Span(s, k + l, p) = Span(s, k, l + p)
<1> DEFINE u == Span(s, k, l)
           v == Span(s, k + l, p)
           w == Span(s, k, l + p)
<1>1. k + l \in Nat /\ l + p \in Nat
  OBVIOUS
<1>2. /\ u \in Seq(Int) /\ Len(u) = l /\ \A n \in 1..l : u[n] = Item(s, k + (n - 1))
      /\ v \in Seq(Int) /\ Len(v) = p /\ \A n \in 1..p : v[n] = Item(s, (k + l) + (n - 1))
      /\ w \in Seq(Int) /\ Len(w) = l + p /\ \A n \in 1..(l + p) : w[n] = Item(s, k + (n - 1))
  BY <1>1, SpanItems
<1> HIDE DEF u, v, w
<1>3. /\ u \o v \in Seq(Int) /\ Len(u \o v) = l + p
      /\ \A n \in 1..(l + p) : (u \o v)[n] = IF n <= l THEN u[n] ELSE v[n - l]
  BY <1>2, ConcatProperties
<1>4. ASSUME NEW n \in 1..(l + p) PROVE (u \o v)[n] = w[n]
  <2>1. CASE n <= l
    BY <1>2, <1>3, <2>1
  <2>2. CASE ~ (n <= l)
    <3>1. n - l \in 1..p /\ (k + l) + ((n - l) - 1) = k + (n - 1)
      BY <2>2
    <3>2. (u \o v)[n] = v[n - l] /\ v[n - l] = Item(s, (k + l) + ((n - l) - 1))
      BY <1>2, <1>3, <2>2, <3>1
    <3> QED BY <1>2, <3>1, <3>2
  <2> QED BY <2>1, <2>2
<1>5. u \o v = w
  BY <1>2, <1>3, <1>4, SeqEqual
<1> QED BY <1>5 DEF u, v, w

LEMMA SpanSub ==
  ASSUME TypeOK, NEW s \in DOMAIN strings, NEW k \in Nat, NEW l \in Nat, NEW p \in 0..l
  PROVE  SubSeq(Span(s, k, l), 1, p) = Span(s, k, p)
<1> DEFINE u == Span(s, k, l)
           v == Span(s, k, p)
<1>1. /\ u \in Seq(Int) /\ Len(u) = l /\ \A n \in 1..l : u[n] = Item(s, k + (n - 1))
      /\ v \in Seq(Int) /\ Len(v) = p /\ \A n \in 1..p : v[n] = Item(s, k + (n - 1))
  BY SpanItems
<1> HIDE DEF u, v
<1>2. \A n \in 1..p : u[n] \in Int
  BY <1>1, ElementOfSeq
<1>3. /\ SubSeq(u, 1, p) \in Seq(Int)
      /\ Len(SubSeq(u, 1, p)) = p
      /\ \A n \in 1..p : SubSeq(u, 1, p)[n] = u[n]
  <2>1. /\ SubSeq(u, 1, p) \in Seq(Int)
        /\ Len(SubSeq(u, 1, p)) = IF 1 <= p THEN p - 1 + 1 ELSE 0
        /\ \A n \in 1..(p - 1 + 1) : SubSeq(u, 1, p)[n] = u[1 + n - 1]
    BY <1>2, SubSeqProperties
  <2> QED BY <2>1
<1>4. SubSeq(u, 1, p) = v
  BY <1>1, <1>3, SeqEqual
<1> QED BY <1>4 DEF u, v

LEMMA SpanTail ==
  ASSUME TypeOK, NEW s \in DOMAIN strings, NEW k \in Nat, NEW l \in Nat, l >= 1
  PROVE  Tail(Span(s, k, l)) = Span(s, k + 1, l - 1)
<1> DEFINE u == Span(s, k, l)
           v == Span(s, k + 1, l - 1)
<1>1. k + 1 \in Nat /\ l - 1 \in Nat
  OBVIOUS
<1>2. /\ u \in Seq(Int) /\ Len(u) = l /\ \A n \in 1..l : u[n] = Item(s, k + (n - 1))
      /\ v \in Seq(Int) /\ Len(v) = l - 1 /\ \A n \in 1..(l - 1) : v[n] = Item(s, (k + 1) + (n - 1))
  BY <1>1, SpanItems
<1> HIDE DEF u, v
<1>3. u # << >>
  BY <1>2
<1>4. /\ Tail(u) \in Seq(Int) /\ Len(Tail(u)) = l - 1
      /\ \A n \in 1..(l - 1) : Tail(u)[n] = u[n + 1]
  BY <1>2, <1>3, HeadTailProperties
<1>5. ASSUME NEW n \in 1..(l - 1) PROVE Tail(u)[n] = v[n]
  <2>1. n + 1 \in 1..l /\ k + ((n + 1) - 1) = (k + 1) + (n - 1)
    OBVIOUS
  <2>2. u[n + 1] = Item(s, k + ((n + 1) - 1))
    BY <1>2, <2>1
  <2> QED BY <1>2, <1>4, <2>1, <2>2
<1>6. Tail(u) = v
  BY <1>1, <1>2, <1>4, <1>5, SeqEqual
<1> QED BY <1>6 DEF u, v

(* The word of a node, as Path computes it from the labels above it, is    *)
(* the one that Str, Pos and d tell where to read.                         *)
Word(d, n) == IF n = Root THEN << >> ELSE Span(Str(n), Pos(d, n), d[n])

LEMMA SpanEmpty ==
  ASSUME TypeOK, NEW s \in DOMAIN strings, NEW k \in Nat
  PROVE  Span(s, k, 0) = << >>
<1>1. Span(s, k, 0) \in Seq(Int) /\ Len(Span(s, k, 0)) = 0
  BY SpanItems
<1> QED BY <1>1, EmptySeq

(* The word above an edge, and its label, in the string of the edge.       *)
LEMMA EdgeSpans ==
  ASSUME NEW d, Worded(d), NEW e \in DOMAIN edge
  PROVE  /\ Word(d, edge[e].src) = Span(edge[e].str, From(d, e), d[edge[e].src])
         /\ Label(e) = Span(edge[e].str, From(d, e) + d[edge[e].src], lst_edge_get_length(e))
         /\ lst_edge_get_length(e) \in Nat
         /\ d[edge[e].dst] = d[edge[e].src] + lst_edge_get_length(e)
<1> DEFINE s == edge[e].str
           p == edge[e].src
<1>0. TypeOK
  BY DEF Worded
<1>1. /\ p \in DOMAIN node /\ s \in DOMAIN strings /\ end_index(e) \in Int
      /\ d[p] \in Nat /\ d[edge[e].dst] \in Nat /\ From(d, e) \in Nat
      /\ edge[e].start_index = From(d, e) + d[p]
      /\ d[edge[e].dst] = end_index(e) - From(d, e) + 1 /\ d[p] < d[edge[e].dst]
  BY EdgeWords
<1>2. PICK k \in Nat, a \in Nat, b \in Nat, z \in Int :
        k = From(d, e) /\ a = d[p] /\ b = d[edge[e].dst] /\ z = end_index(e)
  BY <1>1
<1>3. PICK l \in Nat : l = b - a
  BY <1>1, <1>2
<1>4. k + a \in Nat /\ z = (k + a) + (l - 1) /\ a + l = b /\ z - (k + a) + 1 = l
  BY <1>1, <1>2, <1>3
<1>5. lst_edge_get_length(e) = l
  BY <1>1, <1>2, <1>4 DEF lst_edge_get_length
<1>6. Label(e) = Span(s, k + a, l)
  BY <1>1, <1>2, <1>4 DEF Label, Span
<1>7. Word(d, p) = Span(s, k, a)
  <2>1. CASE p = Root
    <3>1. a = 0
      BY <1>2, <2>1 DEF Worded, Depths
    <3>2. Word(d, p) = << >>
      BY <2>1 DEF Word
    <3>3. Span(s, k, 0) = << >>
      BY <1>0, <1>1, SpanEmpty
    <3> QED BY <3>1, <3>2, <3>3
  <2>2. CASE p # Root
    <3>1. AtNode(d, p, s, From(d, e), d[p])
      BY DEF Worded, Windows, Window
    <3>2. Agree(Str(p), Pos(d, p), s, k, a)
      BY <1>2, <2>2, <3>1 DEF AtNode
    <3>3. Str(p) \in DOMAIN strings /\ Pos(d, p) \in Nat
      BY <1>1, <2>2, NodeWords
    <3>4. Span(Str(p), Pos(d, p), a) = Span(s, k, a)
      BY <1>0, <1>1, <3>2, <3>3, SpansAgree
    <3> QED BY <1>2, <2>2, <3>4 DEF Word
  <2> QED BY <2>1, <2>2
<1> QED BY <1>2, <1>4, <1>5, <1>6, <1>7

LEMMA LabelWord ==
  ASSUME NEW d, Worded(d), NEW n \in DOMAIN node, n # Root
  PROVE  Word(d, lst_node_get_parent(n)) \o Label(node[n].up_edge) = Word(d, n)
<1>1. PICK e \in DOMAIN edge : e = node[n].up_edge /\ edge[e].dst = n
  BY NodeWords
<1>2. PICK s \in DOMAIN strings, k \in Nat, a \in Nat, l \in Nat :
        /\ s = edge[e].str /\ k = From(d, e) /\ a = d[edge[e].src] /\ l = lst_edge_get_length(e)
        /\ d[n] = a + l
  BY <1>1, EdgeWords, EdgeSpans
<1>3. Word(d, edge[e].src) = Span(s, k, a) /\ Label(e) = Span(s, k + a, l)
  BY <1>1, <1>2, EdgeSpans
<1>4. Word(d, n) = Span(s, k, a + l)
  BY <1>1, <1>2 DEF Word, Str, Pos
<1>5. TypeOK
  BY DEF Worded
<1>6. Span(s, k, a) \o Span(s, k + a, l) = Span(s, k, a + l)
  BY <1>5, SpanJoin
<1> QED BY <1>1, <1>3, <1>4, <1>6 DEF lst_node_get_parent

LEMMA PathWord ==
  ASSUME NEW d, Worded(d), NEW n \in DOMAIN node
  PROVE  Path[n] = Word(d, n)
<1> DEFINE Q(f) == [m \in DOMAIN node |->
                      IF m = Root THEN << >> ELSE f[lst_node_get_parent(m)] \o Label(node[m].up_edge)]
           W == [m \in DOMAIN node |-> Word(d, m)]
<1>1. ASSUME NEW m \in DOMAIN node, m # Root
      PROVE  /\ lst_node_get_parent(m) \in DOMAIN node
             /\ d[m] \in Nat /\ d[lst_node_get_parent(m)] \in Nat /\ d[lst_node_get_parent(m)] < d[m]
  <2>1. node[m].up_edge \in DOMAIN edge /\ edge[node[m].up_edge].dst = m
    BY <1>1, NodeWords
  <2> QED BY <2>1, EdgeWords DEF lst_node_get_parent
<1>2. W = Q(W)
  <2>1. ASSUME NEW m \in DOMAIN node
        PROVE  Word(d, m) = IF m = Root THEN << >> ELSE W[lst_node_get_parent(m)] \o Label(node[m].up_edge)
    <3>1. CASE m = Root
      BY <3>1 DEF Word
    <3>2. CASE m # Root
      <4>1. W[lst_node_get_parent(m)] = Word(d, lst_node_get_parent(m))
        BY <1>1, <3>2
      <4>2. Word(d, lst_node_get_parent(m)) \o Label(node[m].up_edge) = Word(d, m)
        BY <3>2, LabelWord
      <4> HIDE DEF W
      <4> QED BY <3>2, <4>1, <4>2
    <3> QED BY <3>1, <3>2
  <2> QED BY <2>1
<1>3. Path = Q(Path)
  <2>1. Path = CHOOSE f : f = Q(f)
    BY DEF Path
  <2> HIDE DEF Q, W
  <2> QED BY <1>2, <2>1
<1>4. Path[Root] = << >> /\ \A m \in DOMAIN node : m # Root => Path[m] = Path[lst_node_get_parent(m)] \o Label(node[m].up_edge)
  <2>1. Root \in DOMAIN node
    BY DEF Worded, TypeOK, ShapeType
  <2>2. ASSUME NEW m \in DOMAIN node
        PROVE  Path[m] = IF m = Root THEN << >> ELSE Path[lst_node_get_parent(m)] \o Label(node[m].up_edge)
    BY <1>3
  <2> QED BY <2>1, <2>2
<1>5. SUFFICES ASSUME Path[n] # Word(d, n) PROVE FALSE
  OBVIOUS
<1> DEFINE S == { k \in Nat : \E m \in DOMAIN node : d[m] = k /\ Path[m] # Word(d, m) }
<1>6. S \in SUBSET Nat /\ S # {}
  <2>1. d[n] \in Nat
    BY DEF Worded, Depths
  <2> QED BY <1>5, <2>1
<1>7. PICK k \in S : \A x \in S : k <= x
  <2> HIDE DEF S
  <2> QED BY <1>6, LeastNatural
<1>8. PICK m \in DOMAIN node : d[m] = k /\ Path[m] # Word(d, m)
  BY <1>7
<1>9. m # Root
  BY <1>4, <1>8 DEF Word
<1>10. Path[lst_node_get_parent(m)] = Word(d, lst_node_get_parent(m))
  <2>1. PICK q \in DOMAIN node : q = lst_node_get_parent(m)
    BY <1>1, <1>9
  <2>2. d[q] \in Nat /\ d[q] < k
    BY <1>1, <1>8, <1>9, <2>1
  <2>3. d[q] \notin S
    BY <1>7, <2>2
  <2> QED BY <2>1, <2>2, <2>3
<1>11. Path[m] = Word(d, m)
  BY <1>4, <1>9, <1>10, LabelWord
<1> QED BY <1>8, <1>11

(* The word of a node that is where the l items of s from k on end.        *)
LEMMA AtNodeWord ==
  ASSUME NEW d, Worded(d), NEW m \in DOMAIN node, NEW s \in DOMAIN strings, NEW k \in Nat,
         NEW l \in Nat, AtNode(d, m, s, k, l)
  PROVE  Path[m] = Span(s, k, l)
<1>0. TypeOK /\ d[m] = l /\ Path[m] = Word(d, m)
  BY PathWord DEF Worded, AtNode
<1>1. CASE m = Root
  <2>1. l = 0
    BY <1>0, <1>1 DEF Worded, Depths
  <2> QED BY <1>0, <1>1, <2>1, SpanEmpty DEF Word
<1>2. CASE m # Root
  <2>1. Str(m) \in DOMAIN strings /\ Pos(d, m) \in Nat
    BY <1>2, NodeWords
  <2>2. Agree(Str(m), Pos(d, m), s, k, l)
    BY <1>2 DEF AtNode
  <2>3. Span(Str(m), Pos(d, m), l) = Span(s, k, l)
    BY <1>0, <2>1, <2>2, SpansAgree
  <2> QED BY <1>0, <1>2, <2>3 DEF Word
<1> QED BY <1>1, <1>2

LEMMA RegisteredStrings ==
  ASSUME TypeOK
  PROVE  Registered \subseteq DOMAIN strings
BY Domains DEF Registered

(* A leaf reads one of the suffixes made, to the end of what is in the     *)
(* tree of it; and every suffix made has its leaf.                         *)
LEMMA LeafWord ==
  ASSUME NEW d, Worded(d), NEW n \in Leaves
  PROVE  /\ Str(n) \in Registered /\ Str(n) \in DOMAIN strings
         /\ node[n].index = Pos(d, n) /\ Pos(d, n) \in Nat /\ Pos(d, n) < Made(Str(n))
         /\ d[n] \in Nat /\ d[n] >= 1 /\ d[n] = phases[Str(n)] - Pos(d, n) + 1
         /\ Path[n] = Span(Str(n), Pos(d, n), d[n])
<1>1. n \in DOMAIN node /\ n # Root /\ lst_node_is_leaf(n)
  BY DEF Leaves
<1>2. PICK e \in DOMAIN edge : e = node[n].up_edge /\ edge[e].dst = n
  BY <1>1, NodeWords
<1>3. /\ Str(n) = edge[e].str /\ Pos(d, n) = From(d, e)
      /\ Str(n) \in DOMAIN strings /\ Pos(d, n) \in Nat /\ d[n] \in Nat /\ d[n] >= 1
  BY <1>1, <1>2, NodeWords DEF Str, Pos
<1>4. Open(e)
  BY <1>1, <1>2 DEF Worded, TreeShape, LeafEdgesOpen, Open
<1>5. /\ edge[e].str \in Registered /\ From(d, e) < Made(edge[e].str)
      /\ edge[e].phase = edge[e].str /\ node[n].index = From(d, e)
  BY <1>2, <1>4 DEF Worded, Windows, Window
<1>6. end_index(e) = phases[edge[e].str]
  BY <1>4, <1>5 DEF Open, end_index
<1>7. d[n] = end_index(e) - From(d, e) + 1
  BY <1>2, EdgeWords
<1>8. Path[n] = Word(d, n)
  BY <1>1, PathWord
<1> QED BY <1>1, <1>3, <1>5, <1>6, <1>7, <1>8 DEF Word

LEMMA SuffixLeaf ==
  ASSUME NEW d, Worded(d), Complete, NEW t \in Registered, NEW x \in 0..(Made(t) - 1)
  PROVE  \E n \in Leaves : Str(n) = t /\ Pos(d, n) = x
<1>1. PICK e \in DOMAIN edge : Open(e) /\ edge[e].str = t /\ node[edge[e].dst].index = x
  BY DEF Complete, HasSuffix
<1>2. From(d, e) = x
  BY <1>1 DEF Worded, Windows, Window
<1>3. lst_node_is_leaf(edge[e].dst)
  BY <1>1 DEF Worded, TreeShape, LeafEdgesOpen, Open
<1> QED BY <1>1, <1>2, <1>3, EdgeWords DEF Leaves

LEMMA TreeBranches ==
  ASSUME NEW d, Worded(d)
  PROVE  Branching
<1>1. ASSUME NEW n \in DOMAIN node, NEW e \in kids(n), NEW f \in kids(n),
             Item(edge[e].str, edge[e].start_index) = Item(edge[f].str, edge[f].start_index)
      PROVE  e = f
  <2>1. e \in DOMAIN edge /\ f \in DOMAIN edge /\ edge[e].src = n /\ edge[f].src = n
    BY DEF kids
  <2> QED BY <1>1, <2>1 DEF Worded, Forks
<1>2. ASSUME NEW n \in Inner PROVE Cardinality(kids(n)) >= 2
  <2>1. kids(n) # {}
    BY DEF Inner, lst_node_is_leaf
  <2>2. PICK e \in kids(n) : TRUE
    BY <2>1
  <2>3. PICK f \in kids(n) : f # e
    BY DEF Worded, Forks
  <2>4. IsFiniteSet(kids(n))
    BY KidsOf DEF Worded
  <2>5. IsFiniteSet({ e }) /\ Cardinality({ e }) = 1
    BY FS_Singleton
  <2>6. Cardinality({ e } \cup { f }) = 2
    BY <2>3, <2>5, FS_AddElement
  <2>7. { e } \cup { f } \in SUBSET kids(n)
    OBVIOUS
  <2>8. Cardinality({ e } \cup { f }) <= Cardinality(kids(n)) /\ Cardinality(kids(n)) \in Nat
    BY <2>4, <2>7, FS_Subset, FS_CardinalityType
  <2> QED BY <2>6, <2>8
<1>3. \A e \in DOMAIN edge : lst_edge_get_length(e) >= 1
  BY DEF Worded, Depths
<1> QED BY <1>1, <1>2, <1>3 DEF Branching

LEMMA LeavesAreSuffixes == WordsInv => SuffixesAreLeaves
<1> SUFFICES ASSUME WordsInv, pc = "idle" PROVE SuffixesAreLeaves
  BY DEF SuffixesAreLeaves
<1>1. PICK d : IInv /\ Right(d)
  BY DEF WordsInv
<1>0. TypeOK
  BY <1>1 DEF IInv
<1>2. TypeOK /\ Worded(d) /\ Complete
  BY <1>1, RightWorded DEF Right, IInv
<1>3. Branching
  BY <1>2, TreeBranches
<1>4. ASSUME NEW s \in Registered
      PROVE  /\ s \in DOMAIN strings /\ Len(strings[s]) \in Nat /\ Made(s) = num_items(s)
             /\ num_items(s) = Len(strings[s]) + 1 /\ phases[s] = Len(strings[s])
  <2>1. s \in DOMAIN strings
    BY <1>2, RegisteredStrings
  <2>2. Len(strings[s]) \in Nat
    BY <1>2, <2>1, Markers
  <2> QED BY <1>2, <2>1, <2>2 DEF Made, num_items, Complete
<1>5. ASSUME NEW n \in Leaves
      PROVE  LET s == edge[node[n].up_edge].str
             IN  /\ s \in Registered
                 /\ Path[n] = Items(s, node[n].index, num_items(s) - 1)
  <2>1. /\ Str(n) \in Registered /\ node[n].index = Pos(d, n) /\ Pos(d, n) \in Nat
        /\ d[n] \in Nat /\ d[n] = phases[Str(n)] - Pos(d, n) + 1
        /\ Path[n] = Items(Str(n), Pos(d, n), Pos(d, n) + d[n] - 1)
    BY <1>2, LeafWord DEF Span
  <2>2. phases[Str(n)] = Len(strings[Str(n)]) /\ Len(strings[Str(n)]) \in Nat
        /\ num_items(Str(n)) = Len(strings[Str(n)]) + 1
    BY <1>4, <2>1
  <2>3. Pos(d, n) + d[n] - 1 = num_items(Str(n)) - 1
    <3>1. PICK x \in Nat, l \in Nat, z \in Nat : x = Pos(d, n) /\ l = d[n] /\ z = Len(strings[Str(n)])
      BY <2>1, <2>2
    <3>2. l = z - x + 1 /\ x + (l - 1) = (z + 1) - 1
      BY <2>1, <2>2, <3>1
    <3> QED BY <2>2, <3>1, <3>2
  <2> QED BY <2>1, <2>3 DEF Str
<1>6. ASSUME NEW s \in Registered, NEW k \in 0..(num_items(s) - 1)
      PROVE  \E n \in Leaves : edge[node[n].up_edge].str = s /\ node[n].index = k
  <2>1. k \in 0..(Made(s) - 1)
    BY <1>4
  <2>2. PICK n \in Leaves : Str(n) = s /\ Pos(d, n) = k
    BY <1>2, <2>1, SuffixLeaf
  <2> QED BY <1>2, <2>2, LeafWord DEF Str
<1>7. ASSUME NEW n \in Leaves, NEW m \in Leaves, Path[n] = Path[m]
      PROVE  n = m
  <2>1. PICK s \in DOMAIN strings, x \in Nat, l \in Nat :
          s = Str(n) /\ x = Pos(d, n) /\ l = d[n] /\ Path[n] = Span(s, x, l)
    BY <1>2, LeafWord
  <2>2. PICK t \in DOMAIN strings, y \in Nat, z \in Nat :
          t = Str(m) /\ y = Pos(d, m) /\ z = d[m] /\ Path[m] = Span(t, y, z)
    BY <1>2, LeafWord
  <2>3. l = z /\ Agree(s, x, t, y, l)
    <3>1. Len(Span(s, x, l)) = l /\ Len(Span(t, y, z)) = z
      BY <1>0, SpanItems
    <3>2. Span(s, x, l) = Span(t, y, z)
      BY <1>7, <2>1, <2>2
    <3>3. l = z
      BY <3>1, <3>2
    <3>4. Span(s, x, l) = Span(t, y, l)
      BY <3>2, <3>3
    <3> QED BY <1>0, <3>3, <3>4, SpansAgree
  <2>4. n \in DOMAIN node \ { Root } /\ m \in DOMAIN node \ { Root }
    BY DEF Leaves
  <2>5. Same(d, n, m)
    BY <1>2, <2>4, WordsSettled
  <2> QED BY <2>1, <2>2, <2>3, <2>5 DEF Same
<1> QED BY <1>3, <1>5, <1>6, <1>7 DEF SuffixesAreLeaves

(* When lst_stree_add_string returns, the leafs are the suffixes of the    *)
(* strings in the tree, one leaf for each, and every inner node branches:  *)
(* the leafs that Rule 1 extends at once, the early stop of Rule 3 and the *)
(* skipped phases of a string that matched lose none of them.              *)
THEOREM SuffixesCorrect == Spec => []SuffixesAreLeaves
BY WordsInvariance, LeavesAreSuffixes, PTL

LEMMA ExtensionsInPlace == WordsInv => ExtensionInPlace
<1> SUFFICES ASSUME WordsInv, pc = "insert" PROVE ExtensionInPlace
  BY DEF ExtensionInPlace
<1>1. PICK d : IInv /\ Right(d)
  BY DEF WordsInv
<1>2. /\ TypeOK /\ Worded(d) /\ cur \in DOMAIN strings
      /\ i \in Nat /\ j \in Nat /\ j <= i /\ skip.extra = i
      /\ At(d, end, cur, j, i - j) /\ Interior(end)
  BY <1>1, AtInsertion
<1>3. PICK l \in Nat : l = i - j
  BY <1>2
<1>4. Items(cur, j, i - 1) = Span(cur, j, l)
  <2>1. j + (l - 1) = i - 1
    BY <1>2, <1>3
  <2> QED BY <2>1 DEF Span
<1>5. ~ lst_node_is_leaf(Root)
  BY <1>1 DEF IInv, WellPlaced
<1>6. CASE end.node # NULL
  <2>1. InnerOrRoot(end.node) /\ AtNode(d, end.node, cur, j, l)
    BY <1>2, <1>3, <1>6 DEF At
  <2>2. Path[end.node] = Span(cur, j, l)
    BY <1>2, <2>1, AtNodeWord DEF InnerOrRoot
  <2>3. ~ lst_node_is_leaf(end.node)
    BY <1>5, <2>1 DEF InnerOrRoot
  <2> QED BY <1>2, <1>4, <1>6, <2>2, <2>3 DEF ExtensionInPlace, EndWord
<1>7. CASE end.node = NULL
  <2>1. PICK e \in DOMAIN edge : e = end.edge
    BY <1>2, <1>7 DEF At
  <2>2. /\ l = d[edge[e].src] + end.offset /\ OnEdge(d, e, cur, j, l)
        /\ end.offset \in 1..(lst_edge_get_length(e) - 1)
    BY <1>2, <1>3, <1>7, <2>1 DEF At, Interior
  <2>3. PICK s \in DOMAIN strings, k \in Nat, a \in Nat, z \in Nat :
          /\ s = edge[e].str /\ k = From(d, e) /\ a = d[edge[e].src] /\ z = lst_edge_get_length(e)
    BY <1>2, EdgeWords, EdgeSpans
  <2>4. Word(d, edge[e].src) = Span(s, k, a) /\ Label(e) = Span(s, k + a, z)
    BY <1>2, <2>3, EdgeSpans
  <2>5. PICK o \in 1..(z - 1) : o = end.offset
    BY <2>2, <2>3
  <2>6. Path[edge[e].src] = Span(s, k, a)
    BY <1>2, <2>4, EdgeWords, PathWord
  <2>7. SubSeq(Label(e), 1, o) = Span(s, k + a, o)
    <3>1. k + a \in Nat /\ o \in 0..z /\ TypeOK
      BY <1>2
    <3> QED BY <2>4, <3>1, SpanSub
  <2>8. EndWord = Span(s, k, a + o)
    <3>1. TypeOK /\ o \in Nat
      BY <1>2
    <3>2. Span(s, k, a) \o Span(s, k + a, o) = Span(s, k, a + o)
      BY ZenonT(30), <3>1, SpanJoin
    <3>3. EndWord = Path[edge[e].src] \o SubSeq(Label(e), 1, o)
      BY <1>7, <2>1, <2>5 DEF EndWord
    <3> QED BY <2>6, <2>7, <3>2, <3>3
  <2>9. l = a + o /\ Agree(s, k, cur, j, l)
    BY <2>2, <2>3, <2>5 DEF OnEdge
  <2>10. Span(s, k, l) = Span(cur, j, l)
    BY <1>2, <2>9, SpansAgree
  <2> QED BY <1>2, <1>4, <1>7, <2>8, <2>9, <2>10 DEF ExtensionInPlace
<1> QED BY <1>6, <1>7

(* The three ways in which an extension finds its place, the end of the    *)
(* last one, a suffix link with skip/count, and the naive descent, all     *)
(* come to the end of items j to i - 1 of the string that is added.        *)
THEOREM ExtensionsCorrect == Spec => []ExtensionInPlace
BY WordsInvariance, ExtensionsInPlace, PTL

LEMMA LinksAreRight == WordsInv => SuffixLinksRight
<1> SUFFICES ASSUME WordsInv, NEW n \in Inner \ { prev_new_node }
             PROVE  /\ node[n].suffix_link_node # NULL
                    /\ Path[node[n].suffix_link_node] = Tail(Path[n])
  BY DEF SuffixLinksRight
<1>1. PICK d : IInv /\ Right(d)
  BY DEF WordsInv
<1>2. TypeOK /\ Worded(d)
  BY <1>1, RightWorded DEF Right, IInv
<1>3. PICK m : m = node[n].suffix_link_node
  OBVIOUS
<1>4. InnerOrRoot(m) /\ AtNode(d, m, Str(n), Pos(d, n) + 1, d[n] - 1)
  BY <1>1, <1>3 DEF Right, Links, LinkRight
<1>5. m \in DOMAIN node /\ m # NULL
  BY <1>2, <1>4, Domains DEF InnerOrRoot, NULL
<1>6. n \in DOMAIN node /\ n # Root
  BY DEF Inner
<1>7. PICK s \in DOMAIN strings, x \in Nat, l \in Nat : s = Str(n) /\ x = Pos(d, n) /\ l = d[n] /\ l >= 1
  BY <1>2, <1>6, NodeWords
<1>8. Path[n] = Span(s, x, l)
  BY <1>2, <1>6, <1>7, PathWord DEF Word
<1>9. x + 1 \in Nat /\ l - 1 \in Nat
  BY <1>7
<1>10. Path[m] = Span(s, x + 1, l - 1)
  BY <1>2, <1>4, <1>5, <1>7, <1>9, AtNodeWord
<1>11. Tail(Path[n]) = Span(s, x + 1, l - 1)
  BY <1>2, <1>7, <1>8, SpanTail
<1> QED BY <1>3, <1>5, <1>10, <1>11

(* prev_new_node gets its suffix link in the extension after the one that  *)
(* made it, and the link leads to the node that reads one item less; a     *)
(* later split moves no node that a link leads to.                         *)
THEOREM LinksCorrect == Spec => []SuffixLinksRight
BY WordsInvariance, LinksAreRight, PTL

LEMMA SuffixesImplicit == WordsInv => ImplicitTree
<1> SUFFICES ASSUME WordsInv, pc = "phase", NEW k \in 0..(i - 1)
             PROVE  Items(cur, k, i - 1) \in Vocabulary
  BY DEF ImplicitTree
<1>1. PICK d : IInv /\ Right(d)
  BY DEF WordsInv
<1>2. /\ TypeOK /\ Worded(d) /\ Complete /\ i \in Int /\ cur \in DOMAIN strings
  BY <1>1, RightWorded DEF Right, IInv, WellPlaced, TypeOK, LocalType
<1>3. Readable(cur, k, i - k)
  BY <1>1, <1>2 DEF Right, ControlRight, PhaseRight, Implicit
<1>4. PICK l \in Nat : l = i - k /\ l >= 1
  BY <1>2
<1>5. PICK t \in Registered : \E x \in 0..(Made(t) - 1) :
         l <= phases[t] - x + 1 /\ Agree(t, x, cur, k, l)
  BY <1>3, <1>4 DEF Readable
<1>6. PICK x \in 0..(Made(t) - 1) : l <= phases[t] - x + 1 /\ Agree(t, x, cur, k, l)
  BY <1>5
<1>7. PICK n \in Leaves : Str(n) = t /\ Pos(d, n) = x
  BY <1>2, SuffixLeaf
<1>8. PICK y \in Nat, z \in Nat :
        y = x /\ z = d[n] /\ l <= z /\ Path[n] = Span(t, y, z) /\ t \in DOMAIN strings
  BY <1>2, <1>6, <1>7, LeafWord
<1>0. TypeOK
  BY <1>2
<1>9. l \in 0..z /\ Len(Path[n]) = z
  BY <1>0, <1>8, SpanItems
<1>10. SubSeq(Path[n], 1, l) = Span(t, y, l)
  <2>1. SubSeq(Span(t, y, z), 1, l) = Span(t, y, l)
    BY <1>0, <1>8, <1>9, SpanSub
  <2> QED BY <1>8, <2>1
<1>11. Span(t, y, l) = Span(cur, k, l)
  BY <1>2, <1>6, <1>8, SpansAgree
<1>12. Items(cur, k, i - 1) = Span(cur, k, l)
  <2>1. k + (l - 1) = i - 1
    BY <1>2, <1>4
  <2> QED BY <2>1 DEF Span
<1>13. l \in 1..Len(Path[n])
  BY <1>4, <1>9
<1> QED BY <1>10, <1>11, <1>12, <1>13 DEF Vocabulary

(* Rule 3 ends a phase early: the extensions it leaves out would have      *)
(* added nothing, as their suffixes can already be read from the root.     *)
THEOREM ImplicitCorrect == Spec => []ImplicitTree
BY WordsInvariance, SuffixesImplicit, PTL

-----------------------------------------------------------------------------
(* The tree implements the index.  What can be read from the root are the  *)
(* items from the start of a suffix that was made to at most the end of    *)
(* what is in the tree of its string.                                      *)
Reads(w) ==
  w = << >> \/ \E t \in Registered, x \in Nat, l \in Nat :
                 l >= 1 /\ x < Made(t) /\ x + l <= phases[t] + 1 /\ w = Span(t, x, l)

VocabularyRead == \A w : w \in Vocabulary <=> Reads(w)

Corpus == { Append(strings[s], -s) : s \in Registered }

CountsTyped == \A t \in Registered : Made(t) \in Int /\ phases[t] \in Int

ReadsWithin == Vocabulary \subseteq Index!Promised(Corpus)

LEMMA VocabularyIsRead == WordsInv => VocabularyRead
<1> SUFFICES ASSUME WordsInv, NEW w PROVE w \in Vocabulary <=> Reads(w)
  BY DEF VocabularyRead
<1>1. PICK d : IInv /\ Right(d)
  BY DEF WordsInv
<1>2. Worded(d) /\ Complete
  BY <1>1, RightWorded DEF Right
<1>0. TypeOK
  BY <1>1 DEF IInv
<1>3. ASSUME w \in Vocabulary, w # << >> PROVE Reads(w)
  <2>1. PICK n \in Leaves : \E k \in 1..Len(Path[n]) : w = SubSeq(Path[n], 1, k)
    BY <1>3 DEF Vocabulary
  <2>2. PICK k \in 1..Len(Path[n]) : w = SubSeq(Path[n], 1, k)
    BY <2>1
  <2>3. PICK t \in Registered, x \in Nat, l \in Nat :
          /\ t = Str(n) /\ x = Pos(d, n) /\ l = d[n] /\ t \in DOMAIN strings
          /\ x < Made(t) /\ l = phases[t] - x + 1 /\ Path[n] = Span(t, x, l)
    BY <1>2, LeafWord
  <2>4. Len(Span(t, x, l)) = l
    BY <1>0, <2>3, SpanItems
  <2>5. k \in Nat /\ k >= 1 /\ k \in 0..l
    BY <2>3, <2>4
  <2>6. SubSeq(Span(t, x, l), 1, k) = Span(t, x, k)
    BY <1>0, <2>3, <2>5, SpanSub
  <2>7. phases[t] \in Int
    BY <1>0, MadeType
  <2>8. x + k <= phases[t] + 1
    BY <2>3, <2>5, <2>7
  <2>9. w = Span(t, x, k)
    BY <2>2, <2>3, <2>6
  <2> QED BY <2>3, <2>5, <2>8, <2>9 DEF Reads
<1>4. ASSUME Reads(w), w # << >> PROVE w \in Vocabulary
  <2>1. PICK t \in Registered, x \in Nat, l \in Nat :
          l >= 1 /\ x < Made(t) /\ x + l <= phases[t] + 1 /\ w = Span(t, x, l)
    BY <1>4 DEF Reads
  <2>2. Made(t) \in Int /\ phases[t] \in Int
    BY <1>0, MadeType
  <2>3. x \in 0..(Made(t) - 1)
    BY <2>1, <2>2
  <2>4. PICK n \in Leaves : Str(n) = t /\ Pos(d, n) = x
    BY <1>2, <2>3, SuffixLeaf
  <2>5. PICK z \in Nat :
          z = d[n] /\ z = phases[t] - x + 1 /\ Path[n] = Span(t, x, z) /\ t \in DOMAIN strings
    BY <1>2, <2>4, LeafWord
  <2>6. l \in 0..z /\ l \in 1..z
    BY <2>1, <2>2, <2>5
  <2>7. Len(Span(t, x, z)) = z /\ SubSeq(Span(t, x, z), 1, l) = Span(t, x, l)
    BY <1>0, <2>5, <2>6, SpanItems, SpanSub
  <2>8. l \in 1..Len(Path[n]) /\ w = SubSeq(Path[n], 1, l)
    BY <2>1, <2>5, <2>6, <2>7
  <2> QED BY <2>8 DEF Vocabulary
<1>5. << >> \in Vocabulary /\ Reads(<< >>)
  BY DEF Vocabulary, Reads
<1> QED BY <1>3, <1>4, <1>5

LEMMA CountsAreTyped == WordsInv => CountsTyped
<1> SUFFICES ASSUME WordsInv PROVE CountsTyped
  OBVIOUS
<1>1. TypeOK
  BY DEF WordsInv, IInv
<1> QED BY <1>1, MadeType DEF CountsTyped

(* The items of a string with its marker are those of the word added.      *)
LEMMA MarkedWord ==
  ASSUME TypeOK, NEW t \in DOMAIN strings, NEW x \in Nat, NEW l \in Nat,
         x + l <= Len(strings[t]) + 1
  PROVE  /\ Len(Append(strings[t], -t)) = Len(strings[t]) + 1
         /\ SubSeq(Append(strings[t], -t), x + 1, x + l) = Span(t, x, l)
<1>1. strings[t] \in Seq(Nat) /\ t \in Nat
  <2>1. strings \in Seq(Inputs) /\ DOMAIN strings = 1..Len(strings)
    BY Domains DEF TypeOK, TableType
  <2>2. strings[t] \in Inputs
    BY <2>1, ElementOfSeq
  <2> QED BY <2>1, <2>2, InputsAssumption
<1>2. PICK u : u = strings[t]
  OBVIOUS
<1>3. u \in Seq(Int)
  BY <1>1, <1>2, SeqMonotonic
<1>4. PICK z \in Nat : z = Len(u)
  BY <1>3, LenProperties
<1>5. PICK m \in Int : m = -t
  BY <1>1
<1>6. /\ Append(u, m) \in Seq(Int) /\ Len(Append(u, m)) = z + 1
      /\ \A n \in 1..z : Append(u, m)[n] = u[n]
      /\ Append(u, m)[z + 1] = m
  BY <1>3, <1>4, AppendProperties
<1>7. PICK v : v = Append(u, m)
  OBVIOUS
<1>8. v \in Seq(Int) /\ Len(v) = z + 1 /\ (\A n \in 1..z : v[n] = u[n]) /\ v[z + 1] = m
  BY <1>6, <1>7
<1>9. x + l <= z + 1
  BY <1>2, <1>4
<1>10. \A n \in (x + 1)..(x + l) : v[n] \in Int
  <2>1. ASSUME NEW n \in (x + 1)..(x + l) PROVE v[n] \in Int
    <3>1. n \in 1..Len(v)
      BY <1>8, <1>9
    <3> QED BY <1>8, <3>1, ElementOfSeq
  <2> QED BY <2>1
<1>11. /\ SubSeq(v, x + 1, x + l) \in Seq(Int)
       /\ Len(SubSeq(v, x + 1, x + l)) = l
       /\ \A n \in 1..l : SubSeq(v, x + 1, x + l)[n] = v[x + n]
  <2>1. PICK a \in Int, b \in Int : a = x + 1 /\ b = x + l
    OBVIOUS
  <2>2. /\ SubSeq(v, a, b) \in Seq(Int)
        /\ Len(SubSeq(v, a, b)) = IF a <= b THEN b - a + 1 ELSE 0
        /\ \A n \in 1..(b - a + 1) : SubSeq(v, a, b)[n] = v[a + n - 1]
    BY <1>10, <2>1, SubSeqProperties
  <2>3. b - a + 1 = l /\ (a <= b <=> l >= 1) /\ \A n \in 1..l : a + n - 1 = x + n
    BY <2>1
  <2> QED BY <2>1, <2>2, <2>3
<1>12. ASSUME NEW n \in 1..l PROVE v[x + n] = Item(t, x + (n - 1))
  <2>1. CASE x + n <= z
    <3>1. x + n \in 1..z /\ x + (n - 1) < z /\ (x + (n - 1)) + 1 = x + n
      BY <2>1
    <3>2. Item(t, x + (n - 1)) = u[x + n]
      BY <1>2, <1>4, <3>1 DEF Item
    <3> QED BY <1>8, <3>1, <3>2
  <2>2. CASE ~ (x + n <= z)
    <3>1. x + n = z + 1 /\ ~ (x + (n - 1) < z)
      BY <1>9, <2>2
    <3>2. Item(t, x + (n - 1)) = -t
      BY <1>2, <1>4, <3>1 DEF Item
    <3> QED BY <1>5, <1>8, <3>1, <3>2
  <2> QED BY <2>1, <2>2
<1>13. /\ Span(t, x, l) \in Seq(Int) /\ Len(Span(t, x, l)) = l
       /\ \A n \in 1..l : Span(t, x, l)[n] = Item(t, x + (n - 1))
  BY SpanItems
<1>14. SubSeq(v, x + 1, x + l) = Span(t, x, l)
  BY <1>11, <1>12, <1>13, SeqEqual
<1> QED BY <1>2, <1>4, <1>5, <1>6, <1>7, <1>14

LEMMA SubstringsOf ==
  ASSUME NEW u
  PROVE  /\ \A x, y \in 1..Len(u) : SubSeq(u, x, y) \in Index!Substrings(u)
         /\ \A v \in Index!Substrings(u) : \E x, y \in 1..Len(u) : v = SubSeq(u, x, y)
BY DEF Index!Substrings

LEMMA ReadIsPromised == WordsInv => ReadsWithin
<1> SUFFICES ASSUME WordsInv, NEW w \in Vocabulary PROVE w \in Index!Promised(Corpus)
  BY DEF ReadsWithin
<1>1. TypeOK /\ Complete
  BY DEF WordsInv, IInv, Right, TreeRight
<1>2. Reads(w)
  BY VocabularyIsRead DEF VocabularyRead
<1>3. CASE w = << >>
  BY <1>3 DEF Index!Promised
<1>4. CASE w # << >>
  <2>1. PICK t \in Registered, x \in Nat, l \in Nat :
          l >= 1 /\ x < Made(t) /\ x + l <= phases[t] + 1 /\ w = Span(t, x, l)
    BY <1>2, <1>4 DEF Reads
  <2>2. t \in DOMAIN strings /\ phases[t] \in Int
    BY <1>1, MadeType
  <2>3. PICK z \in Nat : z = Len(strings[t])
    BY <1>1, <2>2, Markers
  <2>4. phases[t] <= z
    BY <1>1, <2>3 DEF Complete
  <2>5. x + l <= z + 1
    BY <2>1, <2>2, <2>4
  <2>6. PICK u : u = Append(strings[t], -t)
    OBVIOUS
  <2>7. Len(u) = z + 1 /\ SubSeq(u, x + 1, x + l) = w
    BY <1>1, <2>1, <2>2, <2>3, <2>5, <2>6, MarkedWord
  <2>8. x + 1 \in 1..Len(u) /\ x + l \in 1..Len(u)
    BY <2>1, <2>5, <2>7
  <2>9. w \in Index!Substrings(u)
    <3>1. PICK a \in 1..Len(u), b \in 1..Len(u) : a = x + 1 /\ b = x + l
      BY <2>8
    <3>2. SubSeq(u, a, b) \in Index!Substrings(u)
      BY SubstringsOf
    <3> QED BY <2>7, <3>1, <3>2
  <2>10. u \in Corpus
    BY <2>6 DEF Corpus
  <2> QED BY <2>9, <2>10 DEF Index!Promised
<1> QED BY <1>3, <1>4

(* When a string is complete everything promised can be read.              *)
LEMMA PromisedIsRead ==
  ASSUME WordsInv, \A t \in Registered : Made(t) = Len(strings[t]) + 1 /\ phases[t] = Len(strings[t])
  PROVE  Vocabulary = Index!Promised(Corpus)
<1>1. TypeOK
  BY DEF WordsInv, IInv
<1>2. \A w : w \in Vocabulary <=> Reads(w)
  BY VocabularyIsRead DEF VocabularyRead
<1>3. ASSUME NEW w \in Index!Promised(Corpus) PROVE Reads(w)
  <2>1. CASE w = << >>
    BY <2>1 DEF Reads
  <2>2. CASE w # << >>
    <3>1. PICK u \in Corpus : w \in Index!Substrings(u)
      BY <2>2 DEF Index!Promised
    <3>2. PICK t \in Registered : u = Append(strings[t], -t)
      BY <3>1 DEF Corpus
    <3>3. t \in DOMAIN strings
      BY <1>1, MadeType
    <3>4. PICK z \in Nat : z = Len(strings[t])
      BY <1>1, <3>3, Markers
    <3>5. 0 \in Nat /\ 0 + 0 <= z + 1
      OBVIOUS
    <3>6. Len(u) = z + 1
      BY <1>1, <3>2, <3>3, <3>4, <3>5, MarkedWord
    <3>7. PICK a \in 1..(z + 1), b \in 1..(z + 1) : w = SubSeq(u, a, b)
      <4>1. \E a, b \in 1..Len(u) : w = SubSeq(u, a, b)
        BY <3>1, SubstringsOf
      <4> QED BY <3>6, <4>1
    <3>8. a <= b
      <4>1. SUFFICES ASSUME b < a PROVE FALSE
        OBVIOUS
      <4> QED BY <2>2, <3>7, <4>1, SubSeqEmpty
    <3>9. PICK x \in Nat, l \in Nat : x = a - 1 /\ l = b - a + 1
      BY <3>8
    <3>10. a = x + 1 /\ b = x + l /\ l >= 1 /\ x + l <= z + 1 /\ x < z + 1
      BY <3>8, <3>9
    <3>11. w = Span(t, x, l)
      BY <1>1, <3>2, <3>3, <3>4, <3>7, <3>10, MarkedWord
    <3>12. x < Made(t) /\ x + l <= phases[t] + 1
      BY <3>4, <3>10
    <3> QED BY <3>10, <3>11, <3>12 DEF Reads
  <2> QED BY <2>1, <2>2
<1>4. Vocabulary \subseteq Index!Promised(Corpus)
  BY ReadIsPromised DEF ReadsWithin
<1> QED BY <1>2, <1>3, <1>4

-----------------------------------------------------------------------------
(* No step loses a suffix that was made or an item of it.                  *)
Gains ==
  \A t \in Registered :
    /\ t \in Registered' /\ strings'[t] = strings[t] /\ Made(t) <= Made(t)'
    /\ Made(t) > 0 => phases[t] <= phases'[t]

(* And a step between two additions changes nothing that can be read.      *)
Still ==
  /\ Registered' = Registered
  /\ \A t \in Registered :
       strings'[t] = strings[t] /\ Made(t)' = Made(t) /\ phases'[t] = phases[t]

LEMMA SpanSame ==
  ASSUME NEW t, NEW x, NEW l, strings'[t] = strings[t]
  PROVE  Span(t, x, l)' = Span(t, x, l)
BY DEF Span, Items, Item

LEMMA GainsReads ==
  ASSUME WordsInv, CountsTyped', VocabularyRead', Gains
  PROVE  Vocabulary \subseteq Vocabulary'
<1> SUFFICES ASSUME NEW w \in Vocabulary PROVE w \in Vocabulary'
  OBVIOUS
<1>1. Reads(w)
  BY VocabularyIsRead DEF VocabularyRead
<1>2. Reads(w)'
  <2>1. CASE w = << >>
    BY <2>1 DEF Reads
  <2>2. CASE w # << >>
    <3>1. PICK t \in Registered, x \in Nat, l \in Nat :
            l >= 1 /\ x < Made(t) /\ x + l <= phases[t] + 1 /\ w = Span(t, x, l)
      BY <1>1, <2>2 DEF Reads
    <3>2. Made(t) \in Int /\ phases[t] \in Int
      BY CountsAreTyped DEF CountsTyped
    <3>3. /\ t \in Registered' /\ strings'[t] = strings[t] /\ Made(t) <= Made(t)'
          /\ phases[t] <= phases'[t]
      BY <3>1, <3>2 DEF Gains
    <3>4. Made(t)' \in Int /\ phases'[t] \in Int
      BY <3>3 DEF CountsTyped
    <3>5. x < Made(t)' /\ x + l <= phases'[t] + 1
      BY <3>1, <3>2, <3>3, <3>4
    <3>6. w = Span(t, x, l)'
      BY <3>1, <3>3, SpanSame
    <3> QED BY <3>1, <3>3, <3>5, <3>6 DEF Reads
  <2> QED BY <2>1, <2>2
<1> QED BY <1>2 DEF VocabularyRead

LEMMA StillReads ==
  ASSUME WordsInv, VocabularyRead', Still
  PROVE  Vocabulary' = Vocabulary /\ Corpus' = Corpus
<1>1. ASSUME NEW w PROVE Reads(w)' <=> Reads(w)
  <2>1. ASSUME NEW t \in Registered, NEW x \in Nat, NEW l \in Nat
        PROVE  (l >= 1 /\ x < Made(t) /\ x + l <= phases[t] + 1 /\ w = Span(t, x, l))' <=>
               (l >= 1 /\ x < Made(t) /\ x + l <= phases[t] + 1 /\ w = Span(t, x, l))
    <3>1. strings'[t] = strings[t] /\ Made(t)' = Made(t) /\ phases'[t] = phases[t]
      BY DEF Still
    <3>2. Span(t, x, l)' = Span(t, x, l)
      BY <3>1, SpanSame
    <3> QED BY <3>1, <3>2
  <2>2. Registered' = Registered
    BY DEF Still
  <2> QED BY <2>1, <2>2 DEF Reads
<1>2. \A w : w \in Vocabulary <=> Reads(w)
  BY VocabularyIsRead DEF VocabularyRead
<1>3. \A w : w \in Vocabulary' <=> Reads(w)'
  BY DEF VocabularyRead
<1>4. Vocabulary' = Vocabulary
  BY <1>1, <1>2, <1>3
<1>5. Corpus' = Corpus
  BY DEF Still, Corpus
<1> QED BY <1>4, <1>5

(* The steps of an addition under way.                                     *)
LEMMA WorkGains ==
  ASSUME WordsInv, pc \in Working, Work, ~ EndString
  PROVE  Gains /\ strings' = strings /\ hash' = hash /\ pc' \in Working
<1>1. PICK d : IInv /\ Right(d)
  BY DEF WordsInv
<1>2. /\ cur \in DOMAIN strings /\ i \in Int /\ j \in Int /\ last_extension \in Int
      /\ stop_extensions \in BOOLEAN /\ phases \in Seq(Int) /\ DOMAIN phases = DOMAIN strings
      /\ \A t \in DOMAIN strings : phases[t] \in Int /\ Len(strings[t]) \in Nat
  BY <1>1, Domains, Markers DEF IInv, WellPlaced, Working, TypeOK, LocalType, TableType
<1>3. \A t \in Registered : t \in DOMAIN strings
  BY <1>1, MadeType DEF IInv
<1>4. ASSUME strings' = strings, hash' = hash, Made(cur) <= Made(cur)', pc' \in Working,
             \A t \in DOMAIN strings : t # cur \/ Made(t) > 0 => phases[t] <= phases'[t]
      PROVE  Gains
  <2>1. Registered' = Registered /\ cur' = cur
    BY <1>4 DEF Registered, cur
  <2>2. ASSUME NEW t \in Registered, t # cur PROVE Made(t) <= Made(t)'
    <3>1. Made(t) = Len(strings[t]) + 1 /\ Made(t)' = Len(strings[t]) + 1
      BY <1>4, <2>1, <2>2 DEF Made
    <3>2. Len(strings[t]) + 1 \in Int
      BY <1>2, <1>3
    <3> QED BY <3>1, <3>2
  <2>3. ASSUME NEW t \in Registered PROVE Made(t) <= Made(t)'
    <3>1. CASE t # cur
      BY <2>2, <3>1
    <3>2. CASE t = cur
      <4>1. PICK c : c = cur
        OBVIOUS
      <4>2. Made(c) <= Made(c)'
        BY <1>4, <2>1, <4>1
      <4> QED BY <3>2, <4>1, <4>2
    <3> QED BY <3>1, <3>2
  <2> QED BY <1>3, <1>4, <2>1, <2>3 DEF Gains
<1>5. ASSUME UNCHANGED phases
      PROVE  \A t \in DOMAIN strings : t # cur \/ Made(t) > 0 => phases[t] <= phases'[t]
  BY <1>2, <1>5
<1>6. pc \in { "extend", "insert" } \/ pc \notin { "extend", "insert" }
  OBVIOUS
<1>7. CASE EnterFirstString \/ EnterNextString \/ CheckDuplicate
  BY <1>7 DEF EnterFirstString, EnterNextString, CheckDuplicate, Working
<1>8. CASE MatchStep
  <2>1. UNCHANGED << strings, hash, phases, pc, i, j, last_extension, stop_extensions >>
    BY <1>8 DEF MatchStep, tableVars, loopVars
  <2>2. Made(cur) \in Int
    BY <1>2, <1>3 DEF Made
  <2>3. Made(cur)' = Made(cur)
    BY <2>1 DEF Made, cur
  <2> QED BY <1>4, <1>5, <2>1, <2>2, <2>3
<1>9. CASE MatchResult
  <2>1. UNCHANGED << strings, hash, phases >> /\ pc = "match" /\ pc' = "phase" /\ last_extension' = -1
    BY <1>9 DEF MatchResult, tableVars, Working
  <2>2. Made(cur) = 0 /\ Made(cur)' = 0
    BY <2>1 DEF Made, cur
  <2> QED BY <1>4, <1>5, <2>1, <2>2 DEF Working
<1>10. CASE BeginPhase
  <2>1. /\ UNCHANGED << strings, hash >> /\ pc = "phase" /\ pc' = "extend"
        /\ j' = last_extension + 1 /\ stop_extensions' = FALSE
        /\ phases' = [phases EXCEPT ![cur] = i]
    BY <1>10 DEF BeginPhase, tableVars
  <2>2. Made(cur) = last_extension + 1 /\ Made(cur)' = last_extension + 1
    BY <2>1 DEF Made, cur
  <2>3. last_extension >= 0 => phases[cur] = i - 1
    BY <1>1, <2>1 DEF Right, ControlRight, PhaseRight
  <2>4. ASSUME NEW t \in DOMAIN strings, t # cur \/ Made(t) > 0 PROVE phases[t] <= phases'[t]
    <3>1. CASE t # cur
      BY <1>2, <2>1, <3>1
    <3>2. CASE t = cur
      <4>1. phases'[t] = i
        BY <1>2, <2>1, <3>2
      <4>2. phases[t] = i - 1
        BY <1>2, <2>2, <2>3, <2>4, <3>2
      <4> QED BY <1>2, <4>1, <4>2
    <3> QED BY <3>1, <3>2
  <2>5. Made(cur) <= Made(cur)'
    BY <1>2, <2>2
  <2> QED BY <1>4, <2>1, <2>4, <2>5 DEF Working
<1>11. CASE EndPhase
  <2>1. /\ UNCHANGED << strings, hash, phases >> /\ pc = "extend" /\ pc' = "phase"
        /\ last_extension' = j - 1 - (IF stop_extensions THEN 1 ELSE 0)
    BY <1>11 DEF EndPhase, tableVars
  <2>2. Made(cur) = (IF stop_extensions THEN j - 1 ELSE j) /\ Made(cur)' = last_extension' + 1
    BY <2>1 DEF Made, cur
  <2>3. Made(cur) <= Made(cur)'
    BY <1>2, <2>1, <2>2
  <2> QED BY <1>4, <1>5, <2>1, <2>3 DEF Working
<1>12. CASE ReuseEnd \/ ClimbToSuffixLink
  <2>1. /\ UNCHANGED << strings, hash, phases, j, stop_extensions >>
        /\ pc = "extend" /\ pc' \in { "follow", "insert" } /\ ~ stop_extensions
    BY <1>12 DEF ReuseEnd, ClimbToSuffixLink, MoreExtensions, tableVars, loopVars
  <2>2. Made(cur) = j /\ Made(cur)' = j
    BY <2>1 DEF Made, cur
  <2> QED BY <1>2, <1>4, <1>5, <2>1, <2>2 DEF Working
<1>13. CASE FollowStep \/ FollowResult
  <2>1. /\ UNCHANGED << strings, hash, phases, j >>
        /\ pc = "follow" /\ pc' \in { "follow", "insert" }
    BY <1>13 DEF FollowStep, FollowResult, tableVars, loopVars
  <2>2. Made(cur) = j /\ Made(cur)' = j
    BY <2>1 DEF Made, cur
  <2> QED BY <1>2, <1>4, <1>5, <2>1, <2>2 DEF Working
<1>14. CASE ExtendAtNode
  <2>1. pc = "insert" /\ end.node # NULL
    BY <1>14 DEF ExtendAtNode, NextExtension
  <2>2. ~ lst_node_is_leaf(end.node)
    BY <2>1, ExtensionsInPlace DEF ExtensionInPlace
  <2>3. /\ UNCHANGED << strings, hash, phases, stop_extensions >> /\ pc' = "extend" /\ j' = j + 1
    BY <1>14, <2>2 DEF ExtendAtNode, NextExtension, AddLeafAt, tableVars
  <2>4. Made(cur) = j /\ Made(cur)' = (IF stop_extensions THEN j ELSE j + 1)
    BY <1>2, <2>1, <2>3 DEF Made, cur
  <2>5. Made(cur) <= Made(cur)'
    BY <1>2, <2>4
  <2> QED BY <1>4, <1>5, <2>3, <2>5 DEF Working
<1>15. CASE StopAtNode \/ StopAtEdge \/ SplitEdge
  <2>1. /\ UNCHANGED << strings, hash, phases >>
        /\ pc = "insert" /\ pc' = "extend" /\ j' = j + 1
    BY <1>15 DEF StopAtNode, StopAtEdge, SplitEdge, NextExtension, tableVars
  <2>2. Made(cur) = j /\ Made(cur)' \in { j, j + 1 }
    BY <1>2, <2>1 DEF Made, cur
  <2>3. Made(cur) <= Made(cur)'
    BY <1>2, <2>2
  <2> QED BY <1>4, <1>5, <2>1, <2>3 DEF Working
<1> QED BY <1>7, <1>8, <1>9, <1>10, <1>11, <1>12, <1>13, <1>14, <1>15 DEF Work

LEMMA BetweenStill ==
  ASSUME WordsInv, pc \notin Working, [Next]_vars, ~ EnterFirstString, ~ EnterNextString
  PROVE  Still /\ pc' \notin Working
<1>1. PICK d : IInv /\ Right(d)
  BY DEF WordsInv
<1>2. pc \in { "idle", "check", "enter" }
  BY <1>1 DEF IInv, TypeOK, LocalType, Pcs, Working
<1>3. /\ hash \in Seq(Int) /\ strings \in Seq(Inputs) /\ phases \in Seq(Int)
      /\ DOMAIN hash = DOMAIN strings /\ DOMAIN phases = DOMAIN strings
      /\ DOMAIN strings = 1..Len(strings) /\ Len(strings) \in Nat
      /\ Len(hash) = Len(strings) /\ Len(phases) = Len(strings)
  BY <1>1, Domains DEF IInv, TypeOK, TableType
<1>4. \A t \in Registered : t \in DOMAIN strings
  BY <1>1, MadeType DEF IInv
<1>5. ASSUME UNCHANGED << strings, hash, phases >>, pc' \in { "idle", "check", "enter" }
      PROVE  Still
  <2>1. Registered' = Registered /\ cur' = cur
    BY <1>5 DEF Registered, cur
  <2>2. ASSUME NEW t \in Registered PROVE Made(t)' = Made(t)
    <3>1. CASE t # cur
      BY <1>5, <2>1, <3>1 DEF Made
    <3>2. CASE t = cur
      <4>2. pc \notin { "check", "enter" }
        BY <1>1, <2>2, <3>2 DEF Right, ControlRight, Between
      <4>3. pc = "idle"
        BY <1>2, <4>2
      <4>4. CASE pc' = "idle"
        BY <1>5, <2>1, <4>3, <4>4 DEF Made
      <4>5. CASE pc' # "idle"
        <5>1. vars' # vars
          BY <4>3, <4>5 DEF vars
        <5>2. \E w \in Inputs : AddString(w)
          BY <4>3, <4>5, <5>1 DEF Next, Work, AllowDuplicates, EnterFirstString, EnterNextString,
               MatchStep, CheckDuplicate, MatchResult, BeginPhase, EndPhase, EndString, ReuseEnd,
               ClimbToSuffixLink, FollowStep, FollowResult, ExtendAtNode, StopAtNode, StopAtEdge,
               SplitEdge, NextExtension
        <5>3. PICK w \in Inputs : strings' = Append(strings, w)
          BY <5>2 DEF AddString
        <5>4. Len(Append(strings, w)) = Len(strings) + 1
          BY <1>3, AppendProperties
        <5> QED BY <1>3, <1>5, <5>3, <5>4
      <4> QED BY <4>4, <4>5
    <3> QED BY <3>1, <3>2
  <2> QED BY <1>5, <2>1, <2>2 DEF Still
<1>6. CASE \E w \in Inputs : AddString(w)
  <2>1. PICK w \in Inputs : AddString(w)
    BY <1>6
  <2>2. /\ pc = "idle" /\ pc' \in { "check", "enter" }
        /\ strings' = Append(strings, w) /\ hash' = Append(hash, -1) /\ phases' = Append(phases, 0)
    BY <2>1 DEF AddString
  <2>3. /\ DOMAIN strings' = 1..(Len(strings) + 1) /\ Len(strings') = Len(strings) + 1
        /\ \A t \in 1..Len(strings) : strings'[t] = strings[t]
        /\ DOMAIN hash' = 1..(Len(strings) + 1) /\ hash'[Len(strings) + 1] = -1
        /\ \A t \in 1..Len(strings) : hash'[t] = hash[t]
        /\ \A t \in 1..Len(strings) : phases'[t] = phases[t]
    <3>1. /\ Append(strings, w) \in Seq(Inputs) /\ Len(Append(strings, w)) = Len(strings) + 1
          /\ \A t \in 1..Len(strings) : Append(strings, w)[t] = strings[t]
      BY <1>3, AppendProperties
    <3>2. /\ Append(hash, -1) \in Seq(Int) /\ Len(Append(hash, -1)) = Len(strings) + 1
          /\ \A t \in 1..Len(strings) : Append(hash, -1)[t] = hash[t]
          /\ Append(hash, -1)[Len(strings) + 1] = -1
      BY <1>3, AppendProperties
    <3>3. \A t \in 1..Len(strings) : Append(phases, 0)[t] = phases[t]
      BY <1>3, AppendProperties
    <3> QED BY <2>2, <3>1, <3>2, <3>3, LenProperties
  <2>4. Registered' = Registered
    BY <1>3, <2>3 DEF Registered
  <2>5. ASSUME NEW t \in Registered
        PROVE  strings'[t] = strings[t] /\ Made(t)' = Made(t) /\ phases'[t] = phases[t]
    <3>1. t \in 1..Len(strings)
      BY <1>3, <1>4
    <3>2. strings'[t] = strings[t] /\ phases'[t] = phases[t] /\ t # cur'
      BY <1>3, <2>3, <3>1 DEF cur
    <3> QED BY <2>2, <3>2 DEF Made
  <2> QED BY <2>2, <2>4, <2>5 DEF Still, Working
<1>7. CASE \E flag \in BOOLEAN : AllowDuplicates(flag)
  <2>1. UNCHANGED << strings, hash, phases, pc >>
    BY <1>7 DEF AllowDuplicates
  <2> QED BY <1>2, <1>5, <2>1 DEF Working
<1>8. CASE MatchStep
  <2>1. UNCHANGED << strings, hash, phases, pc >>
    BY <1>8 DEF MatchStep, tableVars
  <2> QED BY <1>2, <1>5, <2>1 DEF Working
<1>9. CASE CheckDuplicate
  <2>1. UNCHANGED << strings, hash, phases >> /\ pc' \in { "idle", "enter" }
    BY <1>9 DEF CheckDuplicate, tableVars
  <2> QED BY <1>5, <2>1 DEF Working
<1>10. CASE UNCHANGED vars
  <2>1. UNCHANGED << strings, hash, phases, pc >>
    BY <1>10 DEF vars, tableVars
  <2> QED BY <1>2, <1>5, <2>1 DEF Working
<1> QED BY <1>2, <1>6, <1>7, <1>8, <1>9, <1>10 DEF Next, Work, MatchResult, BeginPhase, EndPhase,
           EndString, ReuseEnd, ClimbToSuffixLink, FollowStep, FollowResult, ExtendAtNode, StopAtNode,
           StopAtEdge, SplitEdge, NextExtension

LEMMA EnterGains ==
  ASSUME WordsInv, EnterFirstString \/ EnterNextString
  PROVE  /\ Gains /\ cur \in DOMAIN strings
         /\ Corpus' = Corpus \cup { Append(strings[cur], -cur) }
         /\ pc \notin Working /\ pc' \in Working /\ strings' = strings
<1>1. PICK d : IInv /\ Right(d)
  BY DEF WordsInv
<1>2. /\ pc = "enter" /\ pc' \in { "phase", "match" } /\ UNCHANGED << strings, phases >>
      /\ hash' = [hash EXCEPT ![cur] = string_index]
  BY DEF EnterFirstString, EnterNextString, Register
<1>3. cur \in DOMAIN strings /\ DOMAIN hash = DOMAIN strings /\ string_index \in Nat /\ cur' = cur
  BY <1>1, <1>2, Domains DEF IInv, WellPlaced, TypeOK, TableType, cur
<1>4. cur \notin Registered
  BY <1>1, <1>2 DEF Right, ControlRight, Between
<1>5. Registered' = Registered \cup { cur }
  <2>1. DOMAIN hash' = DOMAIN hash /\ hash'[cur] = string_index
        /\ \A t \in DOMAIN hash : t # cur => hash'[t] = hash[t]
    BY <1>2, <1>3
  <2> QED BY <1>3, <2>1 DEF Registered
<1>6. ASSUME NEW t \in Registered PROVE Made(t)' = Made(t) /\ Made(t) \in Int /\ phases[t] \in Int
  <2>1. t # cur /\ t # cur'
    BY <1>3, <1>4
  <2> QED BY <1>1, <1>2, <2>1, MadeType DEF Made, IInv
<1>7. Gains
  BY <1>2, <1>5, <1>6 DEF Gains
<1>8. Corpus' = Corpus \cup { Append(strings[cur], -cur) }
  BY <1>2, <1>5 DEF Corpus
<1> QED BY <1>2, <1>3, <1>7, <1>8 DEF Working

LEMMA EndFinishes ==
  ASSUME WordsInv, EndString
  PROVE  /\ Still /\ pc \in Working /\ pc' \notin Working
         /\ \A t \in Registered : Made(t) = Len(strings[t]) + 1 /\ phases[t] = Len(strings[t])
<1>1. PICK d : IInv /\ Right(d)
  BY DEF WordsInv
<1>2. /\ pc = "phase" /\ pc' = "idle" /\ i >= num_items(cur) /\ UNCHANGED << strings, hash, phases >>
  BY DEF EndString, tableVars
<1>3. /\ cur \in DOMAIN strings /\ Len(strings[cur]) \in Nat /\ i \in Int /\ last_extension \in Int
      /\ phases[cur] \in Int
  BY <1>1, <1>2, Domains, Markers DEF IInv, WellPlaced, TypeOK, LocalType
<1>4. /\ i <= num_items(cur) /\ (i = num_items(cur) => last_extension = i - 1)
      /\ (last_extension >= 0 => phases[cur] = i - 1)
  BY <1>1, <1>2 DEF Right, ControlRight, PhaseRight
<1>5. /\ num_items(cur) = Len(strings[cur]) + 1 /\ i = num_items(cur)
      /\ last_extension = Len(strings[cur]) /\ phases[cur] = Len(strings[cur])
  <2>1. num_items(cur) = Len(strings[cur]) + 1
    BY DEF num_items
  <2> QED BY <1>2, <1>3, <1>4, <2>1
<1>6. ASSUME NEW t \in Registered
      PROVE  Made(t) = Len(strings[t]) + 1 /\ phases[t] = Len(strings[t])
  <2>1. CASE t = cur
    BY <1>2, <1>5, <2>1 DEF Made
  <2>2. CASE t # cur
    <3>1. Complete
      BY <1>1 DEF Right, TreeRight
    <3> QED BY <2>2, <3>1 DEF Made, Complete
  <2> QED BY <2>1, <2>2
<1>7. Registered' = Registered
  BY <1>2 DEF Registered
<1>8. ASSUME NEW t \in Registered PROVE Made(t)' = Made(t)
  BY <1>2, <1>6 DEF Made
<1> QED BY <1>2, <1>6, <1>7, <1>8 DEF Still, Working

StringsBounded == Len(strings) <= MaxStrings

LEMMA NextBounded ==
  ASSUME TypeOK, StringsBounded, [Next]_vars
  PROVE  StringsBounded'
<1>1. strings \in Seq(Inputs)
  BY DEF TypeOK, TableType
<1>2. CASE \E w \in Inputs : AddString(w)
  <2>1. PICK w \in Inputs : Len(strings) < MaxStrings /\ strings' = Append(strings, w)
    BY <1>2 DEF AddString
  <2>2. Len(strings') = Len(strings) + 1 /\ Len(strings) \in Nat
    BY <1>1, <2>1, AppendProperties, LenProperties
  <2> QED BY <2>1, <2>2, MaxStringsAssumption DEF StringsBounded
<1>3. CASE strings' = strings
  BY <1>3 DEF StringsBounded
<1> QED BY <1>2, <1>3 DEF Next, Work, AllowDuplicates, EnterFirstString, EnterNextString, Register,
        MatchStep, CheckDuplicate, MatchResult, BeginPhase, EndPhase, EndString, ReuseEnd,
        ClimbToSuffixLink, FollowStep, FollowResult, ExtendAtNode, StopAtNode, StopAtEdge,
        SplitEdge, NextExtension, tableVars, vars

LEMMA Bounded == Spec => []StringsBounded
<1>1. Init => StringsBounded
  <2>1. Len(<< >>) = 0
    OBVIOUS
  <2> QED BY <2>1, MaxStringsAssumption DEF Init, StringsBounded
<1>2. Spec => []TypeOK
  BY TypeCorrect
<1>3. TypeOK /\ StringsBounded /\ [Next]_vars => StringsBounded'
  BY NextBounded
<1> QED BY <1>1, <1>2, <1>3, PTL DEF Spec

LEMMA IndexInit == Init => Index!Init
<1> SUFFICES ASSUME Init PROVE Index!Init
  OBVIOUS
<1>1. strings = << >> /\ hash = << >> /\ edge = << >> /\ pc = "idle" /\ DOMAIN node = { 1 }
  <2>1. DOMAIN << node_new(NULL, 0, -1) >> = { 1 }
    OBVIOUS
  <2> QED BY <2>1 DEF Init
<1>2. Registered = {}
  BY <1>1 DEF Registered
<1>3. Leaves = {}
  BY <1>1 DEF Leaves, Root
<1>4. Vocabulary = { << >> }
  BY <1>3 DEF Vocabulary
<1> QED BY <1>1, <1>2, <1>4 DEF Index!Init

LEMMA StepImplements ==
  ASSUME WordsInv, CountsTyped', VocabularyRead', ReadsWithin', StringsBounded, [Next]_vars
  PROVE  [Index!Next]_Index!vars
<1>1. CASE EnterFirstString \/ EnterNextString
  <2>1. /\ Gains /\ cur \in DOMAIN strings
        /\ Corpus' = Corpus \cup { Append(strings[cur], -cur) }
        /\ pc \notin Working /\ pc' \in Working
    BY <1>1, EnterGains
  <2>2. Vocabulary \subseteq Vocabulary' /\ Vocabulary' \subseteq Index!Promised(Corpus')
    BY <2>1, GainsReads DEF ReadsWithin
  <2>3. strings[cur] \in Inputs /\ cur \in 1..MaxStrings
    <3>1. TypeOK
      BY DEF WordsInv, IInv
    <3>2. strings \in Seq(Inputs) /\ DOMAIN strings = 1..Len(strings) /\ Len(strings) \in Nat
      BY <3>1, Domains DEF TypeOK, TableType
    <3>3. strings[cur] \in Inputs
      BY <2>1, <3>2, ElementOfSeq
    <3> QED BY <2>1, <3>2, <3>3, MaxStringsAssumption DEF StringsBounded, cur
  <2>4. PICK v : v = Append(strings[cur], -cur)
    OBVIOUS
  <2>5. v \in { Append(w, -s) : w \in Inputs, s \in 1..MaxStrings }
    BY <2>3, <2>4
  <2>6. pc \in { "idle", "check", "enter" } /\ pc' \notin { "idle", "check", "enter" }
    <3>1. pc = "enter"
      BY <1>1 DEF EnterFirstString, EnterNextString
    <3> QED BY <2>1, <3>1 DEF Working
  <2>7. Index!Begin(v)
    BY <2>1, <2>2, <2>4, <2>6 DEF Index!Begin, Index!GrowWithin, Corpus
  <2> QED BY <2>5, <2>7 DEF Index!Next
<1>2. CASE EndString
  <2>1. /\ Still /\ pc \in Working /\ pc' \notin Working
        /\ \A t \in Registered : Made(t) = Len(strings[t]) + 1 /\ phases[t] = Len(strings[t])
    BY <1>2, EndFinishes
  <2>2. Vocabulary' = Vocabulary /\ Corpus' = Corpus /\ Vocabulary = Index!Promised(Corpus)
    BY <2>1, StillReads, PromisedIsRead
  <2>3. pc \notin { "idle", "check", "enter" } /\ pc' \in { "idle", "check", "enter" }
    BY <1>2 DEF EndString
  <2> QED BY <2>2, <2>3 DEF Index!Next, Index!Finish, Corpus
<1>3. CASE pc \in Working /\ Work /\ ~ EndString
  <2>1. Gains /\ strings' = strings /\ hash' = hash /\ pc' \in Working
    BY <1>3, WorkGains
  <2>2. Corpus' = Corpus
    BY <2>1 DEF Corpus, Registered
  <2>3. Vocabulary \subseteq Vocabulary' /\ Vocabulary' \subseteq Index!Promised(Corpus')
    BY <2>1, GainsReads DEF ReadsWithin
  <2>4. pc \notin { "idle", "check", "enter" } /\ pc' \notin { "idle", "check", "enter" }
    BY <1>3, <2>1 DEF Working
  <2> QED BY <2>2, <2>3, <2>4 DEF Index!Next, Index!Grow, Index!GrowWithin, Corpus
<1>4. CASE pc \notin Working /\ ~ EnterFirstString /\ ~ EnterNextString
  <2>1. Still /\ pc' \notin Working
    BY <1>4, BetweenStill
  <2>2. Vocabulary' = Vocabulary /\ Corpus' = Corpus
    BY <2>1, StillReads
  <2>3. (pc \notin { "idle", "check", "enter" })' = (pc \notin { "idle", "check", "enter" })
    <3>1. pc \in Pcs /\ pc' \in Pcs
      BY NextIInv DEF WordsInv, IInv, TypeOK, LocalType
    <3> QED BY <1>4, <2>1, <3>1 DEF Pcs, Working
  <2> QED BY <2>2, <2>3 DEF Index!vars, Corpus
<1>5. CASE UNCHANGED vars /\ pc \in Working
  <2>1. UNCHANGED << strings, hash, phases, pc, j, last_extension, stop_extensions >>
    BY <1>5 DEF vars, tableVars, loopVars
  <2>2. Still
    BY <2>1 DEF Still, Registered, Made, cur
  <2>3. Vocabulary' = Vocabulary /\ Corpus' = Corpus
    BY <2>2, StillReads
  <2> QED BY <2>1, <2>3 DEF Index!vars, Corpus
<1>6. pc \in Working /\ [Next]_vars => Work \/ UNCHANGED vars
  BY DEF Next, Working, AddString, AllowDuplicates
<1> QED BY <1>1, <1>2, <1>3, <1>4, <1>5, <1>6

(* lst_stree_add_string implements the index of src/lst_stree.h: it never  *)
(* loses a word and never lets one be read that is no substring of an      *)
(* added string, and when it returns every such substring can be read.     *)
THEOREM IndexImplemented == Spec => IndexSpec
<1>1. Spec => []WordsInv
  BY WordsInvariance
<1>2. Spec => []StringsBounded
  BY Bounded
<1>3. WordsInv => CountsTyped /\ VocabularyRead /\ ReadsWithin
  BY CountsAreTyped, VocabularyIsRead, ReadIsPromised
<1>4. /\ WordsInv /\ StringsBounded /\ [Next]_vars
      /\ CountsTyped' /\ VocabularyRead' /\ ReadsWithin'
      => [Index!Next]_Index!vars
  BY StepImplements
<1> QED BY <1>1, <1>2, <1>3, <1>4, IndexInit, PTL DEF Spec, IndexSpec, Index!Spec

-----------------------------------------------------------------------------
(* The labels of the nodes, when no string is being added.  The word of a  *)
(* node occurs in string r if some suffix of r goes through the node.      *)
Carries(d, n, r) ==
  \E x \in Nat : x + d[n] <= Len(strings[r]) + 1 /\ AtNode(d, n, r, x, d[n])

Carriers(n) ==
  { r \in Registered : Path[n] \in Index!Substrings(Append(strings[r], -r)) }

LEMMA CarriersAre ==
  ASSUME NEW d, Worded(d), NEW n \in DOMAIN node, NEW r \in Registered
  PROVE  r \in Carriers(n) <=> Carries(d, n, r)
<1>1. TypeOK
  BY DEF Worded
<1>2. r \in DOMAIN strings /\ d[n] \in Nat
  BY <1>1, RegisteredStrings DEF Worded, Depths
<1>3. PICK u : u = Append(strings[r], -r)
  OBVIOUS
<1>4. /\ Len(strings[r]) \in Nat /\ Len(strings[r]) >= 1
  <2>1. 0 \in Int
    OBVIOUS
  <2> QED BY <1>1, <1>2, <2>1, Markers
<1>5. Len(u) = Len(strings[r]) + 1 /\ 0 \in Nat
  BY <1>1, <1>2, <1>3, <1>4, MarkedWord
<1>6. Path[n] = Word(d, n)
  BY PathWord
<1>7. ASSUME Carries(d, n, r) PROVE Path[n] \in Index!Substrings(u)
  <2>1. PICK x \in Nat : x + d[n] <= Len(strings[r]) + 1 /\ AtNode(d, n, r, x, d[n])
    BY <1>7 DEF Carries
  <2>2. Path[n] = Span(r, x, d[n])
    BY <1>2, <2>1, AtNodeWord
  <2>3. CASE d[n] = 0
    <3>1. Path[n] = << >>
      BY <1>1, <1>2, <2>2, <2>3, SpanEmpty
    <3>2. 1 \in 1..Len(u) /\ 2 \in 1..Len(u)
      BY <1>4, <1>5
    <3>3. SubSeq(u, 2, 1) \in Index!Substrings(u)
      BY <3>2, SubstringsOf
    <3>4. SubSeq(u, 2, 1) = << >>
      OBVIOUS
    <3> QED BY <3>1, <3>3, <3>4
  <2>4. CASE d[n] # 0
    <3>1. SubSeq(u, x + 1, x + d[n]) = Span(r, x, d[n])
      BY <1>1, <1>2, <1>3, <2>1, MarkedWord
    <3>2. x + 1 \in 1..Len(u) /\ x + d[n] \in 1..Len(u)
      BY <1>2, <1>4, <1>5, <2>1, <2>4
    <3>3. SubSeq(u, x + 1, x + d[n]) \in Index!Substrings(u)
      BY <3>2, SubstringsOf
    <3> QED BY <2>2, <3>1, <3>3
  <2> QED BY <2>3, <2>4
<1>8. ASSUME Path[n] \in Index!Substrings(u) PROVE Carries(d, n, r)
  <2>1. PICK a \in 1..Len(u), b \in 1..Len(u) : Path[n] = SubSeq(u, a, b)
    BY <1>8, SubstringsOf
  <2>2. CASE b < a
    <3>1. Path[n] = << >> /\ Len(Path[n]) = 0
      BY <1>4, <1>5, <2>1, <2>2
    <3>2. n = Root
      <4>1. ASSUME n # Root PROVE FALSE
        <5>1. Str(n) \in DOMAIN strings /\ Pos(d, n) \in Nat /\ d[n] >= 1
          BY <4>1, NodeWords
        <5>2. Word(d, n) = Span(Str(n), Pos(d, n), d[n])
          BY <4>1 DEF Word
        <5>3. Len(Span(Str(n), Pos(d, n), d[n])) = d[n]
          BY <1>1, <1>2, <5>1, SpanItems
        <5>4. Len(Path[n]) = d[n]
          BY <1>6, <5>2, <5>3
        <5> QED BY <3>1, <5>1, <5>4
      <4> QED BY <4>1
    <3>3. d[Root] = 0
      BY DEF Worded, Depths
    <3> QED BY <1>4, <1>5, <3>2, <3>3 DEF Carries, AtNode
  <2>3. CASE a <= b
    <3>1. PICK x \in Nat, l \in Nat : a = x + 1 /\ b = x + l /\ l >= 1
      <4>1. a - 1 \in Nat /\ b - a + 1 \in Nat /\ b - a + 1 >= 1
            /\ a = (a - 1) + 1 /\ b = (a - 1) + (b - a + 1)
        BY <1>4, <1>5, <2>3
      <4> QED BY <4>1
    <3>2. x + l <= Len(strings[r]) + 1
      BY <1>5, <3>1
    <3>3. SubSeq(u, x + 1, x + l) = Span(r, x, l)
      BY <1>1, <1>2, <1>3, <3>2, MarkedWord
    <3>4. Path[n] = Span(r, x, l) /\ Len(Span(r, x, l)) = l
      BY <1>1, <1>2, <2>1, <3>1, <3>3, SpanItems
    <3>5. n # Root
      <4>1. n = Root => Len(Path[n]) = 0
        BY <1>6 DEF Word
      <4> QED BY <3>1, <3>4, <4>1
    <3>6. Str(n) \in DOMAIN strings /\ Pos(d, n) \in Nat
      BY <3>5, NodeWords
    <3>7. Path[n] = Span(Str(n), Pos(d, n), d[n])
      BY <1>6, <3>5 DEF Word
    <3>8. d[n] = l
      BY <1>1, <1>2, <3>4, <3>6, <3>7, SpanItems
    <3>9. Agree(Str(n), Pos(d, n), r, x, l)
      BY <1>1, <1>2, <3>4, <3>6, <3>7, <3>8, SpansAgree
    <3> QED BY <3>2, <3>8, <3>9 DEF Carries, AtNode
  <2> QED BY <1>4, <1>5, <2>2, <2>3
<1> QED BY <1>3, <1>7, <1>8 DEF Carriers

(* Only the string of a leaf has the marker that ends the leaf's word.     *)
LEMMA LeafCarries ==
  ASSUME NEW d, Worded(d), Complete, pc = "idle", NEW n \in Leaves, NEW r \in Registered
  PROVE  Carries(d, n, r) <=> r = Str(n)
<1>1. TypeOK
  BY DEF Worded
<1>2. PICK s : s = Str(n)
  OBVIOUS
<1>3. PICK k : k = Pos(d, n)
  OBVIOUS
<1>4. /\ s \in Registered /\ s \in DOMAIN strings /\ k \in Nat /\ d[n] \in Nat /\ d[n] >= 1
      /\ d[n] = phases[s] - k + 1 /\ n \in DOMAIN node /\ n # Root
  BY <1>2, <1>3, LeafWord DEF Leaves
<1>5. phases[s] = Len(strings[s]) /\ Len(strings[s]) \in Nat
  <2>1. 0 \in Int
    OBVIOUS
  <2> QED BY <1>1, <1>4, <2>1, Markers DEF Complete
<1>6. AtNode(d, n, s, k, d[n])
  BY <1>2, <1>3, <1>4, NodeWords
<1>7. ASSUME r = s PROVE Carries(d, n, r)
  <2>1. k + d[n] <= Len(strings[s]) + 1
    BY <1>4, <1>5
  <2> QED BY <1>4, <1>6, <1>7, <2>1 DEF Carries
<1>8. ASSUME Carries(d, n, r) PROVE r = s
  <2>1. PICK x \in Nat : x + d[n] <= Len(strings[r]) + 1 /\ AtNode(d, n, r, x, d[n])
    BY <1>8 DEF Carries
  <2>2. Agree(s, k, r, x, d[n])
    BY <1>2, <1>3, <1>4, <2>1 DEF AtNode
  <2>3. d[n] - 1 \in Nat /\ d[n] - 1 < d[n] /\ d[n] \in Int
    BY <1>4
  <2>4. PICK m \in Nat : m = d[n] - 1
    BY <2>3
  <2>5. Item(s, k + m) = Item(r, x + m)
    BY <2>2, <2>3, <2>4, AgreeItem
  <2>6. k + m = Len(strings[s]) /\ k + m \in Int
    BY <1>4, <1>5, <2>4
  <2>7. Item(s, k + m) = -s
    BY <1>1, <1>4, <1>5, <2>6, Markers
  <2>8. r \in DOMAIN strings
    BY <1>1, RegisteredStrings
  <2>9. Len(strings[r]) \in Nat /\ x + m \in Int
    BY <1>1, <2>1, <2>8, Markers
  <2>10. 0 <= x + m /\ x + m <= Len(strings[r])
    BY <2>1, <2>3, <2>4, <2>9
  <2> QED BY <1>1, <1>4, <2>5, <2>7, <2>8, <2>9, <2>10, Markers
<1> QED BY <1>2, <1>7, <1>8

LEMMA RootCarries ==
  ASSUME NEW d, Worded(d), NEW r \in Registered
  PROVE  Carries(d, Root, r)
<1>1. TypeOK /\ d[Root] = 0
  BY DEF Worded, Depths
<1>2. r \in DOMAIN strings /\ 0 \in Int
  BY <1>1, RegisteredStrings
<1>3. Len(strings[r]) \in Nat
  BY <1>1, <1>2, Markers
<1>4. 0 \in Nat /\ 0 + d[Root] <= Len(strings[r]) + 1
  BY <1>1, <1>3
<1> QED BY <1>1, <1>4 DEF Carries, AtNode

(* The suffixes that go through an inner node go on through its kids.      *)
LEMMA InnerCarries ==
  ASSUME NEW d, Worded(d), Complete, pc = "idle", NEW n \in DOMAIN node, ~ lst_node_is_leaf(n),
         NEW r \in Registered
  PROVE  Carries(d, n, r) <=> \E e \in kids(n) : Carries(d, edge[e].dst, r)
<1>1. TypeOK /\ d[Root] = 0
  BY DEF Worded, Depths
<1>2. r \in DOMAIN strings /\ d[n] \in Nat /\ 0 \in Int
  BY <1>1, RegisteredStrings DEF Worded, Depths
<1>3. /\ Len(strings[r]) \in Nat /\ Len(strings[r]) >= 1 /\ phases[r] = Len(strings[r])
      /\ Made(r) = Len(strings[r]) + 1
  BY <1>1, <1>2, Markers DEF Complete, Made
<1>4. ASSUME NEW e \in kids(n), Carries(d, edge[e].dst, r) PROVE Carries(d, n, r)
  <2>1. e \in DOMAIN edge /\ edge[e].src = n
    BY <1>4 DEF kids
  <2>2. PICK m : m = edge[e].dst
    OBVIOUS
  <2>3. PICK x \in Nat : x + d[m] <= Len(strings[r]) + 1 /\ AtNode(d, m, r, x, d[m])
    BY <1>4, <2>2 DEF Carries
  <2>4. /\ m # Root /\ d[m] \in Nat /\ d[n] < d[m] /\ Str(m) = edge[e].str
        /\ Pos(d, m) = From(d, e) /\ From(d, e) \in Nat
    BY <2>1, <2>2, EdgeWords
  <2>5. Agree(edge[e].str, From(d, e), r, x, d[m])
    BY <2>3, <2>4 DEF AtNode
  <2>6. d[n] \in Int /\ d[m] \in Int /\ d[n] <= d[m]
    BY <1>2, <2>4
  <2>7. Agree(edge[e].str, From(d, e), r, x, d[n])
    BY <2>5, <2>6, AgreeShorter
  <2>8. AtNode(d, n, edge[e].str, From(d, e), d[n])
    BY <2>1 DEF Worded, Windows, Window
  <2>9. AtNode(d, n, r, x, d[n])
    <3>1. n # Root => Agree(Str(n), Pos(d, n), edge[e].str, From(d, e), d[n])
      BY <2>8 DEF AtNode
    <3> QED BY <2>7, <3>1, AgreeTrans DEF AtNode
  <2>10. x + d[n] <= Len(strings[r]) + 1
    BY <1>2, <1>3, <2>3, <2>4
  <2> QED BY <2>9, <2>10 DEF Carries
<1>5. ASSUME Carries(d, n, r) PROVE \E e \in kids(n) : Carries(d, edge[e].dst, r)
  <2>1. PICK x \in Nat : x + d[n] <= Len(strings[r]) /\ AtNode(d, n, r, x, d[n])
    <3>1. CASE n = Root
      <4>1. 0 \in Nat /\ 0 + d[n] <= Len(strings[r]) /\ AtNode(d, n, r, 0, d[n])
        BY <1>1, <1>3, <3>1 DEF AtNode
      <4> QED BY <4>1
    <3>2. CASE n # Root
      <4>1. PICK x \in Nat : x + d[n] <= Len(strings[r]) + 1 /\ AtNode(d, n, r, x, d[n])
        BY <1>5 DEF Carries
      <4>2. d[n] >= 1 /\ n \in DOMAIN node \ { Root }
        BY <3>2, NodeWords
      <4>3. ASSUME x + d[n] = Len(strings[r]) + 1 PROVE FALSE
        <5>1. x \in 0..(Made(r) - 1)
          BY <1>2, <1>3, <4>2, <4>3
        <5>2. PICK m \in Leaves : Str(m) = r /\ Pos(d, m) = x
          BY <5>1, SuffixLeaf
        <5>3. d[m] = phases[r] - x + 1 /\ m \in DOMAIN node \ { Root } /\ lst_node_is_leaf(m)
          BY <5>2, LeafWord DEF Leaves
        <5>4. d[m] = d[n]
          BY <1>2, <1>3, <4>3, <5>3
        <5>5. Agree(Str(n), Pos(d, n), Str(m), Pos(d, m), d[n])
          BY <3>2, <4>1, <5>2 DEF AtNode
        <5>6. n = m
          BY <4>2, <5>3, <5>4, <5>5, WordsSettled DEF Same
        <5> QED BY <5>3, <5>6
      <4>4. x + d[n] <= Len(strings[r])
        BY <1>2, <1>3, <4>1, <4>3
      <4> QED BY <4>1, <4>4
    <3> QED BY <3>1, <3>2
  <2>2. x \in 0..(Made(r) - 1)
    BY <1>2, <1>3, <2>1
  <2>3. PICK m \in Leaves : Str(m) = r /\ Pos(d, m) = x
    BY <2>2, SuffixLeaf
  <2>4. /\ d[m] = Len(strings[r]) - x + 1 /\ m \in DOMAIN node \ { Root } /\ d[m] \in Nat
    BY <1>3, <2>3, LeafWord DEF Leaves
  <2>5. d[m] > d[n]
    BY <1>2, <1>3, <2>1, <2>4
  <2>6. AtNode(d, n, Str(m), Pos(d, m), d[n])
    BY <2>1, <2>3
  <2>7. PICK e \in kids(n) : OnEdge(d, e, Str(m), Pos(d, m), d[n] + 1)
    BY <2>4, <2>5, <2>6, KidTowards
  <2>8. e \in DOMAIN edge /\ edge[e].src = n
    BY <2>7 DEF kids
  <2>9. d[m] >= d[edge[e].dst] /\ OnEdge(d, e, Str(m), Pos(d, m), d[edge[e].dst])
    BY <2>4, <2>5, <2>7, <2>8, WordsSettled DEF Through
  <2>10. PICK k : k = edge[e].dst
    OBVIOUS
  <2>11. k # Root /\ Str(k) = edge[e].str /\ Pos(d, k) = From(d, e) /\ d[k] \in Nat
    BY <2>8, <2>10, EdgeWords
  <2>12. AtNode(d, k, r, x, d[k])
    BY <2>3, <2>9, <2>10, <2>11 DEF AtNode, OnEdge
  <2>13. x + d[k] <= Len(strings[r]) + 1
    BY <1>3, <2>4, <2>9, <2>10, <2>11
  <2>14. Carries(d, k, r)
    BY <2>12, <2>13 DEF Carries
  <2> QED BY <2>7, <2>10, <2>14
<1> QED BY <1>4, <1>5

-----------------------------------------------------------------------------
(* What lst_alg_bus leaves at the nodes: at a leaf the index of its        *)
(* string, at an inner node what is at its kids.                           *)
Indices(n) == { hash[s] : s \in Carriers(n) }
Forking == { n \in DOMAIN node : ~ lst_node_is_leaf(n) }

TreeLabels ==
  /\ DOMAIN string_indices = DOMAIN node
  /\ \A n \in DOMAIN node :
       /\ lst_node_is_leaf(n) => string_indices[n] = { hash[Str(n)] }
       /\ ~ lst_node_is_leaf(n) =>
            string_indices[n] = UNION { string_indices[edge[e].dst] : e \in kids(n) }

InnerLabels == UNION { string_indices[n] : n \in Forking }

(* That is the index of every string in which the word of the node occurs. *)
LEMMA LabelsAre ==
  ASSUME WordsInv, Grounded, pc = "idle", ~ lst_node_is_leaf(Root), TreeLabels
  PROVE  /\ \A n \in DOMAIN node : string_indices[n] = Indices(n)
         /\ InnerLabels = { hash[s] : s \in Registered }
<1>1. PICK d : IInv /\ Right(d)
  BY DEF WordsInv
<1>2. Worded(d) /\ Complete /\ TypeOK /\ Root \in DOMAIN node
  BY <1>1, RightWorded, Domains DEF Right, IInv
<1>3. ASSUME NEW n \in DOMAIN node
      PROVE  /\ Carriers(n) \subseteq Registered
             /\ \A r \in Registered : r \in Carriers(n) <=> Carries(d, n, r)
  BY <1>2, CarriersAre DEF Carriers
<1>4. ASSUME NEW n \in DOMAIN node, lst_node_is_leaf(n) PROVE Indices(n) = { hash[Str(n)] }
  <2>1. n \in Leaves
    BY <1>4 DEF Leaves
  <2>2. Str(n) \in Registered
    BY <1>2, <2>1, LeafWord
  <2>3. \A r \in Registered : Carries(d, n, r) <=> r = Str(n)
    BY <1>2, <2>1, LeafCarries
  <2>4. Carriers(n) = { Str(n) }
    BY <1>3, <2>2, <2>3
  <2> QED BY <2>4 DEF Indices
<1>5. ASSUME NEW n \in DOMAIN node, ~ lst_node_is_leaf(n)
      PROVE  Indices(n) = UNION { Indices(edge[e].dst) : e \in kids(n) }
  <2>1. \A e \in kids(n) : edge[e].dst \in DOMAIN node
    BY <1>2, EdgeWords DEF kids
  <2>2. \A r \in Registered : Carries(d, n, r) <=> \E e \in kids(n) : Carries(d, edge[e].dst, r)
    BY <1>2, <1>5, InnerCarries
  <2>3. \A r : r \in Carriers(n) <=> \E e \in kids(n) : r \in Carriers(edge[e].dst)
    BY <1>3, <2>1, <2>2
  <2> QED BY <2>3 DEF Indices
<1>6. \A n \in DOMAIN node : string_indices[n] = Indices(n)
  <2> DEFINE S == { n \in DOMAIN node : string_indices[n] # Indices(n) }
  <2>1. SUFFICES ASSUME S # {} PROVE FALSE
    OBVIOUS
  <2>2. PICK n \in S : \A e \in DOMAIN edge : edge[e].src = n => edge[e].dst \notin S
    BY <2>1 DEF Grounded
  <2>3. ~ lst_node_is_leaf(n)
    BY <1>4, <2>2 DEF TreeLabels
  <2>4. ASSUME NEW e \in kids(n) PROVE string_indices[edge[e].dst] = Indices(edge[e].dst)
    <3>1. edge[e].dst \in DOMAIN node
      BY <1>2, <2>4, EdgeWords DEF kids
    <3> QED BY <2>2, <2>4, <3>1 DEF kids
  <2>5. string_indices[n] = UNION { string_indices[edge[e].dst] : e \in kids(n) }
    BY <2>2, <2>3 DEF TreeLabels
  <2>6. Indices(n) = UNION { Indices(edge[e].dst) : e \in kids(n) }
    BY <1>5, <2>2, <2>3
  <2>7. string_indices[n] = Indices(n)
    BY <2>4, <2>5, <2>6
  <2> QED BY <2>2, <2>7
<1>7. InnerLabels = { hash[s] : s \in Registered }
  <2>1. Carriers(Root) = Registered
    BY <1>2, <1>3, RootCarries
  <2>2. Root \in Forking /\ Forking \subseteq DOMAIN node
    BY <1>2 DEF Forking
  <2>3. \A n \in Forking : string_indices[n] \subseteq { hash[s] : s \in Registered }
    BY <1>3, <1>6, <2>2 DEF Indices
  <2>4. string_indices[Root] = { hash[s] : s \in Registered }
    BY <1>6, <2>1, <2>2 DEF Indices
  <2> QED BY <2>2, <2>3, <2>4 DEF InnerLabels
<1> QED BY <1>6, <1>7

-----------------------------------------------------------------------------
(* The labels while they are made, and as long as they are kept.           *)

\* The pass of alg_clear_indices has emptied the sets of the nodes visited.
Cleared ==
  /\ all_string_indices = {}
  /\ \A n \in Visited : n \in DOMAIN string_indices /\ string_indices[n] = {}

\* The pass of alg_set_indices has given every node the labels of the kids
\* visited.
Filled ==
  /\ DOMAIN string_indices = DOMAIN node
  /\ \A n \in DOMAIN node :
       /\ lst_node_is_leaf(n) =>
            string_indices[n] = IF n \in LeafsVisited THEN { hash[Str(n)] } ELSE {}
       /\ ~ lst_node_is_leaf(n) =>
            string_indices[n] = UNION { string_indices[edge[e].dst] : e \in KidsVisited(n) }
  /\ all_string_indices = InnerLabels

Calling ==
  /\ apc # "idle" => pc = "idle" /\ num_strings > 0
  /\ apc = "bus" => needs_visitor_update /\ pass \in { "clear", "set" }

\* What the search and the next calls rely on: the labels are those of the
\* tree unless needs_visitor_update says otherwise.
Kept ==
  /\ pc \in { "idle", "check", "enter" } /\ num_strings > 0 /\ ~ needs_visitor_update =>
       TreeLabels /\ tree_string_indices = InnerLabels
  /\ apc = "dfs" /\ call.fn # "lrs" => TreeLabels /\ all_string_indices = InnerLabels

LabelInv ==
  /\ AlgInv /\ LinkPending /\ WordsInv
  /\ DOMAIN string_indices \subseteq DOMAIN node
  /\ Calling /\ Kept
  /\ apc = "bus" => IF pass = "clear" THEN Cleared ELSE Filled

\* Labels depend on the tree and on the indices of its strings.
LEMMA SameLabels ==
  ASSUME IInv, ~ lst_node_is_leaf(Root), UNCHANGED << node, edge, string_indices >>,
         \A s \in DOMAIN strings : hash'[s] = hash[s]
  PROVE  /\ TreeLabels' <=> TreeLabels
         /\ InnerLabels' = InnerLabels
<1>1. \A n : kids(n)' = kids(n) /\ (lst_node_is_leaf(n)' <=> lst_node_is_leaf(n)) /\ Str(n)' = Str(n)
  BY DEF kids, lst_node_is_leaf, Str
<1>2. ASSUME NEW n \in DOMAIN node, lst_node_is_leaf(n) PROVE hash[Str(n)]' = hash[Str(n)]
  <2>1. node[n].up_edge \in DOMAIN edge
    BY <1>2 DEF IInv, TreeShape, EdgesAgree
  <2>2. Str(n) \in DOMAIN strings
    BY <2>1, EdgeEnds DEF IInv, Str
  <2> QED BY <1>1, <2>2
<1>3. TreeLabels' <=> TreeLabels
  BY <1>1, <1>2 DEF TreeLabels
<1>4. InnerLabels' = InnerLabels
  BY <1>1 DEF InnerLabels, Forking
<1> QED BY <1>3, <1>4

(* Between two calls: an addition that changes the tree sets               *)
(* needs_visitor_update before it returns, and a refused one leaves it.    *)
LEMMA TreeStepKeeps ==
  ASSUME LabelInv, TreeStep
  PROVE  Kept'
<1>1. /\ IInv /\ Kept /\ apc = "idle" /\ Next
      /\ UNCHANGED << apc, string_indices, all_string_indices, tree_string_indices, call >>
  BY DEF LabelInv, AlgInv, TreeStep, algVars, labelVars, callVars
<1>2. /\ Len(hash) = Len(strings) /\ hash \in Seq(Int) /\ DOMAIN hash = DOMAIN strings
      /\ DOMAIN strings = 1..Len(strings) /\ Len(strings) \in Nat
  BY <1>1, Domains DEF IInv, TypeOK, TableType
<1> DEFINE Steady == pc \in { "idle", "check", "enter" } /\ num_strings > 0 /\ ~ needs_visitor_update
<1>3. CASE /\ Steady /\ UNCHANGED << node, edge >>
           /\ \A s \in DOMAIN strings : hash'[s] = hash[s]
  <2>1. ~ lst_node_is_leaf(Root)
    BY <1>1, <1>3 DEF IInv, WellPlaced
  <2>2. (TreeLabels' <=> TreeLabels) /\ InnerLabels' = InnerLabels
    BY <1>1, <1>3, <2>1, SameLabels
  <2> QED BY <1>1, <1>3, <2>2 DEF Kept
<1>4. CASE ~ Steady'
  BY <1>1, <1>4 DEF Kept
<1>5. CASE \E w \in Inputs : AddString(w)
  <2>1. PICK w \in Inputs : AddString(w)
    BY <1>5
  <2>2. hash' = Append(hash, -1) /\ UNCHANGED << node, edge, num_strings, needs_visitor_update >>
        /\ pc = "idle"
    BY <2>1 DEF AddString, doneVars, shapeVars
  <2>3. \A s \in DOMAIN strings : hash'[s] = hash[s]
    BY <1>2, <2>2, AppendProperties
  <2> QED BY <1>3, <1>4, <2>2, <2>3
<1>6. CASE (\E flag \in BOOLEAN : AllowDuplicates(flag)) \/ CheckDuplicate \/ MatchStep
  <2>1. UNCHANGED << node, edge, hash, num_strings, needs_visitor_update >>
    BY <1>6 DEF AllowDuplicates, CheckDuplicate, MatchStep, doneVars, shapeVars, tableVars
  <2>2. Steady' => Steady
    BY <1>6, <2>1 DEF AllowDuplicates, CheckDuplicate, MatchStep
  <2> QED BY <1>3, <1>4, <2>1, <2>2
<1>7. CASE EndString
  BY <1>4, <1>7 DEF EndString
<1>8. CASE \/ EnterFirstString \/ EnterNextString \/ MatchResult \/ BeginPhase \/ EndPhase
           \/ ReuseEnd \/ ClimbToSuffixLink \/ FollowStep \/ FollowResult
           \/ ExtendAtNode \/ StopAtNode \/ StopAtEdge \/ SplitEdge
  <2>1. pc' \notin { "idle", "check", "enter" }
    BY <1>8 DEF EnterFirstString, EnterNextString, MatchResult, BeginPhase, EndPhase, ReuseEnd,
       ClimbToSuffixLink, FollowStep, FollowResult, ExtendAtNode, StopAtNode, StopAtEdge,
       SplitEdge, NextExtension
  <2> QED BY <1>4, <2>1
<1> QED BY <1>1, <1>5, <1>6, <1>7, <1>8 DEF Next, Work

(* alg_clear_indices empties the sets of all the nodes: those that have    *)
(* one, and those that were made since.                                    *)
LEMMA ClearVisit ==
  ASSUME LabelInv, apc = "bus", pass = "clear", NEW n \in DOMAIN node, Callback(n), Comes(n)
  PROVE  Cleared' /\ DOMAIN string_indices' \subseteq DOMAIN node
<1>1. /\ string_indices' = [m \in DOMAIN string_indices \cup { n } |->
                              IF m = n THEN {} ELSE string_indices[m]]
      /\ all_string_indices' = all_string_indices
  BY DEF Callback
<1>2. Cleared /\ DOMAIN string_indices \subseteq DOMAIN node
  BY DEF LabelInv
<1>3. Visited' = Visited \cup { n }
  BY DEF Comes
<1>4. DOMAIN string_indices' = DOMAIN string_indices \cup { n }
  BY <1>1
<1>5. ASSUME NEW m \in Visited' PROVE m \in DOMAIN string_indices' /\ string_indices'[m] = {}
  BY <1>1, <1>2, <1>3, <1>4 DEF Cleared
<1> QED BY <1>1, <1>2, <1>4, <1>5 DEF Cleared

(* alg_set_indices gives a leaf the index of its string, and its labels to *)
(* the parent: of the kids visited, this one is the only new one.          *)
LEMMA FillVisit ==
  ASSUME LabelInv, apc = "bus", pass = "set", NEW n \in DOMAIN node, Callback(n), Comes(n),
         UNCHANGED << node, edge, hash >>
  PROVE  Filled'
<1>1. IInv /\ Filled /\ num_strings > 0
  BY DEF LabelInv, AlgInv, Calling
<1>2. /\ \A m : kids(m)' = kids(m) /\ (lst_node_is_leaf(m)' <=> lst_node_is_leaf(m))
      /\ \A m : Str(m)' = Str(m)
      /\ Forking' = Forking
  BY DEF kids, lst_node_is_leaf, Str, Forking
<1>3. ~ lst_node_is_leaf(Root)
  BY <1>1 DEF IInv, WellPlaced
<1>4. /\ DOMAIN string_indices = DOMAIN node /\ all_string_indices = InnerLabels
      /\ \A m \in DOMAIN node : lst_node_is_leaf(m) =>
           string_indices[m] = IF m \in LeafsVisited THEN { hash[Str(m)] } ELSE {}
      /\ \A m \in DOMAIN node : ~ lst_node_is_leaf(m) =>
           string_indices[m] = UNION { string_indices[edge[e].dst] : e \in KidsVisited(m) }
  BY <1>1 DEF Filled
<1>5. CASE n = Root
  <2>1. string_indices' = string_indices /\ all_string_indices' = all_string_indices
    BY <1>5 DEF Callback
  <2>2. LeafsVisited' = LeafsVisited /\ \A m \in DOMAIN node : KidsVisited(m)' = KidsVisited(m)
    BY <1>3, <1>5 DEF Comes
  <2>3. InnerLabels' = InnerLabels
    BY <1>2, <2>1 DEF InnerLabels
  <2> QED BY <1>2, <1>4, <2>1, <2>2, <2>3 DEF Filled
<1>6. CASE n # Root
  <2>1. PICK pa : pa = lst_node_get_parent(n)
    OBVIOUS
  <2>2. PICK up : up = node[n].up_edge
    OBVIOUS
  <2>3. /\ pa \in DOMAIN node /\ pa # n /\ ~ lst_node_is_leaf(pa) /\ pa \notin Visited
        /\ KidsVisited(pa)' = KidsVisited(pa) \cup { up } /\ n \notin Visited
        /\ \A m \in DOMAIN node \ { pa } : KidsVisited(m)' = KidsVisited(m)
    BY <1>6, <2>1, <2>2 DEF Comes
  <2>4. up \in DOMAIN edge /\ edge[up].dst = n
    BY <1>1, <1>6, <2>2 DEF IInv, TreeShape, EdgesAgree
  <2>5. PICK own : own = IF lst_node_is_leaf(n) THEN string_indices[n] \cup { hash[Str(n)] }
                         ELSE string_indices[n]
    OBVIOUS
  <2>6. PICK set : set = [string_indices EXCEPT ![n] = own, ![pa] = @ \cup own]
    OBVIOUS
  <2>7. string_indices' = set /\ all_string_indices' = all_string_indices \cup set[pa]
    BY <1>6, <2>1, <2>5, <2>6 DEF Callback, Str
  <2>8. /\ DOMAIN set = DOMAIN node /\ set[n] = own /\ set[pa] = string_indices[pa] \cup own
        /\ \A m \in DOMAIN node \ { n, pa } : set[m] = string_indices[m]
    BY <1>4, <2>3, <2>6
  <2>9. ASSUME NEW m \in DOMAIN node, NEW e \in KidsVisited(m)
        PROVE  set[edge[e].dst] = string_indices[edge[e].dst]
    <3>1. e \in DOMAIN edge /\ edge[e].dst \in Visited
      BY <2>9 DEF KidsVisited, kids, Visited
    <3>2. edge[e].dst \in DOMAIN node
      BY <1>1, <3>1, EdgeEnds DEF IInv
    <3> QED BY <2>3, <2>8, <3>1, <3>2
  <2>10. ASSUME NEW m \in DOMAIN node, lst_node_is_leaf(m)
         PROVE  set[m] = IF m \in LeafsVisited' THEN { hash[Str(m)] } ELSE {}
    <3>1. m # pa
      BY <2>3, <2>10
    <3>2. CASE m = n
      <4>1. m \notin LeafsVisited /\ m \in LeafsVisited'
        BY <2>3, <2>10, <3>2 DEF Visited, Comes
      <4> QED BY <1>4, <2>5, <2>8, <2>10, <3>2, <4>1
    <3>3. CASE m # n
      <4>1. m \in LeafsVisited' <=> m \in LeafsVisited
        BY <3>3 DEF Comes
      <4> QED BY <1>4, <2>8, <2>10, <3>1, <3>3, <4>1
    <3> QED BY <3>2, <3>3
  <2>11. ASSUME NEW m \in DOMAIN node, ~ lst_node_is_leaf(m)
         PROVE  set[m] = UNION { set[edge[e].dst] : e \in KidsVisited(m)' }
    <3>1. string_indices[m] = UNION { set[edge[e].dst] : e \in KidsVisited(m) }
      BY <1>4, <2>9, <2>11
    <3>2. CASE m = pa
      <4>1. KidsVisited(m)' = KidsVisited(m) \cup { up }
        BY <2>3, <3>2
      <4>2. set[m] = string_indices[m] \cup set[edge[up].dst]
        BY <2>4, <2>8, <3>2
      <4> QED BY <3>1, <4>1, <4>2
    <3>3. CASE m # pa
      <4>1. KidsVisited(m)' = KidsVisited(m)
        BY <2>3, <3>3
      <4>2. set[m] = string_indices[m]
        BY <2>5, <2>8, <2>11, <3>3
      <4> QED BY <3>1, <4>1, <4>2
    <3> QED BY <3>2, <3>3
  <2>12. UNION { set[m] : m \in Forking } = InnerLabels \cup set[pa]
    <3>1. pa \in Forking /\ Forking \subseteq DOMAIN node
      BY <2>3 DEF Forking
    <3>2. \A m \in Forking : m # pa => set[m] = string_indices[m]
      BY <2>5, <2>8 DEF Forking
    <3>3. string_indices[pa] \subseteq set[pa]
      BY <2>8
    <3> QED BY <3>1, <3>2, <3>3 DEF InnerLabels
  <2>13. InnerLabels' = UNION { set[m] : m \in Forking }
    BY <1>2, <2>7 DEF InnerLabels
  <2> QED BY <1>2, <1>4, <2>7, <2>8, <2>10, <2>11, <2>12, <2>13 DEF Filled
<1> QED BY <1>5, <1>6

(* When all the nodes have been visited, all of them have their labels.    *)
LEMMA AllVisited ==
  ASSUME IInv, Grounded, Counting, num_strings > 0, cursor > Len(leafs), queue = << >>
  PROVE  /\ Visited = DOMAIN node
         /\ \A n \in DOMAIN node : lst_node_is_leaf(n) => n \in LeafsVisited
         /\ \A n \in DOMAIN node : KidsVisited(n) = kids(n)
<1>1. \A n \in DOMAIN node : bus_visited[n] = node[n].num_kids
  BY AllCounted
<1>2. \A n \in DOMAIN node : KidsVisited(n) = kids(n)
  BY <1>1, CountedKids
<1>3. ~ lst_node_is_leaf(Root)
  BY DEF IInv, WellPlaced
<1>4. ASSUME NEW n \in DOMAIN node, lst_node_is_leaf(n) PROVE n \in LeafsVisited
  <2>1. PICK k \in DOMAIN leafs : leafs[k] = n
    BY <1>3, <1>4 DEF IInv, TreeShape, LeafsListed
  <2>2. k \in 1..(cursor - 1)
    BY Domains DEF IInv, Counting
  <2> QED BY <2>1, <2>2 DEF LeafsVisited
<1>5. ASSUME NEW n \in DOMAIN node, ~ lst_node_is_leaf(n) PROVE n \in InnerVisited
  <2>1. IsFiniteSet(kids(n)) /\ node[n].num_kids = Cardinality(kids(n)) /\ node[n].num_kids \in Nat
    BY CountedKids
  <2>2. Cardinality(kids(n)) # 0
    BY <1>5, <2>1, FS_EmptySet DEF lst_node_is_leaf
  <2>3. ~ Listed(queue, n)
    BY EmptySeq DEF Listed
  <2> QED BY <1>1, <1>5, <2>1, <2>2, <2>3 DEF InnerVisited
<1>6. Visited \subseteq DOMAIN node
  <2>1. \A k \in 1..(cursor - 1) : k \in DOMAIN leafs
    BY Domains DEF IInv, Counting
  <2> QED BY <2>1, LeafsAreLeafs DEF Visited, LeafsVisited, InnerVisited
<1> QED BY <1>2, <1>4, <1>5, <1>6 DEF Visited

LEMMA AlgKeeps ==
  ASSUME LabelInv, [AlgNext]_allVars
  PROVE  AlgInv' /\ LinkPending' /\ WordsInv' /\ DOMAIN node \subseteq DOMAIN node'
<1>1. AlgInv /\ IInv /\ LinkPending
  BY DEF LabelInv, AlgInv
<1>2. PICK d : Right(d)
  BY DEF LabelInv, WordsInv
<1>3. AlgInv' /\ IInv'
  BY <1>1, AlgNextInv DEF AlgInv
<1>4. CASE [Next]_vars
  <2>1. NodesKept /\ LinkPending'
    BY <1>1, <1>4, StepKeeps
  <2>2. \E dd : Right(dd)'
    BY <1>1, <1>2, <1>4, NextRight
  <2> QED BY <1>3, <2>1, <2>2 DEF NodesKept, WordsInv
<1>5. CASE BusLabelled
  <2>1. UNCHANGED << tableVars, num_strings, phases, shapeVars, pc, loopVars, end, skip >>
    BY <1>5 DEF BusLabelled
  <2>2. Right(d)'
    BY <1>1, <1>2, <2>1, StutterRight
  <2>3. LinkPending'
    BY <1>1, <2>1 DEF LinkPending, shapeVars, loopVars
  <2> QED BY <1>3, <2>1, <2>2, <2>3 DEF WordsInv, shapeVars
<1>6. BusLabelled \/ [Next]_vars
  BY DEF AlgNext, AlgWork, allVars, treeVars, TreeStep, Call, Call_substring_check,
     lst_stree_remove_string, WithoutLabels, UseCachedLabels, ClearLabels, BusLeaf, BusRequeue,
     BusInner, BusCleared, Visit, Prune, Collect, CollectCrashes, Round, RoundCrashes, WalkStep
<1> QED BY <1>4, <1>5, <1>6

\* A step that changes neither the tree nor a label.
LEMMA LabelsStay ==
  ASSUME LabelInv, UNCHANGED << treeVars, labelVars >>
  PROVE  /\ DOMAIN string_indices' \subseteq DOMAIN node'
         /\ pc' \in { "idle", "check", "enter" } /\ num_strings' > 0 /\ ~ needs_visitor_update' =>
              TreeLabels' /\ tree_string_indices' = InnerLabels'
         /\ num_strings > 0 => (TreeLabels' <=> TreeLabels) /\ InnerLabels' = InnerLabels
<1>1. /\ UNCHANGED << node, edge, hash, pc, num_strings, needs_visitor_update >>
      /\ UNCHANGED << string_indices, tree_string_indices >>
  BY DEF treeVars, vars, tableVars, doneVars, shapeVars, labelVars
<1>2. IInv /\ Kept /\ DOMAIN string_indices \subseteq DOMAIN node
  BY DEF LabelInv, AlgInv
<1>3. num_strings > 0 => ~ lst_node_is_leaf(Root)
  BY <1>2 DEF IInv, WellPlaced
<1>4. num_strings > 0 => (TreeLabels' <=> TreeLabels) /\ InnerLabels' = InnerLabels
  BY <1>1, <1>2, <1>3, SameLabels
<1> QED BY <1>1, <1>2, <1>4 DEF Kept

\* A step of lst_alg_bus that visits no node.
LEMMA VisitedStay ==
  ASSUME LabelInv, apc = "bus", UNCHANGED << treeVars, labelVars, pass >>,
         LeafsVisited' = LeafsVisited, Visited' = Visited, \A m : KidsVisited(m)' = KidsVisited(m)
  PROVE  IF pass' = "clear" THEN Cleared' ELSE Filled'
<1>1. /\ UNCHANGED << node, edge, hash >>
      /\ UNCHANGED << string_indices, all_string_indices, pass >>
  BY DEF treeVars, vars, tableVars, shapeVars, labelVars
<1>2. num_strings > 0 /\ IF pass = "clear" THEN Cleared ELSE Filled
  BY DEF LabelInv, Calling
<1>3. InnerLabels' = InnerLabels
  BY <1>2, LabelsStay
<1>4. \A m : (lst_node_is_leaf(m)' <=> lst_node_is_leaf(m)) /\ Str(m)' = Str(m)
  BY <1>1 DEF kids, lst_node_is_leaf, Str
<1>5. CASE pass = "clear"
  BY <1>1, <1>2, <1>5 DEF Cleared
<1>6. CASE pass # "clear"
  <2>1. Filled
    BY <1>2, <1>6
  <2>2. ASSUME NEW m \in DOMAIN node
        PROVE  UNION { string_indices[edge[e].dst] : e \in KidsVisited(m) }' =
                 UNION { string_indices[edge[e].dst] : e \in KidsVisited(m) }
    BY <1>1
  <2>3. Filled'
    BY <1>1, <1>3, <1>4, <2>1, <2>2 DEF Filled
  <2> QED BY <1>1, <1>6, <2>3
<1> QED BY <1>5, <1>6

LEMMA LabelStep ==
  ASSUME LabelInv, [AlgNext]_allVars
  PROVE  LabelInv'
<1>1. /\ AlgInv /\ IInv /\ Grounded /\ Calling /\ Kept /\ DOMAIN string_indices \subseteq DOMAIN node
      /\ apc = "bus" => IF pass = "clear" THEN Cleared ELSE Filled
      /\ apc = "bus" => Counting
  BY DEF LabelInv, AlgInv, BusInv
<1>2. AlgInv' /\ LinkPending' /\ WordsInv' /\ DOMAIN node \subseteq DOMAIN node'
  BY AlgKeeps
<1>3. SUFFICES /\ DOMAIN string_indices' \subseteq DOMAIN node'
               /\ Calling' /\ Kept'
               /\ apc' = "bus" => IF pass' = "clear" THEN Cleared' ELSE Filled'
  BY <1>2 DEF LabelInv
<1>4. CASE TreeStep
  <2>1. apc = "idle" /\ apc' = "idle" /\ string_indices' = string_indices
    BY <1>4 DEF TreeStep, algVars, labelVars
  <2>2. Kept'
    BY <1>4, TreeStepKeeps
  <2> QED BY <1>1, <1>2, <2>1, <2>2 DEF Calling
<1>5. ASSUME UNCHANGED << treeVars, labelVars >>, apc' \notin { "bus", "dfs" },
             apc' # "idle" => pc = "idle" /\ num_strings > 0
      PROVE  LabelInv'
  <2>1. pc' = pc /\ num_strings' = num_strings
    BY <1>5 DEF treeVars, vars, doneVars
  <2>2. Calling'
    BY <1>5, <2>1 DEF Calling
  <2>3. Kept' /\ DOMAIN string_indices' \subseteq DOMAIN node'
    BY <1>5, LabelsStay DEF Kept
  <2> QED BY <1>2, <1>5, <2>2, <2>3 DEF LabelInv
<1>6. CASE \/ \E c \in Calls : Call(c)
           \/ \E w \in Checked, b, d \in Behind : Call_substring_check(w, b, d)
           \/ \E s \in DOMAIN strings : lst_stree_remove_string(s)
           \/ Collect \/ CollectCrashes \/ Round \/ RoundCrashes \/ WalkStep
  <2>1. /\ UNCHANGED << treeVars, labelVars >> /\ apc' \notin { "bus", "dfs" }
        /\ (pc = "idle" /\ num_strings > 0) \/ apc # "idle"
    BY <1>6 DEF Call, Call_substring_check, lst_stree_remove_string, Collect, CollectCrashes,
                Round, RoundCrashes, WalkStep
  <2> QED BY <1>1, <1>5, <2>1 DEF LabelInv, Calling
<1>7. CASE WithoutLabels \/ UseCachedLabels \/ Visit \/ Prune
  <2>1. /\ UNCHANGED << treeVars, string_indices, tree_string_indices, call >>
        /\ apc # "idle" /\ apc' = "dfs"
    BY <1>7 DEF WithoutLabels, UseCachedLabels, Visit, Prune, StartSearch, labelVars, callVars
  <2>2. pc = "idle" /\ num_strings > 0
    BY <1>1, <2>1 DEF Calling
  <2>3. UNCHANGED << node, edge, hash, pc, num_strings, needs_visitor_update >>
    BY <2>1 DEF treeVars, vars, tableVars, doneVars, shapeVars
  <2>4. ~ lst_node_is_leaf(Root)
    BY <1>1, <2>2 DEF IInv, WellPlaced
  <2>5. (TreeLabels' <=> TreeLabels) /\ InnerLabels' = InnerLabels
    BY <1>1, <2>1, <2>3, <2>4, SameLabels
  <2>6. Calling' /\ DOMAIN string_indices' \subseteq DOMAIN node'
    BY <1>1, <2>1, <2>2, <2>3 DEF Calling
  <2>7. ASSUME call.fn # "lrs" PROVE TreeLabels /\ all_string_indices' = InnerLabels
    <3>1. CASE UseCachedLabels
      <4>1. ~ needs_visitor_update /\ all_string_indices' = tree_string_indices
        BY <3>1 DEF UseCachedLabels
      <4> QED BY <1>1, <2>2, <4>1 DEF Kept
    <3>2. CASE Visit \/ Prune
      <4>1. apc = "dfs" /\ all_string_indices' = all_string_indices
        BY <3>2 DEF Visit, Prune, labelVars
      <4> QED BY <1>1, <2>7, <4>1 DEF Kept
    <3>3. ~ WithoutLabels
      BY <2>7 DEF WithoutLabels
    <3> QED BY <1>7, <3>1, <3>2, <3>3
  <2>8. Kept'
    BY <1>1, <2>1, <2>2, <2>3, <2>5, <2>7 DEF Kept
  <2> QED BY <2>1, <2>6, <2>8
<1>8. CASE ClearLabels
  <2>1. /\ UNCHANGED << treeVars, string_indices >> /\ apc = "longest" /\ apc' = "bus"
        /\ pass' = "clear" /\ all_string_indices' = {} /\ needs_visitor_update
        /\ StartBus("clear")
    BY <1>8 DEF ClearLabels, StartBus
  <2>2. pc = "idle" /\ num_strings > 0
    BY <1>1, <2>1 DEF Calling
  <2>3. UNCHANGED << node, edge, leafs, pc, num_strings, needs_visitor_update >>
    BY <2>1 DEF treeVars, vars, doneVars, shapeVars
  <2>4. Visited' = {}
    BY <1>1, <2>1, <2>3, StartBusCounts
  <2> QED BY <1>1, <2>1, <2>2, <2>3, <2>4 DEF Calling, Kept, Cleared
<1>9. CASE BusCleared
  <2>1. /\ UNCHANGED << treeVars, labelVars >> /\ apc = "bus" /\ apc' = "bus"
        /\ pass = "clear" /\ pass' = "set" /\ cursor > Len(leafs) /\ queue = << >>
        /\ StartBus("set")
    BY <1>9 DEF BusCleared, StartBus
  <2>2. pc = "idle" /\ num_strings > 0 /\ needs_visitor_update
    BY <1>1, <2>1 DEF Calling
  <2>3. /\ UNCHANGED << node, edge, leafs, pc, num_strings, needs_visitor_update >>
        /\ UNCHANGED << string_indices, all_string_indices >>
    BY <2>1 DEF treeVars, vars, doneVars, shapeVars, labelVars
  <2>4. LeafsVisited' = {} /\ \A n : KidsVisited(n)' = {}
    BY <1>1, <2>1, <2>3, StartBusCounts
  <2>5. Visited = DOMAIN node
    BY <1>1, <2>1, <2>2, AllVisited
  <2>6. /\ DOMAIN string_indices = DOMAIN node /\ all_string_indices = {}
        /\ \A n \in DOMAIN node : string_indices[n] = {}
    BY <1>1, <2>1, <2>5 DEF Cleared
  <2>7. InnerLabels' = {}
    <3>1. Forking \subseteq DOMAIN node /\ InnerLabels' = InnerLabels
      BY <2>1, <2>2, LabelsStay DEF Forking
    <3> QED BY <2>6, <3>1 DEF InnerLabels
  <2>8. \A n : lst_node_is_leaf(n)' <=> lst_node_is_leaf(n)
    BY <2>3 DEF kids, lst_node_is_leaf
  <2>9. Filled'
    BY <2>3, <2>4, <2>6, <2>7, <2>8 DEF Filled
  <2> QED BY <1>1, <2>1, <2>2, <2>3, <2>9 DEF Calling, Kept
<1>10. CASE BusLeaf \/ BusInner
  <2>1. /\ UNCHANGED << treeVars, tree_string_indices, pass, apc >> /\ apc = "bus"
    BY <1>10 DEF BusLeaf, BusInner
  <2>2. UNCHANGED << node, edge, leafs, hash, pc, num_strings, needs_visitor_update >>
    BY <2>1 DEF treeVars, vars, doneVars, shapeVars, tableVars
  <2>3. pc = "idle" /\ num_strings > 0 /\ needs_visitor_update /\ pass \in { "clear", "set" }
    BY <1>1, <2>1 DEF Calling
  <2>4. PICK n : Callback(n) /\ Comes(n)
    <3>1. CASE BusLeaf
      <4>1. Callback(leafs[cursor]) /\ Comes(leafs[cursor])
        BY <1>1, <2>1, <3>1, BusLeafCounts DEF BusLeaf
      <4> QED BY <4>1
    <3>2. CASE BusInner
      <4>1. Callback(Head(queue)) /\ Comes(Head(queue))
        BY <1>1, <2>1, <3>2, BusInnerCounts DEF BusInner
      <4> QED BY <4>1
    <3> QED BY <1>10, <3>1, <3>2
  <2>5. n \in DOMAIN node
    BY <2>4 DEF Comes
  <2>6. CASE pass = "clear"
    <3>1. Cleared' /\ DOMAIN string_indices' \subseteq DOMAIN node
      BY <2>1, <2>4, <2>5, <2>6, ClearVisit
    <3> QED BY <2>1, <2>2, <2>3, <2>6, <3>1 DEF Calling, Kept
  <2>7. CASE pass = "set"
    <3>1. Filled'
      BY <2>1, <2>2, <2>4, <2>5, <2>7, FillVisit
    <3>2. DOMAIN string_indices' = DOMAIN node'
      BY <3>1 DEF Filled
    <3> QED BY <2>1, <2>2, <2>3, <2>7, <3>1, <3>2 DEF Calling, Kept
  <2> QED BY <2>3, <2>6, <2>7
<1>11. CASE BusRequeue \/ (apc = "bus" /\ UNCHANGED allVars)
  <2>1. UNCHANGED << treeVars, labelVars, pass, apc >> /\ apc = "bus"
    BY <1>11 DEF BusRequeue, allVars, algVars, busVars
  <2>2. /\ LeafsVisited' = LeafsVisited /\ Visited' = Visited
        /\ \A m : KidsVisited(m)' = KidsVisited(m)
    <3>1. CASE BusRequeue
      BY <1>1, <2>1, <3>1, BusRequeueCounts
    <3>2. CASE UNCHANGED allVars
      <4>1. UNCHANGED << node, edge, leafs, cursor, queue, bus_visited >>
        BY <3>2 DEF allVars, treeVars, vars, shapeVars, algVars, busVars
      <4>2. \A m : kids(m)' = kids(m) /\ (lst_node_is_leaf(m)' <=> lst_node_is_leaf(m))
        BY <4>1 DEF kids, lst_node_is_leaf
      <4>3. LeafsVisited' = LeafsVisited /\ InnerVisited' = InnerVisited
        BY <4>1, <4>2 DEF LeafsVisited, InnerVisited
      <4> QED BY <4>1, <4>2, <4>3 DEF Visited, KidsVisited
    <3> QED BY <1>11, <3>1, <3>2
  <2>3. IF pass' = "clear" THEN Cleared' ELSE Filled'
    BY <2>1, <2>2, VisitedStay
  <2>4. UNCHANGED << pc, num_strings, needs_visitor_update >>
    BY <2>1 DEF treeVars, vars, doneVars
  <2>5. DOMAIN string_indices' \subseteq DOMAIN node'
    BY <2>1, LabelsStay
  <2> QED BY <1>1, <2>1, <2>3, <2>4, <2>5 DEF Calling, Kept
<1>12. CASE BusLabelled
  <2>1. /\ UNCHANGED << tableVars, num_strings, shapeVars, pc, string_indices, all_string_indices >>
        /\ apc = "bus" /\ apc' = "dfs" /\ pass = "set" /\ cursor > Len(leafs) /\ queue = << >>
        /\ tree_string_indices' = all_string_indices
    BY <1>12 DEF BusLabelled, StartSearch
  <2>2. pc = "idle" /\ num_strings > 0
    BY <1>1, <2>1 DEF Calling
  <2>3. Filled
    BY <1>1, <2>1
  <2>4. /\ \A n \in DOMAIN node : lst_node_is_leaf(n) => n \in LeafsVisited
        /\ \A n \in DOMAIN node : KidsVisited(n) = kids(n)
    BY <1>1, <2>1, <2>2, AllVisited
  <2>5. TreeLabels /\ all_string_indices = InnerLabels
    BY <2>3, <2>4 DEF Filled, TreeLabels
  <2>6. UNCHANGED << node, edge, hash, pc, num_strings >>
    BY <2>1 DEF tableVars, shapeVars
  <2>7. ~ lst_node_is_leaf(Root)
    BY <1>1, <2>2 DEF IInv, WellPlaced
  <2>8. TreeLabels' /\ InnerLabels' = InnerLabels
    BY <1>1, <2>1, <2>5, <2>6, <2>7, SameLabels
  <2> QED BY <1>1, <2>1, <2>2, <2>5, <2>6, <2>8 DEF Calling, Kept
<1>13. CASE UNCHANGED allVars /\ apc # "bus"
  <2>1. UNCHANGED << treeVars, labelVars, apc, all_string_indices, call >>
    BY <1>13 DEF allVars, algVars, labelVars, callVars
  <2>2. CASE apc # "dfs"
    <3>1. apc' \notin { "bus", "dfs" } /\ (apc' # "idle" => pc = "idle" /\ num_strings > 0)
      BY <1>1, <1>13, <2>1, <2>2 DEF Calling
    <3> QED BY <1>5, <2>1, <3>1 DEF LabelInv
  <2>3. CASE apc = "dfs"
    <3>1. pc = "idle" /\ num_strings > 0
      BY <1>1, <2>3 DEF Calling
    <3>2. UNCHANGED << pc, num_strings >>
      BY <2>1 DEF treeVars, vars, doneVars
    <3>3. Kept' /\ DOMAIN string_indices' \subseteq DOMAIN node'
      BY <1>1, <2>1, <2>3, <3>1, LabelsStay DEF Kept
    <3> QED BY <2>1, <2>3, <3>1, <3>2, <3>3 DEF Calling
  <2> QED BY <2>2, <2>3
<1> QED BY <1>4, <1>6, <1>7, <1>8, <1>9, <1>10, <1>11, <1>12, <1>13 DEF AlgNext, AlgWork

LEMMA InitLabelInv == AlgInit => LabelInv
<1> SUFFICES ASSUME AlgInit PROVE LabelInv
  OBVIOUS
<1>1. Init /\ apc = "idle" /\ string_indices = << >> /\ num_strings = 0 /\ prev_new_node = NULL
  BY DEF AlgInit, Init
<1>2. AlgInv /\ IInv /\ WordsInv
  BY <1>1, InitAlgInv, InitRight DEF AlgInv, WordsInv
<1>3. LinkPending /\ DOMAIN string_indices = {}
  BY <1>1 DEF LinkPending
<1> QED BY <1>1, <1>2, <1>3 DEF LabelInv, Calling, Kept

(* The labels that the searches of lst_algorithms.c read are those of the  *)
(* strings in the tree, whether lst_alg_bus made them for this call or an  *)
(* earlier one did and needs_visitor_update says that they are still good. *)
THEOREM LabelsCorrect == AlgSpec => []LabelsRight
<1>1. AlgInit => LabelInv
  BY InitLabelInv
<1>2. LabelInv /\ [AlgNext]_allVars => LabelInv'
  BY LabelStep
<1>3. LabelInv => LabelsRight
  <2> SUFFICES ASSUME LabelInv, apc = "dfs", call.fn # "lrs" PROVE LabelsRight
    BY DEF LabelsRight
  <2>1. WordsInv /\ Grounded /\ pc = "idle" /\ num_strings > 0 /\ IInv
    BY DEF LabelInv, AlgInv, Calling
  <2>2. ~ lst_node_is_leaf(Root)
    BY <2>1 DEF IInv, WellPlaced
  <2>3. TreeLabels /\ all_string_indices = InnerLabels
    BY DEF LabelInv, Kept
  <2>4. /\ \A n \in DOMAIN node : string_indices[n] = Indices(n)
        /\ all_string_indices = { hash[s] : s \in Registered }
    BY <2>1, <2>2, <2>3, LabelsAre
  <2>5. DOMAIN string_indices = DOMAIN node
    BY <2>3 DEF TreeLabels
  <2> QED BY <2>4, <2>5 DEF LabelsRight, Indices, Carriers
<1> QED BY <1>1, <1>2, <1>3, PTL DEF AlgSpec

-----------------------------------------------------------------------------
(* lst_alg_substring_check.  The check is worth something if a byte 0 ends *)
(* the word and the byte behind the data of the strings is none of it.     *)
Sound == walk.after_word = 0 /\ walk.after_data \notin ToSet(walk.word)

\* The l items of string s from k on begin the word.
Spelled(s, k, l) == \A m \in 0..(l - 1) : Item(s, k + m) = walk.word[m + 1]

\* The walk has compared the word with what is above the node, and one item
\* more, by which alg_find_child chose it.
Reached(d) ==
  IF walk.node = Root THEN walk.idx = 0
  ELSE LET e == node[walk.node].up_edge
       IN  /\ walk.idx = d[edge[e].src] /\ walk.idx < Len(walk.word)
           /\ Spelled(edge[e].str, From(d, e), walk.idx + 1)

WalkType ==
  /\ walk \in [node : DOMAIN node, word : Checked, idx : Nat,
                after_word : Behind, after_data : Behind, res : Int]
  /\ walk.word \in Checked /\ walk.node \in DOMAIN node /\ walk.idx \in 0..Len(walk.word)

WalkInv ==
  /\ LabelInv
  /\ call.fn = "check" => apc \in { "idle", "walk", "crashed" }
  /\ apc = "walk" => WalkType /\ (Sound => \E d : TreeRight(d) /\ Reached(d))

LEMMA WordChecked ==
  ASSUME walk.word \in Checked
  PROVE  /\ Len(walk.word) \in Nat /\ Len(walk.word) >= 1
         /\ \A m \in 0..(Len(walk.word) - 1) :
              /\ walk.word[m + 1] \in Nat /\ walk.word[m + 1] # 0
              /\ walk.word[m + 1] \in ToSet(walk.word) /\ WordItem(m) = walk.word[m + 1]
         /\ \A k \in Int : k >= Len(walk.word) => WordItem(k) = walk.after_word
<1>1. walk.word \in Seq(Nat \ { 0 }) /\ walk.word # << >>
  BY CheckedAssumption
<1>2. Len(walk.word) \in Nat /\ DOMAIN walk.word = 1..Len(walk.word) /\ Len(walk.word) >= 1
  BY <1>1, LenProperties, EmptySeq
<1>3. ASSUME NEW m \in 0..(Len(walk.word) - 1)
      PROVE  /\ walk.word[m + 1] \in Nat \ { 0 } /\ walk.word[m + 1] \in ToSet(walk.word)
             /\ WordItem(m) = walk.word[m + 1]
  <2>1. m + 1 \in 1..Len(walk.word) /\ m < Len(walk.word)
    BY <1>2
  <2>2. walk.word[m + 1] \in Nat \ { 0 }
    BY <1>1, <2>1, ElementOfSeq
  <2>3. walk.word[m + 1] \in ToSet(walk.word)
    BY <1>2, <2>1 DEF ToSet
  <2>4. WordItem(m) = walk.word[m + 1]
    BY <2>1 DEF WordItem
  <2> QED BY <2>2, <2>3, <2>4
<1>4. ASSUME NEW k \in Int, k >= Len(walk.word) PROVE WordItem(k) = walk.after_word
  BY <1>2, <1>4 DEF WordItem
<1> QED BY <1>2, <1>3, <1>4

\* An item is read wrongly only where it is no item of the word anyway.
LEMMA ItemRead ==
  ASSUME TypeOK, NEW e \in DOMAIN edge, NEW k, NEW w \in Nat, w # walk.after_data
  PROVE  EdgeItem(e, k) = w <=> Item(edge[e].str, k) = w
<1>1. edge[e].str \in Nat /\ edge[e].str >= 1
  BY EdgeEnds, Domains
<1>2. - edge[e].str # w
  BY <1>1
<1> QED BY <1>2 DEF EdgeItem, Item

LEMMA ChildFound ==
  ASSUME TypeOK, NEW n, NEW ch, NEW r, r = alg_find_child(n, ch)
  PROVE  /\ r = NULL => \A e \in kids(n) : EdgeItem(e, edge[e].start_index) # ch
         /\ r # NULL => \E e \in kids(n) : r = edge[e].dst /\ EdgeItem(e, edge[e].start_index) = ch
<1> DEFINE found == { e \in kids(n) : EdgeItem(e, edge[e].start_index) = ch }
<1>1. r = IF found = {} THEN NULL ELSE edge[Max(found)].dst
  BY DEF alg_find_child
<1>2. CASE found = {}
  BY <1>1, <1>2
<1>3. CASE found # {}
  <2>1. found \in SUBSET Nat /\ Len(edge) \in Nat /\ \A e \in found : e <= Len(edge) /\ e \in DOMAIN edge
    BY Domains DEF kids
  <2>2. \E m \in found : \A e \in found : e <= m
    <3> HIDE DEF found
    <3> QED BY <1>3, <2>1, GreatestNatural
  <2>3. Max(found) \in found
    <3>1. \E m \in found : \A e \in found : m >= e
      <4> HIDE DEF found
      <4> QED BY <2>1, <2>2
    <3> HIDE DEF found
    <3> QED BY <3>1 DEF Max
  <2>4. r = edge[Max(found)].dst
    BY <1>1, <1>3
  <2>5. edge[Max(found)].dst # NULL
    <3>1. Max(found) \in DOMAIN edge
      BY <2>1, <2>3
    <3> HIDE DEF found
    <3> QED BY <3>1, EdgeEnds, Domains DEF NULL
  <2> QED BY <2>3, <2>4, <2>5
<1> QED BY <1>2, <1>3

\* What alg_traverse_edge finds out, when it has compared c items.
Compared(e, c) ==
  /\ c \in Nat /\ c <= lst_edge_get_length(e) /\ c <= Len(walk.word) - walk.idx
  /\ c = lst_edge_get_length(e) \/ c = Len(walk.word) - walk.idx

Differs(e, c) ==
  \E x \in 0..(c - 1) : EdgeItem(e, edge[e].start_index + x) # WordItem(walk.idx + x)

LEMMA Traversed ==
  ASSUME WalkType, NEW e, lst_edge_get_length(e) \in Nat
  PROVE  \E c : /\ Compared(e, c)
                /\ alg_traverse_edge(e) =
                     IF Differs(e, c) THEN -1 ELSE IF WordItem(walk.idx + c) = 0 THEN 1 ELSE 0
<1>1. Len(walk.word) \in Nat /\ walk.idx \in 0..Len(walk.word)
  BY WordChecked DEF WalkType
<1>2. PICK a \in Nat, b \in Nat : a = lst_edge_get_length(e) /\ b = Len(walk.word) - walk.idx
  <2>1. Len(walk.word) - walk.idx \in Nat
    BY <1>1
  <2> QED BY ZenonT(30), <2>1
<1>3. PICK c : c = Min({ a, b })
  OBVIOUS
<1>4. c \in { a, b } /\ c <= a /\ c <= b
  <2>1. \E x \in { a, b } : \A y \in { a, b } : x =< y
    OBVIOUS
  <2> QED BY <1>3, <2>1 DEF Min
<1>5. Compared(e, c)
  BY <1>2, <1>4 DEF Compared
<1> QED BY <1>2, <1>3, <1>5 DEF alg_traverse_edge, Differs

\* A part of a string, item by item.
LEMMA PartOf ==
  ASSUME TypeOK, NEW s \in DOMAIN strings, NEW x \in Nat, NEW l \in Nat, x + l <= Len(strings[s])
  PROVE  /\ SubSeq(strings[s], x + 1, x + l) \in Seq(Nat)
         /\ Len(SubSeq(strings[s], x + 1, x + l)) = l
         /\ \A m \in 0..(l - 1) : SubSeq(strings[s], x + 1, x + l)[m + 1] = Item(s, x + m)
<1>1. PICK u : u = strings[s]
  OBVIOUS
<1>2. u \in Seq(Nat)
  <2>1. strings \in Seq(Inputs) /\ DOMAIN strings = 1..Len(strings)
    BY Domains DEF TypeOK, TableType
  <2>2. strings[s] \in Inputs
    BY <2>1, ElementOfSeq
  <2> QED BY <1>1, <2>2, InputsAssumption
<1>3. PICK z \in Nat : z = Len(u)
  BY <1>2, LenProperties
<1>4. PICK a \in Int, b \in Int : a = x + 1 /\ b = x + l
  OBVIOUS
<1>5. \A n \in a..b : u[n] \in Nat
  <2>1. ASSUME NEW n \in a..b PROVE n \in 1..Len(u)
    BY <1>1, <1>3, <1>4
  <2> QED BY <1>2, <2>1, ElementOfSeq
<1>6. /\ SubSeq(u, a, b) \in Seq(Nat)
      /\ Len(SubSeq(u, a, b)) = IF a <= b THEN b - a + 1 ELSE 0
      /\ \A n \in 1..(b - a + 1) : SubSeq(u, a, b)[n] = u[a + n - 1]
  BY <1>5, SubSeqProperties
<1>7. Len(SubSeq(u, a, b)) = l
  BY <1>4, <1>6
<1>8. ASSUME NEW m \in 0..(l - 1) PROVE SubSeq(u, a, b)[m + 1] = Item(s, x + m)
  <2>1. /\ m + 1 \in 1..(b - a + 1) /\ a + (m + 1) - 1 = (x + m) + 1 /\ x + m < z
    BY <1>1, <1>3, <1>4
  <2>2. SubSeq(u, a, b)[m + 1] = u[(x + m) + 1]
    BY <1>6, <2>1
  <2> QED BY <1>1, <1>3, <2>1, <2>2 DEF Item
<1> QED BY <1>1, <1>4, <1>6, <1>7, <1>8

LEMMA OccursAt ==
  ASSUME TypeOK, walk.word \in Checked, NEW s \in Registered
  PROVE  Occurs(walk.word, s) <=>
           \E k \in Nat : k + Len(walk.word) <= Len(strings[s]) /\ Spelled(s, k, Len(walk.word))
<1>1. s \in DOMAIN strings /\ Len(strings[s]) \in Nat /\ Len(walk.word) \in Nat /\ Len(walk.word) >= 1
  <2>1. s \in DOMAIN strings /\ 0 \in Int
    BY RegisteredStrings
  <2> QED BY <2>1, Markers, WordChecked
<1>2. PICK z \in Nat, l \in Nat : z = Len(strings[s]) /\ l = Len(walk.word) /\ l >= 1
  BY ZenonT(30), <1>1
<1>3. ASSUME Occurs(walk.word, s)
      PROVE  \E k \in Nat : k + l <= z /\ Spelled(s, k, l)
  <2>1. PICK a \in 1..z, b \in 1..z : walk.word = SubSeq(strings[s], a, b)
    BY <1>2, <1>3, SubstringsOf DEF Occurs
  <2>2. CASE b < a
    <3>1. walk.word = << >>
      BY <2>1, <2>2, SubSeqEmpty
    <3> QED BY <1>2, <3>1
  <2>3. CASE a <= b
    <3>1. PICK k \in Nat, w \in Nat : k = a - 1 /\ w = b - a + 1 /\ k + w <= z
      <4>1. a - 1 \in Nat /\ b - a + 1 \in Nat /\ (a - 1) + (b - a + 1) <= z
        BY <2>3
      <4> QED BY ZenonT(30), <4>1
    <3>2. a = k + 1 /\ b = k + w
      BY <3>1
    <3>3. walk.word = SubSeq(strings[s], k + 1, k + w) /\ k + w <= Len(strings[s])
      BY <1>2, <2>1, <3>1, <3>2
    <3>4. PICK v : v = SubSeq(strings[s], k + 1, k + w)
      OBVIOUS
    <3>5. k \in Nat /\ w \in Nat /\ k + w <= Len(strings[s])
      BY <3>1, <3>3
    <3>6. Len(v) = w /\ \A m \in 0..(w - 1) : v[m + 1] = Item(s, k + m)
      BY <1>1, <3>4, <3>5, PartOf
    <3>7. v = walk.word
      BY <3>3, <3>4
    <3> QED BY <1>2, <3>1, <3>6, <3>7 DEF Spelled
  <2> QED BY <2>2, <2>3
<1>4. ASSUME NEW k \in Nat, k + l <= z, Spelled(s, k, l)
      PROVE  Occurs(walk.word, s)
  <2>1. PICK v : v = SubSeq(strings[s], k + 1, k + l)
    OBVIOUS
  <2>2. v \in Seq(Nat) /\ Len(v) = l /\ \A m \in 0..(l - 1) : v[m + 1] = Item(s, k + m)
    BY ZenonT(30), <1>1, <1>2, <1>4, <2>1, PartOf
  <2>3. walk.word \in Seq(Nat)
    <3>1. walk.word \in Seq(Nat \ { 0 })
      BY CheckedAssumption
    <3> QED BY <3>1, SeqMonotonic
  <2>4. ASSUME NEW n \in 1..Len(v) PROVE v[n] = walk.word[n]
    <3>1. n - 1 \in 0..(l - 1) /\ (n - 1) + 1 = n
      BY <1>2, <2>2
    <3>2. v[(n - 1) + 1] = Item(s, k + (n - 1)) /\ Item(s, k + (n - 1)) = walk.word[(n - 1) + 1]
      BY <1>4, <2>2, <3>1 DEF Spelled
    <3> QED BY <3>1, <3>2
  <2>5. v = walk.word
    BY <1>2, <2>2, <2>3, <2>4, SeqEqual
  <2>6. k + 1 \in 1..Len(strings[s]) /\ k + l \in 1..Len(strings[s])
    BY <1>2, <1>4
  <2>7. v \in Index!Substrings(strings[s])
    BY <2>1, <2>6, SubstringsOf
  <2> QED BY <2>5, <2>7 DEF Occurs
<1> QED BY <1>2, <1>3, <1>4

\* A word that occurs can be read from the root.
LEMMA OccurrenceRead ==
  ASSUME TypeOK, Complete, pc = "idle", NEW s \in Registered, NEW k \in Nat, NEW l \in Nat,
         k + l <= Len(strings[s])
  PROVE  Readable(s, k, l)
<1>1. s \in DOMAIN strings /\ 0 \in Int
  BY RegisteredStrings
<1>2. Len(strings[s]) \in Nat
  BY <1>1, Markers
<1>3. Made(s) = Len(strings[s]) + 1 /\ phases[s] = Len(strings[s])
  BY DEF Made, Complete
<1>4. k \in 0..(Made(s) - 1) /\ l <= phases[s] - k + 1
  BY <1>2, <1>3
<1> QED BY <1>4, AgreeRefl DEF Readable

\* Where the walk has come, if the word occurs, reads the word there too.
LEMMA OnTheWay ==
  ASSUME NEW t, NEW x, NEW s, NEW k, NEW l, NEW q \in Int, q <= l, l \in Int,
         Spelled(t, x, q), Spelled(s, k, l)
  PROVE  Agree(t, x, s, k, q)
BY DEF Spelled, Agree

\* What the edge to the node of the walk tells.
LEMMA EdgeWalked ==
  ASSUME NEW d, Worded(d), WalkType, Sound, walk.node # Root, Reached(d),
         NEW e \in DOMAIN edge, e = node[walk.node].up_edge
  PROVE  /\ edge[e].dst = walk.node /\ edge[e].str \in DOMAIN strings
         /\ Str(walk.node) = edge[e].str /\ Pos(d, walk.node) = From(d, e)
         /\ From(d, e) \in Nat /\ edge[e].start_index = From(d, e) + walk.idx
         /\ walk.idx = d[edge[e].src] /\ walk.idx \in Nat /\ walk.idx < Len(walk.word)
         /\ d[walk.node] = walk.idx + lst_edge_get_length(e)
         /\ lst_edge_get_length(e) \in Nat /\ lst_edge_get_length(e) >= 1
         /\ Spelled(edge[e].str, From(d, e), walk.idx + 1)
         /\ \A x \in Nat : walk.idx + x < Len(walk.word) =>
              (EdgeItem(e, edge[e].start_index + x) = WordItem(walk.idx + x) <=>
                 Item(edge[e].str, From(d, e) + (walk.idx + x)) = walk.word[walk.idx + x + 1])
<1>1. TypeOK /\ walk.word \in Checked /\ walk.node \in DOMAIN node
  BY DEF Worded, WalkType
<1>2. edge[e].dst = walk.node /\ Str(walk.node) = edge[e].str /\ Pos(d, walk.node) = From(d, e)
  BY <1>1, NodeWords DEF Str, Pos
<1>3. /\ edge[e].str \in DOMAIN strings /\ From(d, e) \in Nat
      /\ edge[e].start_index = From(d, e) + d[edge[e].src] /\ d[edge[e].src] \in Nat
  BY EdgeWords
<1>4. /\ walk.idx = d[edge[e].src] /\ walk.idx < Len(walk.word)
      /\ Spelled(edge[e].str, From(d, e), walk.idx + 1)
  BY DEF Reached
<1>5. /\ lst_edge_get_length(e) \in Int /\ lst_edge_get_length(e) >= 1
      /\ d[edge[e].dst] = d[edge[e].src] + lst_edge_get_length(e)
  BY <1>1, EdgeEnds DEF Worded, Depths
<1>6. ASSUME NEW x \in Nat, walk.idx + x < Len(walk.word)
      PROVE  EdgeItem(e, edge[e].start_index + x) = WordItem(walk.idx + x) <=>
               Item(edge[e].str, From(d, e) + (walk.idx + x)) = walk.word[walk.idx + x + 1]
  <2>1. PICK m \in Nat : m = walk.idx + x
    BY SMTT(30), <1>3, <1>4
  <2>2. Len(walk.word) \in Nat
    BY <1>1, WordChecked
  <2>3. m \in 0..(Len(walk.word) - 1)
    BY <1>6, <2>1, <2>2
  <2>4. /\ walk.word[m + 1] \in Nat /\ walk.word[m + 1] # walk.after_data
        /\ WordItem(m) = walk.word[m + 1]
    BY <1>1, <2>3, WordChecked DEF Sound
  <2>5. edge[e].start_index + x = From(d, e) + m
    BY SMTT(30), <1>3, <1>4, <2>1
  <2> QED BY <1>1, <2>1, <2>4, <2>5, ItemRead
<1>7. /\ walk.idx \in Nat /\ edge[e].start_index = From(d, e) + walk.idx
      /\ d[walk.node] = walk.idx + lst_edge_get_length(e)
      /\ lst_edge_get_length(e) \in Nat
  BY SMTT(30), <1>2, <1>3, <1>4, <1>5
<1> QED BY <1>2, <1>3, <1>4, <1>5, <1>6, <1>7

\* If an item differs the word is not there.
LEMMA NowhereOnEdge ==
  ASSUME NEW d, Worded(d), Complete, pc = "idle", WalkType, Sound, walk.node # Root, Reached(d),
         NEW e \in DOMAIN edge, e = node[walk.node].up_edge,
         NEW c, Compared(e, c), Differs(e, c), NEW s \in Registered
  PROVE  ~ Occurs(walk.word, s)
<1>1. SUFFICES ASSUME Occurs(walk.word, s) PROVE FALSE
  OBVIOUS
<1>2. TypeOK /\ walk.word \in Checked /\ Len(walk.word) \in Nat
  BY WordChecked DEF Worded, WalkType
<1>3. PICK k \in Nat : k + Len(walk.word) <= Len(strings[s]) /\ Spelled(s, k, Len(walk.word))
  BY <1>1, <1>2, OccursAt
<1>4. PICK x \in 0..(c - 1) : EdgeItem(e, edge[e].start_index + x) # WordItem(walk.idx + x)
  BY DEF Differs
<1>5. /\ x \in Nat /\ walk.idx \in Nat /\ walk.idx + x < Len(walk.word)
      /\ walk.idx + x < d[edge[e].dst] /\ d[edge[e].dst] \in Nat
      /\ walk.idx = d[edge[e].src] /\ walk.idx < Len(walk.word)
  <2>1. edge[e].dst = walk.node /\ walk.idx \in Nat /\ lst_edge_get_length(e) \in Nat
        /\ walk.idx = d[edge[e].src] /\ walk.idx < Len(walk.word)
        /\ d[walk.node] = walk.idx + lst_edge_get_length(e)
    BY EdgeWalked
  <2> QED BY SMTT(30), <1>2, <1>4, <2>1 DEF Compared
<1>6. OnEdge(d, e, s, k, d[edge[e].src] + 1)
  <2>1. Spelled(edge[e].str, From(d, e), walk.idx + 1)
    BY EdgeWalked
  <2> QED BY SMTT(30), <1>2, <1>3, <1>5, <2>1, OnTheWay DEF OnEdge
<1>7. Readable(s, k, Len(walk.word))
  BY <1>2, <1>3, OccurrenceRead
<1>8. PICK m \in Nat, z \in Nat, b \in Nat : m = walk.idx + x /\ z = Len(walk.word) /\ b = d[edge[e].dst]
  <2>1. walk.idx + x \in Nat
    BY <1>5
  <2>2. Len(walk.word) \in Nat /\ d[edge[e].dst] \in Nat
    BY <1>2, <1>5
  <2> QED BY ZenonT(30), <2>1, <2>2
<1>9. m + 1 \in Int /\ m + 1 <= Len(walk.word) /\ m + 1 <= d[edge[e].dst] /\ m \in 0..((m + 1) - 1)
      /\ Len(walk.word) > d[edge[e].src] /\ m \in 0..(Len(walk.word) - 1)
  <2>1. m < z /\ m < b /\ walk.idx < z /\ walk.idx = d[edge[e].src]
    BY <1>5, <1>8
  <2>2. m + 1 \in Int /\ m + 1 <= z /\ m + 1 <= b /\ m \in 0..((m + 1) - 1) /\ m \in 0..(z - 1)
    BY <2>1
  <2> QED BY <1>8, <2>1, <2>2
<1>10. OnEdge(d, e, s, k, m + 1)
  BY <1>2, <1>6, <1>7, <1>9, Follows
<1>11. Item(edge[e].str, From(d, e) + m) = Item(s, k + m)
  BY <1>9, <1>10 DEF OnEdge, Agree
<1>12. Item(s, k + m) = walk.word[m + 1]
  BY <1>3, <1>9 DEF Spelled
<1>13. Item(edge[e].str, From(d, e) + (walk.idx + x)) = walk.word[walk.idx + x + 1]
  BY <1>8, <1>11, <1>12
<1>14. EdgeItem(e, edge[e].start_index + x) = WordItem(walk.idx + x)
  BY <1>5, <1>13, EdgeWalked
<1> QED BY <1>4, <1>14

\* As far as the items agree the word is that of the edge.
LEMMA AgreedOnEdge ==
  ASSUME NEW d, Worded(d), WalkType, Sound, walk.node # Root, Reached(d),
         NEW e \in DOMAIN edge, e = node[walk.node].up_edge,
         NEW c, Compared(e, c), ~ Differs(e, c)
  PROVE  /\ walk.idx + c \in Nat /\ walk.idx + c <= Len(walk.word)
         /\ Spelled(edge[e].str, From(d, e), walk.idx + c)
<1>1. /\ walk.idx \in Nat /\ From(d, e) \in Nat /\ walk.idx < Len(walk.word)
      /\ Spelled(edge[e].str, From(d, e), walk.idx + 1)
  BY EdgeWalked
<1>2. Len(walk.word) \in Nat
  BY WordChecked DEF WalkType
<1>3. PICK i0 \in Nat, z \in Nat, k \in Nat : i0 = walk.idx /\ z = Len(walk.word) /\ k = From(d, e)
  BY ZenonT(30), <1>1, <1>2
<1>4. c \in Nat /\ c <= z - i0 /\ i0 + c \in Nat /\ i0 + c <= z
  BY <1>3 DEF Compared
<1>5. ASSUME NEW m \in 0..(i0 + c - 1) PROVE Item(edge[e].str, k + m) = walk.word[m + 1]
  <2>1. CASE m < i0
    <3>1. m \in 0..((i0 + 1) - 1)
      BY <1>3, <2>1
    <3> QED BY <1>1, <1>3, <3>1 DEF Spelled
  <2>2. CASE ~ (m < i0)
    <3>1. c \in Nat /\ c <= z - i0 /\ m \in 0..(i0 + c - 1) /\ i0 <= m
      BY <1>3, <1>4, <2>2
    <3>2. m - i0 \in 0..(c - 1) /\ i0 + (m - i0) = m /\ m < z /\ m - i0 \in Nat
      BY <3>1
    <3>3. PICK x \in Nat : x \in 0..(c - 1) /\ i0 + x < z /\ i0 + x = m
      BY <3>2
    <3>4. EdgeItem(e, edge[e].start_index + x) = WordItem(i0 + x)
      BY <1>3, <3>3 DEF Differs
    <3>5. Item(edge[e].str, From(d, e) + (i0 + x)) = walk.word[i0 + x + 1]
      BY <1>3, <3>3, <3>4, EdgeWalked
    <3> QED BY <1>3, <3>3, <3>5
  <2> QED BY <2>1, <2>2
<1> QED BY SMTT(30), <1>3, <1>4, <1>5 DEF Spelled

\* If the word ends there it is part of the string of the edge.
LEMMA FoundOnEdge ==
  ASSUME NEW d, Worded(d), WalkType, Sound, walk.node # Root, Reached(d),
         NEW e \in DOMAIN edge, e = node[walk.node].up_edge,
         NEW c, Compared(e, c), ~ Differs(e, c), WordItem(walk.idx + c) = 0
  PROVE  \E s \in Registered : Occurs(walk.word, s)
<1> DEFINE s == edge[e].str
<1>1. TypeOK /\ walk.word \in Checked /\ s \in Registered /\ s \in DOMAIN strings /\ From(d, e) \in Nat
  BY EdgeWalked DEF Worded, Windows, Window, WalkType
<1>2. PICK z \in Nat, k \in Nat, q \in Nat : z = Len(walk.word) /\ k = From(d, e) /\ q = walk.idx + c
  <2>1. Len(walk.word) \in Nat /\ walk.idx + c \in Nat
    BY <1>1, WordChecked, AgreedOnEdge
  <2> QED BY ZenonT(30), <1>1, <2>1
<1>3. q <= z /\ Spelled(s, k, q) /\ z >= 1
  BY <1>1, <1>2, AgreedOnEdge, WordChecked
<1>4. q = z
  <2>1. ASSUME q < z PROVE FALSE
    <3>1. q \in 0..(z - 1)
      BY <1>2, <2>1
    <3>2. WordItem(q) # 0
      BY <1>1, <1>2, <3>1, WordChecked
    <3> QED BY <1>2, <3>2
  <2> QED BY <1>2, <1>3, <2>1
<1>5. k + z <= Len(strings[s])
  <2>1. PICK y \in Int : y = k + (z - 1)
    BY <1>2
  <2>2. z - 1 \in 0..(z - 1) /\ z - 1 \in 0..(Len(walk.word) - 1) /\ (z - 1) + 1 = z
    BY <1>2, <1>3
  <2>3. Item(s, k + (z - 1)) = walk.word[z]
    BY <1>3, <1>4, <2>2 DEF Spelled
  <2>4. walk.word[z] \in Nat
    BY <1>1, <2>2, WordChecked
  <2>5. Len(strings[s]) \in Nat /\ (y >= Len(strings[s]) => Item(s, y) = -s) /\ s \in Nat /\ s >= 1
    <3> HIDE DEF s
    <3>1. Len(strings[s]) \in Nat /\ (y >= Len(strings[s]) => Item(s, y) = -s)
      BY <1>1, Markers
    <3>2. s \in Nat /\ s >= 1
      BY <1>1, Domains
    <3> QED BY <3>1, <3>2
  <2>6. PICK w \in Nat : w = Len(strings[s])
    BY <2>5
  <2>7. y < w
    BY SMTT(30), <2>1, <2>3, <2>4, <2>5, <2>6
  <2> QED BY SMTT(30), <1>2, <2>1, <2>6, <2>7
<1> QED BY <1>1, <1>2, <1>3, <1>4, <1>5, OccursAt

\* Otherwise the walk has compared all of the edge and goes on below the node.
LEMMA PastEdge ==
  ASSUME NEW d, Worded(d), WalkType, Sound, walk.node # Root, Reached(d),
         NEW e \in DOMAIN edge, e = node[walk.node].up_edge,
         NEW c, Compared(e, c), ~ Differs(e, c), WordItem(walk.idx + c) # 0
  PROVE  /\ walk.idx + lst_edge_get_length(e) = d[walk.node]
         /\ d[walk.node] \in Nat /\ d[walk.node] < Len(walk.word)
         /\ Spelled(Str(walk.node), Pos(d, walk.node), d[walk.node])
<1>1. TypeOK /\ walk.word \in Checked /\ walk.after_word = 0
  BY DEF Worded, WalkType, Sound
<1>2. PICK z \in Nat, q \in Nat : z = Len(walk.word) /\ q = walk.idx + c
  <2>1. Len(walk.word) \in Nat /\ walk.idx + c \in Nat
    BY <1>1, WordChecked, AgreedOnEdge
  <2> QED BY ZenonT(30), <2>1
<1>3. q <= z /\ Spelled(edge[e].str, From(d, e), q)
  BY <1>2, AgreedOnEdge
<1>4. q # z
  BY <1>1, <1>2, WordChecked
<1>5. /\ Str(walk.node) = edge[e].str /\ Pos(d, walk.node) = From(d, e)
      /\ d[walk.node] = walk.idx + lst_edge_get_length(e)
      /\ walk.idx \in Nat
  BY EdgeWalked
<1>6. c = lst_edge_get_length(e)
  BY <1>2, <1>4, <1>5 DEF Compared
<1> QED BY <1>2, <1>3, <1>4, <1>5, <1>6

\* Below a node that reads the begin of the word.
LEMMA ChildRight ==
  ASSUME NEW d, Worded(d), Complete, pc = "idle", walk.word \in Checked, Sound,
         NEW n \in DOMAIN node, NEW q \in Nat, q = d[n], q < Len(walk.word),
         n # Root => Spelled(Str(n), Pos(d, n), q),
         NEW r, r = alg_find_child(n, WordItem(q))
  PROVE  /\ r = NULL => \A s \in Registered : ~ Occurs(walk.word, s)
         /\ r # NULL => /\ r \in DOMAIN node /\ r # Root
                        /\ d[edge[node[r].up_edge].src] = q
                        /\ Spelled(Str(r), Pos(d, r), q + 1)
<1>1. TypeOK /\ Len(walk.word) \in Nat /\ q \in 0..(Len(walk.word) - 1)
  BY WordChecked DEF Worded
<1>2. WordItem(q) = walk.word[q + 1] /\ WordItem(q) \in Nat /\ WordItem(q) # walk.after_data
  BY <1>1, WordChecked DEF Sound
<1>3. ASSUME NEW e \in kids(n)
      PROVE  /\ e \in DOMAIN edge /\ edge[e].src = n /\ edge[e].start_index = From(d, e) + q
             /\ EdgeItem(e, edge[e].start_index) = WordItem(q) <=>
                  Item(edge[e].str, From(d, e) + q) = walk.word[q + 1]
  <2>1. e \in DOMAIN edge /\ edge[e].src = n
    BY DEF kids
  <2>2. edge[e].start_index = From(d, e) + q
    BY <2>1, EdgeWords
  <2> QED BY <1>1, <1>2, <2>1, <2>2, ItemRead
<1>4. ASSUME r = NULL, NEW s \in Registered, Occurs(walk.word, s) PROVE FALSE
  <2>1. PICK k \in Nat : k + Len(walk.word) <= Len(strings[s]) /\ Spelled(s, k, Len(walk.word))
    BY <1>1, <1>4, OccursAt
  <2>2. Readable(s, k, Len(walk.word))
    BY <1>1, <2>1, OccurrenceRead
  <2>3. AtNode(d, n, s, k, q)
    BY <1>1, <2>1, OnTheWay DEF AtNode
  <2>4. PICK e \in kids(n) : OnEdge(d, e, s, k, q + 1)
    BY <1>1, <2>2, <2>3, GoesOn
  <2>5. Item(edge[e].str, From(d, e) + q) = Item(s, k + q)
    BY <2>4 DEF OnEdge, Agree
  <2>6. Item(s, k + q) = walk.word[q + 1]
    BY <1>1, <2>1 DEF Spelled
  <2>7. EdgeItem(e, edge[e].start_index) = WordItem(q)
    BY <1>3, <2>5, <2>6
  <2> QED BY <1>1, <1>4, <2>7, ChildFound
<1>5. ASSUME r # NULL
      PROVE  /\ r \in DOMAIN node /\ r # Root
             /\ d[edge[node[r].up_edge].src] = q
             /\ Spelled(Str(r), Pos(d, r), q + 1)
  <2>1. PICK e \in kids(n) : r = edge[e].dst /\ EdgeItem(e, edge[e].start_index) = WordItem(q)
    BY <1>1, <1>5, ChildFound
  <2>2. /\ e \in DOMAIN edge /\ edge[e].src = n
        /\ Item(edge[e].str, From(d, e) + q) = walk.word[q + 1]
    BY <1>3, <2>1
  <2>3. r \in DOMAIN node /\ r # Root /\ node[r].up_edge = e /\ Str(r) = edge[e].str /\ Pos(d, r) = From(d, e)
    BY <2>1, <2>2, EdgeWords
  <2>4. AtNode(d, n, edge[e].str, From(d, e), q)
    BY <2>2 DEF Worded, Windows, Window
  <2>5. Spelled(edge[e].str, From(d, e), q)
    <3>1. CASE n = Root
      <4>1. q = 0
        BY <3>1 DEF Worded, Depths
      <4> QED BY <4>1 DEF Spelled
    <3>2. CASE n # Root
      BY <2>4, <3>2 DEF AtNode, Agree, Spelled
    <3> QED BY <3>1, <3>2
  <2>6. ASSUME NEW m \in 0..((q + 1) - 1) PROVE Item(edge[e].str, From(d, e) + m) = walk.word[m + 1]
    <3>1. m = q \/ m \in 0..(q - 1)
      BY SMTT(30)
    <3> QED BY <2>2, <2>5, <3>1 DEF Spelled
  <2> QED BY <2>2, <2>3, <2>6 DEF Spelled
<1> QED BY <1>4, <1>5

Answer == IF \E s \in Registered : Occurs(walk.word, s) THEN 1 ELSE -1

\* The answer is right: here and at the next node.
LEMMA AnswerRight ==
  ASSUME WalkInv, WalkStep, apc' = "idle"
  PROVE  IF walk.after_word = 0
           THEN walk.after_data \notin ToSet(walk.word) => walk'.res = Answer
           ELSE walk'.res = -1
<1> DEFINE e    == node[walk.node].up_edge
           res  == IF walk.node = Root THEN 0 ELSE alg_traverse_edge(e)
           idx  == IF walk.node = Root THEN walk.idx ELSE walk.idx + lst_edge_get_length(e)
           next == alg_find_child(walk.node, WordItem(idx))
<1>1. /\ apc = "walk" /\ WalkType /\ walk.word \in Checked /\ walk.node \in DOMAIN node
      /\ Sound => \E d : TreeRight(d) /\ Reached(d)
  BY DEF WalkInv, WalkStep, WalkType
<1>2. /\ IInv /\ TypeOK /\ pc = "idle"
      /\ \E d : Right(d)
  BY <1>1 DEF WalkInv, LabelInv, WordsInv, Calling, IInv
<1>3. \/ res # 0 /\ walk' = [NoWalking EXCEPT !.res = res]
      \/ res = 0 /\ next = NULL /\ walk' = [NoWalking EXCEPT !.res = -1]
  BY <1>1 DEF WalkStep
<1>4. \/ res # 0 /\ walk'.res = res
      \/ res = 0 /\ next = NULL /\ walk'.res = -1
  BY <1>3 DEF NoWalking
<1>5. ASSUME walk.node # Root
      PROVE  /\ e \in DOMAIN edge /\ lst_edge_get_length(e) \in Nat
             /\ \E c : /\ Compared(e, c)
                       /\ res = IF Differs(e, c) THEN -1 ELSE IF WordItem(walk.idx + c) = 0 THEN 1 ELSE 0
  <2>1. PICK d : TreeRight(d)
    BY <1>2 DEF Right
  <2>2. Worded(d)
    BY <1>2, <2>1, RightWorded
  <2>3. e \in DOMAIN edge
    BY <1>1, <1>5, <2>2, NodeWords
  <2>4. lst_edge_get_length(e) \in Nat
    <3> HIDE DEF e
    <3> QED BY <1>2, <2>2, <2>3, EdgeEnds DEF Worded, Depths
  <2> QED BY <1>1, <1>5, <2>3, <2>4, Traversed
<1>6. CASE Sound
  <2>1. PICK d : TreeRight(d) /\ Reached(d)
    BY <1>1, <1>6
  <2>2. Worded(d) /\ Complete
    BY <1>2, <2>1, RightWorded
  <2>3. CASE walk.node = Root
    <3>1. res = 0 /\ idx = 0 /\ d[walk.node] = 0 /\ 0 < Len(walk.word) /\ next = NULL
      BY <1>1, <1>4, <2>1, <2>2, <2>3, WordChecked DEF Reached, Worded, Depths
    <3>2. \A s \in Registered : ~ Occurs(walk.word, s)
      BY <1>1, <1>2, <1>6, <2>2, <2>3, <3>1, ChildRight
    <3> QED BY <1>4, <3>1, <3>2 DEF Answer, Sound
  <2>4. CASE walk.node # Root
    <3>1. PICK c : /\ Compared(e, c)
                   /\ res = IF Differs(e, c) THEN -1 ELSE IF WordItem(walk.idx + c) = 0 THEN 1 ELSE 0
      BY <1>5, <2>4
    <3>2. CASE Differs(e, c)
      <4>1. \A s \in Registered : ~ Occurs(walk.word, s)
        BY <1>1, <1>2, <1>5, <1>6, <2>1, <2>2, <2>4, <3>1, <3>2, NowhereOnEdge
      <4> QED BY <1>4, <3>1, <3>2, <4>1 DEF Answer, Sound
    <3>3. CASE ~ Differs(e, c) /\ WordItem(walk.idx + c) = 0
      <4>1. \E s \in Registered : Occurs(walk.word, s)
        BY <1>1, <1>2, <1>5, <1>6, <2>1, <2>2, <2>4, <3>1, <3>3, FoundOnEdge
      <4>2. res = 1 /\ Answer = 1
        BY <3>1, <3>3, <4>1 DEF Answer
      <4>3. walk'.res = 1
        BY <1>4, <4>2
      <4> QED BY <1>6, <4>2, <4>3 DEF Sound
    <3>4. CASE ~ Differs(e, c) /\ WordItem(walk.idx + c) # 0
      <4>1. /\ idx = d[walk.node] /\ d[walk.node] \in Nat /\ d[walk.node] < Len(walk.word)
            /\ Spelled(Str(walk.node), Pos(d, walk.node), d[walk.node])
        BY <1>1, <1>2, <1>5, <1>6, <2>1, <2>2, <2>4, <3>1, <3>4, PastEdge
      <4>2. next = NULL /\ walk'.res = -1
        BY <1>4, <3>1, <3>4
      <4>3. \A s \in Registered : ~ Occurs(walk.word, s)
        BY <1>1, <1>2, <1>6, <2>2, <4>1, <4>2, ChildRight
      <4> QED BY <4>2, <4>3 DEF Answer, Sound
    <3> QED BY <3>2, <3>3, <3>4
  <2> QED BY <2>3, <2>4
<1>7. CASE walk.after_word # 0
  <2>1. res # 1
    <3>1. ASSUME walk.node # Root PROVE res # 1
      <4>1. PICK c : /\ Compared(e, c)
                     /\ res = IF Differs(e, c) THEN -1 ELSE IF WordItem(walk.idx + c) = 0 THEN 1 ELSE 0
        BY <1>5, <3>1
      <4>2. PICK z \in Nat, m \in Nat : z = Len(walk.word) /\ m = walk.idx + c /\ m <= z
        <5>1. Len(walk.word) \in Nat /\ walk.idx \in 0..Len(walk.word)
          BY <1>1, WordChecked DEF WalkType
        <5>2. walk.idx + c \in Nat /\ walk.idx + c <= Len(walk.word)
          BY <4>1, <5>1 DEF Compared
        <5> QED BY ZenonT(30), <5>1, <5>2
      <4>3. WordItem(m) # 0
        <5>1. m \in 0..(z - 1) \/ (m \in Int /\ m >= z)
          BY <4>2
        <5> QED BY <1>1, <1>7, <4>2, <5>1, WordChecked
      <4> QED BY <4>1, <4>2, <4>3
    <3> QED BY <3>1
  <2>2. res \in { -1, 0, 1 }
    BY <1>5
  <2> QED BY <1>4, <1>7, <2>1, <2>2
<1> QED BY <1>6, <1>7 DEF Sound

LEMMA WalkGoesOn ==
  ASSUME WalkInv, WalkStep, apc' = "walk"
  PROVE  WalkType' /\ (Sound' => \E d : TreeRight(d)' /\ Reached(d)')
<1> DEFINE e    == node[walk.node].up_edge
           res  == IF walk.node = Root THEN 0 ELSE alg_traverse_edge(e)
           idx  == IF walk.node = Root THEN walk.idx ELSE walk.idx + lst_edge_get_length(e)
           next == alg_find_child(walk.node, WordItem(idx))
<1>1. /\ apc = "walk" /\ WalkType /\ walk.word \in Checked /\ walk.node \in DOMAIN node
      /\ walk.idx \in 0..Len(walk.word)
      /\ Sound => \E d : TreeRight(d) /\ Reached(d)
      /\ UNCHANGED treeVars
  BY DEF WalkInv, WalkStep, WalkType
<1>2. IInv /\ TypeOK /\ pc = "idle" /\ \E d : Right(d)
  BY <1>1 DEF WalkInv, LabelInv, WordsInv, Calling, IInv
<1>3. res = 0 /\ ~ (idx > Len(walk.word)) /\ next # NULL /\ walk' = [walk EXCEPT !.node = next, !.idx = idx]
  BY <1>1 DEF WalkStep
<1>4. /\ walk'.node = next /\ walk'.idx = idx /\ walk'.word = walk.word
      /\ walk'.after_word = walk.after_word /\ walk'.after_data = walk.after_data
      /\ walk'.res = walk.res
  <2>1. walk \in [node : DOMAIN node, word : Checked, idx : Nat,
                  after_word : Behind, after_data : Behind, res : Int]
    BY <1>1 DEF WalkType
  <2> QED BY <1>3, <2>1
<1>5. PICK d0 : Right(d0)
  BY <1>2
<1>6. Worded(d0)
  BY <1>2, <1>5, RightWorded DEF Right
<1>7. ASSUME walk.node # Root
      PROVE  /\ e \in DOMAIN edge /\ lst_edge_get_length(e) \in Nat
             /\ \E c : /\ Compared(e, c)
                       /\ res = IF Differs(e, c) THEN -1 ELSE IF WordItem(walk.idx + c) = 0 THEN 1 ELSE 0
  <2>1. e \in DOMAIN edge
    BY <1>1, <1>6, <1>7, NodeWords
  <2>2. lst_edge_get_length(e) \in Nat
    <3> HIDE DEF e
    <3> QED BY <1>2, <1>6, <2>1, EdgeEnds DEF Worded, Depths
  <2> QED BY <1>1, <1>7, <2>1, <2>2, Traversed
<1>8. idx \in 0..Len(walk.word) /\ Len(walk.word) \in Nat
  <2>1. Len(walk.word) \in Nat
    BY <1>1, WordChecked
  <2>2. idx \in Nat
    BY <1>1, <1>7, <2>1
  <2> QED BY <1>3, <2>1, <2>2
<1>9. next \in DOMAIN node /\ next # Root
  <2>1. PICK f \in kids(walk.node) : next = edge[f].dst
    BY <1>2, <1>3, ChildFound
  <2> QED BY <1>6, <2>1, EdgeWords DEF kids
<1>10. UNCHANGED textVars /\ hash' = hash /\ pc' = pc
  BY <1>1 DEF treeVars, vars, tableVars, shapeVars, textVars
<1>11. WalkType'
  <2>1. walk' \in [node : DOMAIN node, word : Checked, idx : Nat,
                   after_word : Behind, after_data : Behind, res : Int]
    <3>1. walk \in [node : DOMAIN node, word : Checked, idx : Nat,
                    after_word : Behind, after_data : Behind, res : Int]
      BY <1>1 DEF WalkType
    <3>2. next \in DOMAIN node /\ idx \in Nat
      BY <1>8, <1>9
    <3> HIDE DEF next, idx
    <3> QED BY <1>3, <3>1, <3>2
  <2>2. node' = node
    BY <1>10 DEF textVars
  <2>3. walk'.word \in Checked /\ walk'.node \in DOMAIN node /\ walk'.idx \in 0..Len(walk'.word)
    <3> HIDE DEF next, idx
    <3> QED BY <1>1, <1>4, <1>8, <1>9
  <2> QED BY <2>1, <2>2, <2>3 DEF WalkType
<1>12. ASSUME Sound' PROVE \E d : TreeRight(d)' /\ Reached(d)'
  <2>1. Sound
    BY <1>4, <1>12 DEF Sound
  <2>2. PICK d : TreeRight(d) /\ Reached(d)
    BY <1>1, <2>1
  <2>3. Worded(d) /\ Complete
    BY <1>2, <2>2, RightWorded
  <2>4. TreeRight(d)'
    <3>1. \A t \in Registered : Made(t)' = Made(t)
      BY <1>2, <1>10 DEF Made, textVars
    <3> QED BY <1>2, <1>10, <2>2, <3>1, SameWords
  <2>5. /\ idx = d[walk.node] /\ d[walk.node] \in Nat /\ d[walk.node] < Len(walk.word)
        /\ walk.node # Root => Spelled(Str(walk.node), Pos(d, walk.node), d[walk.node])
    <3>1. CASE walk.node = Root
      BY <1>1, <2>2, <2>3, <3>1, WordChecked DEF Reached, Worded, Depths
    <3>2. CASE walk.node # Root
      <4>1. PICK c : /\ Compared(e, c)
                     /\ res = IF Differs(e, c) THEN -1 ELSE IF WordItem(walk.idx + c) = 0 THEN 1 ELSE 0
        BY <1>7, <3>2
      <4>2. ~ Differs(e, c) /\ WordItem(walk.idx + c) # 0
        BY <1>3, <4>1
      <4> QED BY <1>1, <1>7, <2>1, <2>2, <2>3, <3>2, <4>1, <4>2, PastEdge
    <3> QED BY <3>1, <3>2
  <2>6. /\ d[edge[node[next].up_edge].src] = d[walk.node]
        /\ Spelled(Str(next), Pos(d, next), d[walk.node] + 1)
    BY SMTT(30), <1>1, <1>2, <1>3, <2>1, <2>3, <2>5, ChildRight
  <2>7. /\ walk'.node # Root /\ walk'.idx = d[edge[node[walk'.node].up_edge].src]
        /\ walk'.idx < Len(walk'.word)
        /\ Spelled(Str(walk'.node), Pos(d, walk'.node), walk'.idx + 1)
    BY <1>4, <1>9, <2>5, <2>6
  <2>8. \A s, k, l : Spelled(s, k, l)' <=> Spelled(s, k, l)
    BY <1>4, <1>10, SameText DEF Spelled
  <2>9. Reached(d)'
    BY <1>10, <2>7, <2>8, SameReading DEF Reached, textVars, Str, Pos
  <2> QED BY <2>4, <2>9
<1> QED BY <1>11, <1>12

LEMMA WalkStays ==
  ASSUME WalkInv, UNCHANGED allVars
  PROVE  apc' = "walk" => WalkType' /\ (Sound' => \E d : TreeRight(d)' /\ Reached(d)')
<1> SUFFICES ASSUME apc' = "walk" PROVE WalkType' /\ (Sound' => \E d : TreeRight(d)' /\ Reached(d)')
  OBVIOUS
<1>1. UNCHANGED << textVars, hash, pc, walk, apc >>
  BY DEF allVars, treeVars, algVars, callVars, vars, tableVars, shapeVars, textVars
<1>2. IInv /\ WalkType /\ (Sound => \E d : TreeRight(d) /\ Reached(d)) /\ pc = "idle"
  BY <1>1 DEF WalkInv, LabelInv, WordsInv, Calling
<1>3. WalkType'
  BY <1>1, <1>2 DEF WalkType, textVars
<1>4. ASSUME Sound' PROVE \E d : TreeRight(d)' /\ Reached(d)'
  <2>1. Sound
    BY <1>1, <1>4 DEF Sound
  <2>2. PICK d : TreeRight(d) /\ Reached(d)
    BY <1>2, <2>1
  <2>3. \A t \in Registered : Made(t)' = Made(t)
    BY <1>1, <1>2 DEF Made, textVars
  <2>4. TreeRight(d)'
    BY <1>1, <1>2, <2>2, <2>3, SameWords
  <2>5. \A s, k, l : Spelled(s, k, l)' <=> Spelled(s, k, l)
    BY <1>1, SameText DEF Spelled
  <2>6. Reached(d)'
    BY <1>1, <2>2, <2>5, SameReading DEF Reached, textVars
  <2> QED BY <2>4, <2>6
<1> QED BY <1>3, <1>4

\* A check is called: the walk is at the root.
LEMMA WalkBegins ==
  ASSUME WalkInv, NEW w \in Checked, NEW b \in Behind, NEW c \in Behind,
         Call_substring_check(w, b, c)
  PROVE  WalkType' /\ (Sound' => \E d : TreeRight(d)' /\ Reached(d)')
<1>1. /\ walk' = [node |-> Root, word |-> w, idx |-> 0, after_word |-> b, after_data |-> c, res |-> 0]
      /\ UNCHANGED << textVars, hash, pc >> /\ pc = "idle"
  BY DEF Call_substring_check, treeVars, vars, tableVars, shapeVars, textVars
<1>2. IInv /\ TypeOK /\ \E d : Right(d)
  BY DEF WalkInv, LabelInv, WordsInv, IInv
<1>3. Root \in DOMAIN node
  BY <1>2, Domains
<1>4. Len(w) \in Nat
  <2>1. w \in Seq(Nat \ { 0 })
    BY CheckedAssumption
  <2> QED BY <2>1, LenProperties
<1>5. WalkType'
  BY <1>1, <1>3, <1>4 DEF WalkType, textVars
<1>6. PICK d : TreeRight(d)
  BY <1>2 DEF Right
<1>7. TreeRight(d)'
  <2>1. \A t \in Registered : Made(t)' = Made(t)
    BY <1>1 DEF Made, textVars
  <2> QED BY <1>1, <1>6, <2>1, SameWords
<1>8. Reached(d)'
  BY <1>1 DEF Reached
<1> QED BY <1>5, <1>7, <1>8

LEMMA WalkInvStep ==
  ASSUME WalkInv, [AlgNext]_allVars
  PROVE  WalkInv'
<1>1. LabelInv' /\ (call.fn = "check" => apc \in { "idle", "walk", "crashed" })
  BY LabelStep DEF WalkInv
<1>2. SUFFICES /\ call'.fn = "check" => apc' \in { "idle", "walk", "crashed" }
               /\ apc' = "walk" => WalkType' /\ (Sound' => \E d : TreeRight(d)' /\ Reached(d)')
  BY <1>1 DEF WalkInv
<1>3. CASE TreeStep
  BY <1>3 DEF TreeStep, algVars
<1>4. ASSUME NEW c \in Calls, Call(c) PROVE call'.fn # "check" /\ apc' # "walk"
  BY <1>4, CallsAssumption DEF Call
<1>5. CASE \E w \in Checked, b, d \in Behind : Call_substring_check(w, b, d)
  <2>1. PICK w \in Checked, b \in Behind, c \in Behind : Call_substring_check(w, b, c)
    BY <1>5
  <2>2. apc' = "walk"
    BY <2>1 DEF Call_substring_check
  <2> QED BY <2>1, <2>2, WalkBegins
<1>6. ASSUME NEW s \in DOMAIN strings, lst_stree_remove_string(s)
      PROVE  call'.fn # "check" /\ apc' # "walk"
  BY <1>6 DEF lst_stree_remove_string, NoCall
<1>7. CASE WalkStep
  <2>1. apc = "walk" /\ call' = call /\ apc' \in { "idle", "walk", "crashed" }
    BY <1>7 DEF WalkStep
  <2> QED BY <1>7, <2>1, WalkGoesOn
<1>8. CASE AlgWork /\ ~ WalkStep
  <2>1. apc \notin { "idle", "walk", "crashed" } /\ apc' # "walk" /\ call' = call
    BY <1>8 DEF AlgWork, WithoutLabels, UseCachedLabels, ClearLabels, StartSearch, StartBus, BusLeaf,
       BusRequeue, BusInner, BusCleared, BusLabelled, Visit, Prune, Collect, CollectCrashes, Round,
       RoundCrashes, callVars
  <2> QED BY <1>1, <2>1
<1>9. CASE UNCHANGED allVars
  <2>1. apc' = apc /\ call' = call
    BY <1>9 DEF allVars, algVars, callVars
  <2> QED BY <1>1, <1>9, <2>1, WalkStays
<1> QED BY <1>3, <1>4, <1>5, <1>6, <1>7, <1>8, <1>9 DEF AlgNext

LEMMA InitWalkInv == AlgInit => WalkInv
<1> SUFFICES ASSUME AlgInit PROVE WalkInv
  OBVIOUS
<1>1. LabelInv
  BY InitLabelInv
<1>2. call.fn # "check" /\ apc = "idle"
  BY DEF AlgInit, NoCall
<1> QED BY <1>1, <1>2 DEF WalkInv

LEMMA OnlyWalkReturns ==
  ASSUME WalkInv, [AlgNext]_allVars, Return, call.fn = "check"
  PROVE  WalkStep
<1>1. apc \in { "walk", "crashed" } /\ apc' = "idle"
  BY DEF WalkInv, Return
<1>2. apc' # apc
  BY <1>1
<1> QED BY <1>1, <1>2 DEF AlgNext, AlgWork, TreeStep, Call, Call_substring_check, lst_stree_remove_string,
       WithoutLabels, UseCachedLabels, ClearLabels, BusLeaf, BusRequeue, BusInner, BusCleared,
       BusLabelled, Visit, Prune, Collect, CollectCrashes, Round, RoundCrashes, allVars, algVars

(* lst_alg_substring_check answers 1 exactly for the words that occur in a *)
(* string of the tree, if a byte 0 happens to lie behind the word and the  *)
(* byte behind the strings is none of it; with another byte behind the     *)
(* word it finds nothing.                                                  *)
THEOREM CheckCorrect == AlgSpec => CheckRight
<1>1. AlgInit => WalkInv
  BY InitWalkInv
<1>2. WalkInv /\ [AlgNext]_allVars => WalkInv'
  BY WalkInvStep
<1>3. WalkInv /\ [AlgNext]_allVars =>
        [ (Return /\ call.fn = "check") =>
            IF walk.after_word = 0
              THEN walk.after_data \notin ToSet(walk.word) =>
                     walk'.res = (IF \E s \in Registered : Occurs(walk.word, s) THEN 1 ELSE -1)
              ELSE walk'.res = -1 ]_allVars
  <2> SUFFICES ASSUME WalkInv, [AlgNext]_allVars, Return, call.fn = "check"
               PROVE  IF walk.after_word = 0
                        THEN walk.after_data \notin ToSet(walk.word) =>
                               walk'.res = (IF \E s \in Registered : Occurs(walk.word, s) THEN 1 ELSE -1)
                        ELSE walk'.res = -1
    OBVIOUS
  <2>1. WalkStep /\ apc' = "idle"
    BY OnlyWalkReturns DEF Return
  <2> QED BY <2>1, AnswerRight DEF Answer
<1> QED BY <1>1, <1>2, <1>3, PTL DEF AlgSpec, CheckRight
=============================================================================
