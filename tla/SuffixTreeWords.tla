--------------------------- MODULE SuffixTreeWords ---------------------------
(***************************************************************************)
(* What the nodes and ends of paths of SuffixTree stand for, and the       *)
(* properties that make the construction of src/lst_stree.c correct.       *)
(***************************************************************************)
EXTENDS SuffixTree

\* The items from position k to position m of object s.
Items(s, k, m) == [n \in 1..(m - k + 1) |-> Item(s, k + n - 1)]

Label(e) == Items(edge[e].str, edge[e].start_index, end_index(e))

\* The word read on the way from the root to a node.
Path[n \in DOMAIN node] ==
  IF n = Root THEN << >> ELSE Path[lst_node_get_parent(n)] \o Label(node[n].up_edge)

\* The word read on the way from the root to where end points.
EndWord ==
  IF end.node # NULL THEN Path[end.node]
  ELSE Path[edge[end.edge].src] \o SubSeq(Label(end.edge), 1, end.offset)

Registered == { s \in DOMAIN hash : hash[s] >= 0 }

\* Every word that can be read from the root downwards.
Vocabulary ==
  { << >> } \cup UNION { { SubSeq(Path[n], 1, k) : k \in 1..Len(Path[n]) } : n \in Leaves }

\* Kids start with different items, inner nodes have two or more of them, and
\* every edge has a label.
Branching ==
  /\ \A n \in DOMAIN node : \A d, e \in kids(n) :
       Item(edge[d].str, edge[d].start_index) = Item(edge[e].str, edge[e].start_index)
         => d = e
  /\ \A n \in Inner : Cardinality(kids(n)) >= 2
  /\ \A e \in DOMAIN edge : lst_edge_get_length(e) >= 1

-----------------------------------------------------------------------------
(* When a string has been added the leafs are the suffixes of the strings  *)
(* in the tree, each at one leaf, with the position of the suffix as its   *)
(* index: the early stop of Rule 3 and the skipped phases lose none, and   *)
(* no split left a node with one kid or two kids that start alike.         *)
SuffixesAreLeaves ==
  pc = "idle" =>
    /\ Branching
    /\ \A n \in Leaves :
         LET s == edge[node[n].up_edge].str
         IN  /\ s \in Registered
             /\ Path[n] = Items(s, node[n].index, num_items(s) - 1)
    /\ \A s \in Registered : \A k \in 0..(num_items(s) - 1) :
         \E n \in Leaves : edge[node[n].up_edge].str = s /\ node[n].index = k
    /\ \A n, m \in Leaves : Path[n] = Path[m] => n = m

(* Where an extension is made, the path found by reusing the last end, by  *)
(* a suffix link and skip/count, or by naive descent reads exactly items   *)
(* j..i-1 of the string; it never ends at a leaf, so that Rule 1 is never  *)
(* applied explicitly, and the item to add is item i.                      *)
ExtensionInPlace ==
  pc = "insert" =>
    /\ EndWord = Items(cur, j, i - 1)
    /\ end.node # NULL => ~ lst_node_is_leaf(end.node)
    /\ skip.extra = i

(* Every inner node has a suffix link to the node that reads its word      *)
(* without the first item, except the one the last extension created.      *)
SuffixLinksRight ==
  \A n \in Inner \ { prev_new_node } :
    LET m == node[n].suffix_link_node
    IN  m # NULL /\ Path[m] = Tail(Path[n])

(* Between two phases every suffix of the items added so far can be read   *)
(* from the root, although the extensions after a Rule 3 were never made.  *)
ImplicitTree ==
  pc = "phase" =>
    \A k \in 0..(i - 1) : Items(cur, k, i - 1) \in Vocabulary

(* Every call of lst_stree_add_string returns.  Where duplicates are not   *)
(* allowed one is never added a second time, and no string is turned away  *)
(* that could not be read from the root already.                           *)
AddStringReturns ==
  /\ pc # "idle" ~> pc = "idle"
  /\ [][ pc = "check" /\ pc' # "check" =>
           /\ (\E s \in Registered : strings[s] = strings[cur]) => pc' = "idle"
           /\ pc' = "idle" => strings[cur] \in Vocabulary ]_vars

(* The tree implements the index its header promises.                      *)
Index == INSTANCE SubstringIndex WITH
  Words      <- { Append(w, -s) : w \in Inputs, s \in 1..MaxStrings },
  corpus     <- { Append(strings[s], -s) : s \in Registered },
  vocabulary <- Vocabulary,
  busy       <- pc \notin { "idle", "check", "enter" }

IndexSpec == Index!Spec
=============================================================================
