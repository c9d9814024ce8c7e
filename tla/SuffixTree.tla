------------------------------ MODULE SuffixTree ------------------------------
(***************************************************************************)
(* The generalized suffix tree of src/lst_stree.c: Ukkonen's algorithm, as *)
(* lst_stree_add_string runs it over one string after another.             *)
(*                                                                         *)
(* The C code is sequential; a step of this module is one iteration of one *)
(* of its loops: an edge crossed by stree_follow_string_slow or            *)
(* stree_follow_string, the head of a phase, the location of the next      *)
(* suffix, an extension.  Nodes and edges are numbered in the order they   *)
(* are allocated, NULL is 0, and pointers are those numbers.               *)
(***************************************************************************)
EXTENDS Integers, Sequences, FiniteSets

CONSTANTS
  Inputs,       \* the words that may be added: sequences of items
  MaxStrings    \* bound: how many times lst_stree_add_string is called

ASSUME InputsAssumption == Inputs \subseteq Seq(Nat) \ { <<>> }
ASSUME MaxStringsAssumption == MaxStrings \in Nat

NULL  == 0
Root  == 1      \* tree->root_node, the first node allocated
Local == 0      \* an edge whose end_index is its own end_index_local
EMPTY == -1     \* LST_EMPTY_STRING

VARIABLES
  \* struct lst_stree
  strings,               \* the string objects handed to the tree so far
  hash,                  \* string_hash: hash[s] is the index of object s, or -1
  num_strings, string_index, allow_duplicates, needs_visitor_update,
  phases,                \* the phase counter of each object
  node, edge,            \* the nodes and edges allocated
  leafs,                 \* the list of leafs, head first
  \* locals of lst_stree_add_string, stree_add_string_impl and the walks
  pc, i, j, last_extension, stop_extensions, use_end, find_skipstring,
  prev_new_node, end, skip

tableVars == << strings, hash, string_index, allow_duplicates >>
doneVars  == << num_strings, needs_visitor_update >>
shapeVars == << node, edge, leafs >>
loopVars  == << i, j, last_extension, stop_extensions, use_end,
                find_skipstring, prev_new_node >>
vars == << tableVars, doneVars, phases, shapeVars, pc, loopVars, end, skip >>

-----------------------------------------------------------------------------
(* Strings.  Item k of object s, counted from 0; the item after the last   *)
(* one is the end-of-string marker, equal to no marker of another object.  *)

cur == Len(strings)      \* the object lst_stree_add_string is working on

num_items(s) == Len(strings[s]) + 1

Item(s, k) == IF k < Len(strings[s]) THEN strings[s][k + 1] ELSE -s

lst_string_eq(s1, k1, s2, k2) ==
  /\ k1 < num_items(s1)
  /\ k2 < num_items(s2)
  /\ Item(s1, k1) = Item(s2, k2)

lst_string_items_common(s1, off1, s2, off2, max) ==
  LET agree == { 0 } \cup { n \in 1..max :
                   \A m \in 0..(n - 1) : lst_string_eq(s1, off1 + m, s2, off2 + m) }
  IN  CHOOSE n \in agree : \A m \in agree : m <= n

(* Nodes, edges and ends of paths.                                         *)

end_index(e) == IF edge[e].phase = Local THEN edge[e].end_local
                                         ELSE phases[edge[e].phase]

lst_edge_get_length(e) == end_index(e) - edge[e].start_index + 1

kids(n) == { e \in DOMAIN edge : edge[e].src = n }

lst_node_is_leaf(n) == kids(n) = {}

lst_node_get_parent(n) == edge[node[n].up_edge].src

node_find_edge_with_startitem(n, s, k) ==
  LET fit == { e \in kids(n) : lst_string_eq(edge[e].str, edge[e].start_index, s, k) }
  IN  IF fit = {} THEN NULL ELSE CHOOSE e \in fit : TRUE

stree_path_end_node(n)         == [node |-> n, edge |-> NULL, offset |-> 0]
stree_path_end_edge(e, offset) == [node |-> NULL, edge |-> e, offset |-> offset]

\* One item further down: into edge e from a node, or along the edge of p.
stree_path_end_advance(p, e) ==
  LET down == IF p.node # NULL THEN e ELSE p.edge
      off  == p.offset + 1
  IN  IF off = lst_edge_get_length(down)
        THEN stree_path_end_node(edge[down].dst)
        ELSE stree_path_end_edge(down, off)

\* A node fresh from node_new, and the two kinds of edges.
node_new(up, num_kids, index) ==
  [up_edge |-> up, suffix_link_node |-> NULL, num_kids |-> num_kids, index |-> index]

edge_new(src, dst, s, start, last) ==
  [src |-> src, dst |-> dst, str |-> s, start_index |-> start,
   end_local |-> last, phase |-> Local]

edge_leaf_new(src, dst, s, start, phase) ==
  [edge_new(src, dst, s, start, 0) EXCEPT !.phase = phase]

\* Mutant of LinkLeaf: a leaf that is linked already is linked again.
LinkLeaf_Again(list, n) == << n >> \o list

\* edge_leaf_new links the leaf into tree->leafs unless it is linked already.
LinkLeaf(list, n) ==
  IF \E k \in DOMAIN list : list[k] = n THEN list ELSE << n >> \o list

-----------------------------------------------------------------------------
(* The locals before a string is added.  They are dead between two calls.  *)

NoWalk == [node |-> NULL, str |-> 0, start |-> 0, done |-> 0, todo |-> 0, extra |-> 0]

WalkFromRoot(n) ==
  [node |-> Root, str |-> 0, start |-> 0, done |-> 0, todo |-> n, extra |-> 0]

\* lst_stree_init: a root without kids.
Init ==
  /\ strings = << >> /\ hash = << >> /\ phases = << >>
  /\ string_index = 0 /\ num_strings = 0
  /\ allow_duplicates = TRUE /\ needs_visitor_update = FALSE
  /\ node = << node_new(NULL, 0, -1) >> /\ edge = << >> /\ leafs = << >>
  /\ pc = "idle" /\ i = 0 /\ j = 0 /\ last_extension = 0
  /\ stop_extensions = FALSE /\ use_end = FALSE /\ find_skipstring = TRUE
  /\ prev_new_node = NULL
  /\ end = stree_path_end_node(Root) /\ skip = NoWalk

\* lst_stree_allow_duplicates, between two additions.
AllowDuplicates(flag) ==
  /\ pc = "idle"
  /\ allow_duplicates' = flag
  /\ UNCHANGED << strings, hash, string_index, doneVars, phases, shapeVars,
                  pc, loopVars, end, skip >>

(***************************************************************************)
(* lst_stree_add_string.  When duplicates are not allowed the string is    *)
(* first matched against the tree, and refused if all its items are there. *)
(***************************************************************************)
AddString(w) ==
  /\ pc = "idle"
  /\ Len(strings) < MaxStrings
  /\ strings' = Append(strings, w)
  /\ hash' = Append(hash, -1)
  /\ phases' = Append(phases, 0)
  /\ IF allow_duplicates
       THEN pc' = "enter" /\ skip' = NoWalk
       ELSE pc' = "check" /\ skip' = WalkFromRoot(Len(w) + 1)
  /\ UNCHANGED << string_index, allow_duplicates, doneVars, shapeVars, loopVars, end >>

\* Registers the object in the hash under the next index.
Register ==
  /\ hash' = [hash EXCEPT ![cur] = string_index]
  /\ string_index' = string_index + 1
  /\ UNCHANGED << strings, allow_duplicates, doneVars, phases >>

\* stree_add_string_impl, first string: a leaf edge with a single item.
EnterFirstString ==
  /\ pc = "enter" /\ num_strings = 0
  /\ Register
  /\ node' = Append([node EXCEPT ![Root].num_kids = @ + 1], node_new(Len(edge) + 1, 0, 0))
  /\ edge' = Append(edge, edge_leaf_new(Root, Len(node) + 1, cur, 0, cur))
  /\ leafs' = LinkLeaf(leafs, Len(node) + 1)
  /\ end' = stree_path_end_edge(Len(edge) + 1, 0)
  /\ i' = 1
  /\ pc' = "phase"
  /\ UNCHANGED << j, last_extension, stop_extensions, use_end, find_skipstring,
                  prev_new_node, skip >>

\* stree_add_string_impl, later strings: match the string from the root.
EnterNextString ==
  /\ pc = "enter" /\ num_strings > 0
  /\ Register
  /\ skip' = WalkFromRoot(num_items(cur))
  /\ pc' = "match"
  /\ UNCHANGED << shapeVars, loopVars, end >>

(***************************************************************************)
(* stree_follow_string_slow, one edge per step.  It is called to look for  *)
(* a duplicate ("check") and to skip the phases of the prefix that is      *)
(* already in the tree ("match").                                          *)
(***************************************************************************)
MatchEdge  == node_find_edge_with_startitem(skip.node, cur, skip.done)
MatchItems == lst_string_items_common(edge[MatchEdge].str, edge[MatchEdge].start_index,
                                      cur, skip.done, skip.todo)
MatchWholeEdge == MatchEdge # NULL /\ MatchItems >= lst_edge_get_length(MatchEdge)

MatchStep ==
  /\ pc \in { "check", "match" }
  /\ skip.todo > 0 /\ MatchWholeEdge
  /\ skip' = [skip EXCEPT !.node = edge[MatchEdge].dst,
                          !.done = @ + lst_edge_get_length(MatchEdge),
                          !.todo = @ - lst_edge_get_length(MatchEdge)]
  /\ UNCHANGED << tableVars, doneVars, phases, shapeVars, pc, loopVars, end >>

MatchEnds == skip.todo = 0 \/ ~ MatchWholeEdge

\* Mutant of MatchDone: the items of the edges crossed before are forgotten.
MatchDone_LastEdgeOnly ==
  IF skip.todo > 0 /\ MatchEdge # NULL THEN MatchItems ELSE skip.done

\* items_done when stree_follow_string_slow returns.
MatchDone ==
  IF skip.todo > 0 /\ MatchEdge # NULL THEN skip.done + MatchItems ELSE skip.done

CheckDuplicate ==
  /\ pc = "check" /\ MatchEnds
  /\ pc' = IF MatchDone = num_items(cur) - 1 THEN "idle" ELSE "enter"
  /\ skip' = NoWalk
  /\ UNCHANGED << tableVars, doneVars, phases, shapeVars, loopVars, end >>

MatchResult ==
  /\ pc = "match" /\ MatchEnds
  /\ end' = IF skip.todo > 0 /\ MatchEdge # NULL
              THEN stree_path_end_edge(MatchEdge, MatchItems)
              ELSE stree_path_end_node(skip.node)
  /\ i' = MatchDone
  /\ last_extension' = -1
  /\ find_skipstring' = FALSE
  /\ pc' = "phase"
  /\ skip' = NoWalk
  /\ UNCHANGED << tableVars, doneVars, phases, shapeVars, j, stop_extensions,
                  use_end, prev_new_node >>

(***************************************************************************)
(* The phase loop of stree_add_string_impl.  BeginPhase makes every leaf   *)
(* of the string longer by one item, through the phase counter their edges *)
(* point to.                                                               *)
(***************************************************************************)
BeginPhase ==
  /\ pc = "phase" /\ i < num_items(cur)
  /\ phases' = [phases EXCEPT ![cur] = i]
  /\ use_end' = stop_extensions
  /\ stop_extensions' = FALSE
  /\ j' = last_extension + 1
  /\ pc' = "extend"
  /\ UNCHANGED << tableVars, doneVars, shapeVars, i, last_extension,
                  find_skipstring, prev_new_node, end, skip >>

MoreExtensions == j < i + 1 /\ ~ stop_extensions

\* Two mutants of EndPhase: the extension that Rule 3 cut short is not made
\* again in the next phase, or the phase is not advanced.
EndPhase_Rule3Done ==
  /\ pc = "extend" /\ ~ MoreExtensions
  /\ last_extension' = j - 1
  /\ i' = i + 1
  /\ pc' = "phase"
  /\ UNCHANGED << tableVars, doneVars, phases, shapeVars, j, stop_extensions,
                  use_end, find_skipstring, prev_new_node, end, skip >>

EndPhase_SamePhase ==
  /\ pc = "extend" /\ ~ MoreExtensions
  /\ last_extension' = j - 1 - (IF stop_extensions THEN 1 ELSE 0)
  /\ pc' = "phase"
  /\ UNCHANGED << tableVars, doneVars, phases, shapeVars, i, j, stop_extensions,
                  use_end, find_skipstring, prev_new_node, end, skip >>

EndPhase ==
  /\ pc = "extend" /\ ~ MoreExtensions
  /\ last_extension' = j - 1 - (IF stop_extensions THEN 1 ELSE 0)
  /\ i' = i + 1
  /\ pc' = "phase"
  /\ UNCHANGED << tableVars, doneVars, phases, shapeVars, j, stop_extensions,
                  use_end, find_skipstring, prev_new_node, end, skip >>

\* Mutant of EndString: only the first string makes the labels of the
\* algorithms stale.
EndString_LabelsKept ==
  /\ pc = "phase" /\ i >= num_items(cur)
  /\ num_strings' = num_strings + 1
  /\ needs_visitor_update' = (needs_visitor_update \/ num_strings = 0)
  /\ pc' = "idle"
  /\ i' = 0 /\ j' = 0 /\ last_extension' = 0
  /\ stop_extensions' = FALSE /\ use_end' = FALSE /\ find_skipstring' = TRUE
  /\ prev_new_node' = NULL
  /\ end' = stree_path_end_node(Root) /\ skip' = NoWalk
  /\ UNCHANGED << tableVars, phases, shapeVars >>

EndString ==
  /\ pc = "phase" /\ i >= num_items(cur)
  /\ num_strings' = num_strings + 1
  /\ needs_visitor_update' = TRUE
  /\ pc' = "idle"
  /\ i' = 0 /\ j' = 0 /\ last_extension' = 0
  /\ stop_extensions' = FALSE /\ use_end' = FALSE /\ find_skipstring' = TRUE
  /\ prev_new_node' = NULL
  /\ end' = stree_path_end_node(Root) /\ skip' = NoWalk
  /\ UNCHANGED << tableVars, phases, shapeVars >>

(***************************************************************************)
(* The location of suffix j: the previous end is used again after Rule 3   *)
(* and after the initial match; otherwise stree_get_skipstring climbs to a *)
(* node with a suffix link, and stree_follow_string walks down from it.    *)
(***************************************************************************)
SkipString(n, s, start, last, extra) ==
  [node |-> n, str |-> s, start |-> start, done |-> 0,
   todo |-> IF start = EMPTY THEN 0 ELSE last - start + 1, extra |-> extra]

\* What is left of the caller's skipstring, when it is not changed.
EmptySkip(n) == SkipString(n, cur, EMPTY, 0, i)

\* From the root the caller descends as in the naive algorithm.
NaiveSkip == IF i - 1 < j THEN EmptySkip(Root) ELSE SkipString(Root, cur, j, i - 1, i)

SkipFromNode(n) ==
  LET up == node[n].up_edge
      pa == lst_node_get_parent(n)
  IN  IF node[n].suffix_link_node # NULL THEN EmptySkip(node[n].suffix_link_node)
      ELSE IF n = Root THEN EmptySkip(Root)
      ELSE IF pa = Root THEN NaiveSkip
      ELSE SkipString(node[pa].suffix_link_node, edge[up].str,
                      edge[up].start_index, end_index(up), 0)

\* Mutant of SkipFromEdge: the end index is taken one item too early.
SkipFromEdge_OneShort(e, offset) ==
  IF edge[e].src = Root THEN NaiveSkip
  ELSE SkipString(node[edge[e].src].suffix_link_node, edge[e].str,
                  edge[e].start_index, edge[e].start_index + offset - 2, i)

SkipFromEdge(e, offset) ==
  IF edge[e].src = Root THEN NaiveSkip
  ELSE SkipString(node[edge[e].src].suffix_link_node, edge[e].str,
                  edge[e].start_index, edge[e].start_index + offset - 1, i)

stree_get_skipstring ==
  LET s == IF end.node # NULL THEN SkipFromNode(end.node)
                              ELSE SkipFromEdge(end.edge, end.offset)
  IN  IF s.node = Root /\ s.start # EMPTY THEN NaiveSkip ELSE s

ReuseEnd ==
  /\ pc = "extend" /\ MoreExtensions
  /\ use_end \/ ~ find_skipstring
  /\ use_end' = FALSE
  /\ skip' = EmptySkip(NULL)
  /\ pc' = "insert"
  /\ UNCHANGED << tableVars, doneVars, phases, shapeVars, i, j, last_extension,
                  stop_extensions, find_skipstring, prev_new_node, end >>

ClimbToSuffixLink ==
  /\ pc = "extend" /\ MoreExtensions
  /\ ~ use_end /\ find_skipstring
  /\ skip' = stree_get_skipstring
  /\ pc' = "follow"
  /\ UNCHANGED << tableVars, doneVars, phases, shapeVars, loopVars, end >>

FollowEdge == node_find_edge_with_startitem(skip.node, skip.str, skip.start + skip.done)

FollowSkipsEdge ==
  /\ skip.node # NULL /\ skip.todo > 0
  /\ FollowEdge # NULL /\ skip.todo >= lst_edge_get_length(FollowEdge)

\* stree_follow_string skips an edge that is not longer than what is left.
FollowStep ==
  /\ pc = "follow" /\ FollowSkipsEdge
  /\ skip' = [skip EXCEPT !.node = edge[FollowEdge].dst,
                          !.done = @ + lst_edge_get_length(FollowEdge),
                          !.todo = @ - lst_edge_get_length(FollowEdge)]
  /\ UNCHANGED << tableVars, doneVars, phases, shapeVars, pc, loopVars, end >>

FollowResult ==
  /\ pc = "follow" /\ ~ FollowSkipsEdge
  /\ end' = IF skip.node = NULL THEN end
            ELSE IF skip.todo = 0 \/ FollowEdge = NULL THEN stree_path_end_node(skip.node)
            ELSE stree_path_end_edge(FollowEdge,
                   lst_string_items_common(edge[FollowEdge].str, edge[FollowEdge].start_index,
                                           skip.str, skip.start + skip.done, skip.todo))
  /\ pc' = "insert"
  /\ UNCHANGED << tableVars, doneVars, phases, shapeVars, loopVars, skip >>

(***************************************************************************)
(* The extension itself: stree_extend_at_node or stree_extend_at_edge, and *)
(* the suffix link of the inner node the previous extension created.       *)
(***************************************************************************)
Linked(nodes, target) ==
  IF prev_new_node = NULL THEN nodes
  ELSE [nodes EXCEPT ![prev_new_node].suffix_link_node = target]

\* Mutant of NextExtension: prev_new_node is not reset once it is linked.
NextExtension_KeepPrev(new_inner_node) ==
  /\ pc = "insert"
  /\ prev_new_node' = IF new_inner_node = NULL THEN prev_new_node ELSE new_inner_node
  /\ find_skipstring' = TRUE
  /\ j' = j + 1
  /\ skip' = NoWalk
  /\ pc' = "extend"
  /\ UNCHANGED << tableVars, doneVars, i, last_extension, use_end >>

NextExtension(new_inner_node) ==
  /\ pc = "insert"
  /\ prev_new_node' = new_inner_node
  /\ find_skipstring' = TRUE
  /\ j' = j + 1
  /\ skip' = NoWalk
  /\ pc' = "extend"
  /\ UNCHANGED << tableVars, doneVars, i, last_extension, use_end >>

NodeEdge == node_find_edge_with_startitem(end.node, cur, skip.extra)

\* Rule 1: stree_extend_label_at_leaf writes through the end_index pointer.
ExtendLabel(e) ==
  /\ phases' = IF edge[e].phase = Local THEN phases
               ELSE [phases EXCEPT ![edge[e].phase] = @ + 1]
  /\ edge' = IF edge[e].phase = Local THEN [edge EXCEPT ![e].end_local = @ + 1] ELSE edge
  /\ end' = stree_path_end_edge(e, lst_edge_get_length(e) + 1 - 2)
  /\ node' = Linked(node, end.node)
  /\ UNCHANGED leafs

\* Mutant of AddLeafAt: the leaf gets the phase as the position of its suffix.
AddLeafAt_IndexOfPhase(n) ==
  /\ node' = Linked(Append([node EXCEPT ![n].num_kids = @ + 1],
                           node_new(Len(edge) + 1, 0, i)), n)
  /\ edge' = Append(edge, edge_leaf_new(n, Len(node) + 1, cur, skip.extra, cur))
  /\ leafs' = LinkLeaf(leafs, Len(node) + 1)
  /\ UNCHANGED << phases, end >>

\* Rule 2 at a node: a new leaf below it.
AddLeafAt(n) ==
  /\ node' = Linked(Append([node EXCEPT ![n].num_kids = @ + 1],
                           node_new(Len(edge) + 1, 0, j)), n)
  /\ edge' = Append(edge, edge_leaf_new(n, Len(node) + 1, cur, skip.extra, cur))
  /\ leafs' = LinkLeaf(leafs, Len(node) + 1)
  /\ UNCHANGED << phases, end >>

ExtendAtNode ==
  /\ end.node # NULL
  /\ NextExtension(NULL)
  /\ IF lst_node_is_leaf(end.node)
       THEN ExtendLabel(node[end.node].up_edge)
       ELSE NodeEdge = NULL /\ AddLeafAt(end.node)
  /\ UNCHANGED stop_extensions

\* Mutant of StopAtNode: the suffix link of the last inner node is not set
\* when the extensions stop at a node.
StopAtNode_NoLink ==
  /\ end.node # NULL /\ ~ lst_node_is_leaf(end.node) /\ NodeEdge # NULL
  /\ NextExtension(NULL)
  /\ end' = stree_path_end_advance(end, NodeEdge)
  /\ stop_extensions' = TRUE
  /\ UNCHANGED << phases, shapeVars >>

\* Rule 3 at a node: the item is there already.
StopAtNode ==
  /\ end.node # NULL /\ ~ lst_node_is_leaf(end.node) /\ NodeEdge # NULL
  /\ NextExtension(NULL)
  /\ end' = stree_path_end_advance(end, NodeEdge)
  /\ node' = Linked(node, end.node)
  /\ stop_extensions' = TRUE
  /\ UNCHANGED << phases, edge, leafs >>

EdgeHasItem ==
  lst_string_eq(cur, skip.extra, edge[end.edge].str, edge[end.edge].start_index + end.offset)

\* Rule 3 within an edge.
StopAtEdge ==
  /\ end.node = NULL /\ EdgeHasItem
  /\ NextExtension(NULL)
  /\ end' = stree_path_end_advance(end, NULL)
  /\ node' = Linked(node, NULL)
  /\ stop_extensions' = TRUE
  /\ UNCHANGED << phases, edge, leafs >>

\* Rule 2 within an edge: split it.  The lower half of a leaf edge keeps the
\* end_index pointer of the whole; the upper half gets an end of its own.
SplitEdge ==
  LET up    == end.edge
      old   == edge[up].dst
      inner == Len(node) + 1
      leaf  == Len(node) + 2
      split == edge[up].start_index + end.offset
      lower == IF lst_node_is_leaf(old)
                 THEN edge_leaf_new(inner, old, edge[up].str, split, edge[up].phase)
                 ELSE edge_new(inner, old, edge[up].str, split, end_index(up))
      upper == [edge[up] EXCEPT !.phase = Local, !.end_local = split - 1, !.dst = inner]
      nodes == Append(Append([node EXCEPT ![old].up_edge = Len(edge) + 1],
                             node_new(up, 2, -1)),
                      node_new(Len(edge) + 2, 0, j))
  IN  /\ end.node = NULL /\ ~ EdgeHasItem
      /\ NextExtension(inner)
      /\ node' = Linked(nodes, inner)
      /\ edge' = Append(Append([edge EXCEPT ![up] = upper], lower),
                        edge_leaf_new(inner, leaf, cur, skip.extra, cur))
      /\ leafs' = LinkLeaf(IF lst_node_is_leaf(old) THEN LinkLeaf(leafs, old) ELSE leafs, leaf)
      /\ UNCHANGED << phases, end, stop_extensions >>

-----------------------------------------------------------------------------
Work ==
  \/ EnterFirstString \/ EnterNextString
  \/ MatchStep \/ CheckDuplicate \/ MatchResult
  \/ BeginPhase \/ EndPhase \/ EndString
  \/ ReuseEnd \/ ClimbToSuffixLink \/ FollowStep \/ FollowResult
  \/ ExtendAtNode \/ StopAtNode \/ StopAtEdge \/ SplitEdge

Next ==
  \/ \E w \in Inputs : AddString(w)
  \/ \E flag \in BOOLEAN : AllowDuplicates(flag)
  \/ Work

Spec == Init /\ [][Next]_vars

\* A call of the library runs to its end: the code is sequential.
FairSpec == Spec /\ WF_vars(Work)

-----------------------------------------------------------------------------
Pcs == { "idle", "enter", "check", "match", "phase", "extend", "follow", "insert" }

NodeType == [up_edge : 0..Len(edge), suffix_link_node : 0..Len(node),
             num_kids : Nat, index : Int]

EdgeType == [src : 1..Len(node), dst : 1..Len(node), str : 1..Len(strings),
             start_index : Int, end_local : Int, phase : 0..Len(strings)]

SkipType == [node : 0..Len(node), str : 0..Len(strings), start : Int,
             done : Int, todo : Int, extra : Int]

EndType == [node : 0..Len(node), edge : 0..Len(edge), offset : Int]

TableType ==
  /\ strings \in Seq(Inputs)
  /\ hash \in Seq(Int) /\ Len(hash) = Len(strings)
  /\ phases \in Seq(Int) /\ Len(phases) = Len(strings)
  /\ string_index \in Nat /\ num_strings \in Nat
  /\ allow_duplicates \in BOOLEAN /\ needs_visitor_update \in BOOLEAN

ShapeType ==
  /\ node \in Seq(NodeType) /\ Root \in DOMAIN node
  /\ edge \in Seq(EdgeType)
  /\ leafs \in Seq(DOMAIN node)

LocalType ==
  /\ pc \in Pcs
  /\ i \in Int /\ j \in Int /\ last_extension \in Int
  /\ stop_extensions \in BOOLEAN /\ use_end \in BOOLEAN /\ find_skipstring \in BOOLEAN
  /\ prev_new_node \in 0..Len(node)
  /\ end \in EndType
  /\ skip \in SkipType

(* Every variable holds a value of its C type, and every pointer points to *)
(* an object that was allocated (lst_structs.h).                           *)
TypeOK == TableType /\ ShapeType /\ LocalType

(* The two directions of the tree agree: up_edge of a node and dst_node of *)
(* an edge are inverse to each other, through every split of an edge       *)
(* (stree_extend_at_edge redirects four pointers).                         *)
EdgesAgree ==
  /\ node[Root].up_edge = NULL
  /\ \A n \in DOMAIN node \ { Root } :
       node[n].up_edge \in DOMAIN edge /\ edge[node[n].up_edge].dst = n
  /\ \A e \in DOMAIN edge : edge[e].dst # Root /\ node[edge[e].dst].up_edge = e

(* num_kids, which lst_alg_bus compares with its count of visits, is the   *)
(* number of edges in the kids list.                                       *)
KidsCounted == \A n \in DOMAIN node : node[n].num_kids = Cardinality(kids(n))

(* tree->leafs holds every leaf once and nothing else: splitting a leaf    *)
(* edge goes through edge_leaf_new again for a leaf that is linked already.*)
LeafsListed ==
  /\ \A n \in DOMAIN node \ { Root } :
       lst_node_is_leaf(n) <=> \E k \in DOMAIN leafs : leafs[k] = n
  /\ \A k, m \in DOMAIN leafs : leafs[k] = leafs[m] => k = m
  /\ \A k \in DOMAIN leafs : leafs[k] # Root

(* Exactly the edges to leafs end where a phase counter says: the end of   *)
(* an inner edge never moves (the comment in stree_extend_at_edge).        *)
LeafEdgesOpen ==
  \A e \in DOMAIN edge : lst_node_is_leaf(edge[e].dst) <=> edge[e].phase # Local

(* Where an addition stands: it works on an object, on a tree that is not  *)
(* empty once there is a string in it, and end points to a node or into an *)
(* edge, never to both.                                                    *)
WellPlaced ==
  /\ pc # "idle" => cur \in DOMAIN strings
  /\ num_strings > 0 \/ pc \in { "match", "phase", "extend", "follow", "insert" }
       => ~ lst_node_is_leaf(Root)
  /\ \/ end.node \in DOMAIN node /\ end.edge = NULL
     \/ end.node = NULL /\ end.edge \in DOMAIN edge
  /\ pc \in { "check", "match" } => skip.node \in DOMAIN node

(* The tree is well formed after every step: the next one reads it through *)
(* up_edge, dst_node, num_kids, leafs and the end_index pointers alike.    *)
TreeShape == EdgesAgree /\ KidsCounted /\ LeafsListed /\ LeafEdgesOpen

(* The inductive invariant: TypeOK is not inductive alone, as its pointers *)
(* are only good in a tree whose shape is, and the other way around.       *)
IInv == TypeOK /\ TreeShape /\ WellPlaced

-----------------------------------------------------------------------------
Leaves == { n \in DOMAIN node : n # Root /\ lst_node_is_leaf(n) }
Inner  == { n \in DOMAIN node : n # Root /\ ~ lst_node_is_leaf(n) }

(* Once a leaf, always a leaf, at the same suffix; and a suffix link, once *)
(* set, is never set again.                                                *)
OnceALeaf ==
  [][ /\ \A n \in Leaves : n \in Leaves' /\ node'[n].index = node[n].index
      /\ \A n \in Inner : node[n].suffix_link_node # NULL =>
           node'[n].suffix_link_node = node[n].suffix_link_node ]_vars

(* For that: the inner node whose link the next extension sets has none    *)
(* yet, and no addition leaves such a node to the next one.                *)
LinkPending ==
  /\ prev_new_node # NULL => node[prev_new_node].suffix_link_node = NULL
  /\ pc \in { "idle", "check", "enter" } => prev_new_node = NULL
=============================================================================
