--------------------------- MODULE CommonSubstrings ---------------------------
(***************************************************************************)
(* The queries of src/lst_algorithms.c over the tree that SuffixTree       *)
(* builds: the bottom-up search lst_alg_bus that labels every node with    *)
(* the indices of the strings that pass through it, the depth-first search *)
(* for the deepest nodes with enough labels, and the loop of               *)
(* lst_alg_first_k_longest_common_substring that repeats it.               *)
(*                                                                         *)
(* A step is one iteration of a loop: one node visited.  Strings may be    *)
(* added between two calls; the labels are cached in the tree behind       *)
(* needs_visitor_update.                                                   *)
(***************************************************************************)
EXTENDS SuffixTreeWords, SequencesExt

CONSTANTS
  Calls,        \* the calls of the public functions to explore
  MaxCalls,     \* bound: how many of them are made
  Checked,      \* the words lst_alg_substring_check is asked for
  Behind        \* the bytes that may lie behind the data of a string object

ASSUME CallsAssumption ==
  Calls \subseteq [fn : { "lcs", "k_lcs", "first_k", "lrs" }, min_len : Nat, max_len : Nat,
                   k : Nat, zero_behind : BOOLEAN]
ASSUME MaxCallsAssumption == MaxCalls \in Nat
ASSUME CheckedAssumption == Checked \subseteq Seq(Nat \ { 0 }) \ { << >> }
ASSUME BehindAssumption == Behind \subseteq Nat

\* first_k takes the strlen of what it finds: it is called for texts.
ASSUME TextsAssumption ==
  (\E c \in Calls : c.fn = "first_k") => Inputs \subseteq Seq(Nat \ { 0 })

VARIABLES
  apc, call, calls,      \* where the call is, its arguments, how many were made
  \* lst_alg_bus
  pass,                  \* the callback: "clear" or "set"
  cursor, queue, bus_visited,
  \* the labels
  string_indices,        \* node -> set of indices, for the nodes that have a set
  all_string_indices, tree_string_indices,
  \* alg_longest_substring and lst_alg_dfs
  stack, nodes, deepest, num_deepest,
  \* the result, and lst_alg_first_k_longest_common_substring
  tmp_result, result, tmp_max_len, global_max_len,
  \* lst_alg_substring_check
  walk

busVars    == << pass, cursor, queue, bus_visited >>
labelVars  == << string_indices, all_string_indices, tree_string_indices >>
searchVars == << stack, nodes, deepest, num_deepest >>
resultVars == << tmp_result, result, tmp_max_len, global_max_len >>
callVars   == << call, calls, walk >>
algVars    == << apc, callVars, busVars, labelVars, searchVars, resultVars >>
treeVars   == vars
allVars    == << treeVars, algVars >>

\* zero_behind: a byte 0 happens to lie behind the data of every string that
\* the call makes.  lst_string_new does not allocate one.
NoCall   == [fn |-> "none", min_len |-> 0, max_len |-> 0, k |-> 0, zero_behind |-> TRUE]
NoWalking == [node |-> 0, word |-> << >>, idx |-> 0, after_word |-> 0, after_data |-> 0, res |-> 0]

\* after: the bytes behind the members, in a set whose members are checked.
NullSet  == [null |-> TRUE, members |-> << >>, after |-> << >>]      \* no LST_StringSet
EmptySet == [null |-> FALSE, members |-> << >>, after |-> << >>]

INT_MAX == 2147483647

\* n >= m for an int n and a u_int m: a negative n is converted to a huge value.
UnsignedAtLeast(n, m) == n < 0 \/ n >= m

AlgInit ==
  /\ Init
  /\ apc = "idle" /\ call = NoCall /\ calls = 0
  /\ pass = "clear" /\ cursor = 0 /\ queue = << >> /\ bus_visited = << >>
  /\ string_indices = << >> /\ all_string_indices = {} /\ tree_string_indices = {}
  /\ stack = << >> /\ nodes = << >> /\ deepest = 0 /\ num_deepest = 0
  /\ tmp_result = NullSet /\ result = NullSet
  /\ tmp_max_len = 0 /\ global_max_len = 0
  /\ walk = NoWalking

\* The tree is built and changed between two calls.
TreeStep == apc = "idle" /\ Next /\ UNCHANGED algVars

(***************************************************************************)
(* A call.  first_k starts with an empty set of its own; the others go     *)
(* straight to alg_longest_substring.  The callers have strings to search. *)
(***************************************************************************)
Call(c) ==
  /\ pc = "idle" /\ apc = "idle"
  /\ num_strings > 0 /\ calls < MaxCalls
  /\ call' = c
  /\ calls' = calls + 1
  /\ result' = IF c.fn = "first_k" THEN EmptySet ELSE NullSet
  /\ tmp_max_len' = 0
  /\ tmp_result' = NullSet
  /\ apc' = "longest"
  /\ UNCHANGED << treeVars, walk, busVars, labelVars, searchVars, global_max_len >>

\* The max_len with which alg_longest_substring is called; a negative
\* tmp_max_len survives the conversion to u_int and back.
max_len == IF call.fn = "first_k" THEN tmp_max_len ELSE call.max_len

max_depth == IF max_len # 0 THEN max_len ELSE INT_MAX

\* lst_alg_bfs with alg_clear_busflag, and the start of the walk over the leafs.
StartBus(callback) ==
  /\ pass' = callback
  /\ bus_visited' = [n \in DOMAIN node |-> 0]
  /\ cursor' = 1
  /\ queue' = << >>
  /\ apc' = "bus"

StartSearch ==
  /\ stack' = << Root >> /\ nodes' = << >> /\ deepest' = 0 /\ num_deepest' = 0
  /\ apc' = "dfs"

\* lst_alg_longest_repeated_substring needs no labels.
WithoutLabels ==
  /\ apc = "longest" /\ call.fn = "lrs"
  /\ StartSearch
  /\ UNCHANGED << treeVars, callVars, busVars, labelVars, resultVars >>

\* lst_alg_set_indices: the labels of the last call serve again unless a
\* string was added since.
UseCachedLabels ==
  /\ apc = "longest" /\ call.fn # "lrs" /\ ~ needs_visitor_update
  /\ StartSearch
  /\ all_string_indices' = tree_string_indices
  /\ UNCHANGED << treeVars, callVars, busVars, string_indices, tree_string_indices,
                  resultVars >>

ClearLabels ==
  /\ apc = "longest" /\ call.fn # "lrs" /\ needs_visitor_update
  /\ all_string_indices' = {}
  /\ StartBus("clear")
  /\ UNCHANGED << treeVars, callVars, string_indices, tree_string_indices,
                  searchVars, resultVars >>

(***************************************************************************)
(* lst_alg_bus: the leafs in the order of their list, then a queue of      *)
(* inner nodes; a node that still has kids to come goes to the back.       *)
(***************************************************************************)
Callback(n) ==
  IF pass = "clear"
    THEN /\ string_indices' = [m \in DOMAIN string_indices \cup { n } |->
                                 IF m = n THEN {} ELSE string_indices[m]]
         /\ UNCHANGED all_string_indices
    ELSE LET pa   == lst_node_get_parent(n)
             own  == IF lst_node_is_leaf(n)
                       THEN string_indices[n] \cup { hash[edge[node[n].up_edge].str] }
                       ELSE string_indices[n]
             set  == [string_indices EXCEPT ![n] = own, ![pa] = @ \cup own]
         IN  IF n = Root
               THEN UNCHANGED << string_indices, all_string_indices >>
               ELSE /\ string_indices' = set
                    /\ all_string_indices' = all_string_indices \cup set[pa]

\* Two mutants of CountVisit: the parent is queued at every visit, or the
\* visit that queues it is not counted.
CountVisit_QueueAlways(n, rest) ==
  IF n = Root
    THEN queue' = rest /\ UNCHANGED bus_visited
    ELSE /\ bus_visited' = [bus_visited EXCEPT ![lst_node_get_parent(n)] = @ + 1]
         /\ queue' = Append(rest, lst_node_get_parent(n))

CountVisit_FirstFree(n, rest) ==
  IF n = Root
    THEN queue' = rest /\ UNCHANGED bus_visited
    ELSE LET pa     == lst_node_get_parent(n)
             queued == \E k \in DOMAIN rest : rest[k] = pa
         IN  IF queued \/ bus_visited[pa] > 0
               THEN bus_visited' = [bus_visited EXCEPT ![pa] = @ + 1] /\ queue' = rest
               ELSE queue' = Append(rest, pa) /\ UNCHANGED bus_visited

\* The visit is counted at the parent, which is queued at its first one.
CountVisit(n, rest) ==
  IF n = Root
    THEN queue' = rest /\ UNCHANGED bus_visited
    ELSE LET pa == lst_node_get_parent(n)
         IN  /\ bus_visited' = [bus_visited EXCEPT ![pa] = @ + 1]
             /\ queue' = IF bus_visited[pa] = 0 THEN Append(rest, pa) ELSE rest

BusLeaf ==
  /\ apc = "bus" /\ cursor <= Len(leafs)
  /\ Callback(leafs[cursor])
  /\ CountVisit(leafs[cursor], queue)
  /\ cursor' = cursor + 1
  /\ UNCHANGED << treeVars, apc, callVars, pass, tree_string_indices,
                  searchVars, resultVars >>

BusRequeue ==
  /\ apc = "bus" /\ cursor > Len(leafs) /\ queue # << >>
  /\ bus_visited[Head(queue)] < node[Head(queue)].num_kids
  /\ queue' = Append(Tail(queue), Head(queue))
  /\ UNCHANGED << treeVars, apc, callVars, pass, cursor, bus_visited, labelVars,
                  searchVars, resultVars >>

BusInner ==
  /\ apc = "bus" /\ cursor > Len(leafs) /\ queue # << >>
  /\ bus_visited[Head(queue)] >= node[Head(queue)].num_kids
  /\ Callback(Head(queue))
  /\ CountVisit(Head(queue), Tail(queue))
  /\ UNCHANGED << treeVars, apc, callVars, pass, cursor, tree_string_indices,
                  searchVars, resultVars >>

\* The first pass gave every node an empty set; the second one fills them.
BusCleared ==
  /\ apc = "bus" /\ cursor > Len(leafs) /\ queue = << >> /\ pass = "clear"
  /\ StartBus("set")
  /\ UNCHANGED << treeVars, callVars, labelVars, searchVars, resultVars >>

BusLabelled ==
  /\ apc = "bus" /\ cursor > Len(leafs) /\ queue = << >> /\ pass = "set"
  /\ needs_visitor_update' = FALSE
  /\ tree_string_indices' = all_string_indices
  /\ StartSearch
  /\ UNCHANGED << tableVars, num_strings, phases, shapeVars, pc, loopVars, end, skip,
                  callVars, busVars, string_indices, all_string_indices, resultVars >>

(***************************************************************************)
(* lst_alg_dfs with alg_find_deepest.                                      *)
(***************************************************************************)
lst_node_get_string_length(n) == Len(Path[n])

\* Mutant of Enough: exactly k strings instead of k or more.
Enough_Exactly(n) ==
  \/ call.fn = "lrs" /\ node[n].num_kids >= 1
  \/ call.fn = "lcs" /\ Cardinality(string_indices[n]) = Cardinality(all_string_indices)
  \/ call.fn \in { "k_lcs", "first_k" } /\ Cardinality(string_indices[n]) = call.k

\* alg_find_deepest goes below a node only if enough strings pass through it,
\* or, for repeated substrings, if it has kids.
Enough(n) ==
  \/ call.fn = "lrs" /\ node[n].num_kids >= 1
  \/ call.fn = "lcs" /\ Cardinality(string_indices[n]) = Cardinality(all_string_indices)
  \/ call.fn \in { "k_lcs", "first_k" } /\ Cardinality(string_indices[n]) >= call.k

\* The kids in the order of their list: new edges are inserted at its head,
\* and pushing them one by one reverses it.
Pushed(n, rest) ==
  LET oldestFirst == SetToSortSeq(kids(n), LAMBDA d, e : d < e)
  IN  [m \in DOMAIN oldestFirst |-> edge[oldestFirst[m]].dst] \o rest

\* Mutant of Deepest: a node as deep as the deepest one is not taken.
Deepest_NoTies(n, depth) ==
  IF depth > deepest /\ depth <= max_depth
    THEN nodes' = << n >> \o nodes /\ num_deepest' = 1 /\ deepest' = depth
    ELSE UNCHANGED << nodes, num_deepest, deepest >>

Deepest(n, depth) ==
  IF deepest <= max_depth
    THEN IF depth >= deepest /\ depth <= max_depth
           THEN /\ nodes' = << n >> \o nodes
                /\ num_deepest' = (IF depth > deepest THEN 0 ELSE num_deepest) + 1
                /\ deepest' = depth
           ELSE UNCHANGED << nodes, num_deepest, deepest >>
    ELSE IF depth >= max_depth
           THEN nodes' = << n >> \o nodes /\ num_deepest' = num_deepest + 1
                /\ UNCHANGED deepest
           ELSE UNCHANGED << nodes, num_deepest, deepest >>

Visit ==
  /\ apc = "dfs" /\ stack # << >> /\ Enough(Head(stack))
  /\ Deepest(Head(stack), lst_node_get_string_length(Head(stack)))
  /\ stack' = Pushed(Head(stack), Tail(stack))
  /\ UNCHANGED << treeVars, apc, callVars, busVars, labelVars, resultVars >>

Prune ==
  /\ apc = "dfs" /\ stack # << >> /\ ~ Enough(Head(stack))
  /\ stack' = Tail(stack)
  /\ UNCHANGED << treeVars, apc, callVars, busVars, labelVars, nodes, deepest,
                  num_deepest, resultVars >>

\* lst_node_get_string: the word of a node without the end-of-string marker,
\* cropped to max items when max is not 0.
lst_node_get_string(n, max) ==
  LET word == SelectSeq(Path[n], LAMBDA item : item >= 0)
  IN  IF max > 0 /\ max < lst_node_get_string_length(n) THEN SubSeq(word, 1, max) ELSE word

\* The nodes found last are the deepest ones: the first num_deepest of the
\* list give the result.
Taken == SelectSeq(SubSeq(nodes, 1, num_deepest),
                   LAMBDA n : lst_node_get_string_length(n) >= call.min_len)

\* The number of labels goes to the caller's array: of a node without a set
\* of labels it is read through NULL.
Labelled(list) == ToSet(list) \subseteq DOMAIN string_indices

CollectCrashes ==
  /\ apc = "dfs" /\ stack = << >> /\ ~ Labelled(Taken)
  /\ apc' = "crashed"
  /\ UNCHANGED << treeVars, callVars, busVars, labelVars, searchVars, resultVars >>

MadeBehind == IF call.zero_behind THEN { 0 } ELSE Behind

\* The string of a leaf has room for the marker, which calloc left 0.
BytesAfter(list) ==
  { after \in [DOMAIN list -> MadeBehind \cup { 0 }] :
      \A m \in DOMAIN list : after[m] \in IF lst_node_is_leaf(list[m]) THEN { 0 } ELSE MadeBehind }

\* The root has no string, but a set is made for it.
Collect ==
  LET named == SelectSeq(Reverse(Taken), LAMBDA n : n # Root)
      set   == IF Taken = << >> THEN NullSet
               ELSE [EmptySet EXCEPT !.members =
                       [m \in DOMAIN named |-> lst_node_get_string(named[m], max_len)]]
  IN  /\ apc = "dfs" /\ stack = << >> /\ Labelled(Taken)
      /\ global_max_len' = IF max_len = 0 THEN deepest ELSE global_max_len
      /\ stack' = << >> /\ nodes' = << >> /\ deepest' = 0 /\ num_deepest' = 0
      /\ IF call.fn = "first_k"
           THEN /\ \E after \in BytesAfter(named) : tmp_result' = [set EXCEPT !.after = after]
                /\ apc' = "round" /\ UNCHANGED result
           ELSE result' = set /\ apc' = "idle" /\ UNCHANGED tmp_result
      /\ UNCHANGED << treeVars, callVars, busVars, labelVars, tmp_max_len >>

(***************************************************************************)
(* lst_alg_substring_check, which follows a word from the root down, one   *)
(* node a step.  It knows the end of the word by a byte 0 behind the data, *)
(* for which lst_string_new allocates no room; an edge that ends with the  *)
(* marker of a string is read there, too.                                  *)
(***************************************************************************)
Call_substring_check(w, after_word, after_data) ==
  /\ pc = "idle" /\ apc = "idle"
  /\ num_strings > 0 /\ calls < MaxCalls
  /\ call' = [NoCall EXCEPT !.fn = "check"]
  /\ calls' = calls + 1
  /\ walk' = [node |-> Root, word |-> w, idx |-> 0,
              after_word |-> after_word, after_data |-> after_data, res |-> 0]
  /\ apc' = "walk"
  /\ UNCHANGED << treeVars, busVars, labelVars, searchVars, resultVars >>

WordItem(k) == IF k < Len(walk.word) THEN walk.word[k + 1] ELSE walk.after_word

EdgeItem(e, k) ==
  IF k < Len(strings[edge[e].str]) THEN strings[edge[e].str][k + 1] ELSE walk.after_data

\* Mutant of alg_traverse_edge: the first item of the edge, by which
\* alg_find_child chose it, is the only one compared.
alg_traverse_edge_FirstItem(e) ==
  LET compared == Min({ lst_edge_get_length(e), Len(walk.word) - walk.idx })
  IN  IF compared > 0 /\ EdgeItem(e, edge[e].start_index) # WordItem(walk.idx) THEN -1
      ELSE IF WordItem(walk.idx + compared) = 0 THEN 1 ELSE 0

\* 1: the word ends on the edge; -1: it differs; 0: the edge ends first.
alg_traverse_edge(e) ==
  LET compared == Min({ lst_edge_get_length(e), Len(walk.word) - walk.idx })
  IN  IF \E d \in 0..(compared - 1) :
           EdgeItem(e, edge[e].start_index + d) # WordItem(walk.idx + d) THEN -1
      ELSE IF WordItem(walk.idx + compared) = 0 THEN 1 ELSE 0

\* The kids are looked through from the head of their list, the newest edge.
alg_find_child(n, ch) ==
  LET found == { e \in kids(n) : EdgeItem(e, edge[e].start_index) = ch }
  IN  IF found = {} THEN NULL ELSE edge[Max(found)].dst

WalkStep ==
  LET res  == IF walk.node = Root THEN 0 ELSE alg_traverse_edge(node[walk.node].up_edge)
      idx  == IF walk.node = Root THEN walk.idx
              ELSE walk.idx + lst_edge_get_length(node[walk.node].up_edge)
      next == alg_find_child(walk.node, WordItem(idx))
  IN  /\ apc = "walk"
      /\ IF res # 0 THEN walk' = [NoWalking EXCEPT !.res = res] /\ apc' = "idle"
         ELSE IF idx > Len(walk.word) THEN apc' = "crashed" /\ UNCHANGED walk   \* *NULL
         ELSE IF next = NULL THEN walk' = [NoWalking EXCEPT !.res = -1] /\ apc' = "idle"
         ELSE walk' = [walk EXCEPT !.node = next, !.idx = idx] /\ UNCHANGED apc
      /\ UNCHANGED << treeVars, call, calls, busVars, labelVars, searchVars, resultVars >>

(***************************************************************************)
(* lst_stree_remove_string.  Only an object that is not in the tree comes  *)
(* back from it: lst_alg_set_visitors copies into tree->bitstrings, which  *)
(* nothing allocates, and with the labels up to date no node has any bits. *)
(***************************************************************************)
lst_stree_remove_string(s) ==
  /\ pc = "idle" /\ apc = "idle"
  /\ num_strings > 0 /\ calls < MaxCalls
  /\ call' = [NoCall EXCEPT !.fn = "remove"]
  /\ calls' = calls + 1
  /\ apc' = IF needs_visitor_update \/ hash[s] >= 0 THEN "crashed" ELSE "idle"
  /\ UNCHANGED << treeVars, walk, busVars, labelVars, searchVars, resultVars >>

(***************************************************************************)
(* The rest of a round of lst_alg_first_k_longest_common_substring: keep   *)
(* what is no substring of an earlier result, search again one item        *)
(* shorter, as long as the loop condition holds.  lcs_tree, the suffix     *)
(* tree of the results before this round, is the index that SuffixTree     *)
(* implements; lst_alg_substring_check reads it as CheckRight says.        *)
(***************************************************************************)
SubstringOfOne(words, w) == \E r \in words : w \in Index!Substrings(r)

\* What the check answers for w, with the byte after behind it, if it returns.
\* The byte behind the data of a result is read as its last item: it may
\* continue a word, or lead to another kid than the one where w goes on.
Answers(words, w, after) ==
  IF after # 0 THEN { -1 }
  ELSE (IF SubstringOfOne({ Append(r, b) : r \in words, b \in MadeBehind }, w) THEN { 1 } ELSE {})
         \cup
       (IF SubstringOfOne(words, w) /\ MadeBehind \cap ToSet(w) = {} THEN {} ELSE { -1 })

\* A result is a copy up to the first byte 0; of those that lie behind the
\* word before it, one is modelled.
Copy(w, after) == IF after = 0 THEN w ELSE Append(w, after)

Round ==
  LET found == tmp_result.members
      top   == IF tmp_max_len = 0 THEN global_max_len ELSE tmp_max_len
      next  == IF tmp_result.null THEN top ELSE top - 1
  IN  /\ apc = "round"
      /\ \E answer \in [DOMAIN found -> { 1, -1 }] :
           LET fresh == SelectSeq([m \in DOMAIN found |-> m], LAMBDA m : answer[m] # 1)
           IN  /\ \A m \in DOMAIN found :
                    answer[m] \in Answers(ToSet(result.members), found[m], tmp_result.after[m])
               /\ result' = [result EXCEPT !.members =
                    Reverse([n \in DOMAIN fresh |-> Copy(found[fresh[n]], tmp_result.after[fresh[n]])])
                      \o @]
      /\ tmp_max_len' = next
      /\ tmp_result' = NullSet
      /\ apc' = IF UnsignedAtLeast(next, call.min_len) \/ next = 0 THEN "longest" ELSE "idle"
      /\ UNCHANGED << treeVars, callVars, busVars, labelVars, searchVars, global_max_len >>

\* With another byte behind a word that is there, the check may run past it.
RoundCrashes ==
  /\ apc = "round"
  /\ \E m \in DOMAIN tmp_result.members :
       /\ tmp_result.after[m] # 0
       /\ SubstringOfOne(ToSet(result.members), tmp_result.members[m])
  /\ apc' = "crashed"
  /\ UNCHANGED << treeVars, callVars, busVars, labelVars, searchVars, resultVars >>

AlgWork ==
  \/ WithoutLabels \/ UseCachedLabels \/ ClearLabels
  \/ BusLeaf \/ BusRequeue \/ BusInner \/ BusCleared \/ BusLabelled
  \/ Visit \/ Prune \/ Collect \/ CollectCrashes \/ Round \/ RoundCrashes \/ WalkStep

AlgNext ==
  \/ TreeStep
  \/ \E c \in Calls : Call(c)
  \/ \E w \in Checked, b, d \in Behind : Call_substring_check(w, b, d)
  \/ \E s \in DOMAIN strings : lst_stree_remove_string(s)
  \/ AlgWork

AlgSpec == AlgInit /\ [][AlgNext]_allVars

\* A call of the library runs to its end: the code is sequential.
TreeWork == apc = "idle" /\ Work /\ UNCHANGED algVars

FairAlgSpec == AlgSpec /\ WF_allVars(TreeWork) /\ WF_allVars(AlgWork)

-----------------------------------------------------------------------------
Occurs(w, s) == w \in Index!Substrings(strings[s])

\* The words, at least one item long, that occur in k or more strings.
Common(k) ==
  { w \in UNION { Index!Substrings(strings[s]) : s \in Registered } :
      w # << >> /\ Cardinality({ s \in Registered : Occurs(w, s) }) >= k }

\* Where w occurs: the string and the item it starts at.
Starts(w) ==
  { at \in Registered \X (1..Max({ Len(strings[s]) : s \in Registered })) :
      /\ at[2] + Len(w) - 1 <= Len(strings[at[1]])
      /\ SubSeq(strings[at[1]], at[2], at[2] + Len(w) - 1) = w }

Repeated == { w \in Common(1) : Cardinality(Starts(w)) >= 2 }

\* lst_alg_longest_common_substring asks for all the strings.
Wanted(c) ==
  IF c.fn = "lrs" THEN Repeated
  ELSE Common(IF c.fn = "lcs" THEN Cardinality(Registered) ELSE c.k)

\* A call returns in this step, with result'.
Return == apc # "idle" /\ apc' = "idle"

Members == ToSet(result'.members)
NoTwice == Cardinality(Members) = Len(result'.members)

(* lst_alg_bus comes to every node once, after all its kids: no node is    *)
(* counted more often than it has kids, none waits twice in the queue, and *)
(* the walk is over only when every kid has been counted.                  *)
BusCountsKids ==
  apc = "bus" =>
    /\ \A n \in DOMAIN node : bus_visited[n] <= node[n].num_kids
    /\ IsInjective(queue)
    /\ (cursor > Len(leafs) /\ queue = << >>) =>
         \A n \in DOMAIN node : bus_visited[n] = node[n].num_kids

(* The labels a search reads, cached or not, are those of the strings that *)
(* are in the tree now: an index is at a node exactly if the word of the   *)
(* node occurs in that string.                                             *)
LabelsRight ==
  apc = "dfs" /\ call.fn # "lrs" =>
    /\ DOMAIN string_indices = DOMAIN node
    /\ \A n \in DOMAIN node :
         string_indices[n] =
           { hash[s] : s \in { r \in Registered :
               Path[n] \in Index!Substrings(Append(strings[r], -r)) } }
    /\ all_string_indices = { hash[s] : s \in Registered }

(* The longest common substrings, of all strings or of k, and the longest  *)
(* repeated ones are returned, all of them and each once; NULL only if     *)
(* none has min_len items.  Where max_len cuts some words off, what is     *)
(* returned are still wanted words, of one length between the two limits.  *)
(* (At least two strings must share a substring.)                          *)
LongestRight ==
  [][ (Return /\ call.fn \in { "lcs", "k_lcs", "lrs" } /\ call.min_len > 0
       /\ (call.fn = "lcs" => Cardinality(Registered) >= 2) /\ (call.fn = "k_lcs" => call.k >= 2)) =>
        LET longest == { w \in Wanted(call) : \A v \in Wanted(call) : Len(v) <= Len(w) }
        IN  IF call.max_len = 0 \/ \A w \in longest : Len(w) <= call.max_len
              THEN LET taken == { w \in longest : Len(w) >= call.min_len }
                   IN  IF taken = {} THEN result' = NullSet ELSE Members = taken /\ NoTwice
              ELSE /\ NoTwice /\ Members \subseteq Wanted(call)
                   /\ \E len \in call.min_len..call.max_len : \A w \in Members : Len(w) = len ]_allVars

(* first_k returns, each once, the words of min_len items or more that     *)
(* occur in k strings and are part of no longer such word, if a byte 0     *)
(* lies behind the strings it makes: searching node by node from the       *)
(* longest down misses none of them.  Whatever lies there, a result begins *)
(* with such a word and has at most the bytes behind it besides.           *)
FirstKRight ==
  [][ (Return /\ call.fn = "first_k" /\ call.k >= 2) =>
        LET words == { w \in Wanted(call) : Len(w) >= call.min_len }
        IN  /\ call.zero_behind =>
                 /\ NoTwice
                 /\ Members = { w \in words :
                                  \A v \in words : w \in Index!Substrings(v) => v = w }
            /\ Members \subseteq { Copy(w, b) : w \in words, b \in MadeBehind } ]_allVars

(* The check answers 1 for a word that occurs in a string of the tree and  *)
(* -1 for any other, if the byte behind the word happens to be 0 and the   *)
(* byte behind the data in the tree is not one of the word; if that behind *)
(* the word is not 0, it finds nothing, not even what is there.            *)
CheckRight ==
  [][ (Return /\ call.fn = "check") =>
        IF walk.after_word = 0
          THEN walk.after_data \notin ToSet(walk.word) =>
                 walk'.res = (IF \E s \in Registered : Occurs(walk.word, s) THEN 1 ELSE -1)
          ELSE walk'.res = -1 ]_allVars

(* What a call needs in order to return: first_k searches for words of two *)
(* items or more, there is a common one, and a byte 0 lies behind those it *)
(* finds; the search for repeated substrings finds labels of earlier calls *)
(* at all nodes; a byte 0 ends the word that is checked.                   *)
InContract ==
  \/ call.fn \in { "lcs", "k_lcs" }
  \/ call.fn = "first_k" /\ call.min_len >= 2 /\ Wanted(call) # {} /\ call.zero_behind
  \/ call.fn = "lrs" /\ DOMAIN node \subseteq DOMAIN string_indices
  \/ call.fn = "check" /\ walk.after_word = 0

(* Such a call returns: nothing that it searches, labels, or walks through *)
(* holds it up, and no set of labels that it reads is missing.             *)
CallReturns == (apc # "idle" /\ InContract) ~> apc = "idle"

-----------------------------------------------------------------------------
(* main.c tests whether lst_alg_first_k_longest_common_substring returned  *)
(* no tokens, and takes any minimum length from the command line: a call   *)
(* returns, whether there is a common substring or not.                    *)
FirstKReturns ==
  (apc # "idle" /\ call.fn = "first_k" /\ call.k <= Cardinality(Registered)) ~> apc = "idle"
=============================================================================
