--------------------------------- MODULE Trie ---------------------------------
(***************************************************************************)
(* The trie of src/trie.c, in which the tokens are kept: insertion, which  *)
(* is rolled back when an allocation fails on the way, removal, lookup,    *)
(* the depth-first walk, and the release of all nodes.  A step is one      *)
(* iteration of a loop.  A node is named by the string that leads to it;   *)
(* the pointer next[c] of node w, when not NULL, is to node w \o <<c>>.    *)
(***************************************************************************)
EXTENDS Integers, Sequences, FiniteSets

CONSTANTS
  Char,      \* the values of an unsigned char, 0 is NUL
  Keys,      \* the byte strings passed as keys
  Values,    \* the values passed
  NULL

ASSUME CharAssumption == Char \subseteq Nat /\ 0 \in Char
ASSUME KeysAssumption == Keys \subseteq Seq(Char)
ASSUME NullAssumption == NULL \notin Values \cup Seq(Char)

VARIABLES
  node,          \* the allocated nodes: string -> TrieNode
  root_node,     \* whether trie->root_node is set
  key, value,    \* the arguments of the call that runs
  cur,           \* the string of the node (or of the pointer) it has reached
  linked,        \* whether a pointer to the current node has to be reset
  todo, visited, \* the walks: what is left, and the nodes passed to the callback
  pc, result

callVars == << key, value, cur, linked >>
walkVars == << todo, visited >>
vars     == << node, root_node, callVars, walkVars, pc, result >>

Root == << >>
At(n)     == SubSeq(key, 1, n)
Parent(w) == SubSeq(w, 1, Len(w) - 1)

Init ==
  /\ node = << >> /\ root_node = FALSE
  /\ key = << >> /\ value = NULL /\ cur = NULL /\ linked = FALSE
  /\ todo = << >> /\ visited = << >>
  /\ pc = "ready" /\ result = NULL

\* The pointer that leads to w is not NULL.
Points(w) ==
  IF w = Root THEN root_node ELSE w[Len(w)] \in node[Parent(w)].next

\* The functions without "_binary" take a key to end before its first NUL.
CString(k) ==
  LET nul == { p \in DOMAIN k : k[p] = 0 }
      end == CHOOSE p \in nul : \A q \in nul : p <= q
  IN  IF nul = {} THEN k ELSE SubSeq(k, 1, end - 1)

\* trie_find_end and trie_find_end_binary: the node of k, if there is a path.
find_end(k) ==
  IF root_node /\ \A n \in 1..Len(k) : k[n] \in node[SubSeq(k, 1, n - 1)].next
    THEN k ELSE NULL

Data(k) == IF find_end(k) = NULL THEN NULL ELSE node[k].data

\* *prev = NULL, for the pointer that leads to w.
Reset(nodes, w) ==
  IF w = Root THEN nodes
  ELSE [nodes EXCEPT ![Parent(w)].next = @ \ { w[Len(w)] }]

Freed(nodes, w) == [u \in DOMAIN nodes \ { w } |-> nodes[u]]

-----------------------------------------------------------------------------
(***************************************************************************)
(* trie_insert and trie_insert_binary.                                     *)
(***************************************************************************)
\* Mutant: inserting a key that is there walks the path once more.
Replace_WalksAgain(k, v) ==
  /\ pc = "ready" /\ Data(k) # NULL
  /\ key' = k /\ value' = v /\ cur' = Root
  /\ pc' = "insert"
  /\ UNCHANGED << node, root_node, linked, walkVars, result >>

Replace(k, v) ==
  /\ pc = "ready" /\ Data(k) # NULL
  /\ node' = [node EXCEPT ![k].data = v]
  /\ result' = TRUE
  /\ UNCHANGED << root_node, callVars, walkVars, pc >>

StartInsert(k, v) ==
  /\ pc = "ready" /\ Data(k) = NULL
  /\ key' = k /\ value' = v /\ cur' = Root
  /\ pc' = "insert"
  /\ UNCHANGED << node, root_node, linked, walkVars, result >>

RefuseNull(v) ==
  /\ pc = "ready" /\ v = NULL
  /\ result' = FALSE
  /\ UNCHANGED << node, root_node, callVars, walkVars, pc >>

trie_insert_binary(k, v) ==
  \/ RefuseNull(v)
  \/ v # NULL /\ (Replace(k, v) \/ StartInsert(k, v))
trie_insert(k, v)        == trie_insert_binary(CString(k), v)

\* The call is over, and its arguments and local variables are gone.
Return ==
  /\ pc' = "ready"
  /\ key' = << >> /\ value' = NULL /\ cur' = NULL /\ linked' = FALSE

\* The node at cur, created and linked if there is none.
WithNode ==
  IF Points(cur) THEN node
  ELSE LET new == [data |-> NULL, use_count |-> 0, next |-> {}]
           grown == [u \in DOMAIN node \cup { cur } |-> IF u = cur THEN new ELSE node[u]]
       IN  IF cur = Root THEN grown
           ELSE [grown EXCEPT ![Parent(cur)].next = @ \cup { cur[Len(cur)] }]

InsertStep ==
  /\ pc = "insert"
  /\ root_node' = TRUE
  /\ IF Len(cur) = Len(key)
       THEN /\ node' = [WithNode EXCEPT ![cur].use_count = @ + 1, ![cur].data = value]
            /\ Return /\ result' = TRUE
       ELSE /\ node' = [WithNode EXCEPT ![cur].use_count = @ + 1]
            /\ cur' = At(Len(cur) + 1)
            /\ UNCHANGED << pc, result, key, value, linked >>
  /\ UNCHANGED walkVars

\* calloc returned NULL.
InsertFails ==
  /\ pc = "insert" /\ ~ Points(cur)
  /\ cur' = IF root_node THEN Root ELSE NULL
  /\ linked' = TRUE
  /\ pc' = "rollback"
  /\ UNCHANGED << node, root_node, key, value, walkVars, result >>

\* The next node on the path, read before the current one may be freed.
NextOnPath ==
  LET c == IF Len(cur) < Len(key) THEN key[Len(cur) + 1] ELSE 0
  IN  IF c \in node[cur].next THEN Append(cur, c) ELSE NULL

\* Mutant: the root pointer is not reset.
Release_KeepsRoot ==
  IF node[cur].use_count - 1 = 0
    THEN /\ node' = Freed(IF linked THEN Reset(node, cur) ELSE node, cur)
         /\ UNCHANGED root_node
    ELSE /\ node' = [node EXCEPT ![cur].use_count = @ - 1]
         /\ UNCHANGED root_node

\* Mutant: a node that one other key uses is freed.
Release_TooEarly ==
  IF node[cur].use_count - 1 <= 1
    THEN /\ node' = Freed(IF linked THEN Reset(node, cur) ELSE node, cur)
         /\ root_node' = (root_node /\ ~ (linked /\ cur = Root))
    ELSE /\ node' = [node EXCEPT ![cur].use_count = @ - 1]
         /\ UNCHANGED root_node

\* The use count is decreased; a node nobody uses is freed, and the pointer
\* to it reset unless that is in a node freed before.  The count is
\* unsigned, so the test "<= 0" of a removal is the "== 0" of a rollback.
Release ==
  IF node[cur].use_count - 1 = 0
    THEN /\ node' = Freed(IF linked THEN Reset(node, cur) ELSE node, cur)
         /\ root_node' = (root_node /\ ~ (linked /\ cur = Root))
    ELSE /\ node' = [node EXCEPT ![cur].use_count = @ - 1]
         /\ UNCHANGED root_node

\* trie_insert_rollback
RollbackStep ==
  /\ pc = "rollback" /\ cur # NULL
  /\ Release
  /\ linked' = (node[cur].use_count # 1)
  /\ cur' = NextOnPath
  /\ UNCHANGED << key, value, walkVars, pc, result >>

RollbackDone ==
  /\ pc = "rollback" /\ cur = NULL
  /\ Return /\ result' = FALSE
  /\ UNCHANGED << node, root_node, walkVars >>

-----------------------------------------------------------------------------
(***************************************************************************)
(* trie_remove and trie_remove_binary: the value goes first, and the call  *)
(* will return success; then the use counts on the path go down.           *)
(***************************************************************************)
RemoveAbsent(k) ==
  /\ pc = "ready" /\ Data(k) = NULL
  /\ result' = FALSE
  /\ UNCHANGED << node, root_node, callVars, walkVars, pc >>

StartRemove(k) ==
  /\ pc = "ready" /\ Data(k) # NULL
  /\ node' = [node EXCEPT ![k].data = NULL]
  /\ key' = k /\ cur' = Root /\ linked' = TRUE
  /\ pc' = "remove" /\ result' = TRUE
  /\ UNCHANGED << root_node, value, walkVars >>

trie_remove_binary(k) == RemoveAbsent(k) \/ StartRemove(k)
trie_remove(k)        == trie_remove_binary(CString(k))

RemoveStep ==
  /\ pc = "remove"
  /\ Release
  /\ IF Len(cur) = Len(key) THEN Return
       ELSE /\ cur' = NextOnPath
            /\ linked' = (linked /\ node[cur].use_count # 1)
            /\ UNCHANGED << key, value, pc >>
  /\ UNCHANGED << walkVars, result >>

trie_lookup_binary(k) ==
  /\ pc = "ready"
  /\ result' = Data(k)
  /\ UNCHANGED << node, root_node, callVars, walkVars, pc >>

trie_lookup(k) == trie_lookup_binary(CString(k))

-----------------------------------------------------------------------------
(***************************************************************************)
(* trie_dfs: todo is the stack of the recursion, a node and the index of   *)
(* its loop each.                                                          *)
(***************************************************************************)
Frame(w) == [node |-> w, i |-> 0]

trie_dfs ==
  /\ pc = "ready"
  /\ IF root_node THEN todo' = << Frame(Root) >> /\ visited' = << Root >>
                  ELSE todo' = << >> /\ visited' = << >>
  /\ pc' = "dfs"
  /\ UNCHANGED << node, root_node, callVars, result >>

\* Mutant: the loop starts at 1.
KidsLeft_FromOne(frame) == { c \in node[frame.node].next : c > frame.i }

KidsLeft(frame) == { c \in node[frame.node].next : c >= frame.i }

DfsDown ==
  /\ pc = "dfs" /\ todo # << >> /\ KidsLeft(todo[1]) # {}
  /\ LET i   == CHOOSE c \in KidsLeft(todo[1]) : \A d \in KidsLeft(todo[1]) : c <= d
         kid == Append(todo[1].node, i)
     IN  /\ todo' = << Frame(kid) >> \o [todo EXCEPT ![1].i = i + 1]
         /\ visited' = Append(visited, kid)
  /\ UNCHANGED << node, root_node, callVars, pc, result >>

DfsUp ==
  /\ pc = "dfs" /\ todo # << >> /\ KidsLeft(todo[1]) = {}
  /\ todo' = Tail(todo)
  /\ UNCHANGED << node, root_node, callVars, visited, pc, result >>

DfsDone ==
  /\ pc = "dfs" /\ todo = << >>
  /\ visited' = << >>
  /\ pc' = "ready"
  /\ UNCHANGED << node, root_node, callVars, todo, result >>

(***************************************************************************)
(* trie_free: todo is the free list, linked through the data of the nodes. *)
(***************************************************************************)
trie_free ==
  /\ pc = "ready"
  /\ todo' = IF root_node THEN << Root >> ELSE << >>
  /\ pc' = "free"
  /\ UNCHANGED << node, root_node, callVars, visited, result >>

\* All children of the node go to the front of the list, one by one.
Descending(S) ==
  CHOOSE s \in [1..Cardinality(S) -> S] : \A m, n \in DOMAIN s : m < n => s[m] > s[n]

FreeStep ==
  /\ pc = "free" /\ todo # << >>
  /\ LET kids == Descending(node[todo[1]].next)
     IN  todo' = [n \in DOMAIN kids |-> Append(todo[1], kids[n])] \o Tail(todo)
  /\ node' = Freed(node, todo[1])
  /\ UNCHANGED << root_node, callVars, visited, pc, result >>

FreeDone ==
  /\ pc = "free" /\ todo = << >>
  /\ pc' = "freed"
  /\ UNCHANGED << node, root_node, callVars, walkVars, result >>

Call ==
  \/ \E k \in Keys : \/ \E v \in Values \cup { NULL } : trie_insert_binary(k, v) \/ trie_insert(k, v)
                     \/ trie_remove_binary(k) \/ trie_remove(k)
                     \/ trie_lookup_binary(k) \/ trie_lookup(k)
  \/ trie_dfs \/ trie_free

Work ==
  \/ InsertStep \/ InsertFails \/ RollbackStep \/ RollbackDone \/ RemoveStep
  \/ DfsDown \/ DfsUp \/ DfsDone \/ FreeStep \/ FreeDone

Next == Call \/ Work

Spec == Init /\ [][Next]_vars

-----------------------------------------------------------------------------
TrieNode == [data : Values \cup { NULL }, use_count : Nat, next : SUBSET Char]

TypeOK ==
  /\ DOMAIN node \subseteq Seq(Char) /\ node \in [DOMAIN node -> TrieNode]
  /\ root_node \in BOOLEAN /\ linked \in BOOLEAN
  /\ key \in Seq(Char) /\ value \in Values \cup { NULL }
  /\ cur = NULL \/ cur \in Seq(Char)
  /\ pc \in { "ready", "insert", "rollback", "remove", "dfs", "free", "freed" }

AtRest == pc \in { "ready", "dfs" }

(* Between two calls every allocated node is linked from its parent and no *)
(* pointer leads to a freed node, also after an insertion that was rolled  *)
(* back half way; trie_free leaves no node behind.                         *)
NoLeakNoDangling ==
  /\ TypeOK
  /\ AtRest =>
       /\ root_node <=> Root \in DOMAIN node
       /\ \A w \in DOMAIN node : w = Root \/ (Parent(w) \in DOMAIN node /\ Points(w))
       /\ \A w \in DOMAIN node : \A c \in node[w].next : Append(w, c) \in DOMAIN node
  /\ pc = "freed" => DOMAIN node = {}

HasPrefix(w, u) == Len(u) <= Len(w) /\ \A n \in DOMAIN u : w[n] = u[n]

KeysBelow(w) == { u \in DOMAIN node : node[u].data # NULL /\ HasPrefix(u, w) }

(* The use count of a node is the number of keys that lead through it, and *)
(* no node is kept for none; that of the root is trie_num_entries.         *)
UseCounts ==
  AtRest => \A w \in DOMAIN node :
    node[w].use_count = Cardinality(KeysBelow(w)) /\ node[w].use_count > 0

\* The order of strcmp on the names of nodes.
Before(u, w) ==
  \/ HasPrefix(w, u) /\ u # w
  \/ \E n \in DOMAIN u \cap DOMAIN w :
       u[n] < w[n] /\ \A m \in 1..(n - 1) : u[m] = w[m]

(* trie_dfs passes every node to the callback once, the keys in the order  *)
(* of strcmp: merging and conversion depend on it.                         *)
DfsRight ==
  pc = "dfs" =>
    /\ \A m, n \in DOMAIN visited : m < n => Before(visited[m], visited[n])
    /\ todo = << >> => { visited[n] : n \in DOMAIN visited } = DOMAIN node

-----------------------------------------------------------------------------
(***************************************************************************)
(* The inductive invariant.                                                *)
(***************************************************************************)
Releasing == pc \in { "rollback", "remove" } /\ cur # NULL

\* The node whose parent was freed, while a path is released.
Orphan == IF Releasing /\ ~ linked THEN { cur } ELSE {}

\* The nodes on the path of the call that count its key, which has no value
\* (an insertion has not stored it yet, a removal took it first).
Pending ==
  { w \in DOMAIN node :
      /\ HasPrefix(key, w)
      /\ \/ pc = "insert" /\ Len(w) < Len(cur)
         \/ Releasing /\ Len(w) >= Len(cur) }

Rooted == root_node <=> Root \in DOMAIN node

HasParent(w) == w # Root /\ Parent(w) \in DOMAIN node /\ Points(w)

NextClosed == \A w \in DOMAIN node : \A c \in node[w].next : Append(w, c) \in DOMAIN node

\* An orphan leads to no key, so that it is going to be released, too.
TreeOfNodes ==
  /\ Rooted /\ NextClosed
  /\ \A w \in DOMAIN node \ Orphan : w = Root \/ HasParent(w)
  /\ \A w \in Orphan : w # Root /\ Parent(w) \notin DOMAIN node /\ KeysBelow(w) = {}

Counts ==
  \A w \in DOMAIN node :
    /\ node[w].use_count = Cardinality(KeysBelow(w)) + (IF w \in Pending THEN 1 ELSE 0)
    /\ node[w].use_count > 0

\* Where the running call is on the path of its key.
OnPath == cur # NULL /\ Len(cur) <= Len(key) /\ cur = At(Len(cur))

Path ==
  /\ pc = "insert" =>
       /\ OnPath /\ value # NULL
       /\ \A n \in 0..(Len(cur) - 1) : At(n) \in DOMAIN node
       /\ key \in DOMAIN node => node[key].data = NULL
  /\ pc = "rollback" => key \notin DOMAIN node
  /\ pc = "remove"   => cur # NULL /\ key \in DOMAIN node
  /\ Releasing => OnPath /\ cur \in DOMAIN node

\* The free list holds exactly the nodes whose parent is gone.
FreeList ==
  /\ todo \in Seq(Seq(Char)) /\ NextClosed
  /\ \A m, n \in DOMAIN todo : todo[m] = todo[n] => m = n
  /\ \A n \in DOMAIN todo :
       todo[n] \in DOMAIN node /\ (todo[n] = Root \/ Parent(todo[n]) \notin DOMAIN node)
  /\ \A w \in DOMAIN node : HasParent(w) \/ \E n \in DOMAIN todo : todo[n] = w

IInv ==
  /\ TypeOK /\ IsFiniteSet(DOMAIN node)
  /\ \A w \in DOMAIN node : IsFiniteSet(node[w].next)
  /\ pc \notin { "free", "freed" } => TreeOfNodes /\ Counts /\ Path
  /\ pc \in { "free", "freed" } => FreeList
  /\ pc = "freed" => DOMAIN node = {}

\* The place of the walk: the name that the next node has at least.
Place == Append(todo[1].node, todo[1].i)

\* The stack is the path to that place; what comes before it was visited.
Walk ==
  pc = "dfs" =>
    /\ todo \in Seq([node : Seq(Char), i : Nat]) /\ visited \in Seq(Seq(Char))
    /\ \A n \in DOMAIN todo :
         /\ todo[n].node \in DOMAIN node
         /\ n + 1 \in DOMAIN todo =>
              /\ todo[n].node = Append(todo[n + 1].node, todo[n + 1].i - 1)
              /\ todo[n + 1].i > 0
         /\ n + 1 \notin DOMAIN todo => todo[n].node = Root
    /\ \A m, n \in DOMAIN visited : m < n => Before(visited[m], visited[n])
    /\ { visited[n] : n \in DOMAIN visited } =
         { w \in DOMAIN node : todo = << >> \/ Before(w, Place) }

-----------------------------------------------------------------------------
(* The trie implements a map: a call that fails half way for want of       *)
(* memory, and the nodes shared by several keys, are not visible.          *)
Open == pc \notin { "free", "freed" }

Map == INSTANCE FiniteMap
  WITH Keys   <- Keys \cup { CString(k) : k \in Keys },
       map    <- IF Open
                   THEN { << w, node[w].data >> : w \in { u \in DOMAIN node : node[u].data # NULL } }
                   ELSE {},
       open   <- Open

MapSpec == Map!Spec
=============================================================================
