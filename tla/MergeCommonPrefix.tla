--------------------------- MODULE MergeCommonPrefix ---------------------------
(***************************************************************************)
(* src/merge_common_prefix.c: for every token the tokens that begin with   *)
(* it are put into a trie of their own, the bytes that follow the first    *)
(* prefix with two to four continuations are merged into one string,       *)
(* "prefix(x|y)", and the rest of every token after it is appended to that *)
(* string.  A step is one token looked for, or one node that has data.     *)
(*                                                                         *)
(* The trie is taken for the map that module Trie shows, walked in the     *)
(* order of strcmp; a text is the sequence of its bytes.                   *)
(***************************************************************************)
EXTENDS CStrings, SequencesExt

CONSTANTS
  Inputs,     \* the lists of tokens merge_common_prefix_main is called with
  Behind      \* the texts that may lie behind the end of a token in memory

Open  == 40     \* '('
Close == 41     \* ')'
Bar   == 124    \* '|'

alpha_merge == 5

ASSUME InputsAssumption ==
  \A in \in Inputs : \A n \in DOMAIN in :
    in[n] # << >> /\ \A m \in DOMAIN in[n] : in[n][m] \in 1..255 \ { Open, Close, Bar }
ASSUME BehindAssumption == Behind \subseteq Seq(1..255) /\ << >> \in Behind

VARIABLES
  tokens,          \* the tokens passed
  queries,         \* the tokens that are still to be looked for
  query,           \* the token the trie is for
  data, old_data,  \* of the nodes that have data: the text, and where a copy was kept
  flag, merge_substring, common_prefix_len,  \* merge_common_prefix_t
  todo,            \* the nodes that trie_dfs has still to come to
  set,             \* the result, last added first
  pc

mcpVars == << flag, merge_substring, common_prefix_len >>
vars    == << tokens, queries, query, data, old_data, mcpVars, todo, set, pc >>

\* A set in the order of strcmp, that of trie_dfs.
Sorted(words) ==
  [n \in 1..Cardinality(words) |->
     CHOOSE t \in words : Cardinality({ u \in words : Before(u, t) }) = n - 1]

Init ==
  /\ queries \in Inputs /\ tokens = ToSet(queries)
  /\ query = << >> /\ data = << >> /\ old_data = {}
  /\ flag = FALSE /\ merge_substring = << >> /\ common_prefix_len = 0
  /\ todo = << >> /\ set = << >>
  /\ pc = "query"

\* obtain_tokens_with_common_prefix_cb1 and cb2, construct_trie_cb, and the
\* start of merge_substring
CollectTokens ==
  /\ pc = "query" /\ queries # << >>
  /\ query' = Head(queries) /\ queries' = Tail(queries)
  /\ data' = [t \in { u \in tokens : HasPrefix(u, query') } |-> t]
  /\ old_data' = {}
  /\ flag' = FALSE /\ merge_substring' = << >> /\ common_prefix_len' = 0
  /\ todo' = Sorted(DOMAIN data')
  /\ pc' = "merge"
  /\ UNCHANGED << tokens, set >>

(***************************************************************************)
(* trie_node_merge_callback, for a node with data.                         *)
(***************************************************************************)
\* The bytes with which some token goes on after t.
Continuations(t) == { u[Len(t) + 1] : u \in { v \in DOMAIN data : HasPrefix(v, t) /\ v # t } }

\* "(x|y|z)"
Alternatives(bytes) ==
  LET list == SortSeq(SetToSeq(bytes), <)
  IN  << Open >>
      \o [n \in 1..(2 * Len(list) - 1) |-> IF n % 2 = 1 THEN list[(n + 1) \div 2] ELSE Bar]
      \o << Close >>

Mergeable(t) == Cardinality(Continuations(t)) \in 2..(alpha_merge - 1)

Leave ==
  /\ pc = "merge" /\ todo # << >> /\ ~ flag /\ ~ Mergeable(Head(todo))
  /\ todo' = Tail(todo)
  /\ UNCHANGED << tokens, queries, query, data, old_data, mcpVars, set, pc >>

Merge ==
  /\ pc = "merge" /\ todo # << >> /\ ~ flag /\ Mergeable(Head(todo))
  /\ LET t == Head(todo)
     IN  /\ merge_substring' = t \o Alternatives(Continuations(t))
         /\ common_prefix_len' = Len(t)
         /\ data' = [data EXCEPT ![t] = merge_substring']
  /\ flag' = TRUE
  /\ todo' = Tail(todo)
  /\ UNCHANGED << tokens, queries, query, old_data, set, pc >>

\* Mutant of Rewrite: the byte behind the prefix is kept.
Rewrite_KeepsByte ==
  /\ pc = "merge" /\ todo # << >> /\ flag
  /\ LET t == Head(todo)
     IN  \E behind \in Behind :
           data' = [data EXCEPT ![t] = merge_substring \o
                      (IF Len(t) >= common_prefix_len THEN SubSeq(t, common_prefix_len + 1, Len(t))
                       ELSE behind)]
  /\ old_data' = old_data \cup { Head(todo) }
  /\ todo' = Tail(todo)
  /\ UNCHANGED << tokens, queries, query, mcpVars, set, pc >>

\* After a merge every node is rewritten, whether it is below the merged one
\* or not: its text is read from the item behind the prefix on, or behind its
\* end, if it is too short.
Rewrite ==
  /\ pc = "merge" /\ todo # << >> /\ flag
  /\ LET t == Head(todo)
     IN  \E behind \in Behind :
           data' = [data EXCEPT ![t] = merge_substring \o
                      (IF Len(t) > common_prefix_len THEN SubSeq(t, common_prefix_len + 2, Len(t))
                       ELSE behind)]
  /\ old_data' = old_data \cup { Head(todo) }
  /\ todo' = Tail(todo)
  /\ UNCHANGED << tokens, queries, query, mcpVars, set, pc >>

StartAdd ==
  /\ pc = "merge" /\ todo = << >>
  /\ todo' = Sorted(DOMAIN data)
  /\ pc' = "add"
  /\ UNCHANGED << tokens, queries, query, data, old_data, mcpVars, set >>

add_callback ==
  /\ pc = "add" /\ todo # << >>
  /\ set' = IF Head(todo) \in old_data THEN << data[Head(todo)] >> \o set ELSE set
  /\ todo' = Tail(todo)
  /\ UNCHANGED << tokens, queries, query, data, old_data, mcpVars, pc >>

Added ==
  /\ pc = "add" /\ todo = << >>
  /\ pc' = "query"
  /\ UNCHANGED << tokens, queries, query, data, old_data, mcpVars, todo, set >>

Next ==
  \/ CollectTokens \/ Leave \/ Merge \/ Rewrite \/ StartAdd \/ add_callback \/ Added

Spec == Init /\ [][Next]_vars

-----------------------------------------------------------------------------
(* What a text with alternatives stands for. *)
Position(text, c) == CHOOSE n \in DOMAIN text : text[n] = c

StandsFor(text) ==
  LET open   == Position(text, Open)
      close  == Position(text, Close)
      middle == ToSet(SubSeq(text, open + 1, close - 1)) \ { Bar }
  IN  { SubSeq(text, 1, open - 1) \o << c >> \o SubSeq(text, close + 1, Len(text)) : c \in middle }

\* The token t with the byte behind prefix p replaced by any that tokens have there.
Variants(t, p) ==
  { p \o << c >> \o SubSeq(t, Len(p) + 2, Len(t)) : c \in Continuations(p) }

(* When the walk for a token is over, the strings that it added, one for   *)
(* each, are those of the tokens below the merged prefix, every one with   *)
(* any of the bytes that tokens have behind that prefix; a token that two  *)
(* to four bytes follow is itself that prefix, and all longer tokens are   *)
(* below it.  (A prefix that is merged later says nothing of the others.)  *)
MergeRight ==
  pc = "add" /\ todo = << >> =>
    LET added == SubSeq(set, 1, Cardinality(old_data))
        at    == SubSeq(merge_substring, 1, common_prefix_len)
        below == { t \in DOMAIN data : HasPrefix(t, at) /\ t # at }
    IN  IF ~ flag THEN old_data = {} /\ ~ Mergeable(query)
        ELSE /\ below \subseteq old_data /\ at \notin old_data
             /\ Mergeable(query) => at = query /\ old_data = DOMAIN data \ { query }
             /\ \A t \in below :
                  \E n \in DOMAIN added : StandsFor(added[n]) = Variants(t, at)
             /\ old_data = below =>
                  \A n \in DOMAIN added : \E t \in below : StandsFor(added[n]) = Variants(t, at)
=============================================================================
