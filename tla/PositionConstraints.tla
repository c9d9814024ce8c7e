-------------------------- MODULE PositionConstraints --------------------------
(***************************************************************************)
(* position_constraints_main of src/position_constraints.c: where in the   *)
(* payloads the tokens occur, which of them always occur at the same       *)
(* offset, and which are merged because they share an offset with few      *)
(* others.  A step is an iteration of a loop.                              *)
(*                                                                         *)
(* The trie is taken for the map it implements, walked in the order of     *)
(* strcmp, and the hash tables for maps iterated in any order; modules     *)
(* Trie and HashTable show both.  A LST_String is named by its text.       *)
(*                                                                         *)
(* lst_string_new puts no terminator behind its items, and the trie,       *)
(* strcmp and kmp_search look for one: that a byte 0 lies behind every     *)
(* payload and token is a premise here.                                    *)
(***************************************************************************)
EXTENDS CStrings, FiniteSets, SequencesExt, TLC

CONSTANTS
  Inputs,       \* the lists of payloads and tokens, and k_offset
  beta_merge,
  Junk,         \* whether the buffer of a merged token may hold something
  NULL

Hat    == 94    \* '^'
Dollar == 36    \* '$'

\* utils.c cuts every payload at N bytes, which main.c says to be 256 and
\* sets to 16, and makes no string of an empty one.  A token may be listed
\* more than once: first_k finds it once in each of two equal payloads if
\* one payload is enough.
ASSUME InputsAssumption ==
  \A in \in Inputs :
    /\ in.payloads \in Seq(Seq(1..255) \ { << >> })
    /\ \A n \in DOMAIN in.payloads : Len(in.payloads[n]) <= 256
    /\ in.tokens \in Seq(Seq(1..255) \ { << >> })
    /\ in.k_offset \in Nat
ASSUME NullAssumption == NULL \notin Seq(1..255)
ASSUME JunkAssumption == Junk \subseteq BOOLEAN /\ FALSE \in Junk

VARIABLES
  payloads, tokens,        \* the lists, in their order
  k_offset,                \* which offsets are frequent
  flow_set,                \* a list of lists of elements
  trie,                    \* text -> token_t
  ordinary, specific,      \* the counters of replacements
  offset_variants,         \* offset -> offset_t
  set_next,                \* the link string->set.le_next of the tokens
  todo, offsets,           \* what is left for the loops
  pc

inputVars   == << payloads, tokens, k_offset >>
trieVars    == << trie, ordinary, specific >>
variantVars == << offset_variants, set_next >>
loopVars    == << todo, offsets >>
positionVars ==
  << inputVars, flow_set, trieVars, variantVars, loopVars, pc >>

Nothing == [t \in {} |-> NULL]

\* The object that stays in the trie for a text is the one listed last, since
\* the lists of flows are in reverse order.
PositionInit ==
  /\ \E in \in Inputs :
       /\ payloads = in.payloads
       /\ tokens = in.tokens /\ k_offset = in.k_offset
       /\ set_next = [t \in ToSet(in.tokens) |->
            LET n == CHOOSE m \in DOMAIN in.tokens :
                       /\ in.tokens[m] = t
                       /\ \A l \in DOMAIN in.tokens : in.tokens[l] = t => l <= m
            IN  IF n < Len(in.tokens) THEN in.tokens[n + 1] ELSE NULL]
  /\ flow_set = << >>
  /\ trie = Nothing /\ ordinary = 258 /\ specific = -2
  /\ offset_variants = Nothing
  /\ todo = << >> /\ offsets = {}
  /\ pc = "flows"

\* f with the value y for x, which may be new.
With(f, x, y) == [z \in DOMAIN f \cup { x } |-> IF z = x THEN y ELSE f[z]]

\* The elements of a set, each after those that are less.
Sorted(S, Less(_, _)) ==
  [n \in 1..Cardinality(S) |->
     CHOOSE x \in S : Cardinality({ y \in S : Less(y, x) }) = n - 1]

\* The keys of the trie in the order of trie_dfs.
trie_dfs == Sorted(DOMAIN trie, Before)

-----------------------------------------------------------------------------
\* Every element is inserted at the head of the list.
flow_new(string) ==
  Reverse(FlattenSeq([n \in DOMAIN tokens |->
    LET indices == Sorted(Occurrences(tokens[n], string), <)
    IN  [m \in DOMAIN indices |-> [token |-> tokens[n], offset |-> indices[m]]]]))

\* flow_new_cb
FlowNew ==
  /\ pc = "flows" /\ Len(flow_set) < Len(payloads)
  /\ flow_set' = << flow_new(payloads[Len(flow_set) + 1]) >> \o flow_set
  /\ UNCHANGED << inputVars, trieVars, variantVars, loopVars, pc >>

FlowsDone ==
  /\ pc = "flows" /\ Len(flow_set) = Len(payloads)
  /\ todo' = FlattenSeq(flow_set)
  /\ pc' = "traverse"
  /\ UNCHANGED << inputVars, flow_set, trieVars, variantVars, offsets >>

\* A token of two characters is taken for position specific by its look.
LooksSpecific(text) == Len(text) = 2 /\ (text[2] = Dollar \/ text[1] = Hat)

\* The table of a token found at one offset.
Once(offset) == [o \in { offset } |-> 1]

\* token_new, with the kind that its callers set, and trie_insert.
token_new(text, offset, kind) ==
  LET t == [ position_specific |-> kind,
             offset_occurrence |-> Once(offset),
             merge_token       |-> NULL,
             replacement       |-> IF LooksSpecific(text) THEN specific ELSE ordinary,
             shortest_len      |-> Len(text) ]
  IN  /\ trie' = With(trie, text, t)
      /\ IF LooksSpecific(text)
           THEN specific' = specific - 1 /\ UNCHANGED ordinary
           ELSE ordinary' = ordinary + 1 /\ UNCHANGED specific

Plus1(counts, x) == With(counts, x, IF x \in DOMAIN counts THEN counts[x] + 1 ELSE 1)

\* Mutant: the offsets found before are dropped.
token_add_Replaces(text, offset) ==
  /\ trie' = [trie EXCEPT ![text].offset_occurrence = Once(offset)]
  /\ UNCHANGED << ordinary, specific >>

token_add(text, offset) ==
  /\ trie' = [trie EXCEPT ![text].offset_occurrence = Plus1(@, offset)]
  /\ UNCHANGED << ordinary, specific >>

\* flow_set_traverse_token
TraverseToken ==
  /\ pc = "traverse" /\ todo # << >>
  /\ LET element == Head(todo)
     IN  IF element.token \in DOMAIN trie
           THEN token_add(element.token, element.offset)
           ELSE token_new(element.token, element.offset, "PS_ORDINARY")
  /\ todo' = Tail(todo)
  /\ UNCHANGED << inputVars, flow_set, variantVars, offsets, pc >>

TraverseDone ==
  /\ pc = "traverse" /\ todo = << >>
  /\ todo' = trie_dfs
  /\ pc' = "fix"
  /\ UNCHANGED << inputVars, flow_set, trieVars, variantVars, offsets >>

\* token_set_position_specific
FixOffset ==
  /\ pc = "fix" /\ todo # << >>
  /\ trie' = IF Cardinality(DOMAIN trie[Head(todo)].offset_occurrence) = 1
               THEN [trie EXCEPT ![Head(todo)].position_specific = "PS_NOT_MERGE"]
               ELSE trie
  /\ todo' = Tail(todo)
  /\ UNCHANGED << inputVars, flow_set, ordinary, specific, variantVars, offsets, pc >>

FixDone ==
  /\ pc = "fix" /\ todo = << >>
  /\ todo' = trie_dfs
  /\ pc' = "search"
  /\ UNCHANGED << inputVars, flow_set, trieVars, variantVars, offsets >>

Frequent(text) ==
  { o \in DOMAIN trie[text].offset_occurrence : trie[text].offset_occurrence[o] >= k_offset }

NumVariants(o) ==
  IF o \in DOMAIN offset_variants THEN offset_variants[o].num_variants ELSE 0
HeadOf(o) ==
  IF o \in DOMAIN offset_variants THEN offset_variants[o].variants ELSE NULL

\* The lists with text at the head of those of its frequent offsets.
Counting(text) ==
  [o \in DOMAIN offset_variants \cup Frequent(text) |->
     IF o \in Frequent(text) THEN [num_variants |-> NumVariants(o) + 1, variants |-> text]
     ELSE offset_variants[o]]

\* Mutant: the link is left as it is in the list of tokens.
SearchOffsets_NoLink ==
  /\ pc = "search" /\ todo # << >>
  /\ offset_variants' = Counting(Head(todo))
  /\ todo' = Tail(todo)
  /\ UNCHANGED << inputVars, flow_set, trieVars, set_next, offsets, pc >>

\* search_callback: offset_new or offset_add for every frequent offset.  The
\* token becomes the head of every list; the one link it has is to what was
\* the head of the list it is inserted in last.
SearchOffsets ==
  /\ pc = "search" /\ todo # << >>
  /\ LET t == Head(todo)
     IN  /\ offset_variants' = Counting(t)
         /\ IF Frequent(t) = {} THEN UNCHANGED set_next
            ELSE \E last \in Frequent(t) : set_next' = [set_next EXCEPT ![t] = HeadOf(last)]
  /\ todo' = Tail(todo)
  /\ UNCHANGED << inputVars, flow_set, trieVars, offsets, pc >>

SearchDone ==
  /\ pc = "search" /\ todo = << >>
  /\ offsets' = DOMAIN offset_variants
  /\ pc' = "merge"
  /\ UNCHANGED << inputVars, flow_set, trieVars, variantVars, todo >>

\* The strings that a walk of the list of variants passes.
Variants(o) ==
  LET walk[n \in 0..Len(tokens)] ==
        IF n = 0 THEN HeadOf(o)
        ELSE IF walk[n - 1] = NULL THEN NULL ELSE set_next[walk[n - 1]]
  IN  [n \in { m \in 1..Len(tokens) : walk[m - 1] # NULL } |-> walk[n - 1]]

Least(S) == CHOOSE m \in S : \A n \in S : m <= n

\* The text that is put together in a buffer from malloc: what was there,
\* "^" at the begin of a flow, and the variants with "|" in between.
MergedText(o, junk) == [junk |-> junk, begin |-> o = 0, variants |-> Variants(o)]

SameText(text, merged) == merged = [junk |-> FALSE, begin |-> FALSE, variants |-> << text >>]

\* Mutant: the length stays its own.
Merged_OwnLength(text, merge_token, members) ==
  LET t == [trie[text] EXCEPT !.merge_token = merge_token]
  IN  IF SameText(text, merge_token) THEN t
      ELSE [t EXCEPT !.position_specific = "PS_MERGE", !.replacement = specific]

Merged(text, merge_token, members) ==
  LET t == [trie[text] EXCEPT !.merge_token = merge_token]
  IN  IF SameText(text, merge_token) THEN t
      ELSE [t EXCEPT !.position_specific = "PS_MERGE",
                     !.replacement = specific,
                     !.shortest_len = Least({ 256 } \cup { Len(u) : u \in members })]

\* Mutant: the counter is not moved on.
MergeVariants_SameCode(o) ==
  /\ pc = "merge" /\ o \in offsets
  /\ IF offset_variants[o].num_variants < beta_merge
       THEN \E junk \in Junk :
              trie' = [t \in DOMAIN trie |->
                LET members == ToSet(Variants(o))
                IN  IF t \in members THEN Merged(t, MergedText(o, junk), members)
                    ELSE trie[t]]
       ELSE UNCHANGED trie
  /\ offsets' = offsets \ { o }
  /\ UNCHANGED << inputVars, flow_set, ordinary, specific, variantVars, todo, pc >>

\* merge_by_position_speific_with_offset_variants
MergeVariants(o) ==
  /\ pc = "merge" /\ o \in offsets
  /\ IF offset_variants[o].num_variants < beta_merge
       THEN /\ \E junk \in Junk :
                 trie' = [t \in DOMAIN trie |->
                   LET members == ToSet(Variants(o))
                   IN  IF t \in members THEN Merged(t, MergedText(o, junk), members)
                       ELSE trie[t]]
            /\ specific' = specific - 1
       ELSE UNCHANGED << trie, specific >>
  /\ offsets' = offsets \ { o }
  /\ UNCHANGED << inputVars, flow_set, ordinary, variantVars, todo, pc >>

MergeDone ==
  /\ pc = "merge" /\ offsets = {}
  /\ pc' = "positioned"
  /\ UNCHANGED << inputVars, flow_set, trieVars, variantVars, loopVars >>

position_constraints_main ==
  \/ FlowNew \/ FlowsDone \/ TraverseToken \/ TraverseDone \/ FixOffset \/ FixDone
  \/ SearchOffsets \/ SearchDone \/ (\E o \in offsets : MergeVariants(o)) \/ MergeDone

-----------------------------------------------------------------------------
\* How often a token is listed, in how many payloads it is at an offset, and
\* what is counted for it there.
Listed(t)   == Cardinality({ n \in DOMAIN tokens : tokens[n] = t })
Found(t, o) == Cardinality({ p \in DOMAIN payloads : o \in Occurrences(t, payloads[p]) })
Tally(t, o) == Listed(t) * Found(t, o)

FoundAt(t) == UNION { Occurrences(t, payloads[p]) : p \in DOMAIN payloads }

InPositions == pc \in { "fix", "search", "merge", "positioned" }

(* The trie holds the tokens that occur, each with the offsets where it    *)
(* does and the number of payloads that have it there, counted once for    *)
(* each time the token is listed.                                          *)
OccurrencesRight ==
  InPositions =>
    /\ DOMAIN trie = { t \in ToSet(tokens) : FoundAt(t) # {} }
    /\ \A t \in DOMAIN trie :
         trie[t].offset_occurrence = [o \in FoundAt(t) |-> Tally(t, o)]

Sharing(o) == { t \in DOMAIN trie : o \in FoundAt(t) /\ Tally(t, o) >= k_offset }

Shared(t) == { o \in FoundAt(t) : t \in Sharing(o) }

\* The list of an offset holds the tokens that are frequent there.
ListedFor(o) == ToSet(Variants(o)) = Sharing(o)

(* "We count the number of different tokens that start from" an offset     *)
(* with enough occurrences: num_variants is that number.  "We only         *)
(* consider position-specific tokens that appear in all the flows"         *)
(* (main.c): with such a k_offset, and tokens listed once, the list of the *)
(* offset also holds the tokens counted, although a token is in several    *)
(* lists with one link; any two that share an offset then share all those  *)
(* of the longer.                                                          *)
VariantsRight ==
  pc \in { "merge", "positioned" } =>
    /\ DOMAIN offset_variants = UNION { Shared(t) : t \in DOMAIN trie }
    /\ \A o \in DOMAIN offset_variants :
         /\ offset_variants[o].num_variants = Cardinality(Sharing(o))
         /\ k_offset = Len(payloads) /\ IsInjective(tokens) => ListedFor(o)

(* No two tokens have the same code unless both were merged, and every     *)
(* code is one that its counter has passed.                                *)
CodesDistinct ==
  \A t, u \in DOMAIN trie :
    /\ trie[t].replacement \in (specific + 1)..-2 \cup 258..(ordinary - 1)
    /\ t # u /\ trie[t].replacement = trie[u].replacement =>
         trie[t].position_specific = "PS_MERGE" /\ trie[u].position_specific = "PS_MERGE"

OneOffsetEach == \A t \in DOMAIN trie : Cardinality(Shared(t)) <= 1

(* Where every token is frequent at one offset at most, those that share   *)
(* an offset with fewer than beta_merge are merged, with one code and one  *)
(* length for all of them and for no other; the rest is as before.  One    *)
(* that is alone there is marked as merged only for the text in the        *)
(* buffer: the "^" of offset 0, or what malloc left.                       *)
MergedRight ==
  pc = "positioned" /\ OneOffsetEach =>
    \A t \in DOMAIN trie :
      LET merging == { o \in Shared(t) : Cardinality(Sharing(o)) < beta_merge }
          alike   == { u \in DOMAIN trie : trie[u].replacement = trie[t].replacement }
      IN  /\ merging = {} =>
               /\ trie[t].merge_token = NULL /\ alike = { t }
               /\ trie[t].position_specific # "PS_MERGE"
          /\ \A o \in merging :
               /\ ToSet(trie[t].merge_token.variants) = Sharing(o) /\ alike = Sharing(o)
               /\ trie[t].shortest_len = Least({ Len(u) : u \in Sharing(o) })
               /\ trie[t].merge_token.begin <=> o = 0
               /\ trie[t].position_specific = "PS_MERGE" <=>
                    o = 0 \/ Cardinality(Sharing(o)) > 1 \/ trie[t].merge_token.junk

(* The comment in position_constraints_main, for whatever k_offset: "for   *)
(* each of them we count the number of different tokens [...]. If that     *)
(* number is smaller than a threshold beta_merge, we combine those tokens". *)
VariantsAlwaysListed ==
  pc = "merge" => \A o \in DOMAIN offset_variants : ListedFor(o)
=============================================================================
