------------------------------ MODULE Conversion ------------------------------
(***************************************************************************)
(* convertion_main of src/convertion.c: every payload becomes a sequence   *)
(* of integers, in which the tokens of the trie are replaced by their      *)
(* codes.  With the modules it extends, this is the way of the tokens      *)
(* through main.c.  A step replaces one match of one token.                *)
(***************************************************************************)
EXTENDS ProductDistribution

CONSTANT Unset    \* what malloc left in an item nobody has written

VARIABLES
  flow_converted,          \* of the payload that is converted
  first_flag,              \* how many tokens were tried on it
  src_p,                   \* where the search for the next match starts
  replacement_counter,
  flows_converted          \* the list of what was converted

conversionVars ==
  << flow_converted, first_flag, src_p, replacement_counter, flows_converted >>

vars == << positionVars, productVars, conversionVars >>

Init ==
  /\ PositionInit /\ ProductInit
  /\ flow_converted = << >> /\ first_flag = 0 /\ src_p = 0
  /\ replacement_counter = 0 /\ flows_converted = << >>

earlierVars == << inputVars, flow_set, trieVars, variantVars, offsets >>

\* convertion_data_single_new, for the next payload.
StartFlow ==
  /\ \/ pc = "extracted" /\ nth' = 1
     \/ pc = "convert_next" /\ nth' = nth + 1
  /\ IF nth' > Len(payloads)
       THEN pc' = "converted" /\ UNCHANGED << todo, conversionVars >>
       ELSE /\ flow_converted' = [n \in 1..Len(payloads[nth']) |-> Unset]
            /\ first_flag' = 0 /\ src_p' = 0 /\ replacement_counter' = 0
            /\ todo' = trie_dfs
            /\ pc' = "convert"
            /\ UNCHANGED flows_converted
  /\ UNCHANGED << earlierVars, index, offset_distribution, bytes >>

\* (int) of a char.
ToInt(byte) == IF byte > 127 THEN byte - 256 ELSE byte

flow == payloads[nth]

Ahead == { o \in Occurrences(Head(todo), flow) : o >= src_p }

\* The items of a part that no match covers: written for the first token.
Copied(first, last) ==
  [n \in DOMAIN flow_converted |->
     IF first < n /\ n <= last /\ first_flag = 0 THEN ToInt(flow[n]) ELSE flow_converted[n]]

\* Mutant: the search goes on right behind the start of a match.
ReplaceMatch_Overlapping ==
  /\ pc = "convert" /\ todo # << >> /\ Ahead # {}
  /\ LET pattern == Head(todo)
         pos     == Least(Ahead)
         Item(n) == IF replacement_counter + n - pos - 1 < trie[pattern].shortest_len
                      THEN trie[pattern].replacement ELSE -1
     IN  /\ flow_converted' =
              [n \in DOMAIN flow_converted |->
                 IF pos < n /\ n <= pos + Len(pattern) THEN Item(n) ELSE Copied(src_p, pos)[n]]
         /\ src_p' = pos + 1
         /\ replacement_counter' = replacement_counter + Len(pattern)
  /\ UNCHANGED << earlierVars, productVars, todo, first_flag, flows_converted, pc >>

ReplaceMatch ==
  /\ pc = "convert" /\ todo # << >> /\ Ahead # {}
  /\ LET pattern == Head(todo)
         pos     == Least(Ahead)
         Item(n) == IF replacement_counter + n - pos - 1 < trie[pattern].shortest_len
                      THEN trie[pattern].replacement ELSE -1
     IN  /\ flow_converted' =
              [n \in DOMAIN flow_converted |->
                 IF pos < n /\ n <= pos + Len(pattern) THEN Item(n) ELSE Copied(src_p, pos)[n]]
         /\ src_p' = pos + Len(pattern)
         /\ replacement_counter' = replacement_counter + Len(pattern)
  /\ UNCHANGED << earlierVars, productVars, todo, first_flag, flows_converted, pc >>

ReplaceRest ==
  /\ pc = "convert" /\ todo # << >> /\ Ahead = {}
  /\ flow_converted' = Copied(src_p, Len(flow))
  /\ src_p' = 0 /\ replacement_counter' = 0
  /\ first_flag' = first_flag + 1
  /\ todo' = Tail(todo)
  /\ UNCHANGED << earlierVars, productVars, flows_converted, pc >>

FlowDone ==
  /\ pc = "convert" /\ todo = << >>
  /\ flows_converted' = << flow_converted >> \o flows_converted
  /\ pc' = "convert_next"
  /\ UNCHANGED << earlierVars, productVars, todo, flow_converted, first_flag, src_p,
                  replacement_counter >>

convertion_main == StartFlow \/ ReplaceMatch \/ ReplaceRest \/ FlowDone

Next ==
  \/ position_constraints_main /\ UNCHANGED << productVars, conversionVars >>
  \/ product_distribution_main /\ UNCHANGED conversionVars
  \/ convertion_main

Spec     == Init /\ [][Next]_vars
\* The program runs on.
FairSpec == Spec /\ WF_vars(Next)

-----------------------------------------------------------------------------
TypeOK ==
  /\ DOMAIN trie \subseteq Seq(1..255)
  /\ \A t \in DOMAIN trie :
       /\ trie[t].replacement \in Int /\ trie[t].shortest_len \in 1..256
       /\ trie[t].position_specific \in { "PS_ORDINARY", "PS_NOT_MERGE", "PS_MERGE",
                                          "PS_SINGLE_BEGIN", "PS_SINGLE_END", "PS_SINGLE" }
       /\ trie[t].offset_occurrence \in [DOMAIN trie[t].offset_occurrence -> Nat \ { 0 }]
  /\ ordinary \in Int /\ ordinary >= 258 /\ specific \in Int /\ specific <= -2
  /\ offset_variants \in [DOMAIN offset_variants ->
                            [num_variants : 1..Len(tokens), variants : ToSet(tokens)]]
  /\ set_next \in [ToSet(tokens) -> ToSet(tokens) \cup { NULL }]
  /\ nth \in 1..(Len(payloads) + 1) /\ src_p \in Nat /\ first_flag \in Nat
  /\ flow_converted \in Seq(Int \cup { Unset })
  /\ flows_converted \in Seq(Seq(Int \cup { Unset }))

OfPrefix(S, n) == { o \in S : o < n }

\* The matches of a token in a payload that string_replace comes to, from
\* left to right: none overlaps the one before, and none is passed over.
Matches(t, w) ==
  CHOOSE M \in SUBSET Occurrences(t, w) :
    /\ \A m, o \in M : m < o => m + Len(t) <= o
    /\ \A o \in Occurrences(t, w) : \E m \in M : m <= o /\ o < m + Len(t)

Covers(t, w, n) == \E m \in Matches(t, w) : m < n /\ n <= m + Len(t)

\* What the n-th item of payload w has to become.
Converted(w, n) ==
  LET covering == { t \in DOMAIN trie : Covers(t, w, n) }
  IN  IF covering = {} THEN ToInt(w[n])
      ELSE LET t == CHOOSE u \in covering : \A v \in covering \ { u } : Before(v, u)
               m == CHOOSE o \in Matches(t, w) : o < n /\ n <= o + Len(t)
               before == Cardinality(OfPrefix(Matches(t, w), m)) * Len(t) + n - m - 1
           IN  IF before < trie[t].shortest_len THEN trie[t].replacement ELSE -1

(* Whatever tokens overlap, every item ends as the code, or the mark for   *)
(* deletion, of the token with a match there that comes last in the trie,  *)
(* or as its byte if there is none; with a token in the trie no item is    *)
(* left unset, and the payloads come out in reverse order.                 *)
ConvertedRight ==
  /\ TypeOK
  /\ pc = "converted" /\ trie # Nothing =>
       flows_converted =
         Reverse([p \in DOMAIN payloads |->
           [n \in 1..Len(payloads[p]) |-> Converted(payloads[p], n)]])

(* From the payloads and tokens to the end of the conversion no loop runs  *)
(* for ever; the program only stops early if the first payload ends at or  *)
(* before an offset where bytes are counted.                               *)
EncodingEnds ==
  <>(\/ pc = "converted"
     \/ /\ pc = "crashed" /\ payloads # << >>
        /\ \E o \in VisitedOffsets : Len(payloads[1]) <= o)
=============================================================================
