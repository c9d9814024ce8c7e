-------------------------- MODULE ProductDistribution --------------------------
(***************************************************************************)
(* product_distribution_main of src/product_distribution_model.c: the      *)
(* bytes at the first and last offsets of the payloads are counted, and    *)
(* where they take few values each becomes a token of a single byte in the *)
(* trie that position_constraints_main returned.  A step is an iteration   *)
(* of a loop.                                                              *)
(***************************************************************************)
EXTENDS PositionConstraints

CONSTANTS
  first_bytes, last_bytes, num_bytes, gamma_merge,
  Past          \* the values of the byte behind the end of a payload

ASSUME BytesAssumption ==
  /\ first_bytes \in Nat \ { 0 } /\ last_bytes \in Nat
  /\ num_bytes \in Nat /\ first_bytes <= num_bytes - last_bytes /\ gamma_merge \in Nat
ASSUME PastAssumption == Past \subseteq 0..255

VARIABLES
  nth, index,              \* the payload and the offset that are counted
  offset_distribution,     \* offset -> byte -> frequency
  bytes                    \* the offset and the bytes left of an extraction

productVars == << nth, index, offset_distribution, bytes >>

ProductInit ==
  /\ nth = 1 /\ index = 0 /\ offset_distribution = Nothing
  /\ bytes = [offset |-> 0, left |-> {}]

StartCount ==
  /\ pc = "positioned"
  /\ pc' = "count"
  /\ UNCHANGED << inputVars, flow_set, trieVars, variantVars, loopVars, productVars >>

Visits(n) == n < first_bytes \/ (n >= num_bytes - last_bytes /\ n < num_bytes)

\* Mutant: the jump is taken again and again.
NextIndex_Again(n) == IF n >= first_bytes - 1 THEN num_bytes - last_bytes ELSE n + 1

NextIndex(n) == IF n = first_bytes - 1 THEN num_bytes - last_bytes ELSE n + 1

Distributed(o) == IF o \in DOMAIN offset_distribution THEN offset_distribution[o] ELSE Nothing

Counted(byte) ==
  offset_distribution' = With(offset_distribution, index, Plus1(Distributed(index), byte))

\* byte_distribution_add and byte_distribution_new: only the first of them
\* looks at the length of the payload.
CountByte ==
  /\ pc = "count" /\ nth <= Len(payloads) /\ Visits(index)
  /\ LET length == Len(payloads[nth])
         known  == index \in DOMAIN offset_distribution
     IN  \/ index < length /\ Counted(payloads[nth][index + 1]) /\ UNCHANGED pc
         \/ index >= length /\ known /\ UNCHANGED << offset_distribution, pc >>
         \/ index = length /\ ~ known /\ (\E byte \in Past : Counted(byte)) /\ UNCHANGED pc
         \/ index > length /\ ~ known /\ pc' = "crashed" /\ UNCHANGED offset_distribution
  /\ index' = NextIndex(index)
  /\ UNCHANGED << inputVars, flow_set, trieVars, variantVars, loopVars, nth, bytes >>

CountNextPayload ==
  /\ pc = "count" /\ nth <= Len(payloads) /\ ~ Visits(index)
  /\ nth' = nth + 1 /\ index' = 0
  /\ UNCHANGED << inputVars, flow_set, trieVars, variantVars, loopVars,
                  offset_distribution, bytes, pc >>

CountDone ==
  /\ pc = "count" /\ nth > Len(payloads)
  /\ offsets' = DOMAIN offset_distribution
  /\ pc' = "extract"
  /\ UNCHANGED << inputVars, flow_set, trieVars, variantVars, todo, productVars >>

\* Mutant: off by one.
ExtractOffset_Fewer(o) ==
  /\ pc = "extract" /\ bytes.left = {} /\ o \in offsets
  /\ offsets' = offsets \ { o }
  /\ bytes' = [ offset |-> o,
                left   |-> IF Cardinality(DOMAIN offset_distribution[o]) >= gamma_merge
                             THEN {} ELSE DOMAIN offset_distribution[o] ]
  /\ UNCHANGED << inputVars, flow_set, trieVars, variantVars, todo,
                  nth, index, offset_distribution, pc >>

\* An offset with more than gamma_merge values is left out.
ExtractOffset(o) ==
  /\ pc = "extract" /\ bytes.left = {} /\ o \in offsets
  /\ offsets' = offsets \ { o }
  /\ bytes' = [ offset |-> o,
                left   |-> IF Cardinality(DOMAIN offset_distribution[o]) > gamma_merge
                             THEN {} ELSE DOMAIN offset_distribution[o] ]
  /\ UNCHANGED << inputVars, flow_set, trieVars, variantVars, todo,
                  nth, index, offset_distribution, pc >>

\* A byte as a string, that ends before a NUL.
Raw(byte) == IF byte = 0 THEN << >> ELSE << byte >>

single_token(byte, o) ==
  IF o = 0 THEN << Hat >> \o Raw(byte)
  ELSE IF o = num_bytes - 1 THEN Raw(byte) \o << Dollar >>
  ELSE Raw(byte)

Kind(text) ==
  IF text[1] = Hat THEN "PS_SINGLE_BEGIN"
  ELSE IF text[Len(text)] = Dollar THEN "PS_SINGLE_END"
  ELSE "PS_SINGLE"

\* No string is made of an empty text, and token_new returns NULL.
ExtractByte(byte) ==
  /\ pc = "extract" /\ byte \in bytes.left
  /\ LET text == single_token(byte, bytes.offset)
     IN  IF text = << >>
           THEN pc' = "crashed" /\ UNCHANGED trieVars
           ELSE token_new(text, bytes.offset, Kind(text)) /\ UNCHANGED pc
  /\ bytes' = [bytes EXCEPT !.left = @ \ { byte }]
  /\ UNCHANGED << inputVars, flow_set, variantVars, loopVars,
                  nth, index, offset_distribution >>

ExtractDone ==
  /\ pc = "extract" /\ bytes.left = {} /\ offsets = {}
  /\ pc' = "extracted"
  /\ UNCHANGED << inputVars, flow_set, trieVars, variantVars, loopVars, productVars >>

product_distribution_main ==
  \/ StartCount \/ CountByte \/ CountNextPayload \/ CountDone
  \/ (\E o \in offsets : ExtractOffset(o))
  \/ (\E byte \in bytes.left : ExtractByte(byte))
  \/ ExtractDone

-----------------------------------------------------------------------------
VisitedOffsets == 0..(first_bytes - 1) \cup (num_bytes - last_bytes)..(num_bytes - 1)

ValuesAt(o) == { payloads[p][o + 1] : p \in { q \in DOMAIN payloads : o < Len(payloads[q]) } }

\* The values counted at an offset: where the first payload ends right there,
\* the byte behind it is one of them.
SampleOf(o) ==
  IF o = Len(payloads[1])
    THEN \E byte \in Past : DOMAIN offset_distribution[o] = ValuesAt(o) \cup { byte }
    ELSE DOMAIN offset_distribution[o] = ValuesAt(o)

\* The bytes at the first and last offsets, where there are few.
Singles ==
  UNION { (DOMAIN offset_distribution[o]) \X { o } :
            o \in { v \in VisitedOffsets : Cardinality(DOMAIN offset_distribution[v]) <= gamma_merge } }

SinglesFor(t) == { s \in Singles : single_token(s[1], s[2]) = t }

SingleKinds == { "PS_SINGLE_BEGIN", "PS_SINGLE_END", "PS_SINGLE" }

\* What position_constraints.h says of the kinds of single tokens.
PositionKind(o) ==
  IF o = 0 THEN "PS_SINGLE_BEGIN"
  ELSE IF o = num_bytes - 1 THEN "PS_SINGLE_END"
  ELSE "PS_SINGLE"

(* At the first and the last offsets, counted whatever the lengths of the  *)
(* payloads, a byte is a token where few values occur, and only there; it  *)
(* takes the place of what had the same text, is found at one of its       *)
(* offsets, and has the kind of that offset, unless the byte itself is "^" *)
(* or "$", by which the code tells the kinds.  No byte is counted that no  *)
(* payload has there, but the one behind a first payload that ends there.  *)
SinglesRight ==
  pc = "extracted" /\ payloads # << >> =>
    /\ DOMAIN offset_distribution = VisitedOffsets
    /\ \A o \in VisitedOffsets : SampleOf(o)
    /\ \A single \in Singles : single_token(single[1], single[2]) \in DOMAIN trie
    /\ \A t \in DOMAIN trie :
         IF SinglesFor(t) = {}
           THEN trie[t].position_specific \in { "PS_ORDINARY", "PS_NOT_MERGE", "PS_MERGE" }
           ELSE /\ trie[t].position_specific \in SingleKinds
                /\ \E single \in SinglesFor(t) :
                     /\ trie[t].offset_occurrence = Once(single[2])
                     /\ single[1] \notin { Hat, Dollar } =>
                          trie[t].position_specific = PositionKind(single[2])
=============================================================================
