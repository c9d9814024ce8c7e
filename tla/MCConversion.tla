----------------------------- MODULE MCConversion -----------------------------
(* Small instances of Conversion: two or three payloads and two or three   *)
(* tokens that overlap, share offsets, occur more than once, or are listed *)
(* twice.                                                                  *)
EXTENDS Conversion

CONSTANTS Payloads, Tokens    \* the words to choose from
CONSTANTS NumPayloads, NumTokens, KOffsets, Twice

a == 97
b == 98

\* "abab", "^abb", "ba\xc8", "b"
MCPayloads == { << a, b, a, b >>, << Hat, a, b, b >>, << b, a, 200 >>, << b >> }
\* "ab", "b", "abb", "^a"
MCTokens   == { << a, b >>, << b >>, << a, b, b >>, << Hat, a >> }

\* Whether the first token is listed again is in Twice.
MCLists ==
  LET sorted == { SetToSortSeq(S, Before) :
                    S \in { T \in SUBSET Tokens : Cardinality(T) \in NumTokens } }
  IN  { IF twice THEN Append(s, Head(s)) ELSE s : s \in sorted, twice \in Twice }

MCInputs ==
  { [payloads |-> p, tokens |-> s, k_offset |-> k] :
      p \in UNION { [1..n -> Payloads] : n \in NumPayloads },
      s \in MCLists, k \in KOffsets }
=============================================================================
