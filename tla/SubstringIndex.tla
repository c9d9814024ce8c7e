---------------------------- MODULE SubstringIndex ----------------------------
(***************************************************************************)
(* What a suffix tree promises to its users (src/lst_stree.h): an index of *)
(* all the substrings of the words added to it.  While a word is being     *)
(* added the index may hold any part of what it is to gain, but it never   *)
(* loses anything and never holds what is no substring of an added word.   *)
(***************************************************************************)
EXTENDS Integers, Sequences

CONSTANT Words          \* the words that may be added

VARIABLES
  corpus,               \* the words added so far
  vocabulary,           \* the words that can be read from the root of the tree
  busy                  \* a word is being added

vars == << corpus, vocabulary, busy >>

Substrings(w) == { SubSeq(w, a, b) : a \in 1..Len(w), b \in 1..Len(w) }

Promised(words) == { << >> } \cup UNION { Substrings(w) : w \in words }

Init == corpus = {} /\ vocabulary = { << >> } /\ busy = FALSE

GrowWithin(words) ==
  /\ vocabulary \subseteq vocabulary'
  /\ vocabulary' \subseteq Promised(words)

Begin(w) ==
  /\ ~ busy
  /\ corpus' = corpus \cup { w }
  /\ GrowWithin(corpus')
  /\ busy' = TRUE

Grow ==
  /\ busy
  /\ GrowWithin(corpus)
  /\ UNCHANGED << corpus, busy >>

Finish ==
  /\ busy
  /\ vocabulary = Promised(corpus)
  /\ busy' = FALSE
  /\ UNCHANGED << corpus, vocabulary >>

Next == (\E w \in Words : Begin(w)) \/ Grow \/ Finish

Spec == Init /\ [][Next]_vars

=============================================================================
