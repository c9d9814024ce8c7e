----------------------------- MODULE MCSuffixTree -----------------------------
(* Small instances of SuffixTree: every word of up to a given length over  *)
(* two items, and longer words that start and end alike, for which Rule 3  *)
(* stops many phases early and one phase then makes many extensions.       *)
EXTENDS SuffixTreeWords

CONSTANT MaxLen

WordsUpTo(n) == UNION { [1..k -> { 1, 2 }] : k \in 1..n }

MCInputs == WordsUpTo(MaxLen)

MCBordered ==
  MCInputs \cup { u \o << item >> \o u :
                    u \in { v \in [1..MaxLen -> { 1, 2 }] : v[1] = 1 }, item \in { 1, 2 } }
=============================================================================
