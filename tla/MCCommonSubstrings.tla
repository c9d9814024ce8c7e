-------------------------- MODULE MCCommonSubstrings --------------------------
(* Small instances of CommonSubstrings: every word of up to a given length *)
(* over two items, or a few words that share parts of several lengths, and *)
(* the calls of some functions with small arguments.                       *)
EXTENDS CommonSubstrings

CONSTANTS MaxLen, Fns, MinLens, MaxLens, Ks

WordsUpTo(n) == UNION { [1..k -> { 1, 2 }] : k \in 1..n }

MCInputs == WordsUpTo(MaxLen)
MCFew    == { << 1, 2 >>, << 2, 1, 2 >>, << 1, 2, 1, 1 >> }
MCChecked == { << 2, 2 >>, << 2, 1, 2 >> }
MCCalls  == [fn : Fns, min_len : MinLens, max_len : MaxLens, k : Ks, zero_behind : {TRUE}]

\* A call of every function: of most with and without a max_len, and of
\* first_k also where the bytes behind the strings it makes are any.
MCMixed ==
  { [fn |-> "lcs",     min_len |-> 1, max_len |-> 0, k |-> 0, zero_behind |-> TRUE],
    [fn |-> "k_lcs",   min_len |-> 2, max_len |-> 0, k |-> 2, zero_behind |-> TRUE],
    [fn |-> "k_lcs",   min_len |-> 1, max_len |-> 1, k |-> 2, zero_behind |-> TRUE],
    [fn |-> "first_k", min_len |-> 2, max_len |-> 0, k |-> 2, zero_behind |-> TRUE],
    [fn |-> "first_k", min_len |-> 2, max_len |-> 0, k |-> 2, zero_behind |-> FALSE],
    [fn |-> "lrs",     min_len |-> 1, max_len |-> 0, k |-> 0, zero_behind |-> TRUE],
    [fn |-> "lrs",     min_len |-> 1, max_len |-> 2, k |-> 0, zero_behind |-> TRUE] }
=============================================================================
