-------------------------- MODULE MCMergeCommonPrefix --------------------------
(* A small instance of MergeCommonPrefix: any of ten tokens, among them one *)
(* that five bytes follow and one below which another is merged.            *)
EXTENDS MergeCommonPrefix

Pool ==
  { << 1 >>, << 1, 1 >>, << 1, 2 >>, << 1, 2, 1 >>, << 1, 2, 2, 1 >>, << 1, 3 >>,
    << 1, 4, 1 >>, << 1, 5 >>, << 2, 1 >>, << 2, 1, 2, 1 >> }

MCInputs == { Sorted(words) : words \in SUBSET Pool }
MCBehind == { << >>, << 9 >> }
=============================================================================
