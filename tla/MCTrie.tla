-------------------------------- MODULE MCTrie --------------------------------
(* A small instance of Trie: keys that are prefixes of each other, the     *)
(* empty key, and a binary key with a NUL that other calls cut off.        *)
EXTENDS Trie

MCKeys == { << >>, << 1 >>, << 1, 2, 1 >>, << 2, 1 >>, << 1, 0, 2 >> }
=============================================================================
