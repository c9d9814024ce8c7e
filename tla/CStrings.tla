------------------------------- MODULE CStrings -------------------------------
(***************************************************************************)
(* What the C library, and pattern_search.c, compute on strings.  A string *)
(* is the sequence of its bytes, none of them NUL.                         *)
(***************************************************************************)
EXTENDS Integers, Sequences

HasPrefix(w, u) == Len(u) <= Len(w) /\ \A n \in DOMAIN u : w[n] = u[n]

\* strcmp(u, w) < 0
Before(u, w) ==
  \/ HasPrefix(w, u) /\ u # w
  \/ \E n \in DOMAIN u \cap DOMAIN w :
       u[n] < w[n] /\ \A m \in 1..(n - 1) : u[m] = w[m]

\* The offsets where pattern starts in target: what kmp_search returns,
\* as KmpProof proves.
Occurrences(pattern, target) ==
  { o \in 0..(Len(target) - Len(pattern)) :
      \A n \in DOMAIN pattern : target[o + n] = pattern[n] }
=============================================================================
