--------------------------------- MODULE Kmp ---------------------------------
(***************************************************************************)
(* The Knuth-Morris-Pratt search of src/pattern_search.c, with which the   *)
(* occurrences of a token in a payload are found.  build_lps_array fills   *)
(* the failure table, kmp_search scans the target; a step is one iteration *)
(* of one of their loops.  Arrays are counted from 0 as in C.              *)
(***************************************************************************)
EXTENDS Integers

CONSTANTS
  Char,     \* the characters of strings, the terminator excluded
  M,        \* strlen(pattern)
  N,        \* strlen(target)
  Garbage   \* the ints that malloc may leave in an array

ASSUME MAssumption == M \in Nat \ { 0 }     \* the callers pass tokens, never ""
ASSUME NAssumption == N \in Nat
ASSUME GarbageAssumption == Garbage \subseteq Int

VARIABLES
  pattern, target,
  lps, len,             \* the failure table, and the border being extended
  i, j,                 \* positions: of the table or target, of the pattern
  indices, index,       \* the array returned, and how much of it is used
  pc                    \* "build", "search" or "done"

vars == << pattern, target, lps, len, i, j, indices, index, pc >>

\* lps comes from malloc; build_lps_array sets its first entry at once.
Init ==
  /\ pattern \in [0..(M - 1) -> Char]
  /\ target \in [0..(N - 1) -> Char]
  /\ \E garbage \in [0..(M - 1) -> Garbage] : lps = [garbage EXCEPT ![0] = 0]
  /\ len = 0 /\ i = 1 /\ j = 0
  /\ indices = [k \in 0..(N - 1) |-> -1]
  /\ index = 0
  /\ pc = "build"

-----------------------------------------------------------------------------
\* build_lps_array, while (i < M).
Building == pc = "build" /\ i < M

BuildExtend ==
  /\ Building /\ pattern[i] = pattern[len]
  /\ len' = len + 1
  /\ lps' = [lps EXCEPT ![i] = len + 1]
  /\ i' = i + 1
  /\ UNCHANGED << pattern, target, j, indices, index, pc >>

\* Mutant of BuildFallBack: gives up the border instead of trying a shorter.
BuildFallBack_Reset ==
  /\ Building /\ pattern[i] # pattern[len] /\ len # 0
  /\ len' = 0
  /\ UNCHANGED << pattern, target, lps, i, j, indices, index, pc >>

BuildFallBack ==
  /\ Building /\ pattern[i] # pattern[len] /\ len # 0
  /\ len' = lps[len - 1]
  /\ UNCHANGED << pattern, target, lps, i, j, indices, index, pc >>

BuildNone ==
  /\ Building /\ pattern[i] # pattern[len] /\ len = 0
  /\ lps' = [lps EXCEPT ![i] = 0]
  /\ i' = i + 1
  /\ UNCHANGED << pattern, target, len, j, indices, index, pc >>

\* Back in kmp_search.
StartSearch ==
  /\ pc = "build" /\ i >= M
  /\ i' = 0 /\ j' = 0 /\ pc' = "search"
  /\ UNCHANGED << pattern, target, lps, len, indices, index >>

-----------------------------------------------------------------------------
\* kmp_search, while (i < N).  i and j after the first if of the body:
Searching == pc = "search" /\ i < N
Step      == IF pattern[j] = target[i] THEN 1 ELSE 0
i1        == i + Step
j1        == j + Step

\* Mutant of Found: the search goes on behind the match.
Found_NoOverlap ==
  /\ Searching /\ j1 = M
  /\ indices' = [indices EXCEPT ![index] = i1 - j1]
  /\ index' = index + 1
  /\ i' = i1 /\ j' = 0
  /\ UNCHANGED << pattern, target, lps, len, pc >>

Found ==
  /\ Searching /\ j1 = M
  /\ indices' = [indices EXCEPT ![index] = i1 - j1]
  /\ index' = index + 1
  /\ i' = i1 /\ j' = lps[j1 - 1]
  /\ UNCHANGED << pattern, target, lps, len, pc >>

Mismatch == j1 # M /\ i1 < N /\ pattern[j1] # target[i1]

\* Mutant of FallBack: starts over one behind the start of the match.
FallBack_StartOver ==
  /\ Searching /\ Mismatch /\ j1 # 0
  /\ i' = i1 - j1 + 1 /\ j' = 0
  /\ UNCHANGED << pattern, target, lps, len, indices, index, pc >>

FallBack ==
  /\ Searching /\ Mismatch /\ j1 # 0
  /\ i' = i1 /\ j' = lps[j1 - 1]
  /\ UNCHANGED << pattern, target, lps, len, indices, index, pc >>

\* Mutant of Advance: does not advance.
Advance_Stay ==
  /\ Searching /\ Mismatch /\ j1 = 0
  /\ i' = i1 /\ j' = 0
  /\ UNCHANGED << pattern, target, lps, len, indices, index, pc >>

Advance ==
  /\ Searching /\ Mismatch /\ j1 = 0
  /\ i' = i1 + 1 /\ j' = 0
  /\ UNCHANGED << pattern, target, lps, len, indices, index, pc >>

Match ==
  /\ Searching /\ j1 # M /\ ~ Mismatch
  /\ i' = i1 /\ j' = j1
  /\ UNCHANGED << pattern, target, lps, len, indices, index, pc >>

Return ==
  /\ pc = "search" /\ i >= N
  /\ pc' = "done"
  /\ UNCHANGED << pattern, target, lps, len, i, j, indices, index >>

Build  == BuildExtend \/ BuildFallBack \/ BuildNone \/ StartSearch
Search == Found \/ FallBack \/ Advance \/ Match \/ Return
Next   == Build \/ Search

Spec     == Init /\ [][Next]_vars
FairSpec == Spec /\ WF_vars(Next)

-----------------------------------------------------------------------------
\* b items of the pattern are both the start and the end of its first m.
Border(b, m) ==
  b \in 0..(m - 1) /\ \A k \in 0..(b - 1) : pattern[k] = pattern[m - b + k]

LongestBorder(b, m) ==
  Border(b, m) /\ \A c \in 0..(m - 1) : Border(c, m) => c <= b

\* The pattern occurs in the target at position p.
Occurs(p) ==
  p \in 0..(N - M) /\ \A k \in 0..(M - 1) : pattern[k] = target[p + k]

TypeOK ==
  /\ pattern \in [0..(M - 1) -> Char]
  /\ target \in [0..(N - 1) -> Char]
  /\ lps \in [0..(M - 1) -> Int]
  /\ len \in 0..(M - 1)
  /\ i \in Nat /\ j \in 0..(M - 1)
  /\ indices \in [0..(N - 1) -> Int]
  /\ index \in 0..N
  /\ pc \in { "build", "search", "done" }

(* build_lps_array: an entry of the table, once written, is the length of  *)
(* the longest proper border of the pattern up to that position.           *)
TableRight ==
  \A q \in 0..(M - 1) : (pc = "build" => q < i) => LongestBorder(lps[q], q + 1)

(* kmp_search: what is reported is an occurrence, in ascending order, the  *)
(* rest of the array stays -1, and when the scan is over nothing was       *)
(* skipped.                                                                *)
ReportedSound ==
  /\ \A k \in 0..(index - 1) : Occurs(indices[k])
  /\ \A k \in 0..(index - 1), m \in 0..(index - 1) : k < m => indices[k] < indices[m]
  /\ \A k \in index..(N - 1) : indices[k] = -1

SearchComplete ==
  pc = "done" => \A p \in 0..(N - M) : Occurs(p) => \E k \in 0..(index - 1) : indices[k] = p

(* kmp_search reports the occurrences: no other position, and in the end   *)
(* every one, those that overlap included.                                 *)
SearchRight == ReportedSound /\ SearchComplete

(* The position in the target never goes back (the scan is linear).        *)
NeverBack == [][pc = "search" => i' >= i]_vars

(* kmp_search returns, for every pattern and target.                       *)
Returns == <>(pc = "done")

-----------------------------------------------------------------------------
(* The inductive invariant.  While the table is built, len is a border     *)
(* that every longer border of pattern[0..i-1] failed to continue; while   *)
(* the target is scanned, j items before i match, and every occurrence     *)
(* that starts before this match has been reported.                        *)
Reported(p) == \E k \in 0..(index - 1) : indices[k] = p

BuildInv ==
  pc = "build" =>
    /\ i \in 1..M /\ j = 0 /\ index = 0
    /\ Border(len, i)
    /\ i < M => \A c \in (len + 1)..(i - 1) : Border(c, i) => pattern[c] # pattern[i]

SearchInv ==
  pc # "build" =>
    /\ i <= N /\ j <= i
    /\ \A k \in 0..(j - 1) : pattern[k] = target[i - j + k]
    /\ \A p \in 0..(N - M) : (Occurs(p) /\ p < i - j) => Reported(p)
    /\ \A k \in 0..(index - 1) : k <= indices[k] /\ indices[k] < i - j

IInv ==
  TypeOK /\ TableRight /\ ReportedSound /\ BuildInv /\ SearchInv /\ (pc = "done" => i >= N)
=============================================================================
