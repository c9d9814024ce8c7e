------------------------------- MODULE KmpProof -------------------------------
(***************************************************************************)
(* Proofs about Kmp, for every alphabet, pattern and target: the failure   *)
(* table is right, and the search reports the occurrences of the pattern,  *)
(* all of them and nothing else.                                           *)
(***************************************************************************)
EXTENDS Kmp, TLAPS

(* Four facts about borders of the pattern, on which both loops rest.      *)

LEMMA BorderOfBorder ==
  ASSUME NEW m \in Nat, NEW b \in Nat, NEW c \in Nat, Border(b, m), Border(c, m), c < b
  PROVE  Border(c, b)
<1>1. c \in 0..(b - 1)
  OBVIOUS
<1>2. ASSUME NEW k \in 0..(c - 1) PROVE pattern[k] = pattern[b - c + k]
  <2>1. pattern[k] = pattern[m - c + k]
    BY DEF Border
  <2>2. b - c + k \in 0..(b - 1)
    BY <1>1
  <2>3. pattern[b - c + k] = pattern[m - b + (b - c + k)]
    BY <2>2 DEF Border
  <2>4. m - b + (b - c + k) = m - c + k
    OBVIOUS
  <2> QED BY <2>1, <2>3, <2>4
<1> QED BY <1>1, <1>2 DEF Border

LEMMA BorderTransitive ==
  ASSUME NEW m \in Nat, NEW b \in Nat, NEW c \in Nat, Border(b, m), Border(c, b)
  PROVE  Border(c, m)
<1>1. b \in 0..(m - 1) /\ c \in 0..(b - 1)
  BY DEF Border
<1>2. ASSUME NEW k \in 0..(c - 1) PROVE pattern[k] = pattern[m - c + k]
  <2>1. pattern[k] = pattern[b - c + k]
    BY DEF Border
  <2>2. b - c + k \in 0..(b - 1)
    BY <1>1
  <2>3. pattern[b - c + k] = pattern[m - b + (b - c + k)]
    BY <2>2 DEF Border
  <2>4. m - b + (b - c + k) = m - c + k
    OBVIOUS
  <2> QED BY <2>1, <2>3, <2>4
<1>3. c \in 0..(m - 1)
  BY <1>1
<1> QED BY <1>2, <1>3 DEF Border

LEMMA BorderShorter ==
  ASSUME NEW m \in Nat, NEW c \in Nat, Border(c + 1, m + 1)
  PROVE  Border(c, m) /\ pattern[c] = pattern[m]
<1>1. c \in 0..(m - 1)
  BY DEF Border
<1>2. \A k \in 0..c : pattern[k] = pattern[(m + 1) - (c + 1) + k]
  BY DEF Border
<1>3. ASSUME NEW k \in 0..c PROVE pattern[k] = pattern[m - c + k]
  <2>1. (m + 1) - (c + 1) + k = m - c + k
    OBVIOUS
  <2> QED BY <1>2, <2>1
<1>4. pattern[c] = pattern[m]
  <2>1. m - c + c = m
    OBVIOUS
  <2> QED BY <1>3, <2>1
<1> QED BY <1>1, <1>3, <1>4 DEF Border

LEMMA BorderLonger ==
  ASSUME NEW m \in Nat, NEW c \in Nat, Border(c, m), pattern[c] = pattern[m]
  PROVE  Border(c + 1, m + 1)
<1>1. c + 1 \in 0..((m + 1) - 1)
  BY DEF Border
<1>2. ASSUME NEW k \in 0..((c + 1) - 1) PROVE pattern[k] = pattern[(m + 1) - (c + 1) + k]
  <2>1. (m + 1) - (c + 1) + k = m - c + k
    OBVIOUS
  <2>2. CASE k = c
    <3>1. m - c + k = m
      BY <2>2
    <3> QED BY <2>1, <2>2, <3>1
  <2>3. CASE k # c
    <3>1. k \in 0..(c - 1)
      BY <2>3
    <3> QED BY <2>1, <3>1 DEF Border
  <2> QED BY <2>2, <2>3
<1> QED BY <1>1, <1>2 DEF Border

(* Where the first j items of the pattern end at position e of the target, *)
(* a later start of an occurrence before e gives a border of these items.  *)
LEMMA OverlapIsBorder ==
  ASSUME NEW e \in Nat, NEW m \in 0..M, NEW p \in Nat,
         \A k \in 0..(m - 1) : pattern[k] = target[e - m + k],
         Occurs(p), e - m < p, p < e
  PROVE  Border(e - p, m)
<1> USE MAssumption, NAssumption
<1>1. e - p \in 0..(m - 1)
  OBVIOUS
<1>2. ASSUME NEW k \in 0..((e - p) - 1) PROVE pattern[k] = pattern[m - (e - p) + k]
  <2>1. k \in 0..(M - 1) /\ m - (e - p) + k \in 0..(m - 1)
    BY <1>1
  <2>2. pattern[k] = target[p + k]
    BY <2>1 DEF Occurs
  <2>3. pattern[m - (e - p) + k] = target[e - m + (m - (e - p) + k)]
    BY <2>1
  <2>4. e - m + (m - (e - p) + k) = p + k
    OBVIOUS
  <2> QED BY <2>2, <2>3, <2>4
<1> QED BY <1>1, <1>2 DEF Border

-----------------------------------------------------------------------------
LEMMA InitIInv == Init => IInv
<1> SUFFICES ASSUME Init PROVE IInv
  OBVIOUS
<1> USE MAssumption, NAssumption, GarbageAssumption
<1>1. PICK garbage \in [0..(M - 1) -> Garbage] : lps = [garbage EXCEPT ![0] = 0]
  BY DEF Init
<1>2. lps \in [0..(M - 1) -> Int] /\ lps[0] = 0
  <2>1. \A q \in 0..(M - 1) : garbage[q] \in Int
    OBVIOUS
  <2>2. lps = [q \in 0..(M - 1) |-> IF q = 0 THEN 0 ELSE garbage[q]]
    BY <1>1
  <2> QED BY <2>1, <2>2
<1>3. TypeOK
  BY <1>2 DEF Init, TypeOK
<1>4. TableRight
  BY <1>2 DEF Init, TableRight, LongestBorder, Border
<1>5. ReportedSound
  BY DEF Init, ReportedSound
<1>6. BuildInv
  BY DEF Init, BuildInv, Border
<1>7. SearchInv /\ (pc = "done" => i >= N)
  BY DEF Init, SearchInv
<1> QED BY <1>3, <1>4, <1>5, <1>6, <1>7 DEF IInv

LEMMA BuildExtendIInv == ASSUME IInv, BuildExtend PROVE IInv'
<1> USE MAssumption, NAssumption
<1>0. /\ i \in 1..(M - 1) /\ len \in 0..(i - 1) /\ pc = "build" /\ j = 0 /\ index = 0
      /\ Border(len, i)
      /\ \A c \in (len + 1)..(i - 1) : Border(c, i) => pattern[c] # pattern[i]
      /\ pattern[i] = pattern[len]
  BY DEF IInv, BuildInv, TypeOK, BuildExtend, Building, Border
<1>1. Border(len + 1, i + 1)
  BY <1>0, BorderLonger
<1>2. ASSUME NEW c \in Nat, Border(c, i + 1) PROVE c <= len + 1
  <2>1. CASE c = 0
    BY <2>1, <1>0
  <2>2. CASE c # 0
    <3>1. c - 1 \in Nat /\ (c - 1) + 1 = c /\ c - 1 \in 0..(i - 1)
      BY <2>2, <1>0, <1>2 DEF Border
    <3>2. Border(c - 1, i) /\ pattern[c - 1] = pattern[i]
      BY <3>1, <1>0, <1>2, BorderShorter
    <3> QED BY <3>1, <3>2, <1>0
  <2> QED BY <2>1, <2>2
<1>3. TypeOK'
  BY <1>0 DEF IInv, TypeOK, BuildExtend
<1>4. TableRight'
  <2> SUFFICES ASSUME NEW q \in 0..(M - 1), q < i + 1
               PROVE  LongestBorder(lps[q], q + 1)'
    BY <1>0 DEF TableRight, BuildExtend
  <2>1. CASE q = i
    BY <2>1, <1>0, <1>1, <1>2 DEF LongestBorder, Border, BuildExtend, IInv, TypeOK
  <2>2. CASE q # i
    <3>1. q < i /\ lps'[q] = lps[q]
      BY <2>2, <1>0 DEF BuildExtend, IInv, TypeOK
    <3>2. LongestBorder(lps[q], q + 1)
      BY <3>1, <1>0 DEF IInv, TableRight
    <3> QED BY <3>1, <3>2 DEF LongestBorder, Border, BuildExtend
  <2> QED BY <2>1, <2>2
<1>5. ReportedSound'
  BY <1>0 DEF IInv, ReportedSound, BuildExtend, Occurs
<1>6. BuildInv'
  BY <1>0, <1>1, <1>2 DEF BuildInv, Border, BuildExtend
<1>7. SearchInv' /\ (pc = "done" => i >= N)'
  BY <1>0 DEF SearchInv, BuildExtend
<1> QED BY <1>3, <1>4, <1>5, <1>6, <1>7 DEF IInv

LEMMA BuildFallBackIInv == ASSUME IInv, BuildFallBack PROVE IInv'
<1> USE MAssumption, NAssumption
<1>0. /\ i \in 1..(M - 1) /\ len \in 1..(i - 1) /\ pc = "build" /\ j = 0 /\ index = 0
      /\ Border(len, i)
      /\ \A c \in (len + 1)..(i - 1) : Border(c, i) => pattern[c] # pattern[i]
      /\ pattern[i] # pattern[len]
  BY DEF IInv, BuildInv, TypeOK, BuildFallBack, Building, Border
<1> DEFINE b == lps[len - 1]
<1>1. LongestBorder(b, len)
  <2>1. len - 1 \in 0..(M - 1) /\ len - 1 < i /\ (len - 1) + 1 = len
    BY <1>0
  <2> QED BY <2>1, <1>0 DEF IInv, TableRight
<1>2. b \in 0..(len - 1) /\ Border(b, len)
  BY <1>1 DEF LongestBorder, Border
<1>3. Border(b, i)
  BY <1>0, <1>2, BorderTransitive
<1>4. ASSUME NEW c \in (b + 1)..(i - 1), Border(c, i) PROVE pattern[c] # pattern[i]
  <2>1. CASE c < len
    <3>1. Border(c, len)
      BY <1>0, <1>2, <1>4, <2>1, BorderOfBorder
    <3>2. c \in 0..(len - 1)
      BY <1>0, <1>2, <2>1
    <3> QED BY <3>1, <3>2, <1>1, <1>2 DEF LongestBorder
  <2>2. CASE c = len
    BY <2>2, <1>0
  <2>3. CASE c > len
    BY <2>3, <1>0, <1>4
  <2> QED BY <2>1, <2>2, <2>3, <1>0, <1>2
<1>5. TypeOK'
  BY <1>0, <1>2 DEF IInv, TypeOK, BuildFallBack
<1>6. TableRight' /\ ReportedSound'
  BY DEF IInv, TableRight, ReportedSound, LongestBorder, Border, Occurs, BuildFallBack
<1>7. BuildInv'
  BY <1>0, <1>3, <1>4 DEF BuildInv, Border, BuildFallBack
<1>8. SearchInv' /\ (pc = "done" => i >= N)'
  BY <1>0 DEF SearchInv, BuildFallBack
<1> QED BY <1>5, <1>6, <1>7, <1>8 DEF IInv

LEMMA BuildNoneIInv == ASSUME IInv, BuildNone PROVE IInv'
<1> USE MAssumption, NAssumption
<1>0. /\ i \in 1..(M - 1) /\ len = 0 /\ pc = "build" /\ j = 0 /\ index = 0
      /\ \A c \in 1..(i - 1) : Border(c, i) => pattern[c] # pattern[i]
      /\ pattern[i] # pattern[0]
  BY DEF IInv, BuildInv, TypeOK, BuildNone, Building
<1>1. Border(0, i + 1)
  BY <1>0 DEF Border
<1>2. ASSUME NEW c \in Nat, Border(c, i + 1) PROVE c = 0
  <2>1. SUFFICES ASSUME c # 0 PROVE FALSE
    OBVIOUS
  <2>2. c - 1 \in Nat /\ (c - 1) + 1 = c /\ c - 1 \in 0..(i - 1)
    BY <2>1, <1>0, <1>2 DEF Border
  <2>3. Border(c - 1, i) /\ pattern[c - 1] = pattern[i]
    BY <2>2, <1>0, <1>2, BorderShorter
  <2> QED BY <2>2, <2>3, <1>0
<1>3. TypeOK'
  BY <1>0 DEF IInv, TypeOK, BuildNone
<1>4. TableRight'
  <2> SUFFICES ASSUME NEW q \in 0..(M - 1), q < i + 1
               PROVE  LongestBorder(lps[q], q + 1)'
    BY <1>0 DEF TableRight, BuildNone
  <2>1. CASE q = i
    <3>1. lps'[q] = 0
      BY <2>1, <1>0 DEF BuildNone, IInv, TypeOK
    <3>2. LongestBorder(0, q + 1)
      BY <2>1, <1>0, <1>1, <1>2 DEF LongestBorder
    <3> QED BY <3>1, <3>2 DEF LongestBorder, Border, BuildNone
  <2>2. CASE q # i
    <3>1. q < i /\ lps'[q] = lps[q]
      BY <2>2, <1>0 DEF BuildNone, IInv, TypeOK
    <3>2. LongestBorder(lps[q], q + 1)
      BY <3>1, <1>0 DEF IInv, TableRight
    <3> QED BY <3>1, <3>2 DEF LongestBorder, Border, BuildNone
  <2> QED BY <2>1, <2>2
<1>5. ReportedSound'
  BY <1>0 DEF IInv, ReportedSound, BuildNone, Occurs
<1>6. BuildInv'
  BY <1>0, <1>1, <1>2 DEF BuildInv, Border, BuildNone
<1>7. SearchInv' /\ (pc = "done" => i >= N)'
  BY <1>0 DEF SearchInv, BuildNone
<1> QED BY <1>3, <1>4, <1>5, <1>6, <1>7 DEF IInv

LEMMA StartSearchIInv == ASSUME IInv, StartSearch PROVE IInv'
<1> USE MAssumption, NAssumption
<1>0. pc = "build" /\ i = M /\ index = 0
  BY DEF IInv, BuildInv, StartSearch, TypeOK
<1>1. TypeOK'
  BY <1>0 DEF IInv, TypeOK, StartSearch
<1>2. TableRight'
  BY <1>0 DEF IInv, TableRight, LongestBorder, Border, StartSearch
<1>3. ReportedSound'
  BY <1>0 DEF IInv, ReportedSound, Occurs, StartSearch
<1>4. BuildInv' /\ SearchInv' /\ (pc = "done" => i >= N)'
  BY <1>0 DEF BuildInv, SearchInv, Occurs, StartSearch
<1> QED BY <1>1, <1>2, <1>3, <1>4 DEF IInv

-----------------------------------------------------------------------------
(* What holds after the first if of the loop of kmp_search.                *)
LEMMA Stepped ==
  ASSUME IInv, Searching
  PROVE  /\ i1 \in 0..N /\ j1 \in 0..M /\ j1 <= i1 /\ i1 - j1 = i - j /\ i <= i1
         /\ \A k \in 0..(j1 - 1) : pattern[k] = target[i1 - j1 + k]
<1> USE MAssumption, NAssumption
<1>0. i \in 0..(N - 1) /\ j \in 0..(M - 1) /\ j <= i
      /\ \A k \in 0..(j - 1) : pattern[k] = target[i - j + k]
  BY DEF IInv, TypeOK, SearchInv, Searching
<1>1. CASE pattern[j] = target[i]
  <2>1. i1 = i + 1 /\ j1 = j + 1
    BY <1>0, <1>1 DEF i1, j1, Step
  <2>2. ASSUME NEW k \in 0..j PROVE pattern[k] = target[i - j + k]
    <3>1. CASE k = j
      <4>1. i - j + k = i
        BY <3>1, <1>0
      <4> QED BY <4>1, <3>1, <1>1
    <3>2. CASE k # j
      BY <3>2, <1>0
    <3> QED BY <3>1, <3>2
  <2> QED BY <1>0, <2>1, <2>2
<1>2. CASE pattern[j] # target[i]
  <2>1. i1 = i /\ j1 = j
    BY <1>0, <1>2 DEF i1, j1, Step
  <2> QED BY <1>0, <2>1
<1> QED BY <1>1, <1>2

(* Falling back from j1 matched items to their longest border skips no     *)
(* occurrence: one that starts strictly in between would be a longer one.  *)
LEMMA FallBackSkipsNone ==
  ASSUME IInv, Searching, j1 # 0
  PROVE  LET b == lps[j1 - 1]
         IN  /\ b \in 0..(j1 - 1) /\ Border(b, j1)
             /\ \A k \in 0..(b - 1) : pattern[k] = target[i1 - b + k]
             /\ \A p \in 0..(N - M) : (Occurs(p) /\ i1 - j1 < p) => p >= i1 - b
<1> USE MAssumption, NAssumption
<1> DEFINE b == lps[j1 - 1]
<1>0. /\ i1 \in 0..N /\ j1 \in 1..M /\ j1 <= i1
      /\ \A k \in 0..(j1 - 1) : pattern[k] = target[i1 - j1 + k]
  BY Stepped
<1>1. LongestBorder(b, j1)
  <2>1. j1 - 1 \in 0..(M - 1) /\ (j1 - 1) + 1 = j1
    BY <1>0
  <2> QED BY <2>1 DEF IInv, TableRight, Searching
<1>2. b \in 0..(j1 - 1) /\ Border(b, j1)
  BY <1>1 DEF LongestBorder, Border
<1>3. ASSUME NEW k \in 0..(b - 1) PROVE pattern[k] = target[i1 - b + k]
  <2>1. pattern[k] = pattern[j1 - b + k]
    BY <1>2 DEF Border
  <2>2. j1 - b + k \in 0..(j1 - 1) /\ i1 - j1 + (j1 - b + k) = i1 - b + k
    BY <1>0, <1>2
  <2> QED BY <1>0, <2>1, <2>2
<1>4. ASSUME NEW p \in 0..(N - M), Occurs(p), i1 - j1 < p PROVE p >= i1 - b
  <2>1. SUFFICES ASSUME p < i1 - b PROVE FALSE
    BY <1>0, <1>2
  <2>2. p \in Nat /\ p < i1
    BY <2>1, <1>0, <1>2
  <2>3. Border(i1 - p, j1)
    BY <2>2, <1>0, <1>4, OverlapIsBorder
  <2>4. i1 - p \in 0..(j1 - 1) /\ i1 - p > b
    BY <2>1, <2>2, <1>0, <1>2, <1>4
  <2> QED BY <2>3, <2>4, <1>1, <1>2 DEF LongestBorder
<1> QED BY <1>2, <1>3, <1>4

LEMMA FoundIInv == ASSUME IInv, Found PROVE IInv'
<1> USE MAssumption, NAssumption
<1> DEFINE b == lps[j1 - 1]
           start == i1 - j1
<1>0. /\ i1 \in 0..N /\ j1 = M /\ j1 <= i1 /\ start = i - j /\ pc = "search" /\ index \in 0..N
      /\ \A k \in 0..(j1 - 1) : pattern[k] = target[start + k]
      /\ \A k \in 0..(index - 1) : indices[k] \in Int /\ k <= indices[k] /\ indices[k] < start
  BY Stepped, SMTT(30) DEF Found, Searching, IInv, SearchInv, TypeOK
<1>1. /\ b \in 0..(j1 - 1) /\ \A k \in 0..(b - 1) : pattern[k] = target[i1 - b + k]
      /\ \A p \in 0..(N - M) : (Occurs(p) /\ start < p) => p >= i1 - b
  BY <1>0, FallBackSkipsNone DEF Found
<1>2. Occurs(start) /\ start \in 0..(N - M)
  BY <1>0 DEF Occurs
<1>3. index <= start
  <2>1. CASE index = 0
    BY <2>1, <1>2
  <2>2. CASE index # 0
    <3>1. index - 1 \in 0..(index - 1)
      BY <2>2, <1>0
    <3>2. indices[index - 1] \in Int /\ index - 1 <= indices[index - 1] /\ indices[index - 1] < start
      BY <3>1, <1>0
    <3> QED BY <3>2, <1>0, <1>2
  <2> QED BY <2>1, <2>2
<1>4. index \in 0..(N - 1)
  BY <1>0, <1>2, <1>3
<1>5. /\ indices' \in [0..(N - 1) -> Int] /\ indices'[index] = start
      /\ \A k \in 0..(N - 1) : k # index => indices'[k] = indices[k]
  BY <1>0, <1>4 DEF Found, IInv, TypeOK
<1>6. TypeOK'
  BY <1>0, <1>1, <1>4, <1>5 DEF IInv, TypeOK, Found
<1>7. TableRight'
  BY <1>0 DEF IInv, TableRight, LongestBorder, Border, Found
<1>8. ReportedSound'
  <2>1. \A k \in 0..index : Occurs(indices'[k])
    BY <1>2, <1>4, <1>5 DEF IInv, ReportedSound
  <2>2. ASSUME NEW k \in 0..index, NEW m \in 0..index, k < m
        PROVE  indices'[k] < indices'[m]
    <3>1. k \in 0..(index - 1) /\ k \in 0..(N - 1) /\ k # index /\ indices'[k] = indices[k]
      BY <2>2, <1>4, <1>5
    <3>2. CASE m = index
      BY <3>1, <3>2, <1>0, <1>5
    <3>3. CASE m # index
      <4>1. m \in 0..(index - 1) /\ m \in 0..(N - 1)
        BY <3>3, <1>4
      <4>2. indices'[m] = indices[m] /\ indices[k] < indices[m]
        BY <4>1, <3>1, <3>3, <2>2, <1>5 DEF IInv, ReportedSound
      <4> QED BY <4>2, <3>1
    <3> QED BY <3>2, <3>3
  <2>3. \A k \in (index + 1)..(N - 1) : indices'[k] = -1
    BY <1>4, <1>5 DEF IInv, ReportedSound
  <2> QED BY <2>1, <2>2, <2>3, <1>4 DEF ReportedSound, Occurs, Found
<1>9. SearchInv'
  <2>1. \A p \in 0..(N - M) : (Occurs(p) /\ p < i1 - b) => \E k \in 0..index : indices'[k] = p
    <3> SUFFICES ASSUME NEW p \in 0..(N - M), Occurs(p), p < i1 - b
                 PROVE  \E k \in 0..index : indices'[k] = p
      OBVIOUS
    <3>1. CASE p < start
      <4>1. PICK k \in 0..(index - 1) : indices[k] = p
        BY <3>1, <1>0 DEF IInv, SearchInv, Reported
      <4> QED BY <4>1, <1>4, <1>5
    <3>2. CASE p = start
      BY <3>2, <1>4, <1>5
    <3>3. CASE p > start
      BY <3>3, <1>0, <1>1
    <3> QED BY <3>1, <3>2, <3>3, <1>0
  <2>2. ASSUME NEW k \in 0..index PROVE k <= indices'[k] /\ indices'[k] < i1 - b
    <3>1. start \in Int /\ start < i1 - b
      BY <1>0, <1>1
    <3>2. CASE k = index
      BY <3>1, <3>2, <1>3, <1>5
    <3>3. CASE k # index
      <4>1. k \in 0..(index - 1) /\ k \in 0..(N - 1)
        BY <3>3, <1>4
      <4>2. indices'[k] = indices[k] /\ indices[k] \in Int /\ k <= indices[k] /\ indices[k] < start
        BY <4>1, <3>3, <1>0, <1>5
      <4> QED BY <4>2, <3>1, <1>0, <1>1
    <3> QED BY <3>2, <3>3
  <2>3. i1 <= N /\ b <= i1
    BY <1>0, <1>1
  <2> QED BY <1>0, <1>1, <1>4, <2>1, <2>2, <2>3 DEF SearchInv, Occurs, Reported, Found
<1>10. BuildInv' /\ (pc = "done" => i >= N)'
  BY <1>0 DEF BuildInv, Found
<1> QED BY <1>6, <1>7, <1>8, <1>9, <1>10 DEF IInv

LEMMA FallBackIInv == ASSUME IInv, FallBack PROVE IInv'
<1> USE MAssumption, NAssumption
<1> DEFINE b == lps[j1 - 1]
           start == i1 - j1
<1>0. /\ i1 \in 0..(N - 1) /\ j1 \in 1..(M - 1) /\ j1 <= i1 /\ start = i - j /\ pc = "search"
      /\ pattern[j1] # target[i1]
      /\ \A k \in 0..(index - 1) : indices[k] \in Int /\ k <= indices[k] /\ indices[k] < start
  <2>1. Searching /\ j1 # M /\ i1 < N /\ pattern[j1] # target[i1] /\ j1 # 0 /\ pc = "search"
    BY DEF FallBack, Mismatch, Searching
  <2>2. i1 \in 0..N /\ j1 \in 0..M /\ j1 <= i1 /\ start = i - j
    BY <2>1, Stepped
  <2>3. \A k \in 0..(index - 1) : indices[k] \in Int /\ k <= indices[k] /\ indices[k] < i - j
    BY <2>1 DEF IInv, SearchInv, TypeOK
  <2> QED BY <2>1, <2>2, <2>3
<1>1. /\ b \in 0..(j1 - 1) /\ \A k \in 0..(b - 1) : pattern[k] = target[i1 - b + k]
      /\ \A p \in 0..(N - M) : (Occurs(p) /\ start < p) => p >= i1 - b
  BY <1>0, FallBackSkipsNone DEF FallBack
<1>2. TypeOK'
  BY <1>0, <1>1 DEF IInv, TypeOK, FallBack
<1>3. TableRight' /\ ReportedSound'
  BY <1>0 DEF IInv, TableRight, ReportedSound, LongestBorder, Border, Occurs, FallBack
<1>4. \A p \in 0..(N - M) : (Occurs(p) /\ p < i1 - b) => Reported(p)
  <2> SUFFICES ASSUME NEW p \in 0..(N - M), Occurs(p), p < i1 - b PROVE Reported(p)
    OBVIOUS
  <2>1. CASE p < start
    BY <2>1, <1>0 DEF IInv, SearchInv
  <2>2. CASE p = start
    <3>1. pattern[j1] = target[p + j1]
      BY <1>0 DEF Occurs
    <3>2. p + j1 = i1
      BY <2>2, <1>0
    <3> QED BY <3>1, <3>2, <1>0
  <2>3. CASE p > start
    BY <2>3, <1>0, <1>1
  <2> QED BY <2>1, <2>2, <2>3, <1>0
<1>5. SearchInv'
  BY <1>0, <1>1, <1>4 DEF SearchInv, Occurs, Reported, FallBack
<1>6. BuildInv' /\ (pc = "done" => i >= N)'
  BY <1>0 DEF BuildInv, FallBack
<1> QED BY <1>2, <1>3, <1>5, <1>6 DEF IInv

LEMMA AdvanceIInv == ASSUME IInv, Advance PROVE IInv'
<1> USE MAssumption, NAssumption
<1>0. /\ i1 \in 0..(N - 1) /\ j1 = 0 /\ i1 = i - j /\ pc = "search"
      /\ pattern[0] # target[i1]
      /\ \A k \in 0..(index - 1) : indices[k] \in Int /\ k <= indices[k] /\ indices[k] < i1
  <2>1. Searching /\ i1 < N /\ pattern[0] # target[i1] /\ j1 = 0 /\ pc = "search"
    BY DEF Advance, Mismatch, Searching
  <2>2. i1 \in 0..N /\ i1 - j1 = i - j
    BY <2>1, Stepped
  <2>3. i1 = i - j
    BY <2>1, <2>2
  <2>4. \A k \in 0..(index - 1) : indices[k] \in Int /\ k <= indices[k] /\ indices[k] < i - j
    BY <2>1 DEF IInv, SearchInv, TypeOK
  <2> QED BY <2>1, <2>2, <2>3, <2>4
<1>1. TypeOK'
  BY <1>0 DEF IInv, TypeOK, Advance
<1>2. TableRight' /\ ReportedSound'
  BY <1>0 DEF IInv, TableRight, ReportedSound, LongestBorder, Border, Occurs, Advance
<1>3. \A p \in 0..(N - M) : (Occurs(p) /\ p < i1 + 1) => Reported(p)
  <2> SUFFICES ASSUME NEW p \in 0..(N - M), Occurs(p), p < i1 + 1 PROVE Reported(p)
    OBVIOUS
  <2>1. CASE p < i1
    BY <2>1, <1>0 DEF IInv, SearchInv
  <2>2. CASE p = i1
    <3>1. pattern[0] = target[p + 0] /\ p + 0 = i1
      BY <2>2, <1>0 DEF Occurs
    <3> QED BY <3>1, <1>0
  <2> QED BY <2>1, <2>2, <1>0
<1>4. SearchInv'
  BY <1>0, <1>3 DEF SearchInv, Occurs, Reported, Advance
<1>5. BuildInv' /\ (pc = "done" => i >= N)'
  BY <1>0 DEF BuildInv, Advance
<1> QED BY <1>1, <1>2, <1>4, <1>5 DEF IInv

LEMMA MatchIInv == ASSUME IInv, Match PROVE IInv'
<1> USE MAssumption, NAssumption
<1>0. /\ i1 \in 0..N /\ j1 \in 0..(M - 1) /\ j1 <= i1 /\ i1 - j1 = i - j /\ pc = "search"
      /\ \A k \in 0..(j1 - 1) : pattern[k] = target[i1 - j1 + k]
  BY Stepped DEF Match, Searching
<1>1. TypeOK'
  BY <1>0 DEF IInv, TypeOK, Match
<1>2. TableRight' /\ ReportedSound'
  BY <1>0 DEF IInv, TableRight, ReportedSound, LongestBorder, Border, Occurs, Match
<1>3. SearchInv'
  BY <1>0 DEF IInv, SearchInv, Occurs, Reported, Match
<1>4. BuildInv' /\ (pc = "done" => i >= N)'
  BY <1>0 DEF BuildInv, Match
<1> QED BY <1>1, <1>2, <1>3, <1>4 DEF IInv

LEMMA ReturnIInv == ASSUME IInv, Return PROVE IInv'
BY DEF IInv, TypeOK, TableRight, LongestBorder, Border, ReportedSound, Occurs,
       BuildInv, SearchInv, Reported, Return

LEMMA StutterIInv == ASSUME IInv, UNCHANGED vars PROVE IInv'
BY DEF IInv, TypeOK, TableRight, LongestBorder, Border, ReportedSound, Occurs,
       BuildInv, SearchInv, Reported, vars

LEMMA NextIInv == ASSUME IInv, [Next]_vars PROVE IInv'
<1>1. CASE Build
  BY <1>1, BuildExtendIInv, BuildFallBackIInv, BuildNoneIInv, StartSearchIInv DEF Build
<1>2. CASE Search
  BY <1>2, FoundIInv, FallBackIInv, AdvanceIInv, MatchIInv, ReturnIInv DEF Search
<1>3. CASE UNCHANGED vars
  BY <1>3, StutterIInv
<1> QED BY <1>1, <1>2, <1>3 DEF Next

LEMMA Invariance == Spec => []IInv
<1>1. Init => IInv
  BY InitIInv
<1>2. IInv /\ [Next]_vars => IInv'
  BY NextIInv
<1> QED BY <1>1, <1>2, PTL DEF Spec

-----------------------------------------------------------------------------
(* Every variable of the search keeps its type: the number of occurrences  *)
(* found never exceeds the array allocated for them.                       *)
THEOREM TypeCorrect == Spec => []TypeOK
<1>1. IInv => TypeOK
  BY DEF IInv
<1> QED BY <1>1, Invariance, PTL

(* build_lps_array computes the longest borders.                           *)
THEOREM TableCorrect == Spec => []TableRight
<1>1. IInv => TableRight
  BY DEF IInv
<1> QED BY <1>1, Invariance, PTL

(* What kmp_search reports are occurrences, in ascending order.            *)
THEOREM SearchSound == Spec => []ReportedSound
<1>1. IInv => ReportedSound
  BY DEF IInv
<1> QED BY <1>1, Invariance, PTL

(* When kmp_search returns it has reported every occurrence.               *)
THEOREM SearchFindsAll == Spec => []SearchComplete
<1>1. IInv => SearchComplete
  <2> USE MAssumption, NAssumption
  <2> SUFFICES ASSUME IInv, pc = "done", NEW p \in 0..(N - M), Occurs(p)
               PROVE  \E k \in 0..(index - 1) : indices[k] = p
    BY DEF SearchComplete
  <2>1. i = N /\ j \in 0..(M - 1)
    BY DEF IInv, SearchInv, TypeOK
  <2>2. p < i - j
    BY <2>1
  <2> QED BY <2>2 DEF IInv, SearchInv, Reported
<1> QED BY <1>1, Invariance, PTL

(* Both: kmp_search reports the occurrences, and nothing else.             *)
THEOREM SearchCorrect == Spec => []SearchRight
<1>1. ReportedSound /\ SearchComplete => SearchRight
  BY DEF SearchRight
<1> QED BY <1>1, SearchSound, SearchFindsAll, PTL

(* The scan of the target never goes back.                                 *)
THEOREM ScanForward == Spec => NeverBack
<1>1. IInv /\ [Next]_vars => [pc = "search" => i' >= i]_vars
  <2> SUFFICES ASSUME IInv, Next, pc = "search" PROVE i' >= i
    BY DEF vars
  <2> USE MAssumption, NAssumption
  <2>1. i \in Nat
    BY DEF IInv, TypeOK
  <2>2. CASE Build
    BY <2>2 DEF Build, BuildExtend, BuildFallBack, BuildNone, StartSearch, Building
  <2>3. CASE Return
    BY <2>1, <2>3 DEF Return
  <2>4. CASE Found \/ FallBack \/ Advance \/ Match
    <3>1. i1 \in Nat /\ i1 >= i
      BY <2>4, <2>1, Stepped DEF Found, FallBack, Advance, Match
    <3>2. i' = i1 \/ i' = i1 + 1
      BY <2>4 DEF Found, FallBack, Advance, Match
    <3> QED BY <3>1, <3>2, <2>1
  <2> QED BY <2>2, <2>3, <2>4 DEF Next, Search
<1> QED BY <1>1, Invariance, PTL DEF Spec, NeverBack
=============================================================================
