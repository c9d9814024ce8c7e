----------------------------- MODULE EncodingProof -----------------------------
(***************************************************************************)
(* Proofs about Conversion and the modules it extends, the way of the      *)
(* tokens through main.c, for any payloads and tokens.                     *)
(***************************************************************************)
EXTENDS Conversion, SequenceTheorems, FiniteSetTheorems, WellFoundedInduction, TLAPS

\* The numbers are well ordered: a set of them has a least element.
LEMMA LeastNatural ==
  ASSUME NEW S \in SUBSET Nat, S # {}
  PROVE  \E m \in S : \A n \in S : m <= n
<1> DEFINE Less == { p \in Nat \X Nat : p[1] < p[2] }
<1>1. IsWellFoundedOn(Less, Nat)
  BY NatLessThanWellFounded DEF OpToRel
<1>2. PICK m \in S : \A n \in S : << n, m >> \notin Less
  <2> HIDE DEF Less
  <2> QED BY <1>1, WFMin
<1>3. ASSUME NEW n \in S PROVE m <= n
  <2>1. << n, m >> \in Nat \X Nat /\ << n, m >>[1] = n /\ << n, m >>[2] = m
    OBVIOUS
  <2>2. ~ (n < m)
    BY <1>2, <2>1
  <2> QED BY <2>2
<1> QED BY <1>3

(***************************************************************************)
(* In a finite set with a strict total order every rank belongs to one     *)
(* element.                                                                *)
(***************************************************************************)
Above(S, R, x) == { z \in S : << x, z >> \in R }
Rank(S, R)     == [x \in S |-> Cardinality(Above(S, R, x))]

LEMMA RanksDiffer ==
  ASSUME NEW S, IsFiniteSet(S), NEW R,
         \A x \in S : << x, x >> \notin R,
         \A x, y, z \in S : << x, y >> \in R /\ << y, z >> \in R => << x, z >> \in R,
         NEW x \in S, NEW y \in S, << x, y >> \in R
  PROVE  /\ Cardinality(Above(S, R, y)) \in Nat
         /\ Cardinality(Above(S, R, x)) \in Nat
         /\ Cardinality(Above(S, R, y))
              < Cardinality(Above(S, R, x))
<1> DEFINE A == Above(S, R, y)
           B == Above(S, R, x)
<1>0. B \in SUBSET S
  BY DEF Above
<1>1. IsFiniteSet(B)
  BY <1>0, FS_Subset
<1>2. A \in SUBSET B /\ y \in B /\ y \notin A
  BY DEF Above
<1> HIDE DEF A, B
<1>3. IsFiniteSet(A) /\ Cardinality(A) <= Cardinality(B) /\ Cardinality(A) # Cardinality(B)
  BY <1>1, <1>2, FS_Subset
<1>4. Cardinality(A) \in Nat /\ Cardinality(B) \in Nat
  BY <1>1, <1>3, FS_CardinalityType
<1> QED
  BY <1>3, <1>4 DEF A, B

LEMMA Ranks ==
  ASSUME NEW S, IsFiniteSet(S), NEW R,
         \A x \in S : << x, x >> \notin R,
         \A x, y \in S : x # y => << x, y >> \in R \/ << y, x >> \in R,
         \A x, y, z \in S : << x, y >> \in R /\ << y, z >> \in R => << x, z >> \in R
  PROVE  /\ Rank(S, R) \in [S -> 0..(Cardinality(S) - 1)]
         /\ \A x, y \in S : Rank(S, R)[x] = Rank(S, R)[y] => x = y
         /\ \A r \in 0..(Cardinality(S) - 1) : \E x \in S : Rank(S, R)[x] = r
<1> DEFINE rank == [x \in S |-> Cardinality(Above(S, R, x))]
           N == Cardinality(S)
<1>1. N \in Nat
  BY FS_CardinalityType
<1>2. ASSUME NEW x \in S
      PROVE  Cardinality(Above(S, R, x)) \in 0..(N - 1)
  <2> DEFINE A == Above(S, R, x)
  <2>1. A \in SUBSET S /\ x \notin A
    BY DEF Above
  <2> HIDE DEF A
  <2>2. IsFiniteSet(A) /\ Cardinality(A) <= Cardinality(S) /\ Cardinality(A) # Cardinality(S)
    BY <2>1, FS_Subset
  <2>3. Cardinality(A) \in Nat
    BY <2>2, FS_CardinalityType
  <2> QED
    BY <2>2, <2>3, <1>1 DEF A
<1>3. rank \in [S -> 0..(N - 1)]
  BY <1>2
<1>4. \A x, y \in S : rank[x] = rank[y] => x = y
  <2> SUFFICES ASSUME NEW x \in S, NEW y \in S, x # y PROVE rank[x] # rank[y]
    OBVIOUS
  <2> DEFINE a == Cardinality(Above(S, R, x))
             b == Cardinality(Above(S, R, y))
  <2>1. rank[x] = a /\ rank[y] = b
    OBVIOUS
  <2>2. << x, y >> \in R => b \in Nat /\ a \in Nat /\ b < a
    BY RanksDiffer
  <2>3. << y, x >> \in R => b \in Nat /\ a \in Nat /\ a < b
    BY RanksDiffer
  <2>4. << x, y >> \in R \/ << y, x >> \in R
    OBVIOUS
  <2> HIDE DEF a, b
  <2>5. a # b
    BY <2>2, <2>3, <2>4
  <2> QED
    BY <2>1, <2>5
<1> DEFINE D == 0..(N - 1)
<1>6. IsFiniteSet(D) /\ Cardinality(D) = N
  <2>1. N - 1 \in Int /\ (N - 1) - 0 + 1 = N /\ (0 > N - 1 => N = 0)
    BY <1>1
  <2> QED
    BY <2>1, FS_Interval
<1> HIDE DEF rank, D
<1>5. rank \in Injection(S, D)
  <2>1. rank \in [S -> D]
    BY <1>3 DEF D
  <2> QED
    BY <2>1, <1>4 DEF Injection, IsInjective
<1>7. rank \in Surjection(S, D)
  BY <1>5, <1>6, FS_Injection
<1>8. \A r \in 0..(N - 1) : \E x \in S : rank[x] = r
  BY <1>7 DEF Surjection, D
<1> QED
  BY <1>3, <1>4, <1>8 DEF rank, Rank

\* The elements of such a set in their order: every one once.
Ordered(S, R) ==
  [n \in 1..Cardinality(S) |-> CHOOSE x \in S : Cardinality(Above(S, R, x)) = n - 1]

StrictlyOrders(R, S) ==
  /\ \A x \in S : << x, x >> \notin R
  /\ \A x, y \in S : x # y => << x, y >> \in R \/ << y, x >> \in R
  /\ \A x, y, z \in S : << x, y >> \in R /\ << y, z >> \in R => << x, z >> \in R

LEMMA InOrder ==
  ASSUME NEW S, IsFiniteSet(S), NEW R, StrictlyOrders(R, S), NEW s, s = Ordered(S, R)
  PROVE  /\ Cardinality(S) \in Nat /\ s \in [1..Cardinality(S) -> S]
         /\ \A m, n \in 1..Cardinality(S) : m < n => << s[n], s[m] >> \in R
         /\ \A x \in S : \E n \in 1..Cardinality(S) : s[n] = x
<1> DEFINE N == Cardinality(S)
           rank == Rank(S, R)
<1>1. N \in Nat
  BY FS_CardinalityType
<1>2. \A x \in S : rank[x] = Cardinality(Above(S, R, x))
  BY DEF Rank
<1>3. /\ rank \in [S -> 0..(N - 1)]
      /\ \A x, y \in S : rank[x] = rank[y] => x = y
      /\ \A r \in 0..(N - 1) : \E x \in S : rank[x] = r
  BY Ranks DEF StrictlyOrders
<1> HIDE DEF rank
<1>4. ASSUME NEW n \in 1..N PROVE s[n] \in S /\ rank[s[n]] = n - 1
  <2>1. n - 1 \in 0..(N - 1)
    BY <1>1
  <2>2. \E x \in S : Cardinality(Above(S, R, x)) = n - 1
    BY <2>1, <1>2, <1>3
  <2>3. s[n] = CHOOSE x \in S : Cardinality(Above(S, R, x)) = n - 1
    BY DEF Ordered
  <2>4. s[n] \in S /\ Cardinality(Above(S, R, s[n])) = n - 1
    BY <2>2, <2>3
  <2> QED BY <1>2, <2>4
<1>5. s \in [1..N -> S]
  BY <1>4 DEF Ordered
<1>6. ASSUME NEW m \in 1..N, NEW n \in 1..N, m < n PROVE << s[n], s[m] >> \in R
  <2> DEFINE x == s[m]
             y == s[n]
  <2>1. x \in S /\ y \in S /\ rank[x] = m - 1 /\ rank[y] = n - 1
    BY <1>4
  <2> HIDE DEF x, y
  <2>2. x # y
    BY <1>1, <1>6, <2>1
  <2>3. ASSUME << x, y >> \in R PROVE FALSE
    <3>1. /\ Cardinality(Above(S, R, y)) \in Nat /\ Cardinality(Above(S, R, x)) \in Nat
          /\ Cardinality(Above(S, R, y)) < Cardinality(Above(S, R, x))
      BY <2>1, <2>3, RanksDiffer DEF StrictlyOrders
    <3>2. rank[y] < rank[x]
      BY <3>1, <2>1, <1>2
    <3> QED BY <3>2, <1>1, <1>6, <2>1
  <2>4. << y, x >> \in R
    BY <2>1, <2>2, <2>3 DEF StrictlyOrders
  <2> QED BY <2>4 DEF x, y
<1>7. ASSUME NEW x \in S PROVE \E n \in 1..N : s[n] = x
  <2>1. rank[x] \in 0..(N - 1)
    BY <1>3
  <2>2. rank[x] + 1 \in 1..N /\ (rank[x] + 1) - 1 = rank[x]
    BY <1>1, <2>1
  <2>3. s[rank[x] + 1] = x
    BY <1>3, <1>4, <2>2
  <2> QED BY <2>2, <2>3
<1> QED BY <1>1, <1>5, <1>6, <1>7

(* Tokens are records of five fields.                                      *)

Fields ==
  { "position_specific", "offset_occurrence", "merge_token", "replacement", "shortest_len" }

IsToken(r) == r = [f \in Fields |-> r[f]]

\* token_new, as the entry of the trie.
NewToken(text, offset, kind) ==
  [ position_specific |-> kind,
    offset_occurrence |-> Once(offset),
    merge_token       |-> NULL,
    replacement       |-> IF LooksSpecific(text) THEN specific ELSE ordinary,
    shortest_len      |-> Len(text) ]

LEMMA NewTokenFields ==
  ASSUME NEW text, NEW offset, NEW kind
  PROVE  LET t == NewToken(text, offset, kind)
         IN  /\ IsToken(t)
             /\ t.position_specific = kind /\ t.offset_occurrence = Once(offset)
             /\ t.merge_token = NULL /\ t.shortest_len = Len(text)
             /\ t.replacement = IF LooksSpecific(text) THEN specific ELSE ordinary
BY DEF NewToken, IsToken, Fields

LEMMA ChangedToken ==
  ASSUME NEW r, IsToken(r), NEW f \in Fields, NEW x
  PROVE  /\ IsToken([r EXCEPT ![f] = x])
         /\ [r EXCEPT ![f] = x][f] = x
         /\ \A g \in Fields : g # f => [r EXCEPT ![f] = x][g] = r[g]
<1>1. DOMAIN r = Fields
  BY DEF IsToken
<1>2. [r EXCEPT ![f] = x] = [g \in Fields |-> IF g = f THEN x ELSE r[g]]
  BY <1>1
<1> QED BY <1>2 DEF IsToken

\* obtain_shortest_len_callback for all members.
Shortest(members) == Least({ 256 } \cup { Len(u) : u \in members })

LEMMA MergedToken ==
  ASSUME NEW text, IsToken(trie[text]), NEW merge_token, NEW members
  PROVE  LET t == Merged(text, merge_token, members)
         IN  /\ IsToken(t)
             /\ t.merge_token = merge_token
             /\ t.offset_occurrence = trie[text].offset_occurrence
             /\ SameText(text, merge_token) =>
                  /\ t.position_specific = trie[text].position_specific
                  /\ t.replacement = trie[text].replacement
                  /\ t.shortest_len = trie[text].shortest_len
             /\ ~ SameText(text, merge_token) =>
                  /\ t.position_specific = "PS_MERGE"
                  /\ t.replacement = specific
                  /\ t.shortest_len = Shortest(members)
<1> DEFINE r == [trie[text] EXCEPT !.merge_token = merge_token]
           least == Shortest(members)
<1>1. /\ IsToken(r) /\ r.merge_token = merge_token
      /\ r.offset_occurrence = trie[text].offset_occurrence
      /\ r.position_specific = trie[text].position_specific
      /\ r.replacement = trie[text].replacement
      /\ r.shortest_len = trie[text].shortest_len
  BY ChangedToken DEF Fields
<1>2. Merged(text, merge_token, members) =
        IF SameText(text, merge_token) THEN r
        ELSE [r EXCEPT !.position_specific = "PS_MERGE", !.replacement = specific, !.shortest_len = least]
  BY DEF Merged, Shortest
<1> HIDE DEF r, least
<1> DEFINE p == [r EXCEPT !.position_specific = "PS_MERGE"]
<1>3. /\ IsToken(p) /\ p.position_specific = "PS_MERGE"
      /\ p.merge_token = r.merge_token /\ p.offset_occurrence = r.offset_occurrence
  BY <1>1, ChangedToken DEF Fields
<1> DEFINE q == [p EXCEPT !.replacement = specific]
<1> HIDE DEF p
<1>4. /\ IsToken(q) /\ q.position_specific = "PS_MERGE" /\ q.replacement = specific
      /\ q.merge_token = r.merge_token /\ q.offset_occurrence = r.offset_occurrence
  BY <1>3, ChangedToken DEF Fields
<1> DEFINE l == [q EXCEPT !.shortest_len = least]
<1> HIDE DEF q
<1>5. /\ IsToken(l) /\ l.position_specific = "PS_MERGE" /\ l.replacement = specific /\ l.shortest_len = least
      /\ l.merge_token = r.merge_token /\ l.offset_occurrence = r.offset_occurrence
  BY <1>4, ChangedToken DEF Fields
<1>6. Merged(text, merge_token, members) = IF SameText(text, merge_token) THEN r ELSE l
  BY <1>2 DEF p, q, l
<1> HIDE DEF l
<1> QED BY <1>1, <1>5, <1>6 DEF least

-----------------------------------------------------------------------------
(* No two codes are equal that were not made so by a merge.                *)

Counters == ordinary \in Int /\ ordinary >= 258 /\ specific \in Int /\ specific <= -2

Unmerged ==
  pc \in { "flows", "traverse", "fix", "search" } =>
    \A t \in DOMAIN trie : trie[t].position_specific # "PS_MERGE"

Codes ==
  /\ Counters
  /\ \A t \in DOMAIN trie : IsToken(trie[t])
  /\ CodesDistinct
  /\ Unmerged

LEMMA TrieWith ==
  ASSUME NEW f, NEW x, NEW y
  PROVE  /\ DOMAIN With(f, x, y) = DOMAIN f \cup { x }
         /\ With(f, x, y)[x] = y
         /\ \A z \in DOMAIN f : z # x => With(f, x, y)[z] = f[z]
BY DEF With

LEMMA TokenNewEffect ==
  ASSUME NEW text, NEW offset, NEW kind, token_new(text, offset, kind)
  PROVE  /\ trie' = With(trie, text, NewToken(text, offset, kind))
         /\ IF LooksSpecific(text)
              THEN specific' = specific - 1 /\ ordinary' = ordinary
              ELSE ordinary' = ordinary + 1 /\ specific' = specific
BY DEF token_new, NewToken

LEMMA TokenNewCodes ==
  ASSUME Codes, NEW text, NEW offset, NEW kind, kind # "PS_MERGE", token_new(text, offset, kind)
  PROVE  /\ Counters' /\ CodesDistinct'
         /\ \A t \in DOMAIN trie' : IsToken(trie'[t])
         /\ (\A t \in DOMAIN trie : trie[t].position_specific # "PS_MERGE") =>
              \A t \in DOMAIN trie' : trie'[t].position_specific # "PS_MERGE"
<1> DEFINE new == NewToken(text, offset, kind)
<1>1. trie' = With(trie, text, new)
  BY TokenNewEffect
<1>2. IsToken(new) /\ new.position_specific = kind
      /\ new.replacement = IF LooksSpecific(text) THEN specific ELSE ordinary
  BY NewTokenFields
<1> HIDE DEF new
<1>3. /\ DOMAIN trie' = DOMAIN trie \cup { text } /\ trie'[text] = new
      /\ \A t \in DOMAIN trie : t # text => trie'[t] = trie[t]
  BY <1>1 DEF With
<1>4. IF LooksSpecific(text)
        THEN specific' = specific - 1 /\ ordinary' = ordinary
        ELSE ordinary' = ordinary + 1 /\ specific' = specific
  BY TokenNewEffect
<1>5. Counters /\ Counters'
  BY <1>4 DEF Codes, Counters
<1> DEFINE Code(t) == trie[t].replacement
<1>6. \A t \in DOMAIN trie : Code(t) \in (specific + 1)..-2 \cup 258..(ordinary - 1)
  BY DEF Codes, CodesDistinct
<1>7. \A t \in DOMAIN trie : t # text => trie'[t].replacement = Code(t) /\ Code(t) # new.replacement
  BY <1>2, <1>3, <1>5, <1>6 DEF Counters
<1>8. \A t \in DOMAIN trie' : trie'[t].replacement \in (specific' + 1)..-2 \cup 258..(ordinary' - 1)
  <2>1. new.replacement \in (specific' + 1)..-2 \cup 258..(ordinary' - 1)
    <3>1. CASE LooksSpecific(text)
      <4>1. new.replacement = specific /\ specific' = specific - 1
        BY <1>2, <1>4, <3>1
      <4>2. specific \in (specific' + 1)..-2
        BY <4>1, <1>5 DEF Counters
      <4> QED BY <4>1, <4>2
    <3>2. CASE ~ LooksSpecific(text)
      <4>1. new.replacement = ordinary /\ ordinary' = ordinary + 1
        BY <1>2, <1>4, <3>2
      <4>2. ordinary \in 258..(ordinary' - 1)
        BY <4>1, <1>5 DEF Counters
      <4> QED BY <4>1, <4>2
    <3> QED BY <3>1, <3>2
  <2>2. ASSUME NEW t \in DOMAIN trie, t # text
        PROVE  trie'[t].replacement \in (specific' + 1)..-2 \cup 258..(ordinary' - 1)
    <3>1. Code(t) \in (specific' + 1)..-2 \cup 258..(ordinary' - 1)
      <4> HIDE DEF Code
      <4> QED BY <1>4, <1>5, <1>6 DEF Counters
    <3> QED BY <1>7, <2>2, <3>1
  <2> QED BY <1>3, <2>1, <2>2
<1>9. CodesDistinct'
  <2> SUFFICES ASSUME NEW t \in DOMAIN trie', NEW u \in DOMAIN trie', t # u,
                      trie'[t].replacement = trie'[u].replacement
               PROVE  trie'[t].position_specific = "PS_MERGE" /\ trie'[u].position_specific = "PS_MERGE"
    BY <1>8 DEF CodesDistinct
  <2>1. t \in DOMAIN trie /\ u \in DOMAIN trie /\ t # text /\ u # text
    BY <1>3, <1>7
  <2> QED BY <1>3, <2>1 DEF Codes, CodesDistinct
<1> QED BY <1>2, <1>3, <1>5, <1>9 DEF Codes

\* Tokens of which the codes, and whether they are merged, are what they were.
LEMMA SameCodes ==
  ASSUME Codes, ordinary' = ordinary, specific' = specific, DOMAIN trie' = DOMAIN trie,
         \A t \in DOMAIN trie :
           /\ IsToken(trie'[t]) /\ trie'[t].replacement = trie[t].replacement
           /\ trie'[t].position_specific = "PS_MERGE" <=> trie[t].position_specific = "PS_MERGE"
  PROVE  /\ Counters' /\ CodesDistinct'
         /\ \A t \in DOMAIN trie' : IsToken(trie'[t])
BY DEF Codes, Counters, CodesDistinct

LEMMA TokenAddCodes ==
  ASSUME Codes, NEW text \in DOMAIN trie, NEW offset, token_add(text, offset)
  PROVE  /\ ordinary' = ordinary /\ specific' = specific /\ DOMAIN trie' = DOMAIN trie
         /\ \A t \in DOMAIN trie :
              /\ IsToken(trie'[t]) /\ trie'[t].replacement = trie[t].replacement
              /\ trie'[t].position_specific = trie[t].position_specific
<1> DEFINE x == Plus1(trie[text].offset_occurrence, offset)
<1>1. trie' = [trie EXCEPT ![text] = [trie[text] EXCEPT !.offset_occurrence = x]]
  BY DEF token_add
<1>2. IsToken(trie[text])
  BY DEF Codes
<1> HIDE DEF x
<1> DEFINE r == [trie[text] EXCEPT !.offset_occurrence = x]
<1>3. IsToken(r) /\ r.replacement = trie[text].replacement /\ r.position_specific = trie[text].position_specific
  BY <1>2, ChangedToken DEF Fields
<1> HIDE DEF r
<1>4. trie' = [trie EXCEPT ![text] = r]
  BY <1>1 DEF r
<1> QED BY <1>3, <1>4 DEF Codes, token_add

LEMMA FixOffsetCodes ==
  ASSUME Codes, FixOffset
  PROVE  /\ ordinary' = ordinary /\ specific' = specific /\ DOMAIN trie' = DOMAIN trie
         /\ \A t \in DOMAIN trie :
              /\ IsToken(trie'[t]) /\ trie'[t].replacement = trie[t].replacement
              /\ trie'[t].position_specific # "PS_MERGE"
<1> DEFINE text == Head(todo)
           fixed == Cardinality(DOMAIN trie[text].offset_occurrence) = 1
<1>1. trie' = IF fixed THEN [trie EXCEPT ![text] = [trie[text] EXCEPT !.position_specific = "PS_NOT_MERGE"]]
              ELSE trie
  BY DEF FixOffset
<1>2. \A t \in DOMAIN trie : IsToken(trie[t]) /\ trie[t].position_specific # "PS_MERGE"
  BY DEF FixOffset, Codes, Unmerged
<1> DEFINE r == [trie[text] EXCEPT !.position_specific = "PS_NOT_MERGE"]
<1>3. text \in DOMAIN trie =>
        IsToken(r) /\ r.replacement = trie[text].replacement /\ r.position_specific = "PS_NOT_MERGE"
  BY <1>2, ChangedToken DEF Fields
<1>4. trie' = IF fixed THEN [trie EXCEPT ![text] = r] ELSE trie
  BY <1>1
<1> HIDE DEF r, fixed, text
<1>5. /\ DOMAIN trie' = DOMAIN trie
      /\ \A t \in DOMAIN trie : trie'[t] = trie[t] \/ (t = text /\ trie'[t] = r)
  <2>1. CASE fixed
    <3>1. trie' = [trie EXCEPT ![text] = r]
      BY <1>4, <2>1
    <3> QED BY <3>1
  <2>2. CASE ~ fixed
    <3>1. trie' = trie
      BY <1>4, <2>2
    <3> QED BY <3>1
  <2> QED BY <2>1, <2>2
<1> QED BY <1>2, <1>3, <1>5 DEF FixOffset

LEMMA MergeVariantsEffect ==
  ASSUME NEW o \in offsets, MergeVariants(o), offset_variants[o].num_variants < beta_merge,
         \A t \in DOMAIN trie : IsToken(trie[t])
  PROVE  /\ specific' = specific - 1 /\ DOMAIN trie' = DOMAIN trie
         /\ \E junk \in Junk : \A t \in DOMAIN trie :
              LET text    == MergedText(o, junk)
                  members == ToSet(Variants(o))
              IN  IF t \in members THEN trie'[t] = Merged(t, text, members)
                  ELSE trie'[t] = trie[t]
<1> DEFINE members == ToSet(Variants(o))
<1>1. PICK junk \in Junk :
        trie' = [t \in DOMAIN trie |->
                   IF t \in members THEN Merged(t, MergedText(o, junk), members) ELSE trie[t]]
  BY DEF MergeVariants
<1> HIDE DEF members
<1>2. DOMAIN trie' = DOMAIN trie
  BY <1>1
<1>3. \A t \in DOMAIN trie :
        IF t \in members THEN trie'[t] = Merged(t, MergedText(o, junk), members) ELSE trie'[t] = trie[t]
  BY <1>1
<1>4. specific' = specific - 1
  BY DEF MergeVariants
<1> QED BY <1>2, <1>3, <1>4 DEF members

LEMMA MergeVariantsCodes ==
  ASSUME Codes, NEW o \in offsets, MergeVariants(o)
  PROVE  Counters' /\ CodesDistinct' /\ \A t \in DOMAIN trie' : IsToken(trie'[t])
<1>1. CASE ~ offset_variants[o].num_variants < beta_merge
  BY <1>1, SameCodes DEF MergeVariants, Codes
<1>2. CASE offset_variants[o].num_variants < beta_merge
  <2> DEFINE members == ToSet(Variants(o))
  <2>1. specific' = specific - 1 /\ ordinary' = ordinary /\ DOMAIN trie' = DOMAIN trie
    BY <1>2, MergeVariantsEffect DEF MergeVariants, Codes
  <2>2. PICK junk \in Junk : \A t \in DOMAIN trie :
          IF t \in members THEN trie'[t] = Merged(t, MergedText(o, junk), members) ELSE trie'[t] = trie[t]
    BY <1>2, MergeVariantsEffect DEF Codes
  <2> HIDE DEF members
  <2>3. ASSUME NEW t \in DOMAIN trie
        PROVE  /\ IsToken(trie'[t])
               /\ \/ /\ trie'[t].replacement = trie[t].replacement
                     /\ trie'[t].position_specific = trie[t].position_specific
                  \/ trie'[t].replacement = specific /\ trie'[t].position_specific = "PS_MERGE"
    <3>1. IsToken(trie[t])
      BY DEF Codes
    <3>2. CASE t \in members
      <4> DEFINE m == Merged(t, MergedText(o, junk), members)
      <4>1. /\ IsToken(m)
            /\ \/ m.replacement = trie[t].replacement /\ m.position_specific = trie[t].position_specific
               \/ m.replacement = specific /\ m.position_specific = "PS_MERGE"
        <5>1. CASE SameText(t, MergedText(o, junk))
          BY <3>1, <5>1, MergedToken
        <5>2. CASE ~ SameText(t, MergedText(o, junk))
          BY <3>1, <5>2, MergedToken
        <5> QED BY <5>1, <5>2
      <4> HIDE DEF m
      <4>2. trie'[t] = m
        BY <2>2, <3>2 DEF m
      <4> QED BY <4>1, <4>2
    <3>3. CASE t \notin members
      BY <2>2, <3>1, <3>3
    <3> QED BY <3>2, <3>3
  <2>4. Counters /\ Counters'
    BY <2>1 DEF Codes, Counters
  <2>5. \A t \in DOMAIN trie : trie[t].replacement \in (specific + 1)..-2 \cup 258..(ordinary - 1)
    BY DEF Codes, CodesDistinct
  <2>6. ASSUME NEW t \in DOMAIN trie
        PROVE  /\ trie'[t].replacement \in (specific' + 1)..-2 \cup 258..(ordinary' - 1)
               /\ trie[t].replacement # specific
    <3> DEFINE c == trie[t].replacement
    <3>1. c \in (specific + 1)..-2 \cup 258..(ordinary - 1)
      BY <2>5
    <3> HIDE DEF c
    <3>2. c # specific /\ c \in (specific' + 1)..-2 \cup 258..(ordinary' - 1)
      BY <3>1, <2>1, <2>4 DEF Counters
    <3>3. specific \in (specific' + 1)..-2
      BY <2>1, <2>4 DEF Counters
    <3> QED BY <2>3, <3>2, <3>3 DEF c
  <2>7. CodesDistinct'
    <3> SUFFICES ASSUME NEW t \in DOMAIN trie, NEW u \in DOMAIN trie, t # u,
                        trie'[t].replacement = trie'[u].replacement
                 PROVE  trie'[t].position_specific = "PS_MERGE" /\ trie'[u].position_specific = "PS_MERGE"
      BY <2>1, <2>6 DEF CodesDistinct
    <3>1. trie[t].replacement = trie[u].replacement =>
            trie[t].position_specific = "PS_MERGE" /\ trie[u].position_specific = "PS_MERGE"
      BY DEF Codes, CodesDistinct
    <3> QED BY <2>3, <2>6, <3>1
  <2> QED BY <2>1, <2>3, <2>4, <2>7
<1> QED BY <1>1, <1>2

\* The other actions leave the trie and the counters alone.
LEMMA TrieStays ==
  ASSUME Codes, UNCHANGED trieVars,
         pc' \in { "flows", "traverse", "fix", "search" } => pc \in { "flows", "traverse", "fix", "search" }
  PROVE  Codes'
BY DEF Codes, Counters, CodesDistinct, Unmerged, trieVars

LEMMA PositionCodes == ASSUME Codes, position_constraints_main PROVE Codes'
<1>1. CASE FlowNew
  BY <1>1, TrieStays DEF FlowNew
<1>2. CASE FlowsDone
  BY <1>2, TrieStays DEF FlowsDone
<1>3. CASE TraverseToken
  <2> DEFINE e == Head(todo)
  <2>1. pc = "traverse" /\ pc' = pc
        /\ IF e.token \in DOMAIN trie
             THEN token_add(e.token, e.offset) ELSE token_new(e.token, e.offset, "PS_ORDINARY")
    BY <1>3 DEF TraverseToken
  <2>2. \A t \in DOMAIN trie : trie[t].position_specific # "PS_MERGE"
    BY <2>1 DEF Codes, Unmerged
  <2>3. CASE e.token \in DOMAIN trie
    <3>1. token_add(e.token, e.offset)
      BY <2>1, <2>3
    <3> HIDE DEF e
    <3>2. /\ ordinary' = ordinary /\ specific' = specific /\ DOMAIN trie' = DOMAIN trie
          /\ \A t \in DOMAIN trie :
               /\ IsToken(trie'[t]) /\ trie'[t].replacement = trie[t].replacement
               /\ trie'[t].position_specific = trie[t].position_specific
      BY <2>3, <3>1, TokenAddCodes
    <3> QED BY <2>2, <3>2, SameCodes DEF Codes, Unmerged
  <2>4. CASE e.token \notin DOMAIN trie
    <3>1. token_new(e.token, e.offset, "PS_ORDINARY")
      BY <2>1, <2>4
    <3> HIDE DEF e
    <3> QED BY <2>2, <3>1, TokenNewCodes DEF Codes, Unmerged
  <2> QED BY <2>3, <2>4
<1>4. CASE TraverseDone
  BY <1>4, TrieStays DEF TraverseDone
<1>5. CASE FixOffset
  <2>1. \A t \in DOMAIN trie : trie[t].position_specific # "PS_MERGE"
    BY <1>5 DEF Codes, Unmerged, FixOffset
  <2> QED BY <1>5, <2>1, FixOffsetCodes, SameCodes DEF Codes, Unmerged
<1>6. CASE FixDone
  BY <1>6, TrieStays DEF FixDone
<1>7. CASE SearchOffsets
  BY <1>7, TrieStays DEF SearchOffsets
<1>8. CASE SearchDone
  BY <1>8, TrieStays DEF SearchDone
<1>9. CASE \E o \in offsets : MergeVariants(o)
  <2>1. pc' = "merge"
    BY <1>9 DEF MergeVariants
  <2> QED BY <1>9, <2>1, MergeVariantsCodes DEF Codes, Unmerged
<1>10. CASE MergeDone
  BY <1>10, TrieStays DEF MergeDone
<1> QED
  BY <1>1, <1>2, <1>3, <1>4, <1>5, <1>6, <1>7, <1>8, <1>9, <1>10 DEF position_constraints_main

LEMMA ProductCodes == ASSUME Codes, product_distribution_main PROVE Codes'
<1>1. CASE StartCount
  BY <1>1, TrieStays DEF StartCount
<1>2. CASE CountByte
  BY <1>2, TrieStays DEF CountByte
<1>3. CASE CountNextPayload
  BY <1>3, TrieStays DEF CountNextPayload
<1>4. CASE CountDone
  BY <1>4, TrieStays DEF CountDone
<1>5. CASE \E o \in offsets : ExtractOffset(o)
  BY <1>5, TrieStays DEF ExtractOffset
<1>6. ASSUME NEW byte \in bytes.left, ExtractByte(byte) PROVE Codes'
  <2> DEFINE text == single_token(byte, bytes.offset)
  <2>1. CASE text = << >>
    BY <1>6, <2>1, TrieStays DEF ExtractByte
  <2>2. CASE text # << >>
    <3>1. token_new(text, bytes.offset, Kind(text)) /\ pc' = "extract"
      BY <1>6, <2>2 DEF ExtractByte
    <3>2. Kind(text) # "PS_MERGE"
      BY DEF Kind
    <3> HIDE DEF text
    <3> QED BY <3>1, <3>2, TokenNewCodes DEF Codes, Unmerged
  <2> QED BY <2>1, <2>2
<1>7. CASE ExtractDone
  BY <1>7, TrieStays DEF ExtractDone
<1> QED
  BY <1>1, <1>2, <1>3, <1>4, <1>5, <1>6, <1>7 DEF product_distribution_main

LEMMA ConvertionCodes == ASSUME Codes, convertion_main PROVE Codes'
<1>1. CASE StartFlow
  BY <1>1, TrieStays DEF StartFlow, earlierVars
<1>2. CASE ReplaceMatch
  BY <1>2, TrieStays DEF ReplaceMatch, earlierVars
<1>3. CASE ReplaceRest
  BY <1>3, TrieStays DEF ReplaceRest, earlierVars
<1>4. CASE FlowDone
  BY <1>4, TrieStays DEF FlowDone, earlierVars
<1> QED BY <1>1, <1>2, <1>3, <1>4 DEF convertion_main

LEMMA CodesInvariant == Spec => []Codes
<1>1. Init => Codes
  BY DEF Init, PositionInit, Codes, Counters, CodesDistinct, Unmerged, Nothing
<1>2. Codes /\ [Next]_vars => Codes'
  <2> SUFFICES ASSUME Codes, [Next]_vars PROVE Codes'
    OBVIOUS
  <2>1. CASE UNCHANGED vars
    BY <2>1, TrieStays DEF vars, positionVars
  <2>2. CASE Next
    BY <2>2, PositionCodes, ProductCodes, ConvertionCodes DEF Next
  <2> QED BY <2>1, <2>2
<1> QED BY <1>1, <1>2, PTL DEF Spec

(* No two tokens come to the same code unless both were merged, and the    *)
(* counters run ahead of every code, through position_constraints_main,    *)
(* product_distribution_main and convertion_main.                          *)
THEOREM CodesCorrect == Spec => []CodesDistinct
<1>1. Codes => CodesDistinct
  BY DEF Codes
<1> QED BY <1>1, CodesInvariant, PTL

-----------------------------------------------------------------------------
(* The order of strcmp.  Behind its last character a string is taken to    *)
(* hold the NUL, that is less than any.                                    *)

Text == Seq(1..255)

CharAt(w, n) == IF n \in 1..Len(w) THEN w[n] ELSE 0

SameUpTo(u, w, n) == \A m \in 1..(n - 1) : CharAt(u, m) = CharAt(w, m)

LEMMA TextChars ==
  ASSUME NEW w \in Text
  PROVE  /\ Len(w) \in Nat /\ DOMAIN w = 1..Len(w)
         /\ \A n \in 1..Len(w) : w[n] \in 1..255 /\ CharAt(w, n) = w[n]
         /\ \A n \in Nat : CharAt(w, n) \in 0..255 /\ (CharAt(w, n) = 0 <=> n \notin 1..Len(w))
<1>1. Len(w) \in Nat /\ DOMAIN w = 1..Len(w) /\ \A n \in 1..Len(w) : w[n] \in 1..255
  BY LenProperties, ElementOfSeq DEF Text
<1>2. ASSUME NEW n \in 1..Len(w) PROVE w[n] \in 1..255 /\ CharAt(w, n) = w[n]
  BY <1>1 DEF CharAt
<1>3. ASSUME NEW n \in Nat PROVE CharAt(w, n) \in 0..255 /\ (CharAt(w, n) = 0 <=> n \notin 1..Len(w))
  <2>1. CASE n \in 1..Len(w)
    <3> DEFINE c == w[n]
    <3>1. c \in 1..255 /\ CharAt(w, n) = c
      BY <1>2, <2>1
    <3> HIDE DEF c
    <3>2. c \in 0..255 /\ c # 0
      BY <3>1
    <3> QED BY <2>1, <3>1, <3>2
  <2>2. CASE n \notin 1..Len(w)
    BY <2>2 DEF CharAt
  <2> QED BY <2>1, <2>2
<1> QED BY <1>1, <1>2, <1>3

LEMMA BeforeChars ==
  ASSUME NEW u \in Text, NEW w \in Text
  PROVE  Before(u, w) <=>
           \E n \in Nat \ { 0 } : CharAt(u, n) < CharAt(w, n) /\ SameUpTo(u, w, n)
<1>1. ASSUME HasPrefix(w, u), u # w
      PROVE  \E n \in Nat \ { 0 } : CharAt(u, n) < CharAt(w, n) /\ SameUpTo(u, w, n)
  <2>1. Len(u) <= Len(w) /\ \A n \in 1..Len(u) : w[n] = u[n]
    BY <1>1, TextChars DEF HasPrefix
  <2>2. Len(u) # Len(w)
    <3> SUFFICES ASSUME Len(u) = Len(w) PROVE FALSE
      OBVIOUS
    <3>1. u = w
      BY <2>1, SeqEqual DEF Text
    <3> QED BY <3>1, <1>1
  <2> DEFINE n == Len(u) + 1
  <2>3. n \in Nat \ { 0 } /\ n \in 1..Len(w) /\ n \notin 1..Len(u)
    BY <2>1, <2>2, TextChars
  <2>4. CharAt(u, n) = 0 /\ CharAt(w, n) \in 0..255 /\ CharAt(w, n) # 0
    BY <2>3, TextChars
  <2>5. ASSUME NEW m \in 1..(n - 1) PROVE CharAt(u, m) = CharAt(w, m)
    <3>1. m \in 1..Len(u) /\ m \in 1..Len(w)
      BY <2>1, TextChars
    <3> QED BY <2>1, <3>1, TextChars
  <2>6. CharAt(u, n) < CharAt(w, n)
    <3> DEFINE c == CharAt(w, n)
    <3>0. c \in 0..255 /\ c # 0
      BY <2>4
    <3> HIDE DEF c
    <3>1. 0 < c
      BY <3>0
    <3> QED BY <2>4, <3>1 DEF c
  <2>7. SameUpTo(u, w, n)
    BY <2>5 DEF SameUpTo
  <2> HIDE DEF n
  <2> QED BY <2>3, <2>6, <2>7
<1>2. ASSUME NEW n \in DOMAIN u \cap DOMAIN w, u[n] < w[n], \A m \in 1..(n - 1) : u[m] = w[m]
      PROVE  \E k \in Nat \ { 0 } : CharAt(u, k) < CharAt(w, k) /\ SameUpTo(u, w, k)
  <2>1. n \in 1..Len(u) /\ n \in 1..Len(w) /\ n \in Nat \ { 0 }
    BY TextChars
  <2>2. CharAt(u, n) < CharAt(w, n)
    BY <1>2, <2>1, TextChars
  <2>3. ASSUME NEW m \in 1..(n - 1) PROVE CharAt(u, m) = CharAt(w, m)
    <3>1. m \in 1..Len(u) /\ m \in 1..Len(w)
      BY <2>1, TextChars
    <3> QED BY <1>2, <3>1, TextChars
  <2> QED BY <2>1, <2>2, <2>3 DEF SameUpTo
<1>3. ASSUME NEW n \in Nat \ { 0 }, CharAt(u, n) < CharAt(w, n), SameUpTo(u, w, n)
      PROVE  Before(u, w)
  <2>1. \A m \in 1..(n - 1) : CharAt(u, m) = CharAt(w, m)
    BY <1>3 DEF SameUpTo
  <2>2. CharAt(u, n) \in 0..255 /\ CharAt(w, n) \in 0..255
    BY TextChars, SMTT(30)
  <2>3. n \in 1..Len(w)
    <3> DEFINE c == CharAt(u, n)
               d == CharAt(w, n)
    <3>1. c < d /\ c \in 0..255 /\ d \in 0..255
      BY <1>3, <2>2
    <3> HIDE DEF c, d
    <3>2. d # 0
      BY <3>1
    <3> QED BY <3>2, TextChars DEF d
  <2>4. ASSUME NEW m \in 1..(n - 1) PROVE m \in 1..Len(w) /\ m \in 1..Len(u) /\ u[m] = w[m]
    <3>1. m \in Nat /\ m \in 1..Len(w)
      BY <2>3, TextChars
    <3>2. CharAt(w, m) # 0 /\ CharAt(u, m) = CharAt(w, m)
      BY <2>1, <3>1, TextChars
    <3>3. m \in 1..Len(u)
      BY <3>1, <3>2, TextChars
    <3> QED BY <3>1, <3>2, <3>3, TextChars
  <2>5. CASE n \in 1..Len(u)
    <3>1. u[n] < w[n]
      BY <1>3, <2>3, <2>5, TextChars
    <3>2. n \in DOMAIN u \cap DOMAIN w
      BY <2>3, <2>5, TextChars
    <3> QED BY <3>1, <3>2, <2>4 DEF Before
  <2>6. CASE n \notin 1..Len(u)
    <3>1. n > Len(u)
      BY <2>6, TextChars
    <3>2. Len(u) < Len(w)
      BY <2>3, <3>1, TextChars
    <3>3. \A m \in 1..Len(u) : w[m] = u[m]
      <4>1. \A m \in 1..Len(u) : m \in 1..(n - 1)
        BY <3>1, TextChars
      <4> QED BY <2>4, <4>1
    <3>4. HasPrefix(w, u)
      BY <3>2, <3>3, TextChars DEF HasPrefix
    <3>5. u # w
      BY <3>2, TextChars
    <3> QED BY <3>4, <3>5 DEF Before
  <2> QED BY <2>5, <2>6
<1> QED BY <1>1, <1>2, <1>3 DEF Before

LEMMA BeforeNotItself == ASSUME NEW u \in Text PROVE ~ Before(u, u)
<1>1. \A n \in Nat : CharAt(u, n) \in 0..255
  BY TextChars
<1>2. \A n \in Nat : ~ CharAt(u, n) < CharAt(u, n)
  BY <1>1
<1> QED BY <1>2, BeforeChars

LEMMA BeforeTransitive ==
  ASSUME NEW u \in Text, NEW v \in Text, NEW w \in Text, Before(u, v), Before(v, w)
  PROVE  Before(u, w)
<1>1. PICK m \in Nat \ { 0 } : CharAt(u, m) < CharAt(v, m) /\ SameUpTo(u, v, m)
  BY BeforeChars
<1>2. PICK n \in Nat \ { 0 } : CharAt(v, n) < CharAt(w, n) /\ SameUpTo(v, w, n)
  BY BeforeChars
<1>3. \A k \in Nat : CharAt(u, k) \in 0..255 /\ CharAt(v, k) \in 0..255 /\ CharAt(w, k) \in 0..255
  BY TextChars, SMTT(30)
<1>4. CASE m < n
  <2>1. CharAt(v, m) = CharAt(w, m)
    BY <1>2, <1>4 DEF SameUpTo
  <2>2. SameUpTo(u, w, m)
    BY <1>1, <1>2, <1>4 DEF SameUpTo
  <2> QED BY <1>1, <2>1, <2>2, BeforeChars
<1>5. CASE n < m
  <2>1. CharAt(u, n) = CharAt(v, n)
    BY <1>1, <1>5 DEF SameUpTo
  <2>2. SameUpTo(u, w, n)
    BY <1>1, <1>2, <1>5 DEF SameUpTo
  <2> QED BY <1>2, <2>1, <2>2, BeforeChars
<1>6. CASE m = n
  <2> DEFINE c == CharAt(u, n)
             d == CharAt(v, n)
             e == CharAt(w, n)
  <2>0. c < d /\ d < e /\ c \in 0..255 /\ d \in 0..255 /\ e \in 0..255
    BY <1>1, <1>2, <1>3, <1>6
  <2> HIDE DEF c, d, e
  <2>3. c < e
    BY <2>0
  <2>1. CharAt(u, n) < CharAt(w, n)
    BY <2>3 DEF c, e
  <2>2. SameUpTo(u, w, n)
    BY <1>1, <1>2, <1>6 DEF SameUpTo
  <2> QED BY <2>1, <2>2, BeforeChars
<1> QED BY <1>4, <1>5, <1>6

LEMMA BeforeTotal ==
  ASSUME NEW u \in Text, NEW w \in Text, u # w
  PROVE  Before(u, w) \/ Before(w, u)
<1> DEFINE Differ == { n \in Nat \ { 0 } : CharAt(u, n) # CharAt(w, n) }
<1>1. Differ # {}
  <2> SUFFICES ASSUME \A n \in Nat \ { 0 } : CharAt(u, n) = CharAt(w, n) PROVE FALSE
    OBVIOUS
  <2>1. Len(u) \in Nat /\ Len(w) \in Nat
    BY TextChars
  <2>2. ASSUME Len(u) < Len(w) PROVE FALSE
    <3>1. Len(w) \in 1..Len(w) /\ Len(w) \notin 1..Len(u) /\ Len(w) \in Nat \ { 0 }
      BY <2>1, <2>2
    <3> QED BY <3>1, TextChars
  <2>3. ASSUME Len(w) < Len(u) PROVE FALSE
    <3>1. Len(u) \in 1..Len(u) /\ Len(u) \notin 1..Len(w) /\ Len(u) \in Nat \ { 0 }
      BY <2>1, <2>3
    <3> QED BY <3>1, TextChars
  <2>4. Len(u) = Len(w)
    BY <2>1, <2>2, <2>3
  <2>5. ASSUME NEW n \in 1..Len(u) PROVE u[n] = w[n]
    <3>1. n \in Nat \ { 0 } /\ n \in 1..Len(w)
      BY <2>1, <2>4
    <3> QED BY <3>1, TextChars
  <2>6. u = w
    BY <2>4, <2>5, SeqEqual DEF Text
  <2> QED BY <2>6
<1>2. PICK n \in Differ : \A m \in Differ : n <= m
  <2>1. Differ \in SUBSET Nat
    OBVIOUS
  <2> HIDE DEF Differ
  <2> QED BY <1>1, <2>1, LeastNatural
<1>3. \A m \in 1..(n - 1) : CharAt(u, m) = CharAt(w, m)
  BY <1>2
<1>4. CharAt(u, n) \in 0..255 /\ CharAt(w, n) \in 0..255
  BY TextChars
<1>5. SameUpTo(u, w, n) /\ SameUpTo(w, u, n)
  BY <1>3 DEF SameUpTo
<1>6. CharAt(u, n) < CharAt(w, n) \/ CharAt(w, n) < CharAt(u, n)
  <2> DEFINE c == CharAt(u, n)
             d == CharAt(w, n)
  <2>1. c # d /\ c \in 0..255 /\ d \in 0..255
    BY <1>2, <1>4
  <2> HIDE DEF c, d
  <2>2. c < d \/ d < c
    BY <2>1
  <2> QED BY <2>2 DEF c, d
<1> QED BY <1>5, <1>6, BeforeChars

LEMMA SortedTexts ==
  ASSUME NEW S \in SUBSET Text, IsFiniteSet(S)
  PROVE  /\ Cardinality(S) \in Nat /\ Sorted(S, Before) \in [1..Cardinality(S) -> S]
         /\ \A m, n \in 1..Cardinality(S) : m < n => Before(Sorted(S, Before)[m], Sorted(S, Before)[n])
         /\ \A x \in S : \E n \in 1..Cardinality(S) : Sorted(S, Before)[n] = x
<1> DEFINE R == { p \in S \X S : Before(p[2], p[1]) }
           s == Sorted(S, Before)
<1>1. \A x, y \in S : << x, y >> \in R <=> Before(y, x)
  OBVIOUS
<1>2. \A x \in S : Above(S, R, x) = { y \in S : Before(y, x) }
  BY <1>1 DEF Above
<1>3. s = Ordered(S, R)
  <2> DEFINE f(n) == CHOOSE x \in S : Cardinality(Above(S, R, x)) = n - 1
             g(n) == CHOOSE x \in S : Cardinality({ y \in S : Before(y, x) }) = n - 1
  <2>1. \A n : f(n) = g(n)
    BY <1>2
  <2>2. s = [n \in 1..Cardinality(S) |-> g(n)]
    BY DEF Sorted
  <2>3. Ordered(S, R) = [n \in 1..Cardinality(S) |-> f(n)]
    BY DEF Ordered
  <2> HIDE DEF f, g
  <2> QED BY <2>1, <2>2, <2>3
<1> HIDE DEF R, s
<1>4. \A x \in S : << x, x >> \notin R
  BY <1>1, BeforeNotItself
<1>5. \A x, y \in S : x # y => << x, y >> \in R \/ << y, x >> \in R
  BY <1>1, BeforeTotal
<1>6. \A x, y, z \in S : << x, y >> \in R /\ << y, z >> \in R => << x, z >> \in R
  BY <1>1, BeforeTransitive
<1>7. StrictlyOrders(R, S)
  BY <1>4, <1>5, <1>6 DEF StrictlyOrders
<1>8. /\ Cardinality(S) \in Nat /\ s \in [1..Cardinality(S) -> S]
      /\ \A m, n \in 1..Cardinality(S) : m < n => << s[n], s[m] >> \in R
      /\ \A x \in S : \E n \in 1..Cardinality(S) : s[n] = x
  BY <1>3, <1>7, InOrder
<1>9. \A m, n \in 1..Cardinality(S) : m < n => Before(s[m], s[n])
  BY <1>1, <1>8
<1> QED BY <1>8, <1>9 DEF s

LEMMA SortedNumbers ==
  ASSUME NEW S \in SUBSET Nat, IsFiniteSet(S)
  PROVE  /\ Cardinality(S) \in Nat /\ Sorted(S, <) \in [1..Cardinality(S) -> S]
         /\ \A m, n \in 1..Cardinality(S) : m < n => Sorted(S, <)[m] < Sorted(S, <)[n]
         /\ \A x \in S : \E n \in 1..Cardinality(S) : Sorted(S, <)[n] = x
<1> DEFINE R == { p \in S \X S : p[2] < p[1] }
           s == Sorted(S, <)
<1>1. \A x, y \in S : << x, y >> \in R <=> y < x
  OBVIOUS
<1>2. \A x \in S : Above(S, R, x) = { y \in S : y < x }
  BY <1>1 DEF Above
<1>3. s = Ordered(S, R)
  <2> DEFINE f(n) == CHOOSE x \in S : Cardinality(Above(S, R, x)) = n - 1
             g(n) == CHOOSE x \in S : Cardinality({ y \in S : y < x }) = n - 1
  <2>1. \A n : f(n) = g(n)
    BY <1>2
  <2>2. s = [n \in 1..Cardinality(S) |-> g(n)]
    BY DEF Sorted
  <2>3. Ordered(S, R) = [n \in 1..Cardinality(S) |-> f(n)]
    BY DEF Ordered
  <2> HIDE DEF f, g
  <2> QED BY <2>1, <2>2, <2>3
<1> HIDE DEF R, s
<1>4. \A x \in S : << x, x >> \notin R
  BY <1>1
<1>5. \A x, y \in S : x # y => << x, y >> \in R \/ << y, x >> \in R
  BY <1>1
<1>6. \A x, y, z \in S : << x, y >> \in R /\ << y, z >> \in R => << x, z >> \in R
  BY <1>1
<1>7. StrictlyOrders(R, S)
  BY <1>4, <1>5, <1>6 DEF StrictlyOrders
<1>8. /\ Cardinality(S) \in Nat /\ s \in [1..Cardinality(S) -> S]
      /\ \A m, n \in 1..Cardinality(S) : m < n => << s[n], s[m] >> \in R
      /\ \A x \in S : \E n \in 1..Cardinality(S) : s[n] = x
  <2>1. IsFiniteSet(S)
    OBVIOUS
  <2> QED BY ONLY <2>1, <1>3, <1>7, InOrder
<1>9. \A m, n \in 1..Cardinality(S) : m < n => s[m] < s[n]
  BY <1>1, <1>8
<1> QED BY <1>8, <1>9 DEF s

-----------------------------------------------------------------------------
(* How many times a list holds an element.                                 *)

Places(s, e) == { n \in 1..Len(s) : s[n] = e }

Times(s, e) == Cardinality(Places(s, e))

LEMMA TimesType ==
  ASSUME NEW X, NEW s \in Seq(X), NEW e
  PROVE  IsFiniteSet(Places(s, e)) /\ Times(s, e) \in Nat
<1>1. Places(s, e) \in SUBSET (1..Len(s)) /\ Len(s) \in Nat
  BY LenProperties DEF Places
<1>2. IsFiniteSet(1..Len(s))
  BY <1>1, FS_Interval
<1> QED BY <1>1, <1>2, FS_Subset, FS_CardinalityType DEF Times

LEMMA SameSize ==
  ASSUME NEW S, IsFiniteSet(S), NEW T, NEW f \in [S -> T],
         \A x, y \in S : f[x] = f[y] => x = y,
         \A z \in T : \E x \in S : f[x] = z
  PROVE  IsFiniteSet(T) /\ Cardinality(T) = Cardinality(S)
<1>1. f \in Bijection(S, T)
  BY DEF Bijection, Injection, Surjection, IsInjective
<1> QED BY <1>1, FS_Bijection DEF ExistsBijection

LEMMA TimesConcat ==
  ASSUME NEW X, NEW s \in Seq(X), NEW t \in Seq(X), NEW e
  PROVE  Times(s \o t, e) = Times(s, e) + Times(t, e)
<1> DEFINE A == Places(s, e)
           B == Places(t, e)
           C == Places(s \o t, e)
           D == { n \in C : n > Len(s) }
           f == [n \in B |-> n + Len(s)]
<1>1. /\ Len(s) \in Nat /\ Len(t) \in Nat /\ Len(s \o t) = Len(s) + Len(t)
      /\ \A n \in 1..Len(s) : (s \o t)[n] = s[n]
      /\ \A n \in 1..Len(t) : (s \o t)[n + Len(s)] = t[n]
  <2>1. Len(s) \in Nat /\ Len(t) \in Nat /\ Len(s \o t) = Len(s) + Len(t)
    BY ConcatProperties, LenProperties
  <2>2. \A n \in 1..(Len(s) + Len(t)) : (s \o t)[n] = IF n <= Len(s) THEN s[n] ELSE t[n - Len(s)]
    BY ConcatProperties
  <2>3. ASSUME NEW n \in 1..Len(s) PROVE (s \o t)[n] = s[n]
    <3>1. n \in 1..(Len(s) + Len(t)) /\ n <= Len(s)
      BY <2>1
    <3> QED BY <2>2, <3>1
  <2>4. ASSUME NEW n \in 1..Len(t) PROVE (s \o t)[n + Len(s)] = t[n]
    <3>1. n + Len(s) \in 1..(Len(s) + Len(t)) /\ ~ n + Len(s) <= Len(s) /\ (n + Len(s)) - Len(s) = n
      BY <2>1
    <3> QED BY <2>2, <3>1
  <2> QED BY <2>1, <2>3, <2>4
<1>2. IsFiniteSet(A) /\ IsFiniteSet(B) /\ Cardinality(A) \in Nat /\ Cardinality(B) \in Nat
  BY TimesType DEF Times
<1> DEFINE m == Len(s)
           w == s \o t
<1>3. A = { n \in 1..m : s[n] = e } /\ B = { n \in 1..Len(t) : t[n] = e }
      /\ C = { n \in 1..(m + Len(t)) : w[n] = e }
  BY <1>1 DEF Places
<1>4. /\ m \in Nat /\ Len(t) \in Nat
      /\ \A n \in 1..m : w[n] = s[n]
      /\ \A n \in 1..Len(t) : w[n + m] = t[n]
  BY <1>1
<1>5. D = { n \in C : n > m } /\ f = [n \in B |-> n + m]
  OBVIOUS
<1> HIDE DEF A, B, C, D, f, m, w
<1>6. A \subseteq C /\ D \subseteq C /\ A \cap D = {}
  BY <1>3, <1>4, <1>5
<1>7. C = A \cup D
  <2>1. ASSUME NEW n \in C PROVE n \in A \/ n \in D
    <3>1. n \in 1..(m + Len(t)) /\ w[n] = e
      BY <1>3
    <3>2. n \in 1..m \/ n > m
      BY <1>4, <3>1
    <3> QED BY <1>3, <1>4, <1>5, <3>1, <3>2
  <2> QED BY <1>6, <2>1
<1>8. f \in [B -> D]
  <2>1. ASSUME NEW n \in B PROVE n + m \in D
    <3>1. n \in 1..Len(t) /\ t[n] = e
      BY <1>3
    <3>2. n + m \in 1..(m + Len(t)) /\ n + m > m
      BY <1>4, <3>1
    <3>3. w[n + m] = e
      BY <1>4, <3>1
    <3> QED BY <1>3, <1>5, <3>2, <3>3
  <2> QED BY <1>5, <2>1
<1>9. \A k, n \in B : f[k] = f[n] => k = n
  <2>1. \A n \in B : n \in Int
    BY <1>3
  <2> QED BY <1>4, <1>5, <2>1
<1>10. \A z \in D : \E n \in B : f[n] = z
  <2>1. ASSUME NEW z \in D PROVE \E n \in B : f[n] = z
    <3>1. z \in 1..(m + Len(t)) /\ w[z] = e /\ z > m
      BY <1>3, <1>5
    <3>2. z - m \in 1..Len(t) /\ (z - m) + m = z
      BY <1>4, <3>1
    <3>3. t[z - m] = e
      BY <1>4, <3>1, <3>2
    <3>4. z - m \in B
      BY <1>3, <3>2, <3>3
    <3> QED BY <1>5, <3>2, <3>4
  <2> QED BY <2>1
<1>11. IsFiniteSet(D) /\ Cardinality(D) = Cardinality(B)
  BY <1>2, <1>8, <1>9, <1>10, SameSize
<1>12. Cardinality(A \cup D) = Cardinality(A) + Cardinality(D) - Cardinality(A \cap D)
  BY <1>2, <1>11, FS_Union
<1>13. Cardinality(A \cap D) = 0
  BY <1>6, FS_EmptySet
<1>14. Cardinality(C) = Cardinality(A) + Cardinality(B)
  BY <1>2, <1>7, <1>11, <1>12, <1>13
<1> QED BY <1>14 DEF Times, A, B, C

LEMMA TimesOnce ==
  ASSUME NEW X, NEW s \in Seq(X), NEW e,
         \A m, n \in 1..Len(s) : s[m] = s[n] => m = n
  PROVE  Times(s, e) = IF \E n \in 1..Len(s) : s[n] = e THEN 1 ELSE 0
<1>1. CASE \E n \in 1..Len(s) : s[n] = e
  <2>1. PICK n \in 1..Len(s) : s[n] = e
    BY <1>1
  <2>2. Places(s, e) = { n }
    BY <2>1 DEF Places
  <2> QED BY <1>1, <2>2, FS_Singleton DEF Times
<1>2. CASE ~ \E n \in 1..Len(s) : s[n] = e
  <2>1. Places(s, e) = {}
    BY <1>2 DEF Places
  <2> QED BY <1>2, <2>1, FS_EmptySet DEF Times
<1> QED BY <1>1, <1>2

LEMMA TimesTail ==
  ASSUME NEW X, NEW s \in Seq(X), s # << >>, NEW e
  PROVE  /\ Tail(s) \in Seq(X) /\ Head(s) \in X
         /\ Times(s, e) = Times(Tail(s), e) + IF Head(s) = e THEN 1 ELSE 0
<1> DEFINE one  == << Head(s) >>
           rest == Tail(s)
<1>1. rest \in Seq(X) /\ Head(s) \in X /\ s = one \o rest
  BY HeadTailProperties
<1>2. one \in Seq(X) /\ Len(one) = 1 /\ one[1] = Head(s)
  BY <1>1
<1> HIDE DEF one, rest
<1>3. Times(s, e) = Times(one, e) + Times(rest, e)
  BY <1>1, <1>2, TimesConcat
<1>4. \A n \in 1..Len(one) : n = 1
  BY <1>2
<1>5. \A m, n \in 1..Len(one) : one[m] = one[n] => m = n
  BY <1>4
<1>6. Times(one, e) = IF \E n \in 1..Len(one) : one[n] = e THEN 1 ELSE 0
  BY <1>2, <1>5, TimesOnce
<1>7. (\E n \in 1..Len(one) : one[n] = e) <=> Head(s) = e
  BY <1>2, <1>4
<1>8. Times(one, e) = IF Head(s) = e THEN 1 ELSE 0
  BY <1>6, <1>7
<1>9. Times(rest, e) \in Nat
  BY <1>1, TimesType
<1> QED BY <1>1, <1>3, <1>8, <1>9 DEF rest

LEMMA ReverseList ==
  ASSUME NEW X, NEW s \in Seq(X)
  PROVE  /\ Reverse(s) \in Seq(X) /\ Len(Reverse(s)) = Len(s)
         /\ \A n \in 1..Len(s) : Reverse(s)[n] = s[(Len(s) - n) + 1]
<1> DEFINE r == [n \in 1..Len(s) |-> s[(Len(s) - n) + 1]]
<1>1. Len(s) \in Nat
  OBVIOUS
<1>2. \A n \in 1..Len(s) : (Len(s) - n) + 1 \in 1..Len(s)
  BY <1>1
<1>3. \A n \in 1..Len(s) : s[(Len(s) - n) + 1] \in X
  BY <1>2, ElementOfSeq
<1>4. r \in [1..Len(s) -> X]
  BY <1>3
<1>5. r \in Seq(X) /\ Len(r) = Len(s) /\ \A n \in 1..Len(s) : r[n] = s[(Len(s) - n) + 1]
  BY <1>1, <1>4, IsASeq, LenProperties
<1> QED BY <1>5 DEF Reverse

LEMMA TimesReverse ==
  ASSUME NEW X, NEW s \in Seq(X), NEW e
  PROVE  Times(Reverse(s), e) = Times(s, e)
<1> DEFINE A == Places(s, e)
           r == Reverse(s)
           B == Places(r, e)
           l == Len(s)
           f == [n \in A |-> (l - n) + 1]
<1>1. l \in Nat /\ Len(r) = l /\ \A n \in 1..l : r[n] = s[(l - n) + 1]
  BY ReverseList
<1>2. A = { n \in 1..l : s[n] = e } /\ B = { n \in 1..l : r[n] = e }
  BY <1>1 DEF Places
<1>3. IsFiniteSet(A)
  BY TimesType
<1>4. f = [n \in A |-> (l - n) + 1]
  OBVIOUS
<1> HIDE DEF A, B, r, l, f
<1>5. ASSUME NEW n \in 1..l
      PROVE  (l - n) + 1 \in 1..l /\ (l - ((l - n) + 1)) + 1 = n
  BY <1>1
<1>6. f \in [A -> B]
  <2>1. ASSUME NEW n \in A PROVE (l - n) + 1 \in B
    <3>1. n \in 1..l /\ s[n] = e
      BY <1>2
    <3> QED BY <1>1, <1>2, <1>5, <3>1
  <2> QED BY <1>4, <2>1
<1>7. \A m, n \in A : f[m] = f[n] => m = n
  <2>1. \A n \in A : n \in Int
    BY <1>2
  <2> QED BY <1>1, <1>4, <2>1
<1>8. \A z \in B : \E n \in A : f[n] = z
  <2>1. ASSUME NEW z \in B PROVE \E n \in A : f[n] = z
    <3>1. z \in 1..l /\ r[z] = e
      BY <1>2
    <3>2. (l - z) + 1 \in 1..l /\ s[(l - z) + 1] = e
      BY <1>1, <1>5, <3>1
    <3>3. (l - z) + 1 \in A
      BY <1>2, <3>2
    <3> QED BY <1>4, <1>5, <3>1, <3>3
  <2> QED BY <2>1
<1>9. Cardinality(B) = Cardinality(A)
  BY <1>3, <1>6, <1>7, <1>8, SameSize
<1> QED BY <1>9 DEF Times, A, B, r

-----------------------------------------------------------------------------
(* One list after the other.                                               *)

\* The function that FlattenSeq is defined with, for the first n lists.
IsFlatten(f, ss, n) == f = [i \in 1..n |-> IF i = 1 THEN ss[i] ELSE f[i - 1] \o ss[i]]

LEMMA FlattenExists ==
  ASSUME NEW ss, NEW n \in Nat
  PROVE  \E f : IsFlatten(f, ss, n)
<1> DEFINE Bad == { m \in Nat : ~ \E f : IsFlatten(f, ss, m) }
<1>1. SUFFICES ASSUME Bad # {} PROVE FALSE
  OBVIOUS
<1>2. PICK m \in Bad : \A k \in Bad : m <= k
  <2>1. Bad \in SUBSET Nat
    OBVIOUS
  <2> HIDE DEF Bad
  <2> QED BY <1>1, <2>1, LeastNatural
<1>3. m \in Nat /\ ~ \E f : IsFlatten(f, ss, m)
  OBVIOUS
<1>4. m # 0
  <2> DEFINE g == [i \in 1..0 |-> ss[1]]
  <2>1. IsFlatten(g, ss, 0)
    BY DEF IsFlatten
  <2> QED BY <1>3, <2>1
<1>5. PICK f : IsFlatten(f, ss, m - 1)
  <2>1. m - 1 \in Nat /\ m - 1 \notin Bad
    <3>1. m - 1 \in Nat /\ ~ m <= m - 1
      BY <1>3, <1>4
    <3> QED BY <1>2, <3>1
  <2> QED BY <2>1
<1> DEFINE g == [i \in 1..m |-> IF i < m THEN f[i] ELSE IF i = 1 THEN ss[i] ELSE f[i - 1] \o ss[i]]
<1>6. ASSUME NEW i \in 1..m PROVE g[i] = IF i = 1 THEN ss[i] ELSE g[i - 1] \o ss[i]
  <2>1. i # 1 => i - 1 \in 1..m /\ i - 1 < m
    BY <1>3
  <2>2. i # 1 => g[i - 1] = f[i - 1]
    BY <2>1
  <2>3. CASE i < m
    <3>1. i \in 1..(m - 1)
      BY <1>3, <2>3
    <3>2. f[i] = IF i = 1 THEN ss[i] ELSE f[i - 1] \o ss[i]
      BY <1>5, <3>1 DEF IsFlatten
    <3>3. g[i] = f[i]
      BY <2>3
    <3> QED BY <2>2, <3>2, <3>3
  <2>4. CASE ~ i < m
    <3>1. g[i] = IF i = 1 THEN ss[i] ELSE f[i - 1] \o ss[i]
      BY <2>4
    <3> QED BY <2>2, <3>1
  <2> QED BY <2>3, <2>4
<1>7. g = [i \in 1..m |-> g[i]]
  OBVIOUS
<1> HIDE DEF g
<1>8. g = [i \in 1..m |-> IF i = 1 THEN ss[i] ELSE g[i - 1] \o ss[i]]
  BY <1>6, <1>7
<1>9. IsFlatten(g, ss, m)
  BY <1>8 DEF IsFlatten
<1> QED BY <1>3, <1>9

LEMMA Products ==
  ASSUME NEW c \in Nat, NEW k \in Nat
  PROVE  /\ c * k \in Nat /\ c * (k + 1) = c * k + c /\ c * 0 = 0 /\ c * 1 = c /\ 1 * k = k
         /\ c * k # 0 <=> c # 0 /\ k # 0
OBVIOUS

\* The lists that hold e.
Holding(ss, e, n) == { i \in 1..n : Times(ss[i], e) # 0 }

LEMMA HoldingMore ==
  ASSUME NEW ss, NEW e, NEW n \in Nat
  PROVE  /\ IsFiniteSet(Holding(ss, e, n)) /\ Cardinality(Holding(ss, e, n)) \in Nat
         /\ Holding(ss, e, 0) = {}
         /\ n # 0 => Cardinality(Holding(ss, e, n)) =
                       Cardinality(Holding(ss, e, n - 1)) + IF Times(ss[n], e) # 0 THEN 1 ELSE 0
<1>1. ASSUME NEW k \in Nat PROVE IsFiniteSet(Holding(ss, e, k))
  <2>1. IsFiniteSet(1..k) /\ Holding(ss, e, k) \in SUBSET (1..k)
    BY FS_Interval DEF Holding
  <2> QED BY <2>1, FS_Subset
<1>2. Holding(ss, e, 0) = {}
  BY DEF Holding
<1>3. ASSUME n # 0
      PROVE  Cardinality(Holding(ss, e, n)) =
               Cardinality(Holding(ss, e, n - 1)) + IF Times(ss[n], e) # 0 THEN 1 ELSE 0
  <2> DEFINE A == Holding(ss, e, n - 1)
             B == Holding(ss, e, n)
             one == Times(ss[n], e) # 0
  <2>1. n - 1 \in Nat /\ \A i : i \in 1..n <=> i \in 1..(n - 1) \/ i = n
    BY <1>3
  <2>2. A = { i \in 1..(n - 1) : Times(ss[i], e) # 0 } /\ B = { i \in 1..n : Times(ss[i], e) # 0 }
    BY DEF Holding
  <2>3. IsFiniteSet(A) /\ n \notin A
    BY <1>1, <2>1, <2>2
  <2>4. IF one THEN B = A \cup { n } ELSE B = A
    BY <2>1, <2>2
  <2>5. Cardinality(A) \in Nat
    BY <2>3, FS_CardinalityType
  <2> HIDE DEF A, B
  <2>6. Cardinality(A \cup { n }) = Cardinality(A) + 1
    BY <2>3, FS_AddElement
  <2>7. Cardinality(B) = Cardinality(A) + IF one THEN 1 ELSE 0
    BY <2>4, <2>5, <2>6
  <2> QED BY <2>7 DEF A, B
<1> QED BY <1>1, <1>2, <1>3, FS_CardinalityType

\* Every list has e as often as every other that has it.
Evenly(ss, e, c) == \A i \in 1..Len(ss) : Times(ss[i], e) \in { 0, c }

\* How often e is in the first lists then.
InFirst(ss, e, c, n) == c * Cardinality(Holding(ss, e, n))

LEMMA FlattenStep ==
  ASSUME NEW X, NEW ss \in Seq(Seq(X)), NEW e, NEW f, IsFlatten(f, ss, Len(ss)),
         NEW c \in Nat, Evenly(ss, e, c), NEW n \in 1..Len(ss)
  PROVE  f[n] \in Seq(X) /\ Times(f[n], e) = InFirst(ss, e, c, n)
<1> DEFINE Good(i) == f[i] \in Seq(X) /\ Times(f[i], e) = c * Cardinality(Holding(ss, e, i))
           Bad == { i \in 1..Len(ss) : ~ Good(i) }
<1>0. Len(ss) \in Nat /\ \A i \in 1..Len(ss) : ss[i] \in Seq(X)
  BY LenProperties, ElementOfSeq
<1>1. SUFFICES ASSUME Bad # {} PROVE FALSE
  BY DEF InFirst
<1>2. PICK m \in Bad : \A k \in Bad : m <= k
  <2>1. Bad \in SUBSET Nat
    BY <1>0
  <2> HIDE DEF Bad
  <2> QED BY <1>1, <2>1, LeastNatural
<1>3. m \in 1..Len(ss) /\ ~ Good(m)
  OBVIOUS
<1> HIDE DEF Bad
<1>4. f[m] = IF m = 1 THEN ss[m] ELSE f[m - 1] \o ss[m]
  BY <1>3 DEF IsFlatten
<1>5. m \in Nat \ { 0 } /\ m - 1 \in Nat /\ ss[m] \in Seq(X)
  BY <1>0, <1>3
<1>6. Times(ss[m], e) \in { 0, c } /\ Times(ss[m], e) = IF Times(ss[m], e) # 0 THEN c ELSE 0
  BY <1>3 DEF Evenly
<1>7. c * Cardinality(Holding(ss, e, m)) = c * Cardinality(Holding(ss, e, m - 1)) + Times(ss[m], e)
  <2> DEFINE k == Cardinality(Holding(ss, e, m - 1))
             l == Cardinality(Holding(ss, e, m))
  <2>1. k \in Nat /\ l = k + IF Times(ss[m], e) # 0 THEN 1 ELSE 0
    BY <1>5, HoldingMore
  <2> HIDE DEF k, l
  <2>2. c * (k + 1) = c * k + c /\ c * k \in Nat
    BY <2>1, Products
  <2>3. c * l = c * k + Times(ss[m], e)
    BY <1>6, <2>1, <2>2
  <2> QED BY <2>3 DEF k, l
<1>8. CASE m = 1
  <2>1. f[m] = ss[m]
    BY <1>4, <1>8
  <2>2. c * Cardinality(Holding(ss, e, m - 1)) = 0
    <3>1. m - 1 = 0
      BY <1>8
    <3>2. Cardinality(Holding(ss, e, m - 1)) = 0
      BY <3>1, HoldingMore, FS_EmptySet
    <3> QED BY <3>2, Products
  <2>3. Times(ss[m], e) \in Nat
    BY <1>6
  <2>4. Good(m)
    BY <1>5, <1>7, <2>1, <2>2, <2>3
  <2> QED BY <1>3, <2>4
<1>9. CASE m # 1
  <2>1. m - 1 \in 1..Len(ss) /\ ~ m <= m - 1
    BY <1>0, <1>3, <1>9
  <2>2. Good(m - 1)
    BY <1>2, <2>1 DEF Bad
  <2>3. f[m] = f[m - 1] \o ss[m]
    BY <1>4, <1>9
  <2> DEFINE g == f[m - 1]
             h == ss[m]
  <2>4. g \in Seq(X) /\ h \in Seq(X) /\ f[m] = g \o h
    BY <1>5, <2>2, <2>3
  <2>5. Times(g, e) = c * Cardinality(Holding(ss, e, m - 1))
    BY <2>2
  <2> HIDE DEF g
  <2>6. g \o h \in Seq(X) /\ Times(g \o h, e) = Times(g, e) + Times(h, e)
    BY <2>4, TimesConcat, ConcatProperties
  <2>7. Good(m)
    BY <1>7, <2>4, <2>5, <2>6
  <2> QED BY <1>3, <2>7
<1> QED BY <1>8, <1>9

LEMMA TimesFlatten ==
  ASSUME NEW X, NEW ss \in Seq(Seq(X)), NEW e,
         NEW c \in Nat, \A i \in 1..Len(ss) : Times(ss[i], e) \in { 0, c }
  PROVE  /\ FlattenSeq(ss) \in Seq(X)
         /\ Times(FlattenSeq(ss), e) = c * Cardinality(Holding(ss, e, Len(ss)))
<1>1. Len(ss) \in Nat /\ Evenly(ss, e, c)
  BY LenProperties DEF Evenly
<1>2. CASE Len(ss) = 0
  <2>1. FlattenSeq(ss) = << >>
    BY <1>2, EmptySeq DEF FlattenSeq
  <2>2. Places(FlattenSeq(ss), e) = {}
    BY <2>1 DEF Places
  <2>3. Holding(ss, e, Len(ss)) = {}
    BY <1>2, HoldingMore
  <2>4. FlattenSeq(ss) \in Seq(X)
    BY <2>1
  <2>5. Times(FlattenSeq(ss), e) = 0 /\ Cardinality(Holding(ss, e, Len(ss))) = 0
    BY <2>2, <2>3, FS_EmptySet DEF Times
  <2> QED BY <2>4, <2>5, Products
<1>3. CASE Len(ss) # 0
  <2> DEFINE flatten == CHOOSE f : IsFlatten(f, ss, Len(ss))
  <2>1. IsFlatten(flatten, ss, Len(ss))
    BY <1>1, FlattenExists
  <2>2. FlattenSeq(ss) = flatten[Len(ss)]
    BY <1>3 DEF FlattenSeq, IsFlatten
  <2> HIDE DEF flatten
  <2>3. Len(ss) \in 1..Len(ss)
    BY <1>1, <1>3
  <2>4. flatten[Len(ss)] \in Seq(X) /\ Times(flatten[Len(ss)], e) = InFirst(ss, e, c, Len(ss))
    BY <1>1, <2>1, <2>3, FlattenStep
  <2> QED BY <2>2, <2>4 DEF InFirst
<1> QED BY <1>2, <1>3

-----------------------------------------------------------------------------
(* What the payloads and the tokens are, and stay.                         *)

Given ==
  /\ payloads \in Seq(Text \ { << >> }) /\ tokens \in Seq(Text \ { << >> })
  /\ \A p \in DOMAIN payloads : Len(payloads[p]) <= 256
  /\ k_offset \in Nat

LEMMA GivenInvariant == Spec => []Given
<1>1. Init => Given
  BY InputsAssumption DEF Init, PositionInit, Given, Text
<1>2. Given /\ [Next]_vars => Given'
  <2> SUFFICES ASSUME Given, [Next]_vars PROVE Given'
    OBVIOUS
  <2>1. UNCHANGED inputVars
    <3>1. CASE UNCHANGED vars
      BY <3>1 DEF vars, positionVars
    <3>2. CASE position_constraints_main
      BY <3>2 DEF position_constraints_main, FlowNew, FlowsDone, TraverseToken, TraverseDone, FixOffset,
                  FixDone, SearchOffsets, SearchDone, MergeVariants, MergeDone
    <3>3. CASE product_distribution_main
      BY <3>3 DEF product_distribution_main, StartCount, CountByte, CountNextPayload, CountDone,
                  ExtractOffset, ExtractByte, ExtractDone
    <3>4. CASE convertion_main
      BY <3>4 DEF convertion_main, StartFlow, ReplaceMatch, ReplaceRest, FlowDone, earlierVars
    <3> QED BY <3>1, <3>2, <3>3, <3>4 DEF Next
  <2> QED BY <2>1 DEF Given, inputVars
<1> QED BY <1>1, <1>2, PTL DEF Spec

LEMMA GivenTexts ==
  ASSUME Given
  PROVE  /\ Len(payloads) \in Nat /\ DOMAIN payloads = 1..Len(payloads)
         /\ Len(tokens) \in Nat /\ DOMAIN tokens = 1..Len(tokens)
         /\ \A p \in 1..Len(payloads) : payloads[p] \in Text /\ payloads[p] # << >>
         /\ \A n \in 1..Len(tokens) : tokens[n] \in Text /\ tokens[n] # << >>
         /\ ToSet(tokens) \in SUBSET Text /\ << >> \notin ToSet(tokens)
         /\ IsFiniteSet(ToSet(tokens)) /\ Cardinality(ToSet(tokens)) <= Len(tokens)
<1>1. /\ Len(payloads) \in Nat /\ DOMAIN payloads = 1..Len(payloads)
      /\ Len(tokens) \in Nat /\ DOMAIN tokens = 1..Len(tokens)
  BY LenProperties DEF Given
<1>2. \A p \in 1..Len(payloads) : payloads[p] \in Text /\ payloads[p] # << >>
  BY ElementOfSeq DEF Given
<1>3. \A n \in 1..Len(tokens) : tokens[n] \in Text /\ tokens[n] # << >>
  BY ElementOfSeq DEF Given
<1>4. ToSet(tokens) \in SUBSET Text /\ << >> \notin ToSet(tokens)
  BY <1>1, <1>3 DEF ToSet
<1>5. IsFiniteSet(ToSet(tokens)) /\ Cardinality(ToSet(tokens)) <= Len(tokens)
  <2> DEFINE S == 1..Len(tokens)
             T == ToSet(tokens)
  <2> DEFINE l == Len(tokens)
  <2>0. l \in Nat /\ S = 1..l
    BY <1>1
  <2> HIDE DEF l, S
  <2>a. 1 \in Int /\ l \in Int /\ (l - 1) + 1 = l /\ (1 > l => l = 0)
    BY <2>0
  <2>1. IsFiniteSet(S) /\ Cardinality(S) = Len(tokens)
    <3>1. IsFiniteSet(S) /\ Cardinality(S) = l
      BY <2>0, <2>a, FS_Interval
    <3> QED BY <3>1 DEF l
  <2>2. tokens \in [S -> T] /\ \A z \in T : \E n \in S : tokens[n] = z
    BY <1>1, LenProperties DEF ToSet, Given, S
  <2> HIDE DEF T
  <2>3. tokens \in Surjection(S, T)
    BY <2>2 DEF Surjection
  <2>4. IsFiniteSet(T) /\ Cardinality(T) <= Cardinality(S)
    BY <2>1, <2>3, FS_Surjection
  <2> QED BY <2>1, <2>4 DEF T
<1> QED BY <1>1, <1>2, <1>3, <1>4, <1>5

\* A token is listed at least once.
LEMMA ListedSize ==
  ASSUME Given, NEW t
  PROVE  /\ IsFiniteSet({ n \in 1..Len(tokens) : tokens[n] = t })
         /\ Listed(t) = Cardinality({ n \in 1..Len(tokens) : tokens[n] = t })
         /\ Listed(t) \in Nat /\ (Listed(t) # 0 <=> t \in ToSet(tokens))
         /\ IsInjective(tokens) /\ t \in ToSet(tokens) => Listed(t) = 1
<1> DEFINE N == { n \in 1..Len(tokens) : tokens[n] = t }
<1>1. Len(tokens) \in Nat /\ DOMAIN tokens = 1..Len(tokens)
  BY GivenTexts
<1>2. IsFiniteSet(1..Len(tokens)) /\ N \in SUBSET (1..Len(tokens))
  BY <1>1, FS_Interval
<1>3. N # {} <=> t \in ToSet(tokens)
  BY <1>1 DEF ToSet
<1>4. Listed(t) = Cardinality(N)
  BY <1>1 DEF Listed
<1>5. ASSUME IsInjective(tokens), t \in ToSet(tokens) PROVE \E n : N = { n }
  <2>1. PICK n \in 1..Len(tokens) : tokens[n] = t
    BY <1>1, <1>5 DEF ToSet
  <2>2. \A m \in 1..Len(tokens) : tokens[m] = t => m = n
    BY <1>1, <1>5, <2>1 DEF IsInjective
  <2>3. N = { n }
    BY <2>1, <2>2
  <2> QED BY <2>3
<1> HIDE DEF N
<1>6. IsFiniteSet(N)
  BY <1>2, FS_Subset
<1>7. Cardinality(N) \in Nat /\ (Cardinality(N) = 0 <=> N = {})
  BY <1>6, FS_CardinalityType, FS_EmptySet
<1>8. IsInjective(tokens) /\ t \in ToSet(tokens) => Cardinality(N) = 1
  BY <1>5, FS_Singleton
<1> QED BY <1>3, <1>4, <1>6, <1>7, <1>8 DEF N

LEMMA OccurrencesType ==
  ASSUME NEW t \in Text, NEW w \in Text
  PROVE  Occurrences(t, w) \in SUBSET Nat /\ IsFiniteSet(Occurrences(t, w))
<1>1. Len(t) \in Nat /\ Len(w) \in Nat
  BY TextChars
<1> DEFINE k == Len(w) - Len(t)
<1>2. k \in Int /\ Occurrences(t, w) \in SUBSET (0..k)
  BY <1>1 DEF Occurrences
<1> HIDE DEF k
<1>3. IsFiniteSet(0..k) /\ 0..k \in SUBSET Nat
  BY <1>2, FS_Interval
<1> QED BY <1>2, <1>3, FS_Subset

-----------------------------------------------------------------------------
(* flow_new: every token is listed once for each of its offsets.           *)

Element == [token : Text, offset : Nat]

\* The part of a flow for one token.
ListOf(token, string) ==
  [m \in DOMAIN Sorted(Occurrences(token, string), <) |->
     [token |-> token, offset |-> Sorted(Occurrences(token, string), <)[m]]]

LEMMA ListOfToken ==
  ASSUME NEW t \in Text, NEW w \in Text, NEW u, NEW o
  PROVE  /\ ListOf(t, w) \in Seq(Element)
         /\ Times(ListOf(t, w), [token |-> u, offset |-> o]) =
              IF u = t /\ o \in Occurrences(t, w) THEN 1 ELSE 0
<1> DEFINE S == Occurrences(t, w)
           s == Sorted(S, <)
           e == [token |-> u, offset |-> o]
           l == [m \in DOMAIN s |-> [token |-> t, offset |-> s[m]]]
           N == Cardinality(S)
<1>1. S \in SUBSET Nat /\ IsFiniteSet(S)
  BY OccurrencesType
<1> HIDE DEF S
<1>2. /\ N \in Nat /\ s \in [1..N -> S]
      /\ \A m, n \in 1..N : m < n => s[m] < s[n]
      /\ \A x \in S : \E n \in 1..N : s[n] = x
  BY <1>1, SortedNumbers
<1> HIDE DEF s
<1>3. l \in Seq(Element) /\ Len(l) = N /\ \A m \in 1..N : l[m] = [token |-> t, offset |-> s[m]]
  <2>1. \A m \in 1..N : [token |-> t, offset |-> s[m]] \in Element
    BY <1>1, <1>2 DEF Element
  <2>2. l \in [1..N -> Element]
    BY <1>2, <2>1
  <2>3. \A m \in 1..N : l[m] = [token |-> t, offset |-> s[m]]
    BY <1>2
  <2> HIDE DEF l
  <2>4. l \in Seq(Element)
    BY <1>2, <2>2, IsASeq
  <2>5. Len(l) = N
    BY <1>2, <2>2, <2>4, LenProperties
  <2> QED BY <2>3, <2>4, <2>5
<1> HIDE DEF l, N
<1>4. \A m, n \in 1..Len(l) : l[m] = l[n] => m = n
  <2>1. ASSUME NEW m \in 1..N, NEW n \in 1..N, m # n PROVE s[m] # s[n]
    <3>1. m < n \/ n < m
      BY <1>2, <2>1
    <3>2. s[m] \in Nat /\ s[n] \in Nat
      BY <1>1, <1>2
    <3> QED BY <1>2, <3>1, <3>2
  <2>2. \A m \in 1..N : l[m].offset = s[m]
    BY <1>3
  <2> QED BY <1>3, <2>1, <2>2
<1>5. (\E n \in 1..Len(l) : l[n] = e) <=> u = t /\ o \in S
  <2>1. \A n \in 1..N : l[n].offset = s[n] /\ l[n].token = t
    BY <1>3
  <2>2. e.token = u /\ e.offset = o
    OBVIOUS
  <2>3. ASSUME NEW n \in 1..N, l[n] = e PROVE u = t /\ o \in S
    BY <1>2, <2>1, <2>2, <2>3
  <2>4. ASSUME u = t, o \in S PROVE \E n \in 1..N : l[n] = e
    BY <1>2, <1>3, <2>4
  <2> QED BY <1>3, <2>3, <2>4
<1> HIDE DEF e
<1>6. Times(l, e) = IF \E n \in 1..Len(l) : l[n] = e THEN 1 ELSE 0
  BY <1>3, <1>4, TimesOnce
<1>7. Times(l, e) = IF u = t /\ o \in S THEN 1 ELSE 0
  BY <1>5, <1>6
<1> QED BY <1>3, <1>7 DEF l, e, s, S, ListOf

LEMMA FlowOf ==
  ASSUME Given, NEW w \in Text, NEW t, NEW o
  PROVE  /\ flow_new(w) \in Seq(Element)
         /\ Times(flow_new(w), [token |-> t, offset |-> o]) =
              IF t \in ToSet(tokens) /\ o \in Occurrences(t, w) THEN Listed(t) ELSE 0
<1> DEFINE e == [token |-> t, offset |-> o]
           ss == [n \in DOMAIN tokens |-> ListOf(tokens[n], w)]
           N == Len(tokens)
<1>1. flow_new(w) = Reverse(FlattenSeq(ss))
  BY DEF flow_new, ListOf
<1>2. N \in Nat /\ DOMAIN tokens = 1..N /\ \A n \in 1..N : tokens[n] \in Text
  BY GivenTexts
<1>3. \A n \in 1..N : ListOf(tokens[n], w) \in Seq(Element)
  BY <1>2, ListOfToken
<1>4. ss \in [1..N -> Seq(Element)] /\ \A n \in 1..N : ss[n] = ListOf(tokens[n], w)
  BY <1>2, <1>3
<1> HIDE DEF ss
<1>5. ss \in Seq(Seq(Element)) /\ Len(ss) = N
  BY <1>2, <1>4, IsASeq, LenProperties
<1>6. \A n \in 1..N : Times(ss[n], e) = IF t = tokens[n] /\ o \in Occurrences(tokens[n], w) THEN 1 ELSE 0
  BY <1>2, <1>4, ListOfToken
<1> HIDE DEF e
<1>7. \A n \in 1..Len(ss) : Times(ss[n], e) \in { 0, 1 }
  BY <1>5, <1>6
<1>8. FlattenSeq(ss) \in Seq(Element) /\ Times(FlattenSeq(ss), e) = Cardinality(Holding(ss, e, N))
  <2>1. 1 \in Nat
    OBVIOUS
  <2>2. /\ FlattenSeq(ss) \in Seq(Element)
        /\ Times(FlattenSeq(ss), e) = 1 * Cardinality(Holding(ss, e, N))
    BY <1>5, <1>7, <2>1, TimesFlatten
  <2>3. Cardinality(Holding(ss, e, N)) \in Nat
    BY <1>2, HoldingMore
  <2> QED BY <2>1, <2>2, <2>3, Products
<1>9. flow_new(w) \in Seq(Element) /\ Times(flow_new(w), e) = Cardinality(Holding(ss, e, N))
  BY <1>1, <1>8, ReverseList, TimesReverse
<1>10. Holding(ss, e, N) = { n \in 1..N : t = tokens[n] /\ o \in Occurrences(t, w) }
  BY <1>6 DEF Holding
<1>11. CASE t \in ToSet(tokens) /\ o \in Occurrences(t, w)
  <2>1. Holding(ss, e, N) = { n \in 1..N : tokens[n] = t }
    BY <1>10, <1>11
  <2>2. Cardinality(Holding(ss, e, N)) = Listed(t)
    BY <2>1, ListedSize
  <2> QED BY <1>9, <1>11, <2>2 DEF e
<1>12. CASE ~ (t \in ToSet(tokens) /\ o \in Occurrences(t, w))
  <2>1. Holding(ss, e, N) = {}
    BY <1>2, <1>10, <1>12 DEF ToSet
  <2> QED BY <1>9, <1>12, <2>1, FS_EmptySet DEF e
<1> QED BY <1>11, <1>12

-----------------------------------------------------------------------------
(* flow_set, while it is made and taken together.                          *)

At(t, o) == [token |-> t, offset |-> o]

LEMMA SameAt ==
  ASSUME NEW t, NEW o, NEW u, NEW q, At(t, o) = At(u, q)
  PROVE  t = u /\ o = q
<1>1. At(t, o).token = t /\ At(t, o).offset = o /\ At(u, q).token = u /\ At(u, q).offset = q
  BY DEF At
<1> QED BY <1>1

\* How many elements there are for a text and an offset.
Target(t, o) == IF t \in ToSet(tokens) THEN Tally(t, o) ELSE 0

\* The payloads that were seen last come first.
Flows ==
  pc = "flows" =>
    /\ DOMAIN trie = {}
    /\ flow_set \in Seq(Seq(Element)) /\ Len(flow_set) <= Len(payloads)
    /\ \A m \in 1..Len(flow_set) : flow_set[m] = flow_new(payloads[(Len(flow_set) + 1) - m])

LEMMA FlowNewFlows == ASSUME Given, Flows, FlowNew PROVE Flows'
<1> DEFINE L == Len(flow_set)
           w == payloads[L + 1]
           one == << flow_new(w) >>
<1>1. /\ pc = "flows" /\ pc' = pc /\ trie' = trie /\ payloads' = payloads /\ tokens' = tokens
      /\ L < Len(payloads) /\ flow_set' = one \o flow_set
  BY DEF FlowNew, inputVars, trieVars
<1>2. /\ DOMAIN trie = {} /\ flow_set \in Seq(Seq(Element))
      /\ \A m \in 1..L : flow_set[m] = flow_new(payloads[(L + 1) - m])
  BY <1>1 DEF Flows
<1>3. L \in Nat /\ Len(payloads) \in Nat /\ L + 1 \in 1..Len(payloads)
  BY <1>1, <1>2, GivenTexts, LenProperties
<1>4. flow_new(w) \in Seq(Element)
  BY <1>3, GivenTexts, FlowOf
<1> DEFINE x == flow_new(w)
<1>5. one \in Seq(Seq(Element)) /\ Len(one) = 1 /\ one[1] = x
  BY <1>4
<1> HIDE DEF one, L
<1>6. /\ flow_set' \in Seq(Seq(Element)) /\ Len(flow_set') = 1 + L
      /\ \A n \in 1..(1 + L) : flow_set'[n] = IF n <= 1 THEN one[n] ELSE flow_set[n - 1]
  <2> DEFINE X == Seq(Element)
             t == flow_set
  <2>1. one \in Seq(X) /\ t \in Seq(X) /\ Len(one) = 1 /\ Len(t) = L /\ flow_set' = one \o t
    BY <1>1, <1>2, <1>5 DEF L
  <2> HIDE DEF X, t
  <2>2. /\ one \o t \in Seq(X) /\ Len(one \o t) = Len(one) + Len(t)
        /\ \A n \in 1..(Len(one) + Len(t)) : (one \o t)[n] = IF n <= Len(one) THEN one[n] ELSE t[n - Len(one)]
    BY ONLY <2>1, ConcatProperties
  <2> QED BY <2>1, <2>2 DEF X, t
<1>7. ASSUME NEW m \in 1..(1 + L)
      PROVE  flow_set'[m] = flow_new(payloads[((1 + L) + 1) - m])
  <2>1. CASE m = 1
    <3>1. ((1 + L) + 1) - m = L + 1
      BY <1>3, <2>1
    <3> QED BY <1>5, <1>6, <2>1, <3>1
  <2>2. CASE m # 1
    <3>1. ~ m <= 1 /\ m - 1 \in 1..L /\ ((1 + L) + 1) - m = (L + 1) - (m - 1)
      BY <1>3, <2>2
    <3> QED BY <1>2, <1>6, <3>1
  <2> QED BY <2>1, <2>2
<1>8. \A v : flow_new(v)' = flow_new(v)
  <2>1. \A v : flow_new(v) = Reverse(FlattenSeq([n \in DOMAIN tokens |-> ListOf(tokens[n], v)]))
    BY DEF flow_new, ListOf
  <2>2. \A v : flow_new(v)' = Reverse(FlattenSeq([n \in DOMAIN tokens' |-> ListOf(tokens'[n], v)]))
    BY DEF flow_new, ListOf, Sorted
  <2> QED BY <1>1, <2>1, <2>2
<1>9. \A m \in 1..Len(flow_set') : flow_set'[m] = flow_new(payloads'[(Len(flow_set') + 1) - m])
  BY <1>1, <1>6, <1>7
<1>10. Len(flow_set') <= Len(payloads')
  BY <1>1, <1>3, <1>6
<1> QED BY <1>1, <1>2, <1>6, <1>8, <1>9, <1>10 DEF Flows

\* All elements there are, when every payload is in flow_set.
LEMMA AllElements ==
  ASSUME Given, Flows, pc = "flows", Len(flow_set) = Len(payloads), NEW t \in Text, NEW o \in Nat
  PROVE  /\ FlattenSeq(flow_set) \in Seq(Element)
         /\ Times(FlattenSeq(flow_set), At(t, o)) = Target(t, o)
<1> DEFINE L == Len(payloads)
           e == At(t, o)
           H == Holding(flow_set, e, L)
           P == { p \in DOMAIN payloads : o \in Occurrences(t, payloads[p]) }
           f == [m \in H |-> (L + 1) - m]
<1>1. /\ L \in Nat /\ DOMAIN payloads = 1..L /\ \A p \in 1..L : payloads[p] \in Text
      /\ flow_set \in Seq(Seq(Element)) /\ Len(flow_set) = L
      /\ \A m \in 1..L : flow_set[m] = flow_new(payloads[(L + 1) - m])
  BY GivenTexts DEF Flows
<1>2. ASSUME NEW m \in 1..L
      PROVE  /\ (L + 1) - m \in 1..L
             /\ Times(flow_set[m], e) =
                  IF t \in ToSet(tokens) /\ o \in Occurrences(t, payloads[(L + 1) - m])
                    THEN Listed(t) ELSE 0
  <2>1. (L + 1) - m \in 1..L
    BY <1>1
  <2> QED BY <1>1, <2>1, FlowOf DEF At
<1> HIDE DEF L, e
<1>3. \A m \in 1..L : Times(flow_set[m], e) \in { 0, Listed(t) }
  BY <1>2
<1>a. Listed(t) \in Nat /\ (Listed(t) # 0 <=> t \in ToSet(tokens))
  BY ListedSize
<1>4. /\ FlattenSeq(flow_set) \in Seq(Element)
      /\ Times(FlattenSeq(flow_set), e) = Listed(t) * Cardinality(H)
  BY <1>1, <1>3, <1>a, TimesFlatten
<1>5. H = { m \in 1..L : t \in ToSet(tokens) /\ o \in Occurrences(t, payloads[(L + 1) - m]) }
  BY <1>2, <1>a DEF Holding
<1>6. IsFiniteSet(H)
  BY <1>1, HoldingMore
<1>7. f = [m \in H |-> (L + 1) - m] /\ P = { p \in 1..L : o \in Occurrences(t, payloads[p]) }
  BY <1>1
<1> HIDE DEF H, P, f
<1>8. CASE t \in ToSet(tokens)
  <2>1. f \in [H -> P]
    <3>1. \A m \in H : (L + 1) - m \in P
      BY <1>2, <1>5, <1>7
    <3> QED BY <1>7, <3>1
  <2>2. \A m, n \in H : f[m] = f[n] => m = n
    <3>1. \A m \in H : m \in Int
      BY <1>5
    <3> QED BY <1>1, <1>7, <3>1
  <2>3. ASSUME NEW p \in P PROVE \E m \in H : f[m] = p
    <3>1. p \in 1..L /\ o \in Occurrences(t, payloads[p])
      BY <1>7
    <3>2. (L + 1) - p \in 1..L /\ (L + 1) - ((L + 1) - p) = p
      BY <1>1, <3>1
    <3>3. (L + 1) - p \in H
      BY <1>5, <1>8, <3>1, <3>2
    <3> QED BY <1>7, <3>2, <3>3
  <2>4. Cardinality(P) = Cardinality(H)
    BY <1>6, <2>1, <2>2, <2>3, SameSize
  <2> QED BY <1>4, <1>8, <2>4 DEF Target, Tally, Found, P, e
<1>9. CASE t \notin ToSet(tokens)
  <2>1. H = {}
    BY <1>5, <1>9
  <2>2. Listed(t) * Cardinality(H) = 0
    BY <1>a, <2>1, FS_EmptySet, Products
  <2> QED BY <1>4, <1>9, <2>2 DEF Target, e
<1> QED BY <1>8, <1>9

-----------------------------------------------------------------------------
(* What is counted and what is still in the list make up what there is.    *)

IsCounts(c) ==
  /\ c = [o \in DOMAIN c |-> c[o]] /\ DOMAIN c # {} /\ DOMAIN c \in SUBSET Nat
  /\ \A o \in DOMAIN c : c[o] \in Nat \ { 0 }

Seen(t, o) ==
  IF t \in DOMAIN trie /\ o \in DOMAIN trie[t].offset_occurrence
    THEN trie[t].offset_occurrence[o] ELSE 0

Traversing ==
  pc = "traverse" =>
    /\ todo \in Seq(Element) /\ DOMAIN trie \in SUBSET Text
    /\ \A t \in DOMAIN trie : IsCounts(trie[t].offset_occurrence)
    /\ \A t \in Text, o \in Nat : Seen(t, o) + Times(todo, At(t, o)) = Target(t, o)

LEMMA OnceCounts ==
  ASSUME NEW o \in Nat
  PROVE  IsCounts(Once(o)) /\ \A q : q \in DOMAIN Once(o) <=> q = o
BY DEF IsCounts, Once

LEMMA Plus1Counts ==
  ASSUME NEW c, IsCounts(c), NEW o \in Nat
  PROVE  /\ IsCounts(Plus1(c, o)) /\ DOMAIN Plus1(c, o) = DOMAIN c \cup { o }
         /\ \A q \in DOMAIN c : q # o => Plus1(c, o)[q] = c[q]
         /\ Plus1(c, o)[o] = IF o \in DOMAIN c THEN c[o] + 1 ELSE 1
<1> DEFINE n == IF o \in DOMAIN c THEN c[o] + 1 ELSE 1
<1>1. n \in Nat \ { 0 }
  BY DEF IsCounts
<1>2. Plus1(c, o) = With(c, o, n)
  BY DEF Plus1
<1> HIDE DEF n
<1>3. /\ With(c, o, n) = [q \in DOMAIN c \cup { o } |-> With(c, o, n)[q]]
      /\ DOMAIN With(c, o, n) = DOMAIN c \cup { o }
      /\ With(c, o, n)[o] = n
      /\ \A q \in DOMAIN c : q # o => With(c, o, n)[q] = c[q]
  BY DEF With
<1> DEFINE d == With(c, o, n)
<1> HIDE DEF d
<1>4. IsCounts(d)
  BY <1>1, <1>3 DEF IsCounts, d
<1> QED BY <1>2, <1>3, <1>4 DEF n, d

LEMMA TokenNewSeen ==
  ASSUME NEW text \in Text, text \notin DOMAIN trie, NEW offset \in Nat, NEW kind,
         token_new(text, offset, kind), DOMAIN trie \in SUBSET Text,
         \A t \in DOMAIN trie : IsCounts(trie[t].offset_occurrence)
  PROVE  /\ DOMAIN trie' \in SUBSET Text
         /\ \A t \in DOMAIN trie' : IsCounts(trie'[t].offset_occurrence)
         /\ \A t, o : Seen(t, o)' = IF t = text /\ o = offset THEN 1 ELSE Seen(t, o)
         /\ Seen(text, offset) = 0
<1> DEFINE new == NewToken(text, offset, kind)
<1>1. trie' = With(trie, text, new)
  BY TokenNewEffect
<1>2. new.offset_occurrence = Once(offset)
  BY NewTokenFields
<1> HIDE DEF new
<1>3. /\ DOMAIN trie' = DOMAIN trie \cup { text } /\ trie'[text] = new
      /\ \A t \in DOMAIN trie : t # text => trie'[t] = trie[t]
  BY <1>1 DEF With
<1>4. IsCounts(Once(offset)) /\ Once(offset)[offset] = 1
      /\ \A q : q \in DOMAIN Once(offset) <=> q = offset
  BY OnceCounts DEF Once
<1>5. \A t \in DOMAIN trie' : IsCounts(trie'[t].offset_occurrence)
  BY <1>2, <1>3, <1>4
<1>6. ASSUME NEW t, NEW o
      PROVE  Seen(t, o)' = IF t = text /\ o = offset THEN 1 ELSE Seen(t, o)
  <2>1. Seen(t, o)' = IF t \in DOMAIN trie' /\ o \in DOMAIN trie'[t].offset_occurrence
                        THEN trie'[t].offset_occurrence[o] ELSE 0
    BY DEF Seen
  <2>2. CASE t = text
    BY <1>2, <1>3, <1>4, <2>1, <2>2 DEF Seen
  <2>3. CASE t # text
    BY <1>3, <2>1, <2>3 DEF Seen
  <2> QED BY <2>2, <2>3
<1> QED BY <1>3, <1>5, <1>6 DEF Seen

LEMMA TokenAddSeen ==
  ASSUME NEW text \in DOMAIN trie, IsToken(trie[text]), NEW offset \in Nat,
         token_add(text, offset), DOMAIN trie \in SUBSET Text,
         \A t \in DOMAIN trie : IsCounts(trie[t].offset_occurrence)
  PROVE  /\ DOMAIN trie' \in SUBSET Text
         /\ \A t \in DOMAIN trie' : IsCounts(trie'[t].offset_occurrence)
         /\ \A t, o : Seen(t, o)' = IF t = text /\ o = offset THEN Seen(t, o) + 1 ELSE Seen(t, o)
<1> DEFINE c == trie[text].offset_occurrence
           x == Plus1(c, offset)
           r == [trie[text] EXCEPT !.offset_occurrence = x]
<1>1. trie' = [trie EXCEPT ![text] = r]
  BY DEF token_add
<1>2. r.offset_occurrence = x
  BY ChangedToken DEF Fields
<1> HIDE DEF r
<1>3. /\ IsCounts(x) /\ DOMAIN x = DOMAIN c \cup { offset }
      /\ \A q \in DOMAIN c : q # offset => x[q] = c[q]
      /\ x[offset] = IF offset \in DOMAIN c THEN c[offset] + 1 ELSE 1
  BY Plus1Counts
<1> HIDE DEF x
<1>4. /\ DOMAIN trie' = DOMAIN trie /\ trie'[text] = r
      /\ \A t \in DOMAIN trie : t # text => trie'[t] = trie[t]
  BY <1>1
<1>5. \A t \in DOMAIN trie' : IsCounts(trie'[t].offset_occurrence)
  BY <1>2, <1>3, <1>4
<1>6. ASSUME NEW t, NEW o
      PROVE  Seen(t, o)' = IF t = text /\ o = offset THEN Seen(t, o) + 1 ELSE Seen(t, o)
  <2>1. Seen(t, o)' = IF t \in DOMAIN trie' /\ o \in DOMAIN trie'[t].offset_occurrence
                        THEN trie'[t].offset_occurrence[o] ELSE 0
    BY DEF Seen
  <2>2. CASE t = text
    <3>1. Seen(t, o)' = IF o \in DOMAIN x THEN x[o] ELSE 0
      BY <1>2, <1>4, <2>1, <2>2
    <3>2. Seen(t, o) = IF o \in DOMAIN c THEN c[o] ELSE 0
      BY <2>2 DEF Seen
    <3> HIDE DEF c
    <3>3. CASE o = offset
      <4>1. Seen(t, o)' = IF o \in DOMAIN c THEN c[o] + 1 ELSE 1
        BY <1>3, <3>1, <3>3
      <4> QED BY <2>2, <3>2, <3>3, <4>1
    <3>4. CASE o # offset
      BY <1>3, <3>1, <3>2, <3>4
    <3> QED BY <3>3, <3>4
  <2>3. CASE t # text
    BY <1>4, <2>1, <2>3 DEF Seen
  <2> QED BY <2>2, <2>3
<1> QED BY <1>4, <1>5, <1>6

LEMMA TraverseTokenTraversing ==
  ASSUME Given, Codes, Traversing, TraverseToken
  PROVE  Traversing'
<1> DEFINE e == Head(todo)
           text == e.token
           offset == e.offset
<1>1. /\ pc = "traverse" /\ pc' = pc /\ todo # << >> /\ todo' = Tail(todo)
      /\ payloads' = payloads /\ tokens' = tokens
      /\ IF text \in DOMAIN trie THEN token_add(text, offset)
         ELSE token_new(text, offset, "PS_ORDINARY")
  BY DEF TraverseToken, inputVars
<1>2. /\ todo \in Seq(Element) /\ DOMAIN trie \in SUBSET Text
      /\ \A t \in DOMAIN trie : IsCounts(trie[t].offset_occurrence)
      /\ \A t \in Text, o \in Nat : Seen(t, o) + Times(todo, At(t, o)) = Target(t, o)
  BY <1>1 DEF Traversing
<1>3. todo' \in Seq(Element) /\ e \in Element
  BY <1>1, <1>2, TimesTail
<1>4. text \in Text /\ offset \in Nat /\ e = At(text, offset)
  BY <1>3 DEF Element, At
<1> HIDE DEF e, text, offset
<1>5. ASSUME NEW t \in Text, NEW o \in Nat
      PROVE  /\ Times(todo, At(t, o)) = Times(todo', At(t, o)) + IF t = text /\ o = offset THEN 1 ELSE 0
             /\ Times(todo', At(t, o)) \in Nat
  <2>1. e = At(t, o) <=> t = text /\ o = offset
    BY <1>4, SameAt
  <2>2. Times(todo, At(t, o)) = Times(todo', At(t, o)) + IF e = At(t, o) THEN 1 ELSE 0
    BY <1>1, <1>2, TimesTail DEF e
  <2>3. Times(todo', At(t, o)) \in Nat
    BY <1>3, TimesType
  <2> QED BY <2>1, <2>2, <2>3
<1>6. /\ DOMAIN trie' \in SUBSET Text
      /\ \A t \in DOMAIN trie' : IsCounts(trie'[t].offset_occurrence)
      /\ \A t, o : Seen(t, o)' = IF t = text /\ o = offset THEN Seen(t, o) + 1 ELSE Seen(t, o)
  <2>1. CASE text \in DOMAIN trie
    <3>1. token_add(text, offset) /\ IsToken(trie[text])
      BY <1>1, <2>1 DEF Codes
    <3> QED BY <1>2, <1>4, <2>1, <3>1, TokenAddSeen
  <2>2. CASE text \notin DOMAIN trie
    <3>1. token_new(text, offset, "PS_ORDINARY")
      BY <1>1, <2>2
    <3> QED BY <1>2, <1>4, <2>2, <3>1, TokenNewSeen
  <2> QED BY <2>1, <2>2
<1>7. ASSUME NEW t \in Text, NEW o \in Nat PROVE Seen(t, o) \in Nat
  BY <1>2 DEF Seen, IsCounts
<1>8. ASSUME NEW t \in Text, NEW o \in Nat
      PROVE  Seen(t, o)' + Times(todo', At(t, o)) = Target(t, o)
  <2> DEFINE n == Times(todo', At(t, o))
             s == Seen(t, o)
             g == Target(t, o)
             b == t = text /\ o = offset
  <2>1. s \in Nat /\ n \in Nat /\ s + Times(todo, At(t, o)) = g
    BY <1>2, <1>5, <1>7
  <2>2. Times(todo, At(t, o)) = n + IF b THEN 1 ELSE 0
    BY <1>5
  <2>3. Seen(t, o)' = IF b THEN s + 1 ELSE s
    BY <1>6
  <2> HIDE DEF n, s, g, b
  <2>4. Seen(t, o)' + n = g
    BY <2>1, <2>2, <2>3
  <2> QED BY <2>4 DEF n, g
<1>9. \A t, o : Target(t, o)' = Target(t, o)
  BY <1>1 DEF Target, Tally, Found, Listed
<1>10. \A t \in Text, o \in Nat : Seen(t, o)' + Times(todo, At(t, o))' = Target(t, o)'
  BY <1>8, <1>9 DEF Times, Places
<1> QED BY <1>3, <1>6, <1>10 DEF Traversing

LEMMA FlowsDoneTraversing ==
  ASSUME Given, Flows, FlowsDone
  PROVE  Traversing'
<1>1. /\ pc = "flows" /\ Len(flow_set) = Len(payloads) /\ todo' = FlattenSeq(flow_set)
      /\ trie' = trie /\ payloads' = payloads /\ tokens' = tokens /\ DOMAIN trie = {}
  BY DEF FlowsDone, inputVars, trieVars, Flows
<1>2. \A t \in Text, o \in Nat : Times(todo', At(t, o)) = Target(t, o)
  BY <1>1, AllElements
<1>3. todo' \in Seq(Element)
  <2>1. << 1 >> \in Text /\ 0 \in Nat
    BY DEF Text
  <2> QED BY <1>1, <2>1, AllElements
<1>4. \A t \in Text, o \in Nat :
        Seen(t, o)' = 0 /\ Times(todo', At(t, o)) \in Nat /\ Target(t, o)' = Target(t, o)
  BY <1>1, <1>3, TimesType DEF Seen, Target, Tally, Found, Listed
<1>5. \A t \in Text, o \in Nat : Seen(t, o)' + Times(todo', At(t, o)) = Target(t, o)'
  BY <1>2, <1>4
<1>6. \A t \in Text, o \in Nat : Seen(t, o)' + Times(todo, At(t, o))' = Target(t, o)'
  BY <1>5 DEF Times, Places
<1> QED BY <1>1, <1>3, <1>6 DEF Traversing

LEMMA FoundSize ==
  ASSUME Given, NEW t \in Text
  PROVE  /\ FoundAt(t) \in SUBSET Nat /\ IsFiniteSet(FoundAt(t))
         /\ \A o : Found(t, o) \in Nat /\ (Found(t, o) # 0 <=> o \in FoundAt(t))
<1> DEFINE P(o) == { p \in DOMAIN payloads : o \in Occurrences(t, payloads[p]) }
<1>1. /\ Len(payloads) \in Nat /\ DOMAIN payloads = 1..Len(payloads)
      /\ \A p \in 1..Len(payloads) : payloads[p] \in Text
  BY GivenTexts
<1>2. IsFiniteSet(DOMAIN payloads)
  BY <1>1, FS_Interval
<1>3. ASSUME NEW o
      PROVE  Found(t, o) \in Nat /\ (Found(t, o) # 0 <=> o \in FoundAt(t))
  <2> DEFINE Q == P(o)
  <2>1. Q \in SUBSET DOMAIN payloads /\ Found(t, o) = Cardinality(Q)
    BY DEF Found
  <2>2. Q # {} <=> o \in FoundAt(t)
    BY DEF FoundAt
  <2> HIDE DEF Q
  <2>3. IsFiniteSet(Q)
    BY <1>2, <2>1, FS_Subset
  <2>4. Cardinality(Q) \in Nat /\ (Cardinality(Q) = 0 <=> Q = {})
    BY <2>3, FS_CardinalityType, FS_EmptySet
  <2> QED BY <2>1, <2>2, <2>4
<1>4. FoundAt(t) \in SUBSET Nat
  BY <1>1, OccurrencesType DEF FoundAt
<1>5. IsFiniteSet(FoundAt(t))
  <2>1. ASSUME NEW p \in DOMAIN payloads, NEW o \in Occurrences(t, payloads[p]) PROVE o \in 0..256
    <3>1. payloads[p] \in Text /\ Len(payloads[p]) <= 256
      BY <1>1 DEF Given
    <3>2. Len(payloads[p]) \in Nat /\ Len(t) \in Nat
      BY <3>1, TextChars
    <3>3. o \in 0..(Len(payloads[p]) - Len(t))
      BY DEF Occurrences
    <3> QED BY <3>1, <3>2, <3>3
  <2>2. FoundAt(t) \in SUBSET (0..256)
    BY <2>1 DEF FoundAt
  <2>3. PICK k \in Nat : k = 256
    OBVIOUS
  <2>4. IsFiniteSet(0..256)
    <3>1. IsFiniteSet(0..k)
      BY FS_Interval
    <3> QED BY <2>3, <3>1, Zenon
  <2> QED BY <2>2, <2>4, FS_Subset
<1> QED BY <1>3, <1>4, <1>5

\* What is counted for a token, where it is.
LEMMA TallySize ==
  ASSUME Given, NEW t \in Text, t \in ToSet(tokens), NEW o
  PROVE  Tally(t, o) \in Nat /\ (Tally(t, o) # 0 <=> o \in FoundAt(t))
<1>1. Found(t, o) \in Nat /\ (Found(t, o) # 0 <=> o \in FoundAt(t))
  BY FoundSize
<1>2. Listed(t) \in Nat /\ Listed(t) # 0
  BY ListedSize
<1> DEFINE k == Found(t, o)
           c == Listed(t)
<1> HIDE DEF k, c
<1>3. c * k \in Nat /\ (c * k # 0 <=> k # 0)
  BY <1>1, <1>2, Products DEF k, c
<1> QED BY <1>1, <1>3 DEF Tally, k, c

LEMMA TraverseDoneOccurrences ==
  ASSUME Given, Traversing, TraverseDone
  PROVE  OccurrencesRight'
<1>1. pc = "traverse" /\ todo = << >> /\ trie' = trie /\ payloads' = payloads /\ tokens' = tokens
  BY DEF TraverseDone, inputVars, trieVars
<1>2. /\ DOMAIN trie \in SUBSET Text
      /\ \A t \in DOMAIN trie : IsCounts(trie[t].offset_occurrence)
      /\ \A t \in Text, o \in Nat : Seen(t, o) + Times(todo, At(t, o)) = Target(t, o)
  BY <1>1 DEF Traversing
<1>3. ASSUME NEW t \in Text, NEW o \in Nat
      PROVE  Seen(t, o) = Target(t, o)
  <2>1. Places(todo, At(t, o)) = {}
    BY <1>1 DEF Places
  <2>2. Times(todo, At(t, o)) = 0
    BY <2>1, FS_EmptySet DEF Times
  <2>3. Seen(t, o) \in Nat
    BY <1>2 DEF Seen, IsCounts
  <2> QED BY <1>2, <2>2, <2>3
<1>4. ASSUME NEW t \in Text
      PROVE  /\ FoundAt(t) \in SUBSET Nat
             /\ t \in ToSet(tokens) =>
                  \A o \in Nat : Tally(t, o) \in Nat /\ (Tally(t, o) # 0 <=> o \in FoundAt(t))
  BY FoundSize, TallySize
<1>5. ToSet(tokens) \in SUBSET Text
  BY GivenTexts
<1>6. ASSUME NEW t \in DOMAIN trie
      PROVE  /\ t \in ToSet(tokens) /\ FoundAt(t) # {}
             /\ trie[t].offset_occurrence = [o \in FoundAt(t) |-> Tally(t, o)]
  <2> DEFINE c == trie[t].offset_occurrence
  <2>1. t \in Text /\ IsCounts(c)
    BY <1>2
  <2>2. \A o \in Nat : (IF o \in DOMAIN c THEN c[o] ELSE 0) = Target(t, o)
    BY <1>3, <2>1 DEF Seen
  <2> HIDE DEF c
  <2>3. /\ c = [o \in DOMAIN c |-> c[o]] /\ DOMAIN c # {} /\ DOMAIN c \in SUBSET Nat
        /\ \A o \in DOMAIN c : c[o] # 0
    BY <2>1 DEF IsCounts
  <2>4. t \in ToSet(tokens)
    BY <2>2, <2>3 DEF Target
  <2>5. \A o \in Nat : (IF o \in DOMAIN c THEN c[o] ELSE 0) = Tally(t, o)
    BY <2>2, <2>4 DEF Target
  <2>6. DOMAIN c = FoundAt(t)
    BY <1>4, <2>1, <2>3, <2>4, <2>5
  <2>7. \A o \in DOMAIN c : c[o] = Tally(t, o)
    BY <2>3, <2>5
  <2>8. c = [o \in FoundAt(t) |-> Tally(t, o)]
    BY <2>3, <2>6, <2>7
  <2> QED BY <2>3, <2>4, <2>6, <2>8 DEF c
<1>7. ASSUME NEW t \in ToSet(tokens), FoundAt(t) # {} PROVE t \in DOMAIN trie
  <2>1. t \in Text
    BY <1>5
  <2>2. PICK o \in FoundAt(t) : o \in Nat
    BY <1>4, <1>7, <2>1
  <2>3. Tally(t, o) # 0
    BY <1>4, <1>7, <2>1, <2>2
  <2>4. Seen(t, o) # 0
    BY <1>3, <1>7, <2>1, <2>2, <2>3 DEF Target
  <2> QED BY <2>4 DEF Seen
<1>8. DOMAIN trie = { t \in ToSet(tokens) : FoundAt(t) # {} }
  BY <1>6, <1>7
<1> QED BY <1>1, <1>6, <1>8 DEF OccurrencesRight, FoundAt, Tally, Found, Listed

\* Later the offsets of the tokens are what they were.
SameOccurrences ==
  /\ payloads' = payloads /\ tokens' = tokens /\ DOMAIN trie' = DOMAIN trie
  /\ \A t \in DOMAIN trie : trie'[t].offset_occurrence = trie[t].offset_occurrence

LEMMA OccurrencesStay ==
  ASSUME OccurrencesRight, SameOccurrences, InPositions
  PROVE  OccurrencesRight'
<1>1. /\ DOMAIN trie = { t \in ToSet(tokens) : FoundAt(t) # {} }
      /\ \A t \in DOMAIN trie : trie[t].offset_occurrence = [o \in FoundAt(t) |-> Tally(t, o)]
  BY DEF OccurrencesRight
<1>2. \A t : FoundAt(t)' = FoundAt(t) /\ \A o : Tally(t, o)' = Tally(t, o)
  BY DEF SameOccurrences, FoundAt, Tally, Found, Listed
<1>3. DOMAIN trie' = { t \in ToSet(tokens') : FoundAt(t)' # {} }
  BY <1>1, <1>2 DEF SameOccurrences
<1>4. \A t \in DOMAIN trie' : trie'[t].offset_occurrence = [o \in FoundAt(t)' |-> Tally(t, o)']
  BY <1>1, <1>2 DEF SameOccurrences
<1> QED BY <1>3, <1>4 DEF OccurrencesRight

LEMMA FixOffsetSame ==
  ASSUME Codes, FixOffset
  PROVE  SameOccurrences
<1> DEFINE text == Head(todo)
           fixed == Cardinality(DOMAIN trie[text].offset_occurrence) = 1
           r == [trie[text] EXCEPT !.position_specific = "PS_NOT_MERGE"]
<1>1. trie' = IF fixed THEN [trie EXCEPT ![text] = r] ELSE trie
  BY DEF FixOffset
<1>2. text \in DOMAIN trie => r.offset_occurrence = trie[text].offset_occurrence
  BY ChangedToken DEF Fields, Codes
<1> HIDE DEF r, fixed, text
<1>3. CASE fixed
  <2>1. trie' = [trie EXCEPT ![text] = r]
    BY <1>1, <1>3
  <2> QED BY <1>2, <2>1 DEF SameOccurrences, FixOffset, inputVars
<1>4. CASE ~ fixed
  <2>1. trie' = trie
    BY <1>1, <1>4
  <2> QED BY <2>1 DEF SameOccurrences, FixOffset, inputVars
<1> QED BY <1>3, <1>4

LEMMA MergeVariantsSame ==
  ASSUME Codes, NEW o \in offsets, MergeVariants(o)
  PROVE  SameOccurrences
<1>1. CASE ~ offset_variants[o].num_variants < beta_merge
  BY <1>1 DEF MergeVariants, SameOccurrences, inputVars
<1>2. CASE offset_variants[o].num_variants < beta_merge
  <2> DEFINE members == ToSet(Variants(o))
  <2>1. PICK junk \in Junk : \A t \in DOMAIN trie :
          IF t \in members THEN trie'[t] = Merged(t, MergedText(o, junk), members) ELSE trie'[t] = trie[t]
    BY <1>2, MergeVariantsEffect DEF Codes
  <2>2. DOMAIN trie' = DOMAIN trie /\ payloads' = payloads /\ tokens' = tokens
    BY <1>2, MergeVariantsEffect DEF Codes, MergeVariants, inputVars
  <2> HIDE DEF members
  <2>3. ASSUME NEW t \in DOMAIN trie PROVE trie'[t].offset_occurrence = trie[t].offset_occurrence
    <3> DEFINE m == Merged(t, MergedText(o, junk), members)
    <3>1. m.offset_occurrence = trie[t].offset_occurrence
      BY MergedToken DEF Codes
    <3> HIDE DEF m
    <3>2. trie'[t] = m \/ trie'[t] = trie[t]
      BY <2>1 DEF m
    <3> QED BY <3>1, <3>2
  <2> QED BY <2>2, <2>3 DEF SameOccurrences
<1> QED BY <1>1, <1>2

Occurring == Given /\ Codes /\ Flows /\ Traversing /\ OccurrencesRight

LEMMA PositionOccurring == ASSUME Occurring, position_constraints_main PROVE (Flows /\ Traversing /\ OccurrencesRight)'
<1>0. Given /\ Codes /\ Flows /\ Traversing /\ OccurrencesRight
  BY DEF Occurring
<1>1. CASE FlowNew
  BY <1>0, <1>1, FlowNewFlows DEF FlowNew, Traversing, OccurrencesRight, InPositions
<1>2. CASE FlowsDone
  BY <1>0, <1>2, FlowsDoneTraversing DEF FlowsDone, Flows, OccurrencesRight, InPositions
<1>3. CASE TraverseToken
  BY <1>0, <1>3, TraverseTokenTraversing DEF TraverseToken, Flows, OccurrencesRight, InPositions
<1>4. CASE TraverseDone
  BY <1>0, <1>4, TraverseDoneOccurrences DEF TraverseDone, Flows, Traversing
<1>5. CASE FixOffset
  BY <1>0, <1>5, FixOffsetSame, OccurrencesStay DEF FixOffset, Flows, Traversing, InPositions
<1>6. CASE FixDone
  <2>1. SameOccurrences /\ InPositions /\ pc' = "search"
    BY <1>6 DEF FixDone, SameOccurrences, InPositions, inputVars, trieVars
  <2> QED BY <1>0, <2>1, OccurrencesStay DEF Flows, Traversing
<1>7. CASE SearchOffsets
  <2>1. SameOccurrences /\ InPositions /\ pc' = "search"
    BY <1>7 DEF SearchOffsets, SameOccurrences, InPositions, inputVars, trieVars
  <2> QED BY <1>0, <2>1, OccurrencesStay DEF Flows, Traversing
<1>8. CASE SearchDone
  <2>1. SameOccurrences /\ InPositions /\ pc' = "merge"
    BY <1>8 DEF SearchDone, SameOccurrences, InPositions, inputVars, trieVars
  <2> QED BY <1>0, <2>1, OccurrencesStay DEF Flows, Traversing
<1>9. CASE \E o \in offsets : MergeVariants(o)
  <2>1. SameOccurrences /\ InPositions /\ pc' = "merge"
    BY <1>0, <1>9, MergeVariantsSame DEF MergeVariants, InPositions
  <2> QED BY <1>0, <2>1, OccurrencesStay DEF Flows, Traversing
<1>10. CASE MergeDone
  <2>1. SameOccurrences /\ InPositions /\ pc' = "positioned"
    BY <1>10 DEF MergeDone, SameOccurrences, InPositions, inputVars, trieVars
  <2> QED BY <1>0, <2>1, OccurrencesStay DEF Flows, Traversing
<1> QED
  BY <1>1, <1>2, <1>3, <1>4, <1>5, <1>6, <1>7, <1>8, <1>9, <1>10 DEF position_constraints_main

\* The places of the program behind position_constraints_main.
Later == pc \in { "count", "extract", "extracted", "crashed", "convert", "convert_next", "converted" }

LEMMA ProductLater == ASSUME product_distribution_main PROVE Later'
BY DEF product_distribution_main, StartCount, CountByte, CountNextPayload, CountDone,
       ExtractOffset, ExtractByte, ExtractDone, Later

LEMMA ConvertionLater == ASSUME convertion_main PROVE Later'
BY DEF convertion_main, StartFlow, ReplaceMatch, ReplaceRest, FlowDone, Later

LEMMA OccurringInvariant == Spec => []Occurring
<1>1. Init => Flows /\ Traversing /\ OccurrencesRight
  <2> SUFFICES ASSUME Init PROVE Flows /\ Traversing /\ OccurrencesRight
    OBVIOUS
  <2>1. pc = "flows" /\ DOMAIN trie = {} /\ flow_set = << >> /\ \E in \in Inputs : payloads = in.payloads
    BY DEF Init, PositionInit, Nothing
  <2>2. Len(payloads) \in Nat
    BY <2>1, InputsAssumption, LenProperties
  <2> QED BY <2>1, <2>2 DEF Flows, Traversing, OccurrencesRight, InPositions
<1>2. Occurring /\ [Next]_vars => (Flows /\ Traversing /\ OccurrencesRight)'
  <2> SUFFICES ASSUME Occurring, [Next]_vars PROVE (Flows /\ Traversing /\ OccurrencesRight)'
    OBVIOUS
  <2>1. CASE UNCHANGED vars
    <3>1. /\ payloads' = payloads /\ tokens' = tokens /\ trie' = trie /\ flow_set' = flow_set
          /\ todo' = todo /\ pc' = pc
      BY <2>1 DEF vars, positionVars, inputVars, trieVars, loopVars
    <3>2. Flows' /\ Traversing'
      <4>1. \A v : flow_new(v)' = flow_new(v)
        <5>1. \A v : flow_new(v) = Reverse(FlattenSeq([n \in DOMAIN tokens |-> ListOf(tokens[n], v)]))
          BY DEF flow_new, ListOf
        <5>2. \A v : flow_new(v)' = Reverse(FlattenSeq([n \in DOMAIN tokens' |-> ListOf(tokens'[n], v)]))
          BY DEF flow_new, ListOf, Sorted
        <5> QED BY <3>1, <5>1, <5>2
      <4>2. \A t, o : Seen(t, o)' = Seen(t, o) /\ Target(t, o)' = Target(t, o)
                      /\ Times(todo, At(t, o))' = Times(todo, At(t, o))
        BY <3>1 DEF Seen, Target, Tally, Found, Listed, Times, Places
      <4> QED BY <3>1, <4>1, <4>2 DEF Occurring, Flows, Traversing
    <3>3. OccurrencesRight'
      BY <3>1, OccurrencesStay DEF Occurring, SameOccurrences, OccurrencesRight, InPositions
    <3> QED BY <3>2, <3>3
  <2>2. CASE position_constraints_main
    BY <2>2, PositionOccurring
  <2>3. CASE product_distribution_main \/ convertion_main
    BY <2>3, ProductLater, ConvertionLater DEF Later, Flows, Traversing, OccurrencesRight, InPositions
  <2> QED BY <2>1, <2>2, <2>3 DEF Next
<1>3. Given /\ Codes /\ Flows /\ Traversing /\ OccurrencesRight <=> Occurring
  BY DEF Occurring
<1> QED BY <1>1, <1>2, <1>3, GivenInvariant, CodesInvariant, PTL DEF Spec

(* Behind flow_set_traverse the trie holds the tokens that occur, each     *)
(* with the offsets where it does and the number of payloads that have it  *)
(* there, counted once for each time the token is listed: whatever the     *)
(* payloads and the tokens are, equal ones included.                       *)
THEOREM OccurrencesCorrect == Spec => []OccurrencesRight
<1>1. Occurring => OccurrencesRight
  BY DEF Occurring
<1> QED BY <1>1, OccurringInvariant, PTL

-----------------------------------------------------------------------------
(* The lists of variants.  A token is behind one token in all the lists it *)
(* is in, where any two tokens that share an offset share all those of the *)
(* later of them.                                                          *)

Nested ==
  \A o \in Nat : \A t, u \in Sharing(o) : Before(u, t) => Shared(t) \subseteq Shared(u)

LEMMA SharingShared ==
  ASSUME Occurring, InPositions
  PROVE  /\ DOMAIN trie \in SUBSET ToSet(tokens) /\ DOMAIN trie \in SUBSET Text /\ IsFiniteSet(DOMAIN trie)
         /\ \A o : Sharing(o) \in SUBSET DOMAIN trie /\ IsFiniteSet(Sharing(o))
         /\ \A t \in DOMAIN trie : Frequent(t) = Shared(t) /\ Shared(t) \in SUBSET Nat /\ IsFiniteSet(Shared(t))
         /\ \A t \in DOMAIN trie : \A o : o \in Shared(t) <=> t \in Sharing(o)
<1>1. /\ DOMAIN trie = { t \in ToSet(tokens) : FoundAt(t) # {} }
      /\ \A t \in DOMAIN trie : trie[t].offset_occurrence = [o \in FoundAt(t) |-> Tally(t, o)]
  BY DEF Occurring, OccurrencesRight
<1>2. ToSet(tokens) \in SUBSET Text /\ IsFiniteSet(ToSet(tokens))
  BY GivenTexts DEF Occurring
<1>3. DOMAIN trie \in SUBSET ToSet(tokens) /\ DOMAIN trie \in SUBSET Text /\ IsFiniteSet(DOMAIN trie)
  BY <1>1, <1>2, FS_Subset
<1>4. \A o : Sharing(o) \in SUBSET DOMAIN trie /\ IsFiniteSet(Sharing(o))
  BY <1>3, FS_Subset DEF Sharing
<1>5. \A t \in DOMAIN trie : \A o : o \in Shared(t) <=> t \in Sharing(o)
  BY DEF Shared, Sharing
<1>6. ASSUME NEW t \in DOMAIN trie PROVE Frequent(t) = Shared(t)
  <2> DEFINE c == trie[t].offset_occurrence
  <2>1. DOMAIN c = FoundAt(t) /\ \A o \in FoundAt(t) : c[o] = Tally(t, o)
    BY <1>1
  <2>2. Frequent(t) = { o \in DOMAIN c : c[o] >= k_offset }
    BY DEF Frequent
  <2> HIDE DEF c
  <2> QED BY <2>1, <2>2 DEF Shared, Sharing
<1>7. \A t \in DOMAIN trie : Shared(t) \in SUBSET Nat /\ IsFiniteSet(Shared(t))
  <2>1. ASSUME NEW t \in DOMAIN trie PROVE Shared(t) \in SUBSET Nat /\ IsFiniteSet(Shared(t))
    <3>1. FoundAt(t) \in SUBSET Nat /\ IsFiniteSet(FoundAt(t))
      BY <1>3, FoundSize DEF Occurring
    <3>2. Shared(t) \in SUBSET FoundAt(t)
      BY DEF Shared
    <3> QED BY <3>1, <3>2, FS_Subset
  <2> QED BY <2>1
<1> QED BY <1>3, <1>4, <1>5, <1>6, <1>7

\* The last of a set in the order of strcmp.
IsLast(S, x) ==
  IF S = {} THEN x = NULL ELSE x \in S /\ \A u \in S : u = x \/ Before(u, x)

Preceding(o, t) == { u \in Sharing(o) : Before(u, t) }

\* What the search comes to for some of the tokens.
Listing(done) ==
  /\ DOMAIN offset_variants = UNION { Shared(t) : t \in done }
  /\ \A o \in DOMAIN offset_variants :
       /\ offset_variants[o].num_variants = Cardinality(Sharing(o) \cap done)
       /\ IsLast(Sharing(o) \cap done, offset_variants[o].variants)
  /\ Nested => \A t \in done : \A o \in Shared(t) : IsLast(Preceding(o, t), set_next[t])

\* A list of tokens that has all those behind the others.
Upwards(list) ==
  /\ list \in Seq(Text)
  /\ \A m, n \in 1..Len(list) : m < n => Before(list[m], list[n])

Done(list) == DOMAIN trie \ ToSet(list)

Rest(list) ==
  /\ Upwards(list) /\ ToSet(list) \subseteq DOMAIN trie
  /\ \A t \in Done(list), u \in ToSet(list) : Before(t, u)

Searched ==
  /\ pc \in { "flows", "traverse", "fix" } => DOMAIN offset_variants = {}
  /\ pc \in { "flows", "traverse", "fix", "search" } => DOMAIN set_next = ToSet(tokens)
  /\ pc = "search" => Rest(todo) /\ Listing(Done(todo))
  /\ pc \in { "merge", "positioned" } => Listing(DOMAIN trie)

LEMMA RestTail ==
  ASSUME DOMAIN trie \in SUBSET Text, NEW list, Rest(list), list # << >>
  PROVE  /\ Rest(Tail(list)) /\ Head(list) \in DOMAIN trie
         /\ Head(list) \notin Done(list)
         /\ Done(Tail(list)) = Done(list) \cup { Head(list) }
         /\ \A t \in Done(list) : Before(t, Head(list))
<1> DEFINE L == Len(list)
           r == Tail(list)
           h == Head(list)
<1>1. /\ list \in Seq(Text) /\ ToSet(list) \subseteq DOMAIN trie
      /\ \A m, n \in 1..L : m < n => Before(list[m], list[n])
      /\ \A t \in Done(list), u \in ToSet(list) : Before(t, u)
  BY DEF Rest, Upwards
<1>2. L \in Nat /\ L # 0 /\ DOMAIN list = 1..L
  BY <1>1, LenProperties, EmptySeq
<1>3. /\ h = list[1] /\ r \in Seq(Text) /\ Len(r) = L - 1 /\ DOMAIN r = 1..(L - 1)
      /\ \A n \in 1..(L - 1) : r[n] = list[n + 1]
  <2>1. r \in Seq(Text) /\ Len(r) = L - 1 /\ h = list[1] /\ \A n \in 1..Len(r) : r[n] = list[n + 1]
    BY <1>1, HeadTailProperties
  <2> QED BY <2>1, LenProperties
<1> HIDE DEF L, r, h
<1>4. ToSet(list) = { h } \cup ToSet(r)
  <2>1. ASSUME NEW n \in 1..(L - 1) PROVE r[n] \in ToSet(list)
    <3>1. n + 1 \in 1..L /\ r[n] = list[n + 1]
      BY <1>2, <1>3
    <3> QED BY <1>2, <3>1 DEF ToSet
  <2>2. ASSUME NEW n \in 1..L PROVE list[n] = h \/ list[n] \in ToSet(r)
    <3>1. n = 1 \/ (n - 1 \in 1..(L - 1) /\ (n - 1) + 1 = n)
      BY <1>2
    <3>2. ASSUME n - 1 \in 1..(L - 1), (n - 1) + 1 = n PROVE list[n] \in ToSet(r)
      <4>1. r[n - 1] = list[n]
        BY <1>3, <3>2
      <4> QED BY <1>3, <3>2, <4>1 DEF ToSet
    <3> QED BY <1>3, <3>1, <3>2
  <2>3. h \in ToSet(list)
    <3>1. 1 \in 1..L
      BY <1>2
    <3> QED BY <1>2, <1>3, <3>1 DEF ToSet
  <2>4. ToSet(r) \subseteq ToSet(list)
    BY <1>3, <2>1 DEF ToSet
  <2>5. ToSet(list) \subseteq { h } \cup ToSet(r)
    <3>1. \A x \in ToSet(list) : \E n \in 1..L : x = list[n]
      BY <1>2 DEF ToSet
    <3> QED BY <2>2, <3>1
  <2> QED BY <2>3, <2>4, <2>5
<1>5. \A u \in ToSet(r) : Before(h, u)
  <2>1. ASSUME NEW n \in 1..(L - 1) PROVE Before(h, r[n])
    <3>1. n + 1 \in 1..L /\ 1 \in 1..L /\ 1 < n + 1
      BY <1>2
    <3> QED BY <1>1, <1>3, <3>1
  <2> QED BY <1>3, <2>1 DEF ToSet
<1>6. h \in Text /\ h \notin ToSet(r)
  <2>1. h \in Text
    BY <1>1, <1>4
  <2> QED BY <1>5, <2>1, BeforeNotItself
<1>7. \A m, n \in 1..(L - 1) : m < n => Before(r[m], r[n])
  <2>1. ASSUME NEW m \in 1..(L - 1), NEW n \in 1..(L - 1), m < n PROVE Before(r[m], r[n])
    <3>1. m + 1 \in 1..L /\ n + 1 \in 1..L /\ m + 1 < n + 1
      BY <1>2, <2>1
    <3> QED BY <1>1, <1>3, <3>1
  <2> QED BY <2>1
<1>8. Done(r) = Done(list) \cup { h }
  BY <1>1, <1>4, <1>6 DEF Done
<1>9. \A t \in Done(r), u \in ToSet(r) : Before(t, u)
  BY <1>1, <1>4, <1>5, <1>8
<1>10. Rest(r)
  BY <1>1, <1>3, <1>4, <1>7, <1>9 DEF Rest, Upwards
<1> QED BY <1>1, <1>4, <1>8, <1>10 DEF Done, h, r

LEMMA ListingHeads ==
  ASSUME Occurring, InPositions, NEW done \in SUBSET DOMAIN trie, Listing(done), NEW o
  PROVE  /\ o \in DOMAIN offset_variants <=> Sharing(o) \cap done # {}
         /\ NumVariants(o) = Cardinality(Sharing(o) \cap done)
         /\ IsLast(Sharing(o) \cap done, HeadOf(o))
<1>1. \A t \in DOMAIN trie : o \in Shared(t) <=> t \in Sharing(o)
  BY SharingShared
<1>2. o \in DOMAIN offset_variants <=> Sharing(o) \cap done # {}
  BY <1>1 DEF Listing
<1>3. CASE o \in DOMAIN offset_variants
  BY <1>2, <1>3 DEF Listing, NumVariants, HeadOf
<1>4. CASE o \notin DOMAIN offset_variants
  BY <1>2, <1>4, FS_EmptySet DEF IsLast, NumVariants, HeadOf
<1> QED BY <1>2, <1>3, <1>4

\* What Counting comes to.
LEMMA CountingEffect ==
  ASSUME NEW t, NEW o
  PROVE  /\ DOMAIN Counting(t) = DOMAIN offset_variants \cup Frequent(t)
         /\ o \in Frequent(t) =>
              Counting(t)[o].num_variants = NumVariants(o) + 1 /\ Counting(t)[o].variants = t
         /\ o \in DOMAIN offset_variants \ Frequent(t) => Counting(t)[o] = offset_variants[o]
<1>1. DOMAIN Counting(t) = DOMAIN offset_variants \cup Frequent(t)
  BY DEF Counting
<1>2. ASSUME o \in Frequent(t)
      PROVE  Counting(t)[o] = [num_variants |-> NumVariants(o) + 1, variants |-> t]
  BY <1>2 DEF Counting
<1>3. ASSUME o \in DOMAIN offset_variants \ Frequent(t)
      PROVE  Counting(t)[o] = offset_variants[o]
  BY <1>3 DEF Counting
<1> QED BY <1>1, <1>2, <1>3

LEMMA SearchOffsetsListing ==
  ASSUME Occurring, Searched, SearchOffsets
  PROVE  Rest(todo)' /\ Listing(Done(todo))' /\ DOMAIN set_next' = DOMAIN set_next
<1> DEFINE t == Head(todo)
           done == Done(todo)
<1>1. /\ pc = "search" /\ todo # << >> /\ offset_variants' = Counting(t) /\ todo' = Tail(todo)
      /\ IF Frequent(t) = {} THEN set_next' = set_next
         ELSE \E last \in Frequent(t) : set_next' = [set_next EXCEPT ![t] = HeadOf(last)]
      /\ payloads' = payloads /\ tokens' = tokens /\ k_offset' = k_offset /\ trie' = trie
  BY DEF SearchOffsets, inputVars, trieVars
<1>2. InPositions /\ Rest(todo) /\ Listing(done) /\ DOMAIN set_next = ToSet(tokens)
  BY <1>1 DEF Searched, InPositions
<1>3. /\ DOMAIN trie \in SUBSET ToSet(tokens) /\ DOMAIN trie \in SUBSET Text
      /\ \A o : Sharing(o) \in SUBSET DOMAIN trie /\ IsFiniteSet(Sharing(o))
      /\ \A u \in DOMAIN trie : Frequent(u) = Shared(u) /\ Shared(u) \in SUBSET Nat
      /\ \A u \in DOMAIN trie : \A o : o \in Shared(u) <=> u \in Sharing(o)
  BY <1>2, SharingShared
<1>4. /\ Rest(Tail(todo)) /\ t \in DOMAIN trie /\ t \notin done
      /\ Done(Tail(todo)) = done \cup { t }
      /\ \A u \in done : Before(u, t)
  BY <1>1, <1>2, <1>3, RestTail
<1>5. done \in SUBSET DOMAIN trie
  BY DEF Done
<1> HIDE DEF t, done
<1>6. \A o : /\ o \in DOMAIN offset_variants <=> Sharing(o) \cap done # {}
             /\ NumVariants(o) = Cardinality(Sharing(o) \cap done)
             /\ IsLast(Sharing(o) \cap done, HeadOf(o))
  BY <1>2, <1>5, ListingHeads
<1>7. Frequent(t) = Shared(t)
  BY <1>3, <1>4
<1> DEFINE now == done \cup { t }
<1>8. DOMAIN offset_variants' = UNION { Shared(u) : u \in now }
  <2>1. DOMAIN offset_variants' = DOMAIN offset_variants \cup Shared(t)
    BY <1>1, <1>7, CountingEffect
  <2> QED BY <1>2, <2>1 DEF Listing
<1>9. ASSUME NEW o \in DOMAIN offset_variants'
      PROVE  /\ offset_variants'[o].num_variants = Cardinality(Sharing(o) \cap now)
             /\ IsLast(Sharing(o) \cap now, offset_variants'[o].variants)
  <2> DEFINE S == Sharing(o) \cap done
  <2>1. IsFiniteSet(S) /\ t \notin S
    <3>1. IsFiniteSet(Sharing(o)) /\ S \in SUBSET Sharing(o)
      BY <1>3
    <3> QED BY <1>4, <3>1, FS_Subset
  <2>2. CASE o \in Shared(t)
    <3>1. Sharing(o) \cap now = S \cup { t }
      BY <1>3, <1>4, <2>2
    <3>2. offset_variants'[o].num_variants = NumVariants(o) + 1 /\ offset_variants'[o].variants = t
      BY <1>1, <1>7, <2>2, CountingEffect
    <3>3. NumVariants(o) = Cardinality(S)
      BY <1>6
    <3>4. \A u \in S : Before(u, t)
      BY <1>4
    <3> HIDE DEF S
    <3>5. Cardinality(S \cup { t }) = Cardinality(S) + 1
      BY <2>1, FS_AddElement
    <3>6. IsLast(S \cup { t }, t)
      BY <3>4 DEF IsLast
    <3> QED BY <3>1, <3>2, <3>3, <3>5, <3>6
  <2>3. CASE o \notin Shared(t)
    <3>1. Sharing(o) \cap now = S
      BY <1>3, <1>4, <2>3
    <3>2. DOMAIN offset_variants' = DOMAIN offset_variants \cup Shared(t)
      BY <1>1, <1>7, CountingEffect
    <3>3. o \in DOMAIN offset_variants
      BY <2>3, <3>2
    <3>4. offset_variants'[o] = offset_variants[o]
      <4>1. o \in DOMAIN offset_variants \ Frequent(t)
        BY <1>7, <2>3, <3>3
      <4>2. Counting(t)[o] = offset_variants[o]
        BY <4>1, CountingEffect
      <4> QED BY <1>1, <4>2
    <3> QED BY <1>2, <3>1, <3>3, <3>4 DEF Listing
  <2> QED BY <2>2, <2>3
<1>10. DOMAIN set_next' = DOMAIN set_next /\ \A u \in done : set_next'[u] = set_next[u]
  <2>1. CASE Frequent(t) = {}
    BY <1>1, <2>1
  <2>2. CASE Frequent(t) # {}
    <3>1. PICK last \in Frequent(t) : set_next' = [set_next EXCEPT ![t] = HeadOf(last)]
      BY <1>1, <2>2
    <3>2. \A u \in done : u # t /\ u \in DOMAIN set_next
      BY <1>2, <1>3, <1>4, <1>5
    <3> QED BY <3>1, <3>2
  <2> QED BY <2>1, <2>2
<1>11. ASSUME Nested, NEW u \in now, NEW o \in Shared(u)
       PROVE  IsLast(Preceding(o, u), set_next'[u])
  <2>1. CASE u \in done
    BY <1>2, <1>10, <1>11, <2>1 DEF Listing
  <2>2. CASE u \notin done
    <3>1. u = t /\ o \in Shared(t) /\ Frequent(t) # {}
      BY <1>7, <2>2
    <3>2. PICK last \in Shared(t) : set_next' = [set_next EXCEPT ![t] = HeadOf(last)]
      BY <1>1, <1>7, <3>1
    <3>3. set_next'[t] = HeadOf(last)
      BY <1>2, <1>3, <1>4, <3>2
    <3>4. t \in Sharing(o) /\ t \in Sharing(last) /\ o \in Nat /\ last \in Nat
      BY <1>3, <1>4, <3>1, <3>2
    <3>5. \A v \in Sharing(o) : Before(v, t) => Shared(t) \subseteq Shared(v)
      BY <1>11, <3>4 DEF Nested
    <3>6. \A v \in Sharing(last) : Before(v, t) => Shared(t) \subseteq Shared(v)
      BY <1>11, <3>4 DEF Nested
    <3>7. Preceding(o, t) = Preceding(last, t)
      <4>1. ASSUME NEW v \in Preceding(o, t) PROVE v \in Preceding(last, t)
        <5>1. v \in DOMAIN trie /\ v \in Sharing(o) /\ Before(v, t)
          BY <1>3 DEF Preceding
        <5>2. last \in Shared(v)
          BY <3>2, <3>5, <5>1
        <5> QED BY <1>3, <5>1, <5>2 DEF Preceding
      <4>2. ASSUME NEW v \in Preceding(last, t) PROVE v \in Preceding(o, t)
        <5>1. v \in DOMAIN trie /\ v \in Sharing(last) /\ Before(v, t)
          BY <1>3 DEF Preceding
        <5>2. o \in Shared(v)
          BY <3>1, <3>6, <5>1
        <5> QED BY <1>3, <5>1, <5>2 DEF Preceding
      <4> QED BY <4>1, <4>2
    <3>8. Preceding(last, t) = Sharing(last) \cap done
      <4>1. ASSUME NEW v \in Preceding(last, t) PROVE v \in done
        <5>1. v \in DOMAIN trie /\ Before(v, t) /\ v \in Text /\ t \in Text
          BY <1>3, <1>4 DEF Preceding
        <5>2. v \in done \/ v \in ToSet(todo)
          BY <5>1 DEF done, Done
        <5>3. ASSUME v \in ToSet(todo), v \notin done PROVE FALSE
          <6>1. v # t
            BY <5>1, BeforeNotItself
          <6>2. v \notin Done(Tail(todo))
            BY <1>4, <5>3, <6>1
          <6>3. v \in ToSet(Tail(todo)) /\ t \in Done(Tail(todo))
            BY <1>4, <5>1, <6>2 DEF Done
          <6>4. Before(t, v)
            BY <1>4, <6>3 DEF Rest
          <6>5. Before(t, t)
            BY <5>1, <6>4, BeforeTransitive
          <6> QED BY <5>1, <6>5, BeforeNotItself
        <5> QED BY <5>2, <5>3
      <4>2. \A v \in Sharing(last) \cap done : v \in Preceding(last, t)
        BY <1>4 DEF Preceding
      <4>3. Preceding(last, t) \subseteq Sharing(last)
        BY DEF Preceding
      <4> QED BY <4>1, <4>2, <4>3
    <3> QED BY <1>6, <3>1, <3>3, <3>7, <3>8
  <2> QED BY <2>1, <2>2
<1> HIDE DEF now
<1>12. /\ \A o : Sharing(o)' = Sharing(o) /\ \A u : Preceding(o, u)' = Preceding(o, u)
       /\ \A u : Shared(u)' = Shared(u)
       /\ Nested' <=> Nested
  <2>1. \A o : Sharing(o)' = Sharing(o)
    BY <1>1 DEF Sharing, FoundAt, Tally, Found, Listed
  <2>2. \A u : Shared(u)' = Shared(u)
    BY <1>1 DEF Shared, Sharing, FoundAt, Tally, Found, Listed
  <2> QED BY <2>1, <2>2 DEF Nested, Preceding
<1>13. Done(todo)' = now
  BY <1>1, <1>4 DEF Done, now
<1>14. /\ DOMAIN offset_variants' = UNION { Shared(u)' : u \in now }
       /\ \A o \in DOMAIN offset_variants' :
            /\ offset_variants'[o].num_variants = Cardinality(Sharing(o)' \cap now)
            /\ IsLast(Sharing(o)' \cap now, offset_variants'[o].variants)
       /\ Nested' => \A u \in now : \A o \in Shared(u)' : IsLast(Preceding(o, u)', set_next'[u])
  BY <1>8, <1>9, <1>11, <1>12
<1>15. Rest(todo)'
  BY <1>1, <1>4 DEF Rest, Upwards, Done
<1>16. Listing(Done(todo))'
  <2> DEFINE later == Done(todo)'
  <2>1. later = now
    BY <1>13
  <2>2. Listing(Done(todo))' <=>
          /\ DOMAIN offset_variants' = UNION { Shared(u)' : u \in later }
          /\ \A o \in DOMAIN offset_variants' :
               /\ offset_variants'[o].num_variants = Cardinality(Sharing(o)' \cap later)
               /\ IsLast(Sharing(o)' \cap later, offset_variants'[o].variants)
          /\ Nested' => \A u \in later : \A o \in Shared(u)' : IsLast(Preceding(o, u)', set_next'[u])
    BY DEF Listing, IsLast
  <2> HIDE DEF later
  <2> QED BY <1>14, <2>1, <2>2
<1> QED BY <1>10, <1>15, <1>16

\* Nothing in the lists depends on more of the trie than the offsets.
LEMMA ListingStays ==
  ASSUME SameOccurrences, k_offset' = k_offset, UNCHANGED variantVars, Listing(DOMAIN trie)
  PROVE  Listing(DOMAIN trie)'
<1>1. /\ payloads' = payloads /\ tokens' = tokens /\ DOMAIN trie' = DOMAIN trie
      /\ k_offset' = k_offset /\ offset_variants' = offset_variants /\ set_next' = set_next
  BY DEF SameOccurrences, variantVars
<1>2. \A o : Sharing(o)' = Sharing(o)
  BY <1>1 DEF Sharing, FoundAt, Tally, Found, Listed
<1>3. \A u : Shared(u)' = Shared(u)
  BY <1>1, <1>2 DEF Shared, FoundAt
<1>4. /\ \A o, u : Preceding(o, u)' = Preceding(o, u)
      /\ Nested' <=> Nested
  BY <1>2, <1>3 DEF Nested, Preceding
<1> DEFINE all == (DOMAIN trie)'
<1>5. Listing(DOMAIN trie)' <=>
        /\ DOMAIN offset_variants' = UNION { Shared(u)' : u \in all }
        /\ \A o \in DOMAIN offset_variants' :
             /\ offset_variants'[o].num_variants = Cardinality(Sharing(o)' \cap all)
             /\ IsLast(Sharing(o)' \cap all, offset_variants'[o].variants)
        /\ Nested' => \A u \in all : \A o \in Shared(u)' : IsLast(Preceding(o, u)', set_next'[u])
  BY DEF Listing, IsLast
<1>6. all = DOMAIN trie
  BY <1>1
<1> HIDE DEF all
<1> QED BY <1>1, <1>2, <1>3, <1>4, <1>5, <1>6 DEF Listing

\* What trie_dfs comes to.
LEMMA DfsRest ==
  ASSUME DOMAIN trie \in SUBSET Text, IsFiniteSet(DOMAIN trie)
  PROVE  Rest(trie_dfs) /\ Done(trie_dfs) = {}
<1> DEFINE S == DOMAIN trie
           s == Sorted(S, Before)
           N == Cardinality(S)
<1>1. trie_dfs = s
  BY DEF trie_dfs
<1> HIDE DEF S, s
<1>2. /\ N \in Nat /\ s \in [1..N -> S]
      /\ \A m, n \in 1..N : m < n => Before(s[m], s[n])
      /\ \A x \in S : \E n \in 1..N : s[n] = x
  BY SortedTexts DEF s, S
<1> HIDE DEF N
<1>3. s \in Seq(S) /\ Len(s) = N
  BY <1>2, IsASeq, LenProperties
<1>4. s \in Seq(Text)
  <2>1. s \in [1..N -> Text]
    BY <1>2 DEF S
  <2> QED BY <1>2, <2>1, IsASeq
<1>5. ToSet(s) = S
  BY <1>2 DEF ToSet
<1>6. Upwards(s)
  BY <1>2, <1>3, <1>4 DEF Upwards
<1> QED BY <1>1, <1>5, <1>6 DEF Rest, Done, S

LEMMA FixDoneRest ==
  ASSUME Occurring, Searched, FixDone
  PROVE  Rest(todo)' /\ Listing(Done(todo))'
<1>1. /\ pc = "fix" /\ todo' = trie_dfs /\ trie' = trie /\ offset_variants' = offset_variants
      /\ DOMAIN offset_variants = {} /\ InPositions
  BY DEF FixDone, trieVars, variantVars, Searched, InPositions
<1>2. Rest(trie_dfs) /\ Done(trie_dfs) = {}
  BY <1>1, SharingShared, DfsRest
<1>3. Rest(todo)'
  BY <1>1, <1>2 DEF Rest, Upwards, Done
<1>4. Done(todo)' = {}
  BY <1>1, <1>2 DEF Done
<1>5. Listing(Done(todo))'
  BY <1>1, <1>4 DEF Listing
<1> QED BY <1>3, <1>5

LEMMA PositionSearched ==
  ASSUME Occurring, Searched, position_constraints_main
  PROVE  Searched'
<1>1. CASE FlowNew \/ FlowsDone \/ TraverseToken \/ TraverseDone \/ FixOffset
  <2>1. /\ pc \in { "flows", "traverse", "fix" } /\ pc' \in { "flows", "traverse", "fix" }
        /\ offset_variants' = offset_variants /\ set_next' = set_next /\ tokens' = tokens
    BY <1>1 DEF FlowNew, FlowsDone, TraverseToken, TraverseDone, FixOffset, variantVars, inputVars
  <2> QED BY <2>1 DEF Searched
<1>2. CASE FixDone
  <2>1. /\ pc = "fix" /\ pc' = "search" /\ set_next' = set_next /\ tokens' = tokens
    BY <1>2 DEF FixDone, variantVars, inputVars
  <2> QED BY <1>2, <2>1, FixDoneRest DEF Searched
<1>3. CASE SearchOffsets
  <2>1. pc = "search" /\ pc' = "search" /\ tokens' = tokens
    BY <1>3 DEF SearchOffsets, inputVars
  <2> QED BY <1>3, <2>1, SearchOffsetsListing DEF Searched
<1>4. CASE SearchDone
  <2>1. /\ pc = "search" /\ pc' = "merge" /\ todo = << >> /\ SameOccurrences /\ k_offset' = k_offset
        /\ UNCHANGED variantVars
    BY <1>4 DEF SearchDone, SameOccurrences, inputVars, trieVars
  <2>2. Done(todo) = DOMAIN trie
    BY <2>1 DEF Done, ToSet
  <2>3. Listing(DOMAIN trie)
    BY <2>1, <2>2 DEF Searched
  <2> QED BY <2>1, <2>3, ListingStays DEF Searched
<1>5. CASE \E o \in offsets : MergeVariants(o)
  <2>1. pc = "merge" /\ pc' = "merge" /\ SameOccurrences /\ k_offset' = k_offset /\ UNCHANGED variantVars
    BY <1>5, MergeVariantsSame DEF MergeVariants, inputVars, Occurring
  <2> QED BY <2>1, ListingStays DEF Searched
<1>6. CASE MergeDone
  <2>1. /\ pc = "merge" /\ pc' = "positioned" /\ SameOccurrences /\ k_offset' = k_offset
        /\ UNCHANGED variantVars
    BY <1>6 DEF MergeDone, SameOccurrences, inputVars, trieVars
  <2> QED BY <2>1, ListingStays DEF Searched
<1> QED
  BY <1>1, <1>2, <1>3, <1>4, <1>5, <1>6 DEF position_constraints_main

LEMMA SearchedInvariant == Spec => []Searched
<1>1. Init => Searched
  <2> SUFFICES ASSUME Init PROVE Searched
    OBVIOUS
  <2>1. pc = "flows" /\ DOMAIN offset_variants = {} /\ DOMAIN set_next = ToSet(tokens)
    BY DEF Init, PositionInit, Nothing
  <2> QED BY <2>1 DEF Searched
<1>2. Occurring /\ Searched /\ [Next]_vars => Searched'
  <2> SUFFICES ASSUME Occurring, Searched, [Next]_vars PROVE Searched'
    OBVIOUS
  <2>1. CASE UNCHANGED vars
    <3>1. /\ payloads' = payloads /\ tokens' = tokens /\ k_offset' = k_offset /\ trie' = trie
          /\ offset_variants' = offset_variants /\ set_next' = set_next /\ todo' = todo /\ pc' = pc
      BY <2>1 DEF vars, positionVars, inputVars, trieVars, variantVars, loopVars
    <3>2. CASE pc \in { "merge", "positioned" }
      <4>1. SameOccurrences /\ UNCHANGED variantVars /\ Listing(DOMAIN trie)
        BY <3>1, <3>2 DEF SameOccurrences, variantVars, Searched
      <4> QED BY <3>1, <3>2, <4>1, ListingStays DEF Searched
    <3>3. CASE pc = "search"
      <4>1. Rest(todo)'
        BY <3>1, <3>3 DEF Searched, Rest, Upwards, Done
      <4>2. Listing(Done(todo))'
        <5>1. \A o : Sharing(o)' = Sharing(o)
          BY <3>1 DEF Sharing, FoundAt, Tally, Found, Listed
        <5>2. \A u : Shared(u)' = Shared(u)
          BY <3>1, <5>1 DEF Shared, FoundAt
        <5>3. /\ \A o, u : Preceding(o, u)' = Preceding(o, u)
              /\ Nested' <=> Nested
          BY <5>1, <5>2 DEF Nested, Preceding
        <5> DEFINE all == Done(todo)'
        <5>4. Listing(Done(todo))' <=>
                /\ DOMAIN offset_variants' = UNION { Shared(u)' : u \in all }
                /\ \A o \in DOMAIN offset_variants' :
                     /\ offset_variants'[o].num_variants = Cardinality(Sharing(o)' \cap all)
                     /\ IsLast(Sharing(o)' \cap all, offset_variants'[o].variants)
                /\ Nested' => \A u \in all : \A o \in Shared(u)' : IsLast(Preceding(o, u)', set_next'[u])
          BY DEF Listing, IsLast
        <5>5. all = Done(todo)
          BY <3>1 DEF Done
        <5>6. Listing(Done(todo))
          BY <3>3 DEF Searched
        <5> HIDE DEF all
        <5> QED BY <3>1, <5>1, <5>2, <5>3, <5>4, <5>5, <5>6 DEF Listing
      <4> QED BY <3>1, <3>3, <4>1, <4>2 DEF Searched
    <3>4. CASE pc \notin { "merge", "positioned", "search" }
      BY <3>1, <3>4 DEF Searched
    <3> QED BY <3>2, <3>3, <3>4
  <2>2. CASE position_constraints_main
    BY <2>2, PositionSearched
  <2>3. CASE product_distribution_main \/ convertion_main
    BY <2>3, ProductLater, ConvertionLater DEF Later, Searched
  <2> QED BY <2>1, <2>2, <2>3 DEF Next
<1> QED BY <1>1, <1>2, OccurringInvariant, PTL DEF Spec

-----------------------------------------------------------------------------
(* The walk along the links from the head of a list.                       *)

\* The function that Variants is defined with, for the first n links.
IsWalk(f, o, n) ==
  f = [m \in 0..n |-> IF m = 0 THEN HeadOf(o)
                      ELSE IF f[m - 1] = NULL THEN NULL ELSE set_next[f[m - 1]]]

LEMMA WalkExists ==
  ASSUME NEW o, NEW n \in Nat
  PROVE  \E f : IsWalk(f, o, n)
<1> DEFINE Bad == { m \in Nat : ~ \E f : IsWalk(f, o, m) }
<1>1. SUFFICES ASSUME Bad # {} PROVE FALSE
  OBVIOUS
<1>2. PICK m \in Bad : \A k \in Bad : m <= k
  <2>1. Bad \in SUBSET Nat
    OBVIOUS
  <2> HIDE DEF Bad
  <2> QED BY <1>1, <2>1, LeastNatural
<1>3. m \in Nat /\ ~ \E f : IsWalk(f, o, m)
  OBVIOUS
<1> DEFINE h == HeadOf(o)
<1> HIDE DEF h
<1>4. \A f, k : IsWalk(f, o, k) <=>
        f = [i \in 0..k |-> IF i = 0 THEN h ELSE IF f[i - 1] = NULL THEN NULL ELSE set_next[f[i - 1]]]
  BY DEF IsWalk, h
<1>5. m # 0
  <2> DEFINE g == [i \in 0..0 |-> h]
  <2>1. \A i \in 0..0 : i = 0
    OBVIOUS
  <2>2. g = [i \in 0..0 |-> IF i = 0 THEN h ELSE IF g[i - 1] = NULL THEN NULL ELSE set_next[g[i - 1]]]
    BY <2>1
  <2> HIDE DEF g
  <2>3. IsWalk(g, o, 0)
    BY <1>4, <2>2
  <2> QED BY <1>3, <2>3
<1>6. PICK f : IsWalk(f, o, m - 1)
  <2>1. m - 1 \in Nat /\ m - 1 \notin Bad
    <3>1. m - 1 \in Nat /\ ~ m <= m - 1
      BY <1>3, <1>5
    <3> QED BY <1>2, <3>1
  <2> QED BY <2>1
<1> DEFINE Next1(g, i) == IF i = 0 THEN h ELSE IF g[i - 1] = NULL THEN NULL ELSE set_next[g[i - 1]]
           g == [i \in 0..m |-> IF i < m THEN f[i] ELSE Next1(f, i)]
<1>7. ASSUME NEW i \in 0..m PROVE g[i] = Next1(g, i)
  <2>1. i # 0 => i - 1 \in 0..m /\ i - 1 < m
    BY <1>3
  <2>2. i # 0 => g[i - 1] = f[i - 1]
    BY <2>1
  <2>3. Next1(g, i) = Next1(f, i)
    BY <2>2
  <2>4. CASE i < m
    <3>1. i \in 0..(m - 1)
      BY <1>3, <2>4
    <3>2. f[i] = Next1(f, i)
      BY <1>4, <1>6, <3>1
    <3>3. g[i] = f[i]
      BY <2>4
    <3> QED BY <2>3, <3>2, <3>3
  <2>5. CASE ~ i < m
    <3>1. g[i] = Next1(f, i)
      BY <2>5
    <3> QED BY <2>3, <3>1
  <2> QED BY <2>4, <2>5
<1>8. g = [i \in 0..m |-> g[i]]
  OBVIOUS
<1> HIDE DEF g
<1>9. g = [i \in 0..m |-> Next1(g, i)]
  BY <1>7, <1>8
<1>10. IsWalk(g, o, m)
  BY <1>4, <1>9
<1> QED BY <1>3, <1>10

\* The last of the first k in their order is the k-th.
LEMMA LastSorted ==
  ASSUME NEW S \in SUBSET Text, IsFiniteSet(S), NEW k \in 0..Cardinality(S), NEW T, NEW x,
         \A u : u \in T <=> \E j \in 1..k : u = Sorted(S, Before)[j], IsLast(T, x)
  PROVE  x = IF k = 0 THEN NULL ELSE Sorted(S, Before)[k]
<1> DEFINE s == Sorted(S, Before)
           N == Cardinality(S)
<1>1. /\ N \in Nat /\ s \in [1..N -> S]
      /\ \A m, n \in 1..N : m < n => Before(s[m], s[n])
  BY SortedTexts
<1>2. \A u : u \in T <=> \E j \in 1..k : u = s[j]
  OBVIOUS
<1> HIDE DEF s, N
<1>3. k \in Nat /\ k <= N
  BY <1>1 DEF N
<1>4. CASE k = 0
  <2>1. T = {}
    <3>1. \A j : j \notin 1..k
      BY <1>4
    <3> QED BY <1>2, <3>1
  <2> QED BY <1>4, <2>1 DEF IsLast
<1>5. CASE k # 0
  <2>1. k \in 1..k /\ \A j \in 1..k : j \in 1..N
    BY <1>1, <1>3, <1>5
  <2>2. s[k] \in T
    BY <1>2, <2>1
  <2>3. x \in T /\ (s[k] = x \/ Before(s[k], x))
    BY <2>2 DEF IsLast
  <2>4. PICK j \in 1..k : x = s[j]
    BY <1>2, <2>3
  <2>5. s[j] \in Text /\ s[k] \in Text
    BY <1>1, <2>1
  <2>6. ASSUME j # k PROVE FALSE
    <3>1. j < k
      BY <1>3, <2>6
    <3>2. Before(s[j], s[k])
      BY <1>1, <2>1, <3>1
    <3>3. Before(s[k], s[k])
      BY <2>3, <2>4, <2>5, <3>2, BeforeTransitive
    <3> QED BY <2>5, <3>3, BeforeNotItself
  <2> QED BY <1>5, <2>4, <2>6 DEF s
<1> QED BY <1>4, <1>5

\* A list holds all that share the offset, the last first.
LEMMA VariantsListed ==
  ASSUME Occurring, InPositions, Listing(DOMAIN trie), Nested, NEW o \in DOMAIN offset_variants
  PROVE  ListedFor(o) /\ \A t : Sharing(o) = { t } => Variants(o) = << t >>
<1> DEFINE S == Sharing(o)
           s == Sorted(S, Before)
           N == Cardinality(S)
           L == Len(tokens)
           w == CHOOSE f : IsWalk(f, o, L)
<1>1. /\ S \in SUBSET DOMAIN trie /\ IsFiniteSet(S) /\ DOMAIN trie \in SUBSET Text
      /\ DOMAIN trie \in SUBSET ToSet(tokens)
      /\ \A t \in DOMAIN trie : t \in S => o \in Shared(t)
  BY SharingShared
<1>2. S # {} /\ IsLast(S, HeadOf(o))
  <2>1. S \cap DOMAIN trie # {} /\ IsLast(S \cap DOMAIN trie, HeadOf(o))
    BY ListingHeads
  <2>2. S \cap DOMAIN trie = S
    BY <1>1
  <2> QED BY <2>1, <2>2
<1>3. L \in Nat /\ N <= L /\ N \in Nat
  <2>1. S \in SUBSET ToSet(tokens) /\ IsFiniteSet(ToSet(tokens)) /\ Cardinality(ToSet(tokens)) <= L
    BY <1>1, GivenTexts DEF Occurring
  <2> QED BY <1>1, <2>1, FS_Subset, FS_CardinalityType, GivenTexts DEF Occurring
<1>4. /\ s \in [1..N -> S]
      /\ \A m, n \in 1..N : m < n => Before(s[m], s[n])
      /\ \A x \in S : \E n \in 1..N : s[n] = x
  <2>1. S \in SUBSET Text
    BY <1>1
  <2> QED BY <1>1, <2>1, SortedTexts
<1>5. \A t \in S : IsLast(Preceding(o, t), set_next[t])
  BY <1>1 DEF Listing
<1>6. IsWalk(w, o, L)
  BY <1>3, WalkExists
<1>7. /\ Variants(o) = [n \in { m \in 1..L : w[m - 1] # NULL } |-> w[n - 1]]
      /\ ToSet(Variants(o)) = { w[n - 1] : n \in { m \in 1..L : w[m - 1] # NULL } }
  <2>1. Variants(o) = [n \in { m \in 1..L : w[m - 1] # NULL } |-> w[n - 1]]
    BY DEF Variants, IsWalk
  <2> HIDE DEF w
  <2> QED BY <2>1 DEF ToSet
<1> HIDE DEF w, L, N, S
<1>8. \A t \in S : Preceding(o, t) = { u \in S : Before(u, t) }
  BY DEF Preceding, S
<1> DEFINE At1(n) == IF n < N THEN s[N - n] ELSE NULL
           Bad == { n \in 0..L : w[n] # At1(n) }
<1>9. \A n \in 0..L : w[n] = IF n = 0 THEN HeadOf(o) ELSE IF w[n - 1] = NULL THEN NULL ELSE set_next[w[n - 1]]
  BY <1>6 DEF IsWalk
<1>10. \A t \in S : t # NULL
  BY <1>1, NullAssumption DEF Text
<1>11. N # 0 /\ S \in SUBSET Text
  BY <1>1, <1>2, FS_EmptySet DEF N
<1>12. HeadOf(o) = s[N]
  <2>1. N \in 0..N /\ \A u : u \in S <=> \E j \in 1..N : u = s[j]
    BY <1>3, <1>4
  <2> QED BY <1>1, <1>2, <1>11, <2>1, LastSorted DEF N
<1>13. ASSUME NEW k \in 1..N
       PROVE  set_next[s[k]] = IF k = 1 THEN NULL ELSE s[k - 1]
  <2> DEFINE T == Preceding(o, s[k])
             x == set_next[s[k]]
  <2>1. s[k] \in S /\ k - 1 \in 0..N /\ (k - 1 = 0 <=> k = 1)
    BY <1>3, <1>4
  <2>2. IsLast(T, x)
    BY <1>5, <2>1
  <2>3. ASSUME NEW u PROVE u \in T <=> \E j \in 1..(k - 1) : u = s[j]
    <3>1. ASSUME u \in T PROVE \E j \in 1..(k - 1) : u = s[j]
      <4>1. u \in S /\ Before(u, s[k])
        BY <1>8, <2>1, <3>1
      <4>2. PICK j \in 1..N : u = s[j]
        BY <1>4, <4>1
      <4>3. ASSUME ~ j < k PROVE FALSE
        <5>1. j = k \/ k < j
          BY <1>3, <4>3
        <5>2. s[j] \in Text /\ s[k] \in Text
          BY <1>4, <1>11
        <5>3. j = k \/ Before(s[k], s[j])
          BY <1>4, <5>1
        <5>4. Before(s[k], s[k])
          BY <4>1, <4>2, <5>2, <5>3, BeforeTransitive
        <5> QED BY <5>2, <5>4, BeforeNotItself
      <4>4. j \in 1..(k - 1)
        BY <1>3, <4>3
      <4> QED BY <4>2, <4>4
    <3>2. ASSUME NEW j \in 1..(k - 1), u = s[j] PROVE u \in T
      <4>1. j \in 1..N /\ j < k
        BY <1>3
      <4>2. u \in S /\ Before(u, s[k])
        BY <1>4, <3>2, <4>1
      <4> QED BY <1>8, <2>1, <4>2
    <3> QED BY <3>1, <3>2
  <2> HIDE DEF T, x
  <2> DEFINE i == k - 1
  <2>4. i \in 0..Cardinality(S) /\ \A u : u \in T <=> \E j \in 1..i : u = Sorted(S, Before)[j]
    BY <2>1, <2>3 DEF N
  <2> HIDE DEF i
  <2>5. x = IF i = 0 THEN NULL ELSE s[i]
    BY <1>1, <1>11, <2>2, <2>4, LastSorted
  <2> QED BY <2>1, <2>5 DEF i, x
<1>14. Bad = {}
  <2> SUFFICES ASSUME Bad # {} PROVE FALSE
    OBVIOUS
  <2>1. PICK n \in Bad : \A m \in Bad : n <= m
    <3>1. Bad \in SUBSET Nat
      BY <1>3
    <3> HIDE DEF Bad
    <3> QED BY <3>1, LeastNatural
  <2>2. n \in 0..L /\ w[n] # At1(n) /\ n \in Nat
    BY <1>3
  <2>3. CASE n = 0
    <3>1. At1(n) = s[N]
      BY <1>3, <1>11, <2>3
    <3> QED BY <1>9, <1>12, <2>2, <2>3, <3>1
  <2>4. CASE n # 0
    <3>1. n - 1 \in 0..L /\ ~ n <= n - 1
      BY <1>3, <2>2, <2>4
    <3>2. w[n - 1] = At1(n - 1)
      BY <2>1, <3>1
    <3>3. w[n] = IF w[n - 1] = NULL THEN NULL ELSE set_next[w[n - 1]]
      BY <1>9, <2>2, <2>4
    <3>4. CASE n - 1 < N
      <4> DEFINE k == N - (n - 1)
      <4>1. k \in 1..N /\ (k = 1 <=> ~ n < N) /\ k - 1 = N - n
        BY <1>3, <2>2, <2>4, <3>4
      <4>2. w[n - 1] = s[k]
        BY <3>2, <3>4
      <4> HIDE DEF k
      <4>3. w[n] = set_next[s[k]]
        BY <1>4, <1>10, <3>3, <4>1, <4>2
      <4>4. w[n] = IF k = 1 THEN NULL ELSE s[k - 1]
        BY <1>13, <4>1, <4>3
      <4>5. w[n] = At1(n)
        BY <4>1, <4>4
      <4> QED BY <2>2, <4>5
    <3>5. CASE ~ n - 1 < N
      <4>1. ~ n < N
        BY <1>3, <2>2, <3>5
      <4> QED BY <2>2, <3>2, <3>3, <3>5, <4>1
    <3> QED BY <3>4, <3>5
  <2> QED BY <2>3, <2>4
<1>15. \A n \in 0..L : w[n] = At1(n)
  BY <1>14
<1>16. ASSUME NEW n \in 1..L, w[n - 1] # NULL PROVE w[n - 1] \in S
  <2>1. n - 1 \in 0..L
    BY <1>3
  <2>2. n - 1 < N /\ w[n - 1] = s[N - (n - 1)]
    BY <1>15, <1>16, <2>1
  <2>3. N - (n - 1) \in 1..N
    BY <1>3, <2>2
  <2> QED BY <1>4, <2>2, <2>3
<1>17. ASSUME NEW t \in S PROVE \E n \in 1..L : w[n - 1] # NULL /\ w[n - 1] = t
  <2>1. PICK k \in 1..N : s[k] = t
    BY <1>4
  <2> DEFINE n == (N - k) + 1
  <2>2. n \in 1..L /\ n - 1 \in 0..L /\ n - 1 < N /\ N - (n - 1) = k
    BY <1>3
  <2> HIDE DEF n
  <2>3. w[n - 1] = s[k]
    BY <1>15, <2>2
  <2> QED BY <1>10, <2>1, <2>2, <2>3
<1>18. ToSet(Variants(o)) = S
  BY <1>7, <1>16, <1>17
<1>19. ASSUME NEW t, S = { t } PROVE Variants(o) = << t >>
  <2>1. N = 1
    BY <1>19, FS_Singleton DEF N
  <2>2. s[1] = t /\ t # NULL
    BY <1>4, <1>10, <1>19, <2>1
  <2>3. ASSUME NEW m \in 1..L PROVE w[m - 1] = IF m = 1 THEN t ELSE NULL
    <3>1. m - 1 \in 0..L /\ (m - 1 < N <=> m = 1) /\ (m = 1 => N - (m - 1) = 1)
      BY <1>3, <2>1
    <3> QED BY <1>15, <2>2, <3>1
  <2>4. { m \in 1..L : w[m - 1] # NULL } = 1..1
    <3>1. 1 \in 1..L /\ \A m : m \in 1..1 <=> m = 1
      BY <1>3, <2>1
    <3> QED BY <2>2, <2>3, <3>1
  <2>5. \A n \in 1..1 : w[n - 1] = t
    <3>1. \A n \in 1..1 : n = 1 /\ n \in 1..L
      BY <1>3, <2>1
    <3> QED BY <2>3, <3>1
  <2>6. Variants(o) = [n \in 1..1 |-> t]
    BY <1>7, <2>4, <2>5
  <2>7. << t >> = [n \in 1..1 |-> t]
    OBVIOUS
  <2> QED BY <2>6, <2>7
<1> QED BY <1>18, <1>19 DEF ListedFor, S

\* Of two texts at one place the one before is the begin of the other.
LEMMA SamePlace ==
  ASSUME NEW t \in Text, NEW u \in Text, NEW w \in Text, NEW o,
         o \in Occurrences(t, w), o \in Occurrences(u, w), Before(u, t)
  PROVE  HasPrefix(t, u)
<1>1. /\ \A n \in DOMAIN t : w[o + n] = t[n]
      /\ \A n \in DOMAIN u : w[o + n] = u[n]
  BY DEF Occurrences
<1>2. ASSUME NEW n \in DOMAIN u \cap DOMAIN t, u[n] < t[n] PROVE FALSE
  <2> DEFINE c == u[n]
             d == t[n]
  <2>1. c = d /\ c < d
    BY <1>1, <1>2
  <2>2. c \in 1..255
    <3>1. n \in 1..Len(u)
      BY TextChars
    <3> QED BY <3>1, TextChars
  <2> HIDE DEF c, d
  <2> QED BY <2>1, <2>2
<1> QED BY <1>2 DEF Before

LEMMA PrefixOccurs ==
  ASSUME NEW t \in Text, NEW u \in Text, NEW w \in Text, NEW o,
         o \in Occurrences(t, w), HasPrefix(t, u)
  PROVE  o \in Occurrences(u, w)
<1>1. /\ Len(t) \in Nat /\ DOMAIN t = 1..Len(t) /\ Len(u) \in Nat /\ DOMAIN u = 1..Len(u) /\ Len(w) \in Nat
  BY TextChars
<1>2. o \in 0..(Len(w) - Len(t)) /\ \A n \in DOMAIN t : w[o + n] = t[n]
  BY DEF Occurrences
<1>3. Len(u) <= Len(t) /\ \A n \in DOMAIN u : t[n] = u[n]
  BY DEF HasPrefix
<1>4. o \in 0..(Len(w) - Len(u))
  BY <1>1, <1>2, <1>3
<1>5. \A n \in DOMAIN u : n \in DOMAIN t
  BY <1>1, <1>3
<1> QED BY <1>2, <1>3, <1>4, <1>5 DEF Occurrences

LEMMA FoundInAll ==
  ASSUME Given, NEW t \in Text, NEW o, Found(t, o) >= Len(payloads)
  PROVE  \A p \in DOMAIN payloads : o \in Occurrences(t, payloads[p])
<1> DEFINE P == { p \in DOMAIN payloads : o \in Occurrences(t, payloads[p]) }
           L == Len(payloads)
<1>1. L \in Nat /\ DOMAIN payloads = 1..L
  BY GivenTexts
<1>2. IsFiniteSet(1..L) /\ Cardinality(1..L) = L
  <2> HIDE DEF L
  <2>1. 1 \in Int /\ L \in Int /\ (L - 1) + 1 = L /\ (1 > L => L = 0)
    BY <1>1
  <2> QED BY <2>1, FS_Interval
<1>3. P \in SUBSET (1..L) /\ Cardinality(P) >= L
  BY <1>1 DEF Found
<1> HIDE DEF P, L
<1>4. Cardinality(P) <= Cardinality(1..L) /\ (Cardinality(P) = Cardinality(1..L) => P = 1..L)
      /\ IsFiniteSet(P)
  BY <1>2, <1>3, FS_Subset
<1>5. Cardinality(P) \in Nat
  BY <1>4, FS_CardinalityType
<1>6. P = 1..L
  BY <1>1, <1>2, <1>3, <1>4, <1>5
<1> QED BY <1>1, <1>6 DEF P

(* A token that is at an offset of all payloads, and before another such,  *)
(* is the begin of that one: it is wherever the other is.                  *)
LEMMA NestedInAll ==
  ASSUME Occurring, InPositions, k_offset = Len(payloads), IsInjective(tokens)
  PROVE  Nested
<1>1. SUFFICES ASSUME NEW o \in Nat, NEW t \in Sharing(o), NEW u \in Sharing(o), Before(u, t),
                      NEW q \in Shared(t)
               PROVE  q \in Shared(u)
  BY DEF Nested
<1>2. /\ t \in DOMAIN trie /\ u \in DOMAIN trie /\ t \in Text /\ u \in Text
      /\ t \in Sharing(q)
  BY SharingShared
<1>4. Given
  BY DEF Occurring
<1>a. ASSUME NEW v \in DOMAIN trie, v \in Text, NEW r PROVE Tally(v, r) = Found(v, r)
  <2>1. Listed(v) = 1
    BY <1>4, ListedSize, SharingShared
  <2>2. Found(v, r) \in Nat
    BY <1>4, <1>a, FoundSize
  <2> QED BY <2>1, <2>2, Products DEF Tally
<1>3. /\ Found(t, o) >= Len(payloads) /\ Found(u, o) >= Len(payloads) /\ Found(t, q) >= Len(payloads)
      /\ q \in FoundAt(t)
  BY <1>2, <1>a DEF Sharing
<1>5. \A p \in DOMAIN payloads :
        /\ payloads[p] \in Text /\ o \in Occurrences(t, payloads[p])
        /\ o \in Occurrences(u, payloads[p]) /\ q \in Occurrences(t, payloads[p])
  BY <1>2, <1>3, <1>4, FoundInAll, GivenTexts
<1>6. PICK p \in DOMAIN payloads : q \in Occurrences(t, payloads[p])
  BY <1>3 DEF FoundAt
<1>7. HasPrefix(t, u)
  BY <1>1, <1>2, <1>5, SamePlace
<1>8. \A r \in DOMAIN payloads : q \in Occurrences(u, payloads[r])
  BY <1>2, <1>5, <1>7, PrefixOccurs
<1>9. q \in FoundAt(u)
  BY <1>6, <1>8 DEF FoundAt
<1>10. Tally(u, q) >= k_offset
  <2>1. { r \in DOMAIN payloads : q \in Occurrences(u, payloads[r]) } = DOMAIN payloads
    BY <1>8
  <2>2. { r \in DOMAIN payloads : q \in Occurrences(t, payloads[r]) } = DOMAIN payloads
    BY <1>5
  <2>3. Found(u, q) = Found(t, q)
    BY <2>1, <2>2 DEF Found
  <2> QED BY <1>2, <1>3, <1>a, <2>3
<1> QED BY <1>2, <1>9, <1>10 DEF Shared, Sharing

(* The number of variants of an offset is that of the tokens that are      *)
(* frequent there, and where k_offset asks for all payloads and no token   *)
(* is listed twice the list of the offset holds these, for any payloads    *)
(* and tokens.                                                             *)
THEOREM VariantsCorrect == Spec => []VariantsRight
<1>1. Occurring /\ Searched => VariantsRight
  <2> SUFFICES ASSUME Occurring, Searched, pc \in { "merge", "positioned" } PROVE VariantsRight
    BY DEF VariantsRight
  <2>1. InPositions /\ Listing(DOMAIN trie)
    BY DEF InPositions, Searched
  <2>2. DOMAIN offset_variants = UNION { Shared(t) : t \in DOMAIN trie }
    BY <2>1 DEF Listing
  <2>3. ASSUME NEW o \in DOMAIN offset_variants
        PROVE  /\ offset_variants[o].num_variants = Cardinality(Sharing(o))
               /\ k_offset = Len(payloads) /\ IsInjective(tokens) => ListedFor(o)
    <3>1. Sharing(o) \cap DOMAIN trie = Sharing(o)
      BY DEF Sharing
    <3>2. offset_variants[o].num_variants = Cardinality(Sharing(o))
      BY <2>1, <3>1 DEF Listing
    <3>3. k_offset = Len(payloads) /\ IsInjective(tokens) => ListedFor(o)
      BY <2>1, NestedInAll, VariantsListed
    <3> QED BY <3>2, <3>3
  <2> QED BY <2>2, <2>3 DEF VariantsRight
<1> QED BY <1>1, OccurringInvariant, SearchedInvariant, PTL

-----------------------------------------------------------------------------
(* The merge, where every token is frequent at one offset at most.         *)

LEMMA AtMostOne ==
  ASSUME NEW S, IsFiniteSet(S), Cardinality(S) <= 1, NEW x \in S, NEW y \in S
  PROVE  x = y
<1> SUFFICES ASSUME x # y PROVE FALSE
  OBVIOUS
<1>1. IsFiniteSet({ x }) /\ Cardinality({ x }) = 1
  BY FS_Singleton
<1>2. Cardinality({ x } \cup { y }) = 2 /\ IsFiniteSet({ x } \cup { y })
  BY <1>1, FS_AddElement
<1>3. Cardinality({ x } \cup { y }) <= Cardinality(S)
  BY FS_Subset
<1>4. Cardinality(S) \in Nat
  BY FS_CardinalityType
<1> QED BY <1>2, <1>3, <1>4

\* Tokens are as token_new made them, but for the offsets and the kind.
Fresh ==
  pc \in { "flows", "traverse", "fix", "search" } =>
    \A t \in DOMAIN trie : trie[t].merge_token = NULL /\ trie[t].shortest_len = Len(t)

LEMMA TokenAddFresh ==
  ASSUME NEW text \in DOMAIN trie, IsToken(trie[text]), NEW offset, token_add(text, offset)
  PROVE  /\ DOMAIN trie' = DOMAIN trie
         /\ \A t \in DOMAIN trie :
              /\ trie'[t].merge_token = trie[t].merge_token
              /\ trie'[t].shortest_len = trie[t].shortest_len
<1> DEFINE x == Plus1(trie[text].offset_occurrence, offset)
<1>1. trie' = [trie EXCEPT ![text] = [trie[text] EXCEPT !.offset_occurrence = x]]
  BY DEF token_add
<1> HIDE DEF x
<1> DEFINE r == [trie[text] EXCEPT !.offset_occurrence = x]
<1>2. r.merge_token = trie[text].merge_token /\ r.shortest_len = trie[text].shortest_len
  BY ChangedToken DEF Fields
<1> HIDE DEF r
<1>3. trie' = [trie EXCEPT ![text] = r]
  BY <1>1 DEF r
<1> QED BY <1>2, <1>3

LEMMA FixOffsetFresh ==
  ASSUME Codes, FixOffset
  PROVE  /\ DOMAIN trie' = DOMAIN trie
         /\ \A t \in DOMAIN trie :
              /\ trie'[t].merge_token = trie[t].merge_token
              /\ trie'[t].shortest_len = trie[t].shortest_len
<1> DEFINE text == Head(todo)
           fixed == Cardinality(DOMAIN trie[text].offset_occurrence) = 1
           r == [trie[text] EXCEPT !.position_specific = "PS_NOT_MERGE"]
<1>1. trie' = IF fixed THEN [trie EXCEPT ![text] = r] ELSE trie
  BY DEF FixOffset
<1>2. text \in DOMAIN trie =>
        r.merge_token = trie[text].merge_token /\ r.shortest_len = trie[text].shortest_len
  BY ChangedToken DEF Fields, Codes
<1> HIDE DEF r, fixed, text
<1>3. CASE fixed
  <2>1. trie' = [trie EXCEPT ![text] = r]
    BY <1>1, <1>3
  <2> QED BY <1>2, <2>1
<1>4. CASE ~ fixed
  <2>1. trie' = trie
    BY <1>1, <1>4
  <2> QED BY <2>1
<1> QED BY <1>3, <1>4

\* The merged offsets of a token so far, and the tokens with its code.
Merging(t) == { o \in Shared(t) \ offsets : Cardinality(Sharing(o)) < beta_merge }

Alike(t) == { u \in DOMAIN trie : trie[u].replacement = trie[t].replacement }

MergedAt(t, o) ==
  /\ ToSet(trie[t].merge_token.variants) = Sharing(o) /\ Alike(t) = Sharing(o)
  /\ trie[t].shortest_len = Least({ Len(u) : u \in Sharing(o) })
  /\ trie[t].merge_token.begin <=> o = 0
  /\ trie[t].position_specific = "PS_MERGE" <=>
       o = 0 \/ Cardinality(Sharing(o)) > 1 \/ trie[t].merge_token.junk

NotMerged(t) ==
  /\ trie[t].merge_token = NULL /\ trie[t].shortest_len = Len(t) /\ Alike(t) = { t }
  /\ trie[t].position_specific # "PS_MERGE"

MergedSoFar ==
  pc \in { "merge", "positioned" } =>
    /\ offsets \subseteq DOMAIN offset_variants /\ (pc = "positioned" => offsets = {})
    /\ OneOffsetEach =>
         \A t \in DOMAIN trie :
           /\ Merging(t) = {} => NotMerged(t)
           /\ \A o \in Merging(t) : MergedAt(t, o)

LEMMA SearchDoneMerged ==
  ASSUME Occurring, Searched, Fresh, SearchDone
  PROVE  MergedSoFar'
<1>1. /\ pc = "search" /\ pc' = "merge" /\ trie' = trie /\ offsets' = DOMAIN offset_variants
      /\ offset_variants' = offset_variants /\ todo = << >>
      /\ payloads' = payloads /\ tokens' = tokens /\ k_offset' = k_offset
  BY DEF SearchDone, trieVars, variantVars, inputVars
<1>2. \A t \in DOMAIN trie :
        /\ trie[t].merge_token = NULL /\ trie[t].shortest_len = Len(t)
        /\ trie[t].position_specific # "PS_MERGE"
  BY <1>1 DEF Fresh, Occurring, Codes, Unmerged
<1>3. \A t \in DOMAIN trie : Alike(t) = { t }
  BY <1>1 DEF Occurring, Codes, CodesDistinct, Unmerged, Alike
<1>4. DOMAIN offset_variants = UNION { Shared(t) : t \in DOMAIN trie }
  <2>1. Done(todo) = DOMAIN trie
    <3>1. todo = << >>
      BY <1>1
    <3>2. ToSet(todo) = {}
      BY ONLY <3>1 DEF ToSet
    <3> QED BY <3>2 DEF Done
  <2> QED BY <1>1, <2>1 DEF Searched, Listing
<1>5. \A t \in DOMAIN trie : NotMerged(t)'
  BY <1>1, <1>2, <1>3 DEF NotMerged, Alike
<1>6. \A t \in DOMAIN trie : Shared(t)' = Shared(t)
  BY <1>1 DEF Shared, Sharing, FoundAt, Tally, Found, Listed
<1>7. \A t \in DOMAIN trie : Merging(t)' = {}
  <2>1. \A t \in DOMAIN trie : Shared(t)' \subseteq offsets'
    BY <1>1, <1>4, <1>6
  <2> QED BY <2>1 DEF Merging
<1> QED BY <1>1, <1>5, <1>7 DEF MergedSoFar

LEMMA ShortestShared ==
  ASSUME Occurring, InPositions, NEW S \in SUBSET DOMAIN trie, S # {}
  PROVE  Shortest(S) = Least({ Len(u) : u \in S })
<1> DEFINE T == { Len(u) : u \in S }
<1>1. ASSUME NEW t \in DOMAIN trie PROVE Len(t) \in Nat /\ Len(t) <= 256
  <2>1. t \in Text /\ FoundAt(t) # {}
    BY SharingShared DEF Occurring, OccurrencesRight
  <2>2. PICK p \in DOMAIN payloads : Occurrences(t, payloads[p]) # {}
    BY <2>1 DEF FoundAt
  <2>3. payloads[p] \in Text /\ Len(payloads[p]) <= 256
    BY GivenTexts DEF Occurring, Given
  <2>4. Len(t) \in Nat /\ Len(payloads[p]) \in Nat
    BY <2>1, <2>3, TextChars
  <2>5. 0..(Len(payloads[p]) - Len(t)) # {}
    BY <2>2 DEF Occurrences
  <2> QED BY <2>3, <2>4, <2>5
<1>2. T \in SUBSET Nat /\ T # {} /\ \A n \in T : n <= 256
  BY <1>1
<1>3. Shortest(S) = Least({ 256 } \cup T)
  BY DEF Shortest
<1> HIDE DEF T
<1>4. PICK m \in T : \A n \in T : m <= n
  BY <1>2, LeastNatural
<1>5. \A n \in T : (\A k \in T : n <= k) => n = m
  BY <1>2, <1>4
<1>6. Least(T) = m
  BY <1>4, <1>5 DEF Least
<1>7. m \in { 256 } \cup T /\ \A n \in { 256 } \cup T : m <= n
  BY <1>2, <1>4
<1>8. \A n \in { 256 } \cup T : (\A k \in { 256 } \cup T : n <= k) => n = m
  BY <1>2, <1>4, <1>7
<1>9. Least({ 256 } \cup T) = m
  BY <1>7, <1>8 DEF Least
<1> QED BY <1>3, <1>6, <1>9 DEF T

LEMMA NestedOnce ==
  ASSUME Occurring, InPositions, OneOffsetEach
  PROVE  /\ Nested
         /\ \A t \in DOMAIN trie : \A o, q \in Shared(t) : o = q
<1>1. ASSUME NEW t \in DOMAIN trie, NEW o \in Shared(t), NEW q \in Shared(t) PROVE o = q
  <2>1. IsFiniteSet(Shared(t)) /\ Cardinality(Shared(t)) <= 1
    BY SharingShared DEF OneOffsetEach
  <2> QED BY <2>1, AtMostOne
<1>2. Nested
  <2> SUFFICES ASSUME NEW o \in Nat, NEW t \in Sharing(o), NEW u \in Sharing(o), NEW q \in Shared(t)
               PROVE  q \in Shared(u)
    BY DEF Nested
  <2>1. t \in DOMAIN trie /\ u \in DOMAIN trie /\ o \in Shared(t) /\ o \in Shared(u)
    BY SharingShared
  <2>2. q = o
    BY <1>1, <2>1
  <2> QED BY <2>1, <2>2
<1> QED BY <1>1, <1>2

\* What the merge of an offset does to the tokens that share it.
LEMMA MergedTokens ==
  ASSUME Occurring, InPositions, Listing(DOMAIN trie), OneOffsetEach,
         NEW o \in offsets, o \in DOMAIN offset_variants, MergeVariants(o),
         offset_variants[o].num_variants < beta_merge,
         \A t \in Sharing(o) : NotMerged(t)
  PROVE  /\ DOMAIN trie' = DOMAIN trie
         /\ \A t \in DOMAIN trie \ Sharing(o) : trie'[t] = trie[t]
         /\ \A t \in Sharing(o) :
              /\ ToSet(trie'[t].merge_token.variants) = Sharing(o)
              /\ trie'[t].merge_token.begin <=> o = 0
              /\ trie'[t].shortest_len = Least({ Len(u) : u \in Sharing(o) })
              /\ trie'[t].position_specific = "PS_MERGE" <=>
                   o = 0 \/ Cardinality(Sharing(o)) > 1 \/ trie'[t].merge_token.junk
         /\ \/ \A t \in Sharing(o) : trie'[t].replacement = specific
            \/ \E t \in DOMAIN trie : Sharing(o) = { t } /\ trie'[t].replacement = trie[t].replacement
<1> DEFINE S == Sharing(o)
<1>1. /\ S \in SUBSET DOMAIN trie /\ S # {} /\ ToSet(Variants(o)) = S
      /\ \A t : S = { t } => Variants(o) = << t >>
  <2>1. ListedFor(o) /\ \A t : S = { t } => Variants(o) = << t >>
    BY NestedOnce, VariantsListed
  <2>2. S \cap DOMAIN trie # {}
    BY ListingHeads
  <2> QED BY <2>1, <2>2, SharingShared DEF ListedFor
<1>2. /\ DOMAIN trie' = DOMAIN trie
      /\ \E junk \in Junk : \A t \in DOMAIN trie :
           IF t \in ToSet(Variants(o)) THEN trie'[t] = Merged(t, MergedText(o, junk), ToSet(Variants(o)))
           ELSE trie'[t] = trie[t]
  BY MergeVariantsEffect DEF Occurring, Codes
<1>3. PICK junk \in Junk : \A t \in DOMAIN trie :
        IF t \in S THEN trie'[t] = Merged(t, MergedText(o, junk), S) ELSE trie'[t] = trie[t]
  BY <1>1, <1>2
<1> DEFINE text == MergedText(o, junk)
           least == Least({ Len(u) : u \in S })
<1>4. /\ text.variants = Variants(o) /\ (text.begin <=> o = 0) /\ (text.junk <=> junk)
      /\ \A t : SameText(t, text) => text.variants = << t >>
      /\ \A t : SameText(t, text) => ~ text.begin /\ ~ text.junk
  BY DEF MergedText, SameText
<1>a. ASSUME NEW t, Variants(o) = << t >>, o # 0, ~ text.junk PROVE SameText(t, text)
  <2>1. junk = FALSE
    BY <1>4, <1>a, JunkAssumption
  <2>2. text = [junk |-> FALSE, begin |-> FALSE, variants |-> << t >>]
    BY <1>a, <2>1 DEF MergedText
  <2> QED BY <2>2 DEF SameText
<1>b. IsFiniteSet(S) /\ Cardinality(S) \in Nat
  BY SharingShared, FS_CardinalityType
<1>5. Shortest(S) = least
  BY <1>1, ShortestShared
<1>6. \A t : SameText(t, text) => S = { t }
  <2>1. ASSUME NEW t, SameText(t, text) PROVE S = { t }
    <3>1. Variants(o) = << t >>
      BY <1>4, <2>1
    <3>2. ToSet(<< t >>) = { t }
      BY DEF ToSet
    <3> QED BY <1>1, <3>1, <3>2
  <2> QED BY <2>1
<1>c. ASSUME NEW t \in S
      PROVE  ~ SameText(t, text) <=> o = 0 \/ Cardinality(S) > 1 \/ text.junk
  <2>1. Cardinality(S) > 1 <=> S # { t }
    <3>1. Cardinality(S) # 0
      BY <1>b, <1>c, FS_EmptySet
    <3>2. Cardinality(S) = 1 <=> S = { t }
      BY <1>b, <1>c, FS_Singleton
    <3> QED BY <1>b, <3>1, <3>2
  <2>2. SameText(t, text) => S = { t } /\ o # 0 /\ ~ text.junk
    BY <1>4, <1>6
  <2>3. S = { t } /\ o # 0 /\ ~ text.junk => SameText(t, text)
    BY <1>1, <1>a
  <2> QED BY <2>1, <2>2, <2>3
<1> HIDE DEF S, text, least
<1>7. ASSUME NEW t \in S
      PROVE  /\ trie'[t].merge_token = text
             /\ trie'[t].position_specific = "PS_MERGE" <=> ~ SameText(t, text)
             /\ trie'[t].shortest_len = least
             /\ SameText(t, text) => trie'[t].replacement = trie[t].replacement
             /\ ~ SameText(t, text) => trie'[t].replacement = specific
  <2> DEFINE m == Merged(t, text, S)
  <2>1. /\ t \in DOMAIN trie /\ IsToken(trie[t]) /\ trie[t].shortest_len = Len(t)
        /\ trie[t].position_specific # "PS_MERGE"
    BY <1>1 DEF Occurring, Codes, NotMerged, S
  <2>2. /\ m.merge_token = text
        /\ SameText(t, text) =>
             /\ m.replacement = trie[t].replacement /\ m.shortest_len = trie[t].shortest_len
             /\ m.position_specific = trie[t].position_specific
        /\ ~ SameText(t, text) =>
             /\ m.replacement = specific /\ m.shortest_len = Shortest(S)
             /\ m.position_specific = "PS_MERGE"
    BY <2>1, MergedToken
  <2> HIDE DEF m
  <2>3. trie'[t] = m
    BY <1>3, <2>1 DEF m, text
  <2>4. SameText(t, text) => Len(t) = least
    <3> SUFFICES ASSUME SameText(t, text) PROVE Len(t) = least
      OBVIOUS
    <3>1. S = { t }
      BY <1>6
    <3>2. t \in Text
      BY <2>1, SharingShared
    <3>3. Len(t) \in Nat
      BY <3>2, TextChars
    <3>4. { Len(u) : u \in S } = { Len(t) }
      BY <3>1
    <3> DEFINE n == Len(t)
    <3> HIDE DEF n
    <3>5. Least({ n }) = n
      <4>1. n \in { n } /\ \A k \in { n } : n <= k
        BY <3>3 DEF n
      <4> QED BY <4>1 DEF Least
    <3> QED BY <3>4, <3>5 DEF least, n
  <2> QED BY <1>5, <2>1, <2>2, <2>3, <2>4
<1>8. \/ \A t \in S : trie'[t].replacement = specific
      \/ \E t \in DOMAIN trie : S = { t } /\ trie'[t].replacement = trie[t].replacement
  <2>1. CASE \E t \in S : SameText(t, text)
    BY <1>1, <1>6, <1>7, <2>1
  <2>2. CASE ~ \E t \in S : SameText(t, text)
    BY <1>7, <2>2
  <2> QED BY <2>1, <2>2
<1>9. ASSUME NEW t \in S
      PROVE  trie'[t].position_specific = "PS_MERGE" <=>
               o = 0 \/ Cardinality(S) > 1 \/ trie'[t].merge_token.junk
  <2>1. trie'[t].merge_token = text /\ (trie'[t].position_specific = "PS_MERGE" <=> ~ SameText(t, text))
    BY <1>7
  <2>2. ~ SameText(t, text) <=> o = 0 \/ Cardinality(S) > 1 \/ text.junk
    BY <1>c
  <2> QED BY <2>1, <2>2
<1> QED BY <1>1, <1>2, <1>3, <1>4, <1>7, <1>8, <1>9 DEF S, least

LEMMA CodeNotNext ==
  ASSUME Codes, NEW t \in DOMAIN trie
  PROVE  trie[t].replacement # specific
<1> DEFINE c == trie[t].replacement
<1>1. c \in (specific + 1)..-2 \cup 258..(ordinary - 1)
  BY DEF Codes, CodesDistinct
<1>2. Counters
  BY DEF Codes
<1> HIDE DEF c
<1>3. c # specific
  BY <1>1, <1>2 DEF Counters
<1> QED BY <1>3 DEF c

LEMMA MergeVariantsMerged ==
  ASSUME Occurring, Searched, MergedSoFar, NEW o \in offsets, MergeVariants(o)
  PROVE  MergedSoFar'
<1> DEFINE S == Sharing(o)
<1>1. /\ pc = "merge" /\ pc' = "merge" /\ offsets' = offsets \ { o } /\ offset_variants' = offset_variants
      /\ payloads' = payloads /\ tokens' = tokens /\ k_offset' = k_offset
      /\ InPositions /\ Listing(DOMAIN trie) /\ offsets \subseteq DOMAIN offset_variants
      /\ OneOffsetEach => \A t \in DOMAIN trie :
                            (Merging(t) = {} => NotMerged(t)) /\ \A q \in Merging(t) : MergedAt(t, q)
  BY DEF MergeVariants, variantVars, inputVars, InPositions, Searched, MergedSoFar
<1>2. o \in DOMAIN offset_variants /\ offset_variants[o].num_variants = Cardinality(S)
  <2>1. S \cap DOMAIN trie = S
    BY DEF Sharing
  <2> QED BY <1>1, <2>1 DEF Listing
<1>3. SameOccurrences /\ DOMAIN trie' = DOMAIN trie
  BY MergeVariantsSame DEF Occurring, SameOccurrences
<1>4. /\ \A q : Sharing(q)' = Sharing(q)
      /\ \A t : Shared(t)' = Shared(t)
  <2>1. \A q : Sharing(q)' = Sharing(q)
    BY <1>1, <1>3 DEF Sharing, FoundAt, Tally, Found, Listed
  <2> QED BY <1>1, <2>1 DEF Shared, FoundAt
<1>5. OneOffsetEach' <=> OneOffsetEach
  BY <1>3, <1>4 DEF OneOffsetEach
<1>6. ASSUME NEW t \in DOMAIN trie
      PROVE  Merging(t)' = { q \in Shared(t) \ (offsets \ { o }) : Cardinality(Sharing(q)) < beta_merge }
  BY <1>1, <1>4 DEF Merging
<1>7. SUFFICES ASSUME OneOffsetEach
               PROVE  \A t \in DOMAIN trie :
                        (Merging(t)' = {} => NotMerged(t)') /\ \A q \in Merging(t)' : MergedAt(t, q)'
  BY <1>1, <1>3, <1>5 DEF MergedSoFar
<1>8. \A t \in DOMAIN trie : \A p, q \in Shared(t) : p = q
  BY <1>1, <1>7, NestedOnce
<1>9. /\ S \in SUBSET DOMAIN trie
      /\ \A t \in DOMAIN trie : o \in Shared(t) <=> t \in S
  BY <1>1, SharingShared
<1>10. \A t \in DOMAIN trie : Alike(t)' = { u \in DOMAIN trie : trie'[u].replacement = trie'[t].replacement }
  BY <1>3 DEF Alike
<1> HIDE DEF S
<1>11. CASE ~ offset_variants[o].num_variants < beta_merge
  <2>1. trie' = trie
    BY <1>11 DEF MergeVariants
  <2>2. ASSUME NEW t \in DOMAIN trie PROVE Merging(t)' = Merging(t)
    BY <1>2, <1>6, <1>11 DEF Merging, S
  <2>3. \A t \in DOMAIN trie : NotMerged(t)' <=> NotMerged(t)
    BY <2>1 DEF NotMerged, Alike
  <2>4. \A t \in DOMAIN trie : \A q : MergedAt(t, q)' <=> MergedAt(t, q)
    BY <1>4, <2>1 DEF MergedAt, Alike
  <2> QED BY <1>1, <1>7, <2>2, <2>3, <2>4
<1>12. CASE offset_variants[o].num_variants < beta_merge
  <2>1. \A t \in S : Merging(t) = {}
    BY <1>8, <1>9 DEF Merging
  <2>2. \A t \in S : NotMerged(t)
    BY <1>1, <1>7, <1>9, <2>1
  <2>3. /\ \A t \in DOMAIN trie \ S : trie'[t] = trie[t]
        /\ \A t \in S :
             /\ ToSet(trie'[t].merge_token.variants) = S
             /\ trie'[t].merge_token.begin <=> o = 0
             /\ trie'[t].shortest_len = Least({ Len(u) : u \in S })
             /\ trie'[t].position_specific = "PS_MERGE" <=>
                  o = 0 \/ Cardinality(S) > 1 \/ trie'[t].merge_token.junk
        /\ \/ \A t \in S : trie'[t].replacement = specific
           \/ \E t \in DOMAIN trie : S = { t } /\ trie'[t].replacement = trie[t].replacement
    BY <1>1, <1>2, <1>7, <1>12, <2>2, MergedTokens DEF S
  <2>4. \A t \in DOMAIN trie : trie[t].replacement # specific
    BY CodeNotNext DEF Occurring
  <2>5. \A t \in S : \A u \in DOMAIN trie : trie[u].replacement = trie[t].replacement => u = t
    BY <2>2 DEF NotMerged, Alike
  <2>6. ASSUME NEW t \in S, NEW u \in DOMAIN trie \ S
        PROVE  trie'[t].replacement # trie'[u].replacement
    BY <1>9, <2>3, <2>4, <2>5
  <2>7. ASSUME NEW t \in S, NEW u \in S
        PROVE  trie'[t].replacement = trie'[u].replacement
    BY <2>3
  <2>8. ASSUME NEW t \in DOMAIN trie \ S
        PROVE  (Merging(t)' = {} => NotMerged(t)') /\ \A q \in Merging(t)' : MergedAt(t, q)'
    <3>1. Merging(t)' = Merging(t)
      BY <1>6, <1>9 DEF Merging
    <3>2. trie'[t] = trie[t]
      BY <2>3
    <3>3. Alike(t)' = Alike(t)
      <4>1. ASSUME NEW u \in DOMAIN trie
            PROVE  trie'[u].replacement = trie'[t].replacement <=> trie[u].replacement = trie[t].replacement
        <5>1. CASE u \in S
          BY <2>5, <2>6, <5>1
        <5>2. CASE u \notin S
          BY <2>3, <5>2
        <5> QED BY <5>1, <5>2
      <4> QED BY <1>10, <4>1 DEF Alike
    <3>4. NotMerged(t)' <=> NotMerged(t)
      BY <3>2, <3>3 DEF NotMerged
    <3>5. \A q : MergedAt(t, q)' <=> MergedAt(t, q)
      BY <1>4, <3>2, <3>3 DEF MergedAt
    <3> QED BY <1>1, <1>7, <3>1, <3>4, <3>5
  <2>9. ASSUME NEW t \in S
        PROVE  (Merging(t)' = {} => NotMerged(t)') /\ \A q \in Merging(t)' : MergedAt(t, q)'
    <3>1. t \in DOMAIN trie /\ o \in Shared(t)
      BY <1>9
    <3>2. Merging(t)' = { o }
      BY <1>2, <1>6, <1>8, <1>12, <3>1 DEF S
    <3>3. Alike(t)' = S
      BY <1>9, <1>10, <2>6, <2>7, <3>1
    <3>4. MergedAt(t, o)'
      BY <1>4, <2>3, <3>3 DEF MergedAt, S
    <3> QED BY <3>2, <3>4
  <2> QED BY <2>8, <2>9
<1> QED BY <1>11, <1>12

LEMMA MergedSoFarStays ==
  ASSUME MergedSoFar, UNCHANGED << trie, offsets, offset_variants >>, UNCHANGED << payloads, tokens, k_offset >>,
         pc' = pc \/ (pc = "merge" /\ pc' = "positioned" /\ offsets = {})
  PROVE  MergedSoFar'
<1>1. SUFFICES ASSUME pc' \in { "merge", "positioned" } PROVE MergedSoFar'
  BY DEF MergedSoFar
<1>2. /\ offsets \subseteq DOMAIN offset_variants /\ (pc' = "positioned" => offsets = {})
      /\ OneOffsetEach =>
           \A t \in DOMAIN trie :
             /\ Merging(t) = {} => NotMerged(t)
             /\ \A o \in Merging(t) : MergedAt(t, o)
  BY <1>1 DEF MergedSoFar
<1>3. \A q : Sharing(q)' = Sharing(q)
  BY DEF Sharing, FoundAt, Tally, Found, Listed
<1>4. \A t : Shared(t)' = Shared(t)
  BY <1>3 DEF Shared, FoundAt
<1>5. OneOffsetEach' <=> OneOffsetEach
  BY <1>4 DEF OneOffsetEach
<1>6. \A t : Merging(t)' = Merging(t) /\ Alike(t)' = Alike(t)
  BY <1>3, <1>4 DEF Merging, Alike
<1>7. \A t, q : (NotMerged(t)' <=> NotMerged(t)) /\ (MergedAt(t, q)' <=> MergedAt(t, q))
  BY <1>3, <1>6 DEF NotMerged, MergedAt
<1> QED BY <1>2, <1>5, <1>6, <1>7 DEF MergedSoFar

LEMMA PositionMerged ==
  ASSUME Occurring, Searched, Fresh, MergedSoFar, position_constraints_main
  PROVE  (Fresh /\ MergedSoFar)'
<1>1. CASE FlowNew \/ FlowsDone \/ TraverseDone \/ FixDone \/ SearchOffsets
  <2>1. /\ pc \in { "flows", "traverse", "fix", "search" }
        /\ pc' \in { "flows", "traverse", "fix", "search" } /\ trie' = trie
    BY <1>1 DEF FlowNew, FlowsDone, TraverseDone, FixDone, SearchOffsets, trieVars
  <2> QED BY <2>1 DEF Fresh, MergedSoFar
<1>2. CASE TraverseToken
  <2> DEFINE e == Head(todo)
  <2>1. pc = "traverse" /\ pc' = pc
        /\ IF e.token \in DOMAIN trie
             THEN token_add(e.token, e.offset) ELSE token_new(e.token, e.offset, "PS_ORDINARY")
    BY <1>2 DEF TraverseToken
  <2>2. \A t \in DOMAIN trie : IsToken(trie[t]) /\ trie[t].merge_token = NULL /\ trie[t].shortest_len = Len(t)
    BY <2>1 DEF Fresh, Occurring, Codes
  <2> DEFINE text == e.token
             offset == e.offset
  <2> HIDE DEF e
  <2>3. \A t \in DOMAIN trie' : trie'[t].merge_token = NULL /\ trie'[t].shortest_len = Len(t)
    <3>1. CASE text \in DOMAIN trie
      <4>1. token_add(text, offset)
        BY <2>1, <3>1
      <4> HIDE DEF text, offset
      <4> QED BY <2>2, <3>1, <4>1, TokenAddFresh
    <3>2. CASE text \notin DOMAIN trie
      <4>1. token_new(text, offset, "PS_ORDINARY")
        BY <2>1, <3>2
      <4> HIDE DEF text, offset
      <4> DEFINE new == NewToken(text, offset, "PS_ORDINARY")
      <4>2. trie' = With(trie, text, new)
        BY <4>1, TokenNewEffect
      <4>3. new.merge_token = NULL /\ new.shortest_len = Len(text)
        BY NewTokenFields
      <4> HIDE DEF new
      <4>4. /\ DOMAIN trie' = DOMAIN trie \cup { text } /\ trie'[text] = new
            /\ \A t \in DOMAIN trie : t # text => trie'[t] = trie[t]
        BY <4>2 DEF With
      <4> QED BY <2>2, <4>3, <4>4
    <3> QED BY <3>1, <3>2
  <2> QED BY <2>1, <2>3 DEF Fresh, MergedSoFar
<1>3. CASE FixOffset
  <2>1. pc = "fix" /\ pc' = "fix"
    BY <1>3 DEF FixOffset
  <2> QED BY <1>3, <2>1, FixOffsetFresh DEF Fresh, MergedSoFar, Occurring
<1>4. CASE SearchDone
  BY <1>4, SearchDoneMerged DEF Fresh, SearchDone
<1>5. CASE \E o \in offsets : MergeVariants(o)
  BY <1>5, MergeVariantsMerged DEF Fresh, MergeVariants
<1>6. CASE MergeDone
  <2>1. /\ pc = "merge" /\ pc' = "positioned" /\ offsets = {} /\ UNCHANGED << trie, offsets, offset_variants >>
        /\ UNCHANGED << payloads, tokens, k_offset >>
    BY <1>6 DEF MergeDone, trieVars, variantVars, loopVars, inputVars
  <2> QED BY <2>1, MergedSoFarStays DEF Fresh
<1> QED
  BY <1>1, <1>2, <1>3, <1>4, <1>5, <1>6 DEF position_constraints_main

LEMMA MergedInvariant == Spec => [](Fresh /\ MergedSoFar)
<1>1. Init => Fresh /\ MergedSoFar
  BY DEF Init, PositionInit, Fresh, MergedSoFar, Nothing
<1>2. Occurring /\ Searched /\ (Fresh /\ MergedSoFar) /\ [Next]_vars => (Fresh /\ MergedSoFar)'
  <2> SUFFICES ASSUME Occurring, Searched, Fresh, MergedSoFar, [Next]_vars PROVE (Fresh /\ MergedSoFar)'
    OBVIOUS
  <2>1. CASE UNCHANGED vars
    <3>1. /\ UNCHANGED << trie, offsets, offset_variants >> /\ UNCHANGED << payloads, tokens, k_offset >>
          /\ pc' = pc
      BY <2>1 DEF vars, positionVars, inputVars, trieVars, variantVars, loopVars
    <3> QED BY <3>1, MergedSoFarStays DEF Fresh
  <2>2. CASE position_constraints_main
    BY <2>2, PositionMerged
  <2>3. CASE product_distribution_main \/ convertion_main
    BY <2>3, ProductLater, ConvertionLater DEF Later, Fresh, MergedSoFar
  <2> QED BY <2>1, <2>2, <2>3 DEF Next
<1> QED BY <1>1, <1>2, OccurringInvariant, SearchedInvariant, PTL DEF Spec

(* Where every token is frequent at one offset at most, those that share   *)
(* an offset with fewer than beta_merge end with one code, one length and  *)
(* one text, for all of them and for no other, and the rest is as          *)
(* token_new made it; a token that shares its offset with no other is      *)
(* marked as merged only at the first offset, or where the buffer of the   *)
(* text held something before: for any payloads and tokens.                *)
THEOREM MergedCorrect == Spec => []MergedRight
<1>1. MergedSoFar => MergedRight
  <2> SUFFICES ASSUME MergedSoFar, pc = "positioned", OneOffsetEach, NEW t \in DOMAIN trie
               PROVE  LET merging == { o \in Shared(t) : Cardinality(Sharing(o)) < beta_merge }
                          alike   == { u \in DOMAIN trie : trie[u].replacement = trie[t].replacement }
                      IN  /\ merging = {} =>
                               /\ trie[t].merge_token = NULL /\ alike = { t }
                               /\ trie[t].position_specific # "PS_MERGE"
                          /\ \A o \in merging :
                               /\ ToSet(trie[t].merge_token.variants) = Sharing(o) /\ alike = Sharing(o)
                               /\ trie[t].shortest_len = Least({ Len(u) : u \in Sharing(o) })
                               /\ trie[t].merge_token.begin <=> o = 0
                               /\ trie[t].position_specific = "PS_MERGE" <=>
                                    o = 0 \/ Cardinality(Sharing(o)) > 1 \/ trie[t].merge_token.junk
    BY DEF MergedRight
  <2>1. /\ offsets = {}
        /\ Merging(t) = {} => NotMerged(t)
        /\ \A o \in Merging(t) : MergedAt(t, o)
    BY DEF MergedSoFar
  <2>2. Merging(t) = { o \in Shared(t) : Cardinality(Sharing(o)) < beta_merge }
    BY <2>1 DEF Merging
  <2> QED BY <2>1, <2>2 DEF NotMerged, MergedAt, Alike
<1> QED BY <1>1, MergedInvariant, PTL

-----------------------------------------------------------------------------
(* The bytes that product_distribution_main counts.                        *)

\* Where SinglesRight applies.
Measured == payloads # << >>

LEMMA VisitsOffsets ==
  /\ VisitedOffsets \in SUBSET Nat /\ num_bytes \in Nat /\ num_bytes \notin VisitedOffsets
  /\ 0 \in VisitedOffsets /\ \A o \in VisitedOffsets : o < num_bytes
  /\ \A n \in Nat : Visits(n) <=> n \in VisitedOffsets
<1>1. /\ first_bytes \in Nat \ { 0 } /\ last_bytes \in Nat /\ num_bytes \in Nat
      /\ first_bytes <= num_bytes - last_bytes
  BY BytesAssumption
<1>2. \A n : n \in VisitedOffsets <=> n \in 0..(first_bytes - 1) \/ n \in (num_bytes - last_bytes)..(num_bytes - 1)
  BY DEF VisitedOffsets
<1>3. ASSUME NEW n \in VisitedOffsets PROVE n \in Nat /\ n < num_bytes
  <2>1. CASE n \in 0..(first_bytes - 1)
    BY <1>1, <2>1
  <2>2. CASE n \in (num_bytes - last_bytes)..(num_bytes - 1)
    BY <1>1, <2>2
  <2> QED BY <1>2, <2>1, <2>2
<1>4. 0 \in 0..(first_bytes - 1)
  BY <1>1
<1>5. ASSUME NEW n \in Nat PROVE Visits(n) <=> n \in VisitedOffsets
  <2>1. n < first_bytes <=> n \in 0..(first_bytes - 1)
    BY <1>1
  <2>2. n >= num_bytes - last_bytes /\ n < num_bytes <=> n \in (num_bytes - last_bytes)..(num_bytes - 1)
    BY <1>1
  <2> QED BY <1>2, <2>1, <2>2 DEF Visits
<1>6. num_bytes \notin VisitedOffsets
  BY <1>1, <1>3
<1> QED BY <1>1, <1>2, <1>3, <1>4, <1>5, <1>6

LEMMA NextOffset ==
  ASSUME NEW n \in VisitedOffsets
  PROVE  /\ NextIndex(n) \in VisitedOffsets \cup { num_bytes }
         /\ \A o \in VisitedOffsets : o < NextIndex(n) <=> o < n \/ o = n
<1>1. /\ first_bytes \in Nat \ { 0 } /\ last_bytes \in Nat /\ num_bytes \in Nat
      /\ first_bytes <= num_bytes - last_bytes
  BY BytesAssumption
<1>2. \A o : o \in VisitedOffsets <=> o \in 0..(first_bytes - 1) \/ o \in (num_bytes - last_bytes)..(num_bytes - 1)
  BY DEF VisitedOffsets
<1>3. CASE n = first_bytes - 1
  <2>1. NextIndex(n) = num_bytes - last_bytes
    BY <1>3 DEF NextIndex
  <2>2. num_bytes - last_bytes \in (num_bytes - last_bytes)..(num_bytes - 1) \/ num_bytes - last_bytes = num_bytes
    BY <1>1
  <2>3. ASSUME NEW o \in VisitedOffsets PROVE o < num_bytes - last_bytes <=> o < n \/ o = n
    <3>1. CASE o \in 0..(first_bytes - 1)
      BY <1>1, <1>3, <3>1
    <3>2. CASE o \in (num_bytes - last_bytes)..(num_bytes - 1)
      BY <1>1, <1>3, <3>2
    <3> QED BY <1>2, <3>1, <3>2
  <2> QED BY <1>2, <2>1, <2>2, <2>3
<1>4. CASE n # first_bytes - 1
  <2>1. NextIndex(n) = n + 1 /\ n \in Nat
    BY <1>4, VisitsOffsets DEF NextIndex
  <2>2. n + 1 \in 0..(first_bytes - 1) \/ n + 1 \in (num_bytes - last_bytes)..(num_bytes - 1) \/ n + 1 = num_bytes
    <3>1. CASE n \in 0..(first_bytes - 1)
      BY <1>1, <1>4, <3>1
    <3>2. CASE n \in (num_bytes - last_bytes)..(num_bytes - 1)
      BY <1>1, <3>2
    <3> QED BY <1>2, <3>1, <3>2
  <2>3. \A o \in VisitedOffsets : o < n + 1 <=> o < n \/ o = n
    <3>1. \A o \in VisitedOffsets : o \in Nat
      BY VisitsOffsets
    <3> QED BY <2>1, <3>1
  <2> QED BY <1>2, <2>1, <2>2, <2>3
<1> QED BY <1>3, <1>4

\* The values at an offset of the payloads that were counted there so far.
Values(o, n, i) ==
  { payloads[q][o + 1] : q \in { p \in DOMAIN payloads : (p < n \/ (p = n /\ o < i)) /\ o < Len(payloads[p]) } }

\* What the values D that were counted at an offset have to do with V, those
\* that the payloads have there.
Sample(D, V, o) ==
  IF o = Len(payloads[1]) THEN \E byte \in Past : D = V \cup { byte } ELSE D = V

LEMMA SampleMore ==
  ASSUME NEW D, NEW V, NEW o, NEW x, Sample(D, V, o)
  PROVE  Sample(D \cup { x }, V \cup { x }, o)
<1>1. CASE o = Len(payloads[1])
  <2>1. PICK byte \in Past : D = V \cup { byte }
    BY <1>1 DEF Sample
  <2>2. D \cup { x } = (V \cup { x }) \cup { byte }
    BY <2>1
  <2> QED BY <1>1, <2>2 DEF Sample
<1>2. CASE o # Len(payloads[1])
  BY <1>2 DEF Sample
<1> QED BY <1>1, <1>2

LEMMA ValuesBytes ==
  ASSUME Given, NEW o \in Nat, NEW n, NEW i
  PROVE  /\ Values(o, n, i) \subseteq ValuesAt(o) /\ ValuesAt(o) \in SUBSET (1..255)
         /\ IsFiniteSet(ValuesAt(o)) /\ Cardinality(ValuesAt(o)) \in Nat
<1>1. ASSUME NEW p \in DOMAIN payloads, o < Len(payloads[p])
      PROVE  payloads[p][o + 1] \in 1..255
  <2> DEFINE w == payloads[p]
  <2>1. w \in Text
    BY GivenTexts
  <2> HIDE DEF w
  <2>2. Len(w) \in Nat /\ o < Len(w)
    BY <1>1, <2>1, TextChars DEF w
  <2>3. o + 1 \in 1..Len(w)
    BY <2>2
  <2>4. w[o + 1] \in 1..255
    BY <2>1, <2>3, TextChars
  <2> QED BY <2>4 DEF w
<1>2. ValuesAt(o) \in SUBSET (1..255)
  BY <1>1 DEF ValuesAt
<1>3. Values(o, n, i) \subseteq ValuesAt(o)
  BY DEF Values, ValuesAt
<1>4. IsFiniteSet(ValuesAt(o))
  <2>1. PICK k \in Nat : k = 255
    OBVIOUS
  <2>2. IsFiniteSet(1..255)
    <3>1. IsFiniteSet(1..k)
      BY FS_Interval
    <3> QED BY <2>1, <3>1, Zenon
  <2> QED BY <1>2, <2>2, FS_Subset
<1> QED BY <1>2, <1>3, <1>4, FS_CardinalityType

Positions == { "flows", "traverse", "fix", "search", "merge", "positioned" }

PlainKinds == { "PS_ORDINARY", "PS_NOT_MERGE", "PS_MERGE" }

Starting ==
  /\ bytes = [offset |-> bytes.offset, left |-> bytes.left]
  /\ pc \in Positions => nth = 1 /\ index = 0 /\ DOMAIN offset_distribution = {}
  /\ pc \in Positions \cup { "count" } =>
       bytes.left = {} /\ \A t \in DOMAIN trie : trie[t].position_specific \in PlainKinds

\* The offsets of the first payload before index, or all.
Visited == IF nth = 1 THEN { o \in VisitedOffsets : o < index } ELSE VisitedOffsets

CountedRight ==
  pc = "count" =>
    /\ nth \in Nat \ { 0 } /\ index \in VisitedOffsets \cup { num_bytes }
    /\ Measured =>
         /\ DOMAIN offset_distribution = Visited
         /\ \A o \in Visited : Sample(DOMAIN offset_distribution[o], Values(o, nth, index), o)

LEMMA CountByteRight ==
  ASSUME Given, CountedRight, CountByte, pc' = "count"
  PROVE  CountedRight'
<1> DEFINE length == Len(payloads[nth])
           known  == index \in DOMAIN offset_distribution
           byte   == payloads[nth][index + 1]
<1>1. /\ pc = "count" /\ nth <= Len(payloads) /\ Visits(index) /\ index' = NextIndex(index)
      /\ nth' = nth /\ payloads' = payloads
      /\ \/ index < length /\ Counted(byte)
         \/ index >= length /\ known /\ offset_distribution' = offset_distribution
         \/ index = length /\ ~ known /\ (\E b \in Past : Counted(b))
  BY DEF CountByte, inputVars
<1>2. nth \in Nat \ { 0 } /\ index \in VisitedOffsets \cup { num_bytes }
  BY <1>1 DEF CountedRight
<1>3. index \in VisitedOffsets /\ index \in Nat
  BY <1>1, <1>2, VisitsOffsets
<1>4. /\ index' \in VisitedOffsets \cup { num_bytes }
      /\ \A o \in VisitedOffsets : o < index' <=> o < index \/ o = index
  BY <1>1, <1>3, NextOffset
<1>5. Len(payloads) \in Nat /\ DOMAIN payloads = 1..Len(payloads)
  BY GivenTexts
<1>6. nth \in DOMAIN payloads
  BY <1>1, <1>2, <1>5
<1>7. SUFFICES ASSUME Measured
               PROVE  /\ DOMAIN offset_distribution' = Visited'
                      /\ \A o \in Visited' : Sample(DOMAIN offset_distribution'[o], Values(o, nth, index'), o)
  <2>1. Measured' <=> Measured
    BY <1>1 DEF Measured
  <2>2. \A o : Values(o, nth, index)' = Values(o, nth, index')
    BY <1>1 DEF Values
  <2>3. \A o : Sample(DOMAIN offset_distribution[o], Values(o, nth, index), o)'
                <=> Sample(DOMAIN offset_distribution'[o], Values(o, nth, index'), o)
    BY <1>1, <2>2 DEF Sample
  <2> QED BY <1>1, <1>2, <1>4, <2>1, <2>3 DEF CountedRight
<1>8. /\ DOMAIN offset_distribution = Visited
      /\ \A o \in Visited : Sample(DOMAIN offset_distribution[o], Values(o, nth, index), o)
  BY <1>1, <1>7 DEF CountedRight
<1>9. Visited' = Visited \cup { index } /\ Visited \in SUBSET VisitedOffsets
  BY <1>1, <1>3, <1>4 DEF Visited
<1>10. \A o \in VisitedOffsets : o # index => Values(o, nth, index') = Values(o, nth, index)
  BY <1>4 DEF Values
<1>11. ~ known => nth = 1
  BY <1>3, <1>8 DEF Visited
<1>12. ~ known => Values(index, nth, index) = {}
  <2> SUFFICES ASSUME ~ known, NEW p \in DOMAIN payloads, p < nth \/ (p = nth /\ index < index) PROVE FALSE
    BY DEF Values
  <2>1. nth = 1
    BY <1>11
  <2> QED BY <1>3, <1>5, <2>1
<1>12a. ~ known => length = Len(payloads[1])
  BY <1>11
<1>13. CASE index < length /\ Counted(byte)
  <2> DEFINE d == Distributed(index)
             e == Plus1(d, byte)
  <2>1. offset_distribution' = With(offset_distribution, index, e)
    BY <1>13 DEF Counted
  <2>2. Sample(DOMAIN d, Values(index, nth, index), index)
    <3>1. CASE known
      <4>1. d = offset_distribution[index]
        BY <3>1 DEF Distributed
      <4> QED BY <1>8, <3>1, <4>1
    <3>2. CASE ~ known
      <4>1. d = Nothing
        BY <3>2 DEF Distributed
      <4>2. DOMAIN d = {}
        BY <4>1 DEF Nothing
      <4>3. index # Len(payloads[1])
        <5>1. payloads[nth] \in Text
          BY <1>5, <1>6, GivenTexts
        <5>2. length \in Nat
          BY <5>1, TextChars
        <5>3. index # length
          BY <1>3, <1>13, <5>2
        <5> QED BY <1>12a, <3>2, <5>3
      <4> QED BY <1>12, <3>2, <4>2, <4>3 DEF Sample
    <3> QED BY <3>1, <3>2
  <2> HIDE DEF d
  <2>3. DOMAIN e = DOMAIN d \cup { byte }
    BY DEF Plus1, With
  <2> HIDE DEF e
  <2>4. /\ DOMAIN offset_distribution' = Visited \cup { index } /\ offset_distribution'[index] = e
        /\ \A o \in Visited : o # index => offset_distribution'[o] = offset_distribution[o]
    BY <1>8, <2>1 DEF With
  <2>5. Values(index, nth, index') = Values(index, nth, index) \cup { byte }
    <3>1. index < index'
      BY <1>3, <1>4
    <3>2. ~ index < index
      BY <1>3
    <3>3. \A p \in DOMAIN payloads :
            ((p < nth \/ (p = nth /\ index < index')) /\ index < Len(payloads[p]))
              <=> (((p < nth \/ (p = nth /\ index < index)) /\ index < Len(payloads[p])) \/ p = nth)
      BY <1>13, <3>1, <3>2
    <3> QED BY <1>6, <3>3 DEF Values
  <2>6. Sample(DOMAIN e, Values(index, nth, index'), index)
    <3>1. Sample(DOMAIN d \cup { byte }, Values(index, nth, index) \cup { byte }, index)
      BY <2>2, SampleMore
    <3> HIDE DEF byte
    <3> QED BY <2>3, <2>5, <3>1, Zenon
  <2> QED BY <1>8, <1>9, <1>10, <2>4, <2>6
<1>14. CASE index >= length /\ known /\ offset_distribution' = offset_distribution
  <2>1. Visited' = Visited
    BY <1>8, <1>9, <1>14
  <2>2. length \in Nat /\ ~ index < length
    <3>1. payloads[nth] \in Text
      BY <1>5, <1>6, GivenTexts
    <3>2. length \in Nat
      BY <3>1, TextChars
    <3> QED BY <1>3, <1>14, <3>2
  <2>3. Values(index, nth, index') = Values(index, nth, index)
    BY <2>2 DEF Values
  <2> QED BY <1>8, <1>9, <1>10, <1>14, <2>1, <2>3
<1>15. CASE index = length /\ ~ known /\ (\E b \in Past : Counted(b))
  <2>1. PICK b \in Past : Counted(b)
    BY <1>15
  <2> DEFINE d == Distributed(index)
             e == Plus1(d, b)
  <2>2. offset_distribution' = With(offset_distribution, index, e)
    BY <2>1 DEF Counted
  <2>3. DOMAIN d = {}
    BY <1>15 DEF Distributed, Nothing
  <2> HIDE DEF d
  <2>4. DOMAIN e = { b }
    BY <2>3 DEF Plus1, With
  <2> HIDE DEF e
  <2>5. /\ DOMAIN offset_distribution' = Visited \cup { index } /\ offset_distribution'[index] = e
        /\ \A o \in Visited : o # index => offset_distribution'[o] = offset_distribution[o]
    BY <1>8, <2>2 DEF With
  <2>6. Values(index, nth, index') = {}
    <3>1. nth = 1 /\ length = Len(payloads[1])
      BY <1>11, <1>12a, <1>15
    <3>2. ~ index < Len(payloads[1])
      BY <1>3, <1>15, <3>1
    <3>3. \A p \in DOMAIN payloads : ~ p < 1
      BY <1>5
    <3> QED BY <3>1, <3>2, <3>3 DEF Values
  <2>7. Sample(DOMAIN e, Values(index, nth, index'), index)
    <3>1. index = Len(payloads[1])
      BY <1>12a, <1>15
    <3>2. { b } = {} \cup { b }
      OBVIOUS
    <3> QED BY <2>1, <2>4, <2>6, <3>1, <3>2 DEF Sample
  <2> QED BY <1>8, <1>9, <1>10, <2>5, <2>7
<1> QED BY <1>1, <1>13, <1>14, <1>15

LEMMA CountNextRight ==
  ASSUME Given, CountedRight, CountNextPayload
  PROVE  CountedRight'
<1>1. /\ pc = "count" /\ pc' = pc /\ ~ Visits(index) /\ nth' = nth + 1 /\ index' = 0
      /\ payloads' = payloads /\ offset_distribution' = offset_distribution
  BY DEF CountNextPayload, inputVars
<1>2. nth \in Nat \ { 0 } /\ index \in VisitedOffsets \cup { num_bytes }
  BY <1>1 DEF CountedRight
<1>3. index = num_bytes
  BY <1>1, <1>2, VisitsOffsets
<1>4. Visited = VisitedOffsets /\ Visited' = VisitedOffsets
  <2>1. nth + 1 # 1
    BY <1>2
  <2>2. \A o \in VisitedOffsets : o < index
    BY <1>3, VisitsOffsets
  <2> QED BY <1>1, <2>1, <2>2 DEF Visited
<1>5. ASSUME NEW o \in VisitedOffsets PROVE Values(o, nth + 1, 0) = Values(o, nth, index)
  <2>1. o < index /\ ~ o < 0
    BY <1>3, VisitsOffsets
  <2>2. \A p \in DOMAIN payloads : p \in Int
    BY GivenTexts
  <2>3. \A p \in DOMAIN payloads :
          (p < nth + 1 \/ (p = nth + 1 /\ o < 0)) <=> (p < nth \/ (p = nth /\ o < index))
    BY <1>2, <2>1, <2>2
  <2> QED BY <2>3 DEF Values
<1>6. Measured' <=> Measured
  BY <1>1 DEF Measured
<1>7. \A o : Values(o, nth, index)' = Values(o, nth + 1, 0)
  BY <1>1 DEF Values
<1>8. Measured =>
        /\ DOMAIN offset_distribution = VisitedOffsets
        /\ \A o \in VisitedOffsets : Sample(DOMAIN offset_distribution[o], Values(o, nth, index), o)
  BY <1>1, <1>4 DEF CountedRight
<1>9. ASSUME NEW o \in VisitedOffsets
      PROVE  Sample(DOMAIN offset_distribution[o], Values(o, nth, index), o)'
               <=> Sample(DOMAIN offset_distribution[o], Values(o, nth, index), o)
  BY <1>1, <1>5, <1>7 DEF Sample
<1> QED BY <1>1, <1>2, <1>4, <1>6, <1>8, <1>9, VisitsOffsets DEF CountedRight

-----------------------------------------------------------------------------
(* The tokens of one byte.                                                 *)

\* The bytes of which the token was made.
Taken ==
  { s \in Singles : s[2] \notin offsets /\ ~ (s[2] = bytes.offset /\ s[1] \in bytes.left) }

TakenFor(t) == { s \in Taken : single_token(s[1], s[2]) = t }

TokenTaken(t) ==
  IF TakenFor(t) = {} THEN trie[t].position_specific \in PlainKinds
  ELSE /\ trie[t].position_specific = Kind(t)
       /\ \E s \in TakenFor(t) : trie[t].offset_occurrence = Once(s[2])

ExtractedRight ==
  pc \in { "extract", "extracted" } /\ Measured =>
    /\ DOMAIN offset_distribution = VisitedOffsets
    /\ \A o \in VisitedOffsets : SampleOf(o)
    /\ offsets \subseteq VisitedOffsets
    /\ \A byte \in bytes.left : << byte, bytes.offset >> \in Singles /\ bytes.offset \notin offsets
    /\ \A s \in Taken : single_token(s[1], s[2]) \in DOMAIN trie /\ single_token(s[1], s[2]) # << >>
    /\ \A t \in DOMAIN trie : TokenTaken(t)
    /\ pc = "extracted" => offsets = {} /\ bytes.left = {}

LEMMA SinglesPairs ==
  ASSUME NEW s
  PROVE  s \in Singles <=>
           \E o \in VisitedOffsets : \E byte \in DOMAIN offset_distribution[o] :
             Cardinality(DOMAIN offset_distribution[o]) <= gamma_merge /\ s = << byte, o >>
BY DEF Singles

LEMMA SampleSize ==
  ASSUME Given, NEW o \in Nat, SampleOf(o)
  PROVE  Cardinality(DOMAIN offset_distribution[o]) \in Nat
<1>1. IsFiniteSet(ValuesAt(o))
  BY ValuesBytes
<1>2. IsFiniteSet(DOMAIN offset_distribution[o])
  <2>1. CASE o = Len(payloads[1])
    <3>1. PICK byte \in Past : DOMAIN offset_distribution[o] = ValuesAt(o) \cup { byte }
      BY <2>1 DEF SampleOf
    <3> QED BY <1>1, <3>1, FS_AddElement
  <2>2. CASE o # Len(payloads[1])
    BY <1>1, <2>2 DEF SampleOf
  <2> QED BY <2>1, <2>2
<1> QED BY <1>2, FS_CardinalityType

LEMMA PairOf ==
  ASSUME NEW a, NEW b
  PROVE  << a >> \o << >> = << a >> /\ << >> \o << a >> = << a >> /\ << a >> \o << b >> = << a, b >>
<1> DEFINE S == { a, b }
           one == << a >> \o << b >>
           two == << a, b >>
<1>1. << a >> \in Seq(S) /\ << b >> \in Seq(S)
  OBVIOUS
<1>2. << a >> \o << >> = << a >> /\ << >> \o << a >> = << a >>
  BY <1>1, ConcatEmptySeq
<1>3. one \in Seq(S) /\ Len(one) = 2 /\ one[1] = a /\ one[2] = b
  <2>1. Len(<< a >>) = 1 /\ Len(<< b >>) = 1 /\ << a >>[1] = a /\ << b >>[1] = b
    OBVIOUS
  <2> QED BY <1>1, <2>1, ConcatProperties
<1>4. two \in Seq(S) /\ Len(two) = 2 /\ two[1] = a /\ two[2] = b
  OBVIOUS
<1> HIDE DEF S, one
<1>5. \A i \in 1..2 : i = 1 \/ i = 2
  OBVIOUS
<1>6. one = two
  <2> HIDE DEF two
  <2> QED BY <1>3, <1>4, <1>5, SeqEqual
<1> QED BY <1>2, <1>6 DEF one

\* Where the byte is neither of the marks, its token looks like its offset.
LEMMA KindOfSingle ==
  ASSUME NEW byte, NEW o, byte \notin { Hat, Dollar }, single_token(byte, o) # << >>
  PROVE  Kind(single_token(byte, o)) = PositionKind(o)
<1> DEFINE text == single_token(byte, o)
<1>1. Raw(byte) = << >> \/ Raw(byte) = << byte >>
  BY DEF Raw
<1>2. CASE o = 0
  <2>1. text = << Hat >> \o Raw(byte)
    BY <1>2 DEF single_token
  <2>2. text = << Hat >> \/ text = << Hat, byte >>
    BY <1>1, <2>1, PairOf
  <2>3. text[1] = Hat
    BY <2>2
  <2> QED BY <1>2, <2>3 DEF Kind, PositionKind
<1>3. CASE o # 0 /\ o = num_bytes - 1
  <2>1. text = Raw(byte) \o << Dollar >>
    BY <1>3 DEF single_token
  <2>2. text = << Dollar >> \/ text = << byte, Dollar >>
    BY <1>1, <2>1, PairOf
  <2>3. text[1] # Hat /\ text[Len(text)] = Dollar
    BY <2>2 DEF Hat, Dollar
  <2> QED BY <1>3, <2>3 DEF Kind, PositionKind
<1>4. CASE o # 0 /\ o # num_bytes - 1
  <2>1. text = << byte >>
    BY <1>1, <1>4 DEF single_token
  <2>2. text[1] # Hat /\ text[Len(text)] # Dollar
    BY <2>1
  <2> QED BY <1>4, <2>2 DEF Kind, PositionKind
<1> QED BY <1>2, <1>3, <1>4

LEMMA CountDoneExtracted ==
  ASSUME Given, Starting, CountedRight, CountDone
  PROVE  ExtractedRight'
<1>1. /\ pc = "count" /\ nth > Len(payloads) /\ offsets' = DOMAIN offset_distribution
      /\ pc' = "extract" /\ payloads' = payloads /\ offset_distribution' = offset_distribution
      /\ bytes' = bytes /\ trie' = trie
  BY DEF CountDone, inputVars, trieVars, productVars
<1>2. /\ bytes.left = {} /\ \A t \in DOMAIN trie : trie[t].position_specific \in PlainKinds
      /\ nth \in Nat \ { 0 }
  BY <1>1 DEF Starting, CountedRight
<1>3. Measured' <=> Measured
  BY <1>1 DEF Measured
<1>4. SUFFICES ASSUME Measured PROVE ExtractedRight'
  BY <1>1, <1>3 DEF ExtractedRight
<1>5. Len(payloads) \in Nat /\ DOMAIN payloads = 1..Len(payloads) /\ Len(payloads) # 0
  <2>1. payloads # << >> /\ payloads \in Seq(Text \ { << >> })
    BY <1>4 DEF Measured, Given
  <2> QED BY <2>1, GivenTexts, EmptySeq
<1>6. DOMAIN offset_distribution = VisitedOffsets
      /\ \A o \in VisitedOffsets : Sample(DOMAIN offset_distribution[o], Values(o, nth, index), o)
  <2>1. nth # 1
    BY <1>1, <1>5
  <2> QED BY <1>1, <1>4, <2>1 DEF CountedRight, Visited
<1>7. \A o : Values(o, nth, index) = ValuesAt(o)
  <2>1. \A p \in DOMAIN payloads : p < nth
    BY <1>1, <1>2, <1>5
  <2> QED BY <2>1 DEF Values, ValuesAt
<1>8. Singles' = Singles /\ \A o \in VisitedOffsets : SampleOf(o)'
  <2>1. Singles' = Singles /\ \A o : SampleOf(o)' <=> SampleOf(o)
    BY <1>1 DEF Singles, SampleOf, ValuesAt
  <2>2. \A o \in VisitedOffsets : SampleOf(o)
    BY <1>6, <1>7 DEF Sample, SampleOf
  <2> QED BY <2>1, <2>2
<1>9. \A s \in Singles : s[2] \in VisitedOffsets
  BY SinglesPairs
<1>10. Taken' = {}
  BY <1>1, <1>6, <1>8, <1>9 DEF Taken
<1>11. \A t \in DOMAIN trie' : TokenTaken(t)'
  BY <1>1, <1>2, <1>10 DEF TokenTaken, TakenFor
<1> QED BY <1>1, <1>2, <1>6, <1>8, <1>10, <1>11 DEF ExtractedRight

LEMMA ExtractOffsetExtracted ==
  ASSUME Given, Starting, ExtractedRight, NEW o \in offsets, ExtractOffset(o)
  PROVE  ExtractedRight'
<1> DEFINE left == IF Cardinality(DOMAIN offset_distribution[o]) > gamma_merge
                     THEN {} ELSE DOMAIN offset_distribution[o]
<1>1. /\ pc = "extract" /\ pc' = pc /\ bytes.left = {} /\ offsets' = offsets \ { o }
      /\ bytes' = [offset |-> o, left |-> left]
      /\ payloads' = payloads /\ trie' = trie /\ offset_distribution' = offset_distribution
  BY DEF ExtractOffset, inputVars, trieVars
<1>2. Measured' <=> Measured
  BY <1>1 DEF Measured
<1>3. SUFFICES ASSUME Measured PROVE ExtractedRight'
  BY <1>1, <1>2 DEF ExtractedRight
<1>4. /\ DOMAIN offset_distribution = VisitedOffsets
      /\ \A q \in VisitedOffsets : SampleOf(q)
      /\ offsets \subseteq VisitedOffsets
      /\ \A s \in Taken : single_token(s[1], s[2]) \in DOMAIN trie /\ single_token(s[1], s[2]) # << >>
      /\ \A t \in DOMAIN trie : TokenTaken(t)
  BY <1>1, <1>3 DEF ExtractedRight
<1>5. o \in VisitedOffsets /\ o \in Nat
  BY <1>4, VisitsOffsets
<1> DEFINE values == DOMAIN offset_distribution[o]
<1>6. Cardinality(values) \in Nat /\ gamma_merge \in Nat
  BY <1>4, <1>5, SampleSize, BytesAssumption
<1>7. left = IF Cardinality(values) <= gamma_merge THEN values ELSE {}
  <2> DEFINE n == Cardinality(values)
  <2>1. left = IF n > gamma_merge THEN {} ELSE values
    OBVIOUS
  <2> HIDE DEF n, left
  <2>2. n > gamma_merge <=> ~ n <= gamma_merge
    BY <1>6 DEF n
  <2> QED BY <2>1, <2>2 DEF n
<1> HIDE DEF left
<1>8. bytes'.offset = o /\ bytes'.left = left
  BY <1>1
<1>9. Singles' = Singles /\ \A q : SampleOf(q)' <=> SampleOf(q)
  BY <1>1 DEF Singles, SampleOf, ValuesAt
<1>10. \A byte : << byte, o >> \in Singles <=> byte \in left
  BY <1>5, <1>7, SinglesPairs
<1>11. Taken = { s \in Singles : s[2] \notin offsets }
  BY <1>1 DEF Taken
<1>12. Taken' = { s \in Singles : s[2] \notin offsets' /\ ~ (s[2] = o /\ s[1] \in left) }
  BY <1>8, <1>9 DEF Taken
<1>13. Taken' = Taken
  <2>1. ASSUME NEW s \in Singles
        PROVE  s[2] \notin offsets <=> s[2] \notin offsets' /\ ~ (s[2] = o /\ s[1] \in left)
    <3>1. s = << s[1], s[2] >>
      BY SinglesPairs
    <3>2. s[2] = o => s[1] \in left
      BY <1>10, <3>1
    <3> QED BY <1>1, <3>2
  <2> QED BY <1>11, <1>12, <2>1
<1>14. \A t \in DOMAIN trie : TokenTaken(t)' <=> TokenTaken(t)
  BY <1>1, <1>13 DEF TokenTaken, TakenFor
<1>15. \A byte \in bytes'.left : << byte, bytes'.offset >> \in Singles' /\ bytes'.offset \notin offsets'
  BY <1>1, <1>8, <1>9, <1>10
<1> QED BY <1>1, <1>4, <1>9, <1>13, <1>14, <1>15 DEF ExtractedRight

LEMMA ExtractByteExtracted ==
  ASSUME Given, Starting, ExtractedRight, NEW byte \in bytes.left, ExtractByte(byte), pc' = "extract"
  PROVE  ExtractedRight'
<1> DEFINE o == bytes.offset
           text == single_token(byte, o)
           one == << byte, o >>
           new == NewToken(text, o, Kind(text))
<1>1. /\ pc = "extract" /\ offsets' = offsets /\ bytes' = [bytes EXCEPT !.left = @ \ { byte }]
      /\ payloads' = payloads /\ offset_distribution' = offset_distribution
      /\ text # << >> /\ token_new(text, o, Kind(text))
  BY DEF ExtractByte, inputVars, loopVars
<1>2. bytes'.offset = o /\ bytes'.left = bytes.left \ { byte }
  <2>1. bytes = [offset |-> o, left |-> bytes.left]
    BY DEF Starting
  <2> QED BY <1>1, <2>1
<1>3. trie' = With(trie, text, new)
  BY <1>1, TokenNewEffect
<1>4. new.position_specific = Kind(text) /\ new.offset_occurrence = Once(o)
  BY NewTokenFields
<1> HIDE DEF new
<1>5. /\ DOMAIN trie' = DOMAIN trie \cup { text } /\ trie'[text] = new
      /\ \A t \in DOMAIN trie : t # text => trie'[t] = trie[t]
  BY <1>3 DEF With
<1>6. Measured' <=> Measured
  BY <1>1 DEF Measured
<1>7. SUFFICES ASSUME Measured PROVE ExtractedRight'
  BY <1>1, <1>6 DEF ExtractedRight
<1>8. /\ DOMAIN offset_distribution = VisitedOffsets
      /\ \A q \in VisitedOffsets : SampleOf(q)
      /\ offsets \subseteq VisitedOffsets
      /\ \A b \in bytes.left : << b, o >> \in Singles /\ o \notin offsets
      /\ \A s \in Taken : single_token(s[1], s[2]) \in DOMAIN trie /\ single_token(s[1], s[2]) # << >>
      /\ \A t \in DOMAIN trie : TokenTaken(t)
  BY <1>1, <1>7 DEF ExtractedRight
<1>9. Singles' = Singles /\ \A q : SampleOf(q)' <=> SampleOf(q)
  BY <1>1 DEF Singles, SampleOf, ValuesAt
<1>10. one \in Singles /\ one[1] = byte /\ one[2] = o /\ o \notin offsets
  BY <1>8
<1>11. Taken' = Taken \cup { one }
  <2>1. Taken' = { s \in Singles : s[2] \notin offsets /\ ~ (s[2] = o /\ s[1] \in bytes.left \ { byte }) }
    BY <1>1, <1>2, <1>9 DEF Taken
  <2>2. Taken = { s \in Singles : s[2] \notin offsets /\ ~ (s[2] = o /\ s[1] \in bytes.left) }
    BY DEF Taken
  <2>3. \A s \in Singles : s = << s[1], s[2] >>
    BY SinglesPairs
  <2>4. \A s \in Singles : s[2] = o /\ s[1] = byte => s = one
    BY <2>3
  <2> QED BY <1>10, <2>1, <2>2, <2>4
<1> HIDE DEF one
<1>12. \A s \in Taken' : single_token(s[1], s[2]) \in DOMAIN trie' /\ single_token(s[1], s[2]) # << >>
  BY <1>1, <1>5, <1>8, <1>10, <1>11
<1>13. ASSUME NEW t \in DOMAIN trie' PROVE TokenTaken(t)'
  <2>1. TakenFor(t)' = { s \in Taken \cup { one } : single_token(s[1], s[2]) = t }
    BY <1>11 DEF TakenFor
  <2>2. TokenTaken(t)' <=>
          IF TakenFor(t)' = {} THEN trie'[t].position_specific \in PlainKinds
          ELSE /\ trie'[t].position_specific = Kind(t)
               /\ \E s \in TakenFor(t)' : trie'[t].offset_occurrence = Once(s[2])
    BY DEF TokenTaken, TakenFor, Kind
  <2>3. CASE t = text
    <3>1. one \in TakenFor(t)'
      BY <1>10, <2>1, <2>3
    <3>2. trie'[t].position_specific = Kind(t) /\ trie'[t].offset_occurrence = Once(one[2])
      BY <1>4, <1>5, <1>10, <2>3
    <3> HIDE DEF text
    <3> QED BY <2>2, <3>1, <3>2
  <2>4. CASE t # text
    <3>1. TakenFor(t)' = TakenFor(t)
      BY <1>10, <2>1, <2>4 DEF TakenFor
    <3>2. t \in DOMAIN trie /\ trie'[t] = trie[t]
      BY <1>5, <2>4
    <3> HIDE DEF text
    <3> QED BY <1>8, <2>2, <3>1, <3>2 DEF TokenTaken
  <2> QED BY <2>3, <2>4
<1>14. \A b \in bytes'.left : << b, bytes'.offset >> \in Singles' /\ bytes'.offset \notin offsets'
  BY <1>1, <1>2, <1>8, <1>9
<1> HIDE DEF text
<1> QED BY <1>1, <1>8, <1>9, <1>12, <1>13, <1>14 DEF ExtractedRight

LEMMA ExtractedStays ==
  ASSUME ExtractedRight, payloads' = payloads, trie' = trie, offsets' = offsets, bytes' = bytes,
         offset_distribution' = offset_distribution,
         pc' = pc \/ (pc = "extract" /\ pc' = "extracted" /\ offsets = {} /\ bytes.left = {})
  PROVE  ExtractedRight'
<1>1. Measured' <=> Measured
  BY DEF Measured
<1>2. Singles' = Singles /\ \A o : SampleOf(o)' <=> SampleOf(o)
  BY DEF Singles, SampleOf, ValuesAt
<1>3. Taken' = Taken
  BY <1>2 DEF Taken
<1>4. \A t : TokenTaken(t)' <=> TokenTaken(t)
  BY <1>3 DEF TokenTaken, TakenFor
<1> QED BY <1>1, <1>2, <1>3, <1>4 DEF ExtractedRight

\* Kinds that are plain stay so in position_constraints_main.
LEMMA PositionStarting ==
  ASSUME Occurring, Starting, position_constraints_main, UNCHANGED productVars
  PROVE  Starting'
<1>1. /\ pc \in Positions /\ pc' \in Positions
      /\ nth' = nth /\ index' = index /\ offset_distribution' = offset_distribution /\ bytes' = bytes
  BY DEF position_constraints_main, FlowNew, FlowsDone, TraverseToken, TraverseDone, FixOffset, FixDone,
         SearchOffsets, SearchDone, MergeVariants, MergeDone, Positions, productVars
<1>2. \A t \in DOMAIN trie : IsToken(trie[t]) /\ trie[t].position_specific \in PlainKinds
  BY <1>1 DEF Starting, Occurring, Codes
<1>3. SUFFICES \A t \in DOMAIN trie' : trie'[t].position_specific \in PlainKinds
  BY <1>1 DEF Starting
<1>4. CASE FlowNew \/ FlowsDone \/ TraverseDone \/ FixDone \/ SearchOffsets \/ SearchDone \/ MergeDone
  <2>1. trie' = trie
    BY <1>4 DEF FlowNew, FlowsDone, TraverseDone, FixDone, SearchOffsets, SearchDone, MergeDone, trieVars
  <2> QED BY <1>2, <2>1
<1>5. CASE TraverseToken
  <2> DEFINE e == Head(todo)
             text == e.token
             offset == e.offset
  <2>1. IF text \in DOMAIN trie THEN token_add(text, offset) ELSE token_new(text, offset, "PS_ORDINARY")
    BY <1>5 DEF TraverseToken
  <2> HIDE DEF text, offset
  <2>2. CASE text \in DOMAIN trie
    <3>1. token_add(text, offset)
      BY <2>1, <2>2
    <3> QED BY <1>2, <2>2, <3>1, TokenAddCodes DEF Occurring
  <2>3. CASE text \notin DOMAIN trie
    <3>1. token_new(text, offset, "PS_ORDINARY")
      BY <2>1, <2>3
    <3> DEFINE new == NewToken(text, offset, "PS_ORDINARY")
    <3>2. trie' = With(trie, text, new)
      BY <3>1, TokenNewEffect
    <3>3. new.position_specific \in PlainKinds
      BY NewTokenFields DEF PlainKinds
    <3> HIDE DEF new
    <3>4. /\ DOMAIN trie' = DOMAIN trie \cup { text } /\ trie'[text] = new
          /\ \A t \in DOMAIN trie : t # text => trie'[t] = trie[t]
      BY <3>2 DEF With
    <3> QED BY <1>2, <3>3, <3>4
  <2> QED BY <2>2, <2>3
<1>6. CASE FixOffset
  <2> DEFINE text == Head(todo)
             fixed == Cardinality(DOMAIN trie[text].offset_occurrence) = 1
             r == [trie[text] EXCEPT !.position_specific = "PS_NOT_MERGE"]
  <2>1. trie' = IF fixed THEN [trie EXCEPT ![text] = r] ELSE trie
    BY <1>6 DEF FixOffset
  <2>2. text \in DOMAIN trie => r.position_specific \in PlainKinds
    BY <1>2, ChangedToken DEF Fields, PlainKinds
  <2> HIDE DEF r, fixed, text
  <2>3. CASE fixed
    <3>1. trie' = [trie EXCEPT ![text] = r]
      BY <2>1, <2>3
    <3> QED BY <1>2, <2>2, <3>1
  <2>4. CASE ~ fixed
    BY <1>2, <2>1, <2>4
  <2> QED BY <2>3, <2>4
<1>7. ASSUME NEW o \in offsets, MergeVariants(o)
      PROVE  \A t \in DOMAIN trie' : trie'[t].position_specific \in PlainKinds
  <2>1. CASE ~ offset_variants[o].num_variants < beta_merge
    BY <1>2, <1>7, <2>1 DEF MergeVariants
  <2>2. CASE offset_variants[o].num_variants < beta_merge
    <3> DEFINE members == ToSet(Variants(o))
    <3>1. DOMAIN trie' = DOMAIN trie
      BY <1>2, <1>7, <2>2, MergeVariantsEffect
    <3>2. PICK junk \in Junk : \A t \in DOMAIN trie :
            IF t \in members THEN trie'[t] = Merged(t, MergedText(o, junk), members) ELSE trie'[t] = trie[t]
      BY <1>2, <1>7, <2>2, MergeVariantsEffect
    <3> HIDE DEF members
    <3>3. ASSUME NEW t \in DOMAIN trie PROVE trie'[t].position_specific \in PlainKinds
      <4> DEFINE m == Merged(t, MergedText(o, junk), members)
      <4>1. m.position_specific = trie[t].position_specific \/ m.position_specific = "PS_MERGE"
        BY <1>2, MergedToken
      <4> HIDE DEF m
      <4>2. trie'[t] = m \/ trie'[t] = trie[t]
        BY <3>2 DEF m
      <4> QED BY <1>2, <4>1, <4>2 DEF PlainKinds
    <3> QED BY <3>1, <3>3
  <2> QED BY <2>1, <2>2
<1> QED BY <1>4, <1>5, <1>6, <1>7 DEF position_constraints_main

Product == Starting /\ CountedRight /\ ExtractedRight

LEMMA ProductProduct ==
  ASSUME Given, Starting, CountedRight, ExtractedRight, product_distribution_main
  PROVE  Product'
<1>1. CASE StartCount
  <2>1. /\ pc = "positioned" /\ pc' = "count" /\ trie' = trie /\ nth' = nth /\ index' = index
        /\ offset_distribution' = offset_distribution /\ bytes' = bytes
    BY <1>1 DEF StartCount, trieVars, productVars
  <2>2. nth = 1 /\ index = 0 /\ DOMAIN offset_distribution = {}
    BY <2>1 DEF Starting, Positions
  <2>3. Starting'
    BY <2>1 DEF Starting, Positions
  <2>4. Visited' = {}
    <3>1. nth' = 1 /\ index' = 0
      BY <2>1, <2>2
    <3>2. \A o \in VisitedOffsets : o \in Nat /\ ~ o < 0
      BY VisitsOffsets
    <3> QED BY <3>1, <3>2 DEF Visited
  <2>5. CountedRight'
    BY <2>1, <2>2, <2>4, VisitsOffsets DEF CountedRight
  <2> QED BY <2>1, <2>3, <2>5 DEF Product, ExtractedRight
<1>2. CASE CountByte
  <2>1. pc = "count" /\ bytes' = bytes /\ trie' = trie /\ pc' \in { "count", "crashed" }
    BY <1>2 DEF CountByte, trieVars
  <2>2. Starting'
    BY <2>1 DEF Starting, Positions
  <2>3. CountedRight'
    BY <1>2, <2>1, CountByteRight DEF CountedRight
  <2> QED BY <2>1, <2>2, <2>3 DEF Product, ExtractedRight
<1>3. CASE CountNextPayload
  <2>1. pc = "count" /\ bytes' = bytes /\ trie' = trie /\ pc' = "count"
    BY <1>3 DEF CountNextPayload, trieVars
  <2>2. Starting'
    BY <2>1 DEF Starting, Positions
  <2> QED BY <1>3, <2>1, <2>2, CountNextRight DEF Product, ExtractedRight
<1>4. CASE CountDone
  <2>1. pc' = "extract" /\ bytes' = bytes
    BY <1>4 DEF CountDone, productVars
  <2>2. Starting' /\ CountedRight'
    BY <2>1 DEF Starting, Positions, CountedRight
  <2> QED BY <1>4, <2>2, CountDoneExtracted DEF Product
<1>5. CASE \E o \in offsets : ExtractOffset(o)
  <2>1. pc' = "extract" /\ bytes' = [offset |-> bytes'.offset, left |-> bytes'.left]
    BY <1>5 DEF ExtractOffset
  <2>2. Starting' /\ CountedRight'
    BY <2>1 DEF Starting, Positions, CountedRight
  <2> QED BY <1>5, <2>2, ExtractOffsetExtracted DEF Product
<1>6. ASSUME NEW byte \in bytes.left, ExtractByte(byte) PROVE Product'
  <2>1. pc' \in { "extract", "crashed" } /\ bytes' = [bytes EXCEPT !.left = bytes.left \ { byte }]
    BY <1>6 DEF ExtractByte
  <2>2. bytes' = [offset |-> bytes'.offset, left |-> bytes'.left]
    <3>1. bytes = [offset |-> bytes.offset, left |-> bytes.left]
      BY DEF Starting
    <3> QED BY <2>1, <3>1
  <2>3. Starting' /\ CountedRight'
    BY <2>1, <2>2 DEF Starting, Positions, CountedRight
  <2>4. ExtractedRight'
    <3>1. CASE pc' = "extract"
      BY <1>6, <3>1, ExtractByteExtracted
    <3>2. CASE pc' = "crashed"
      BY <3>2 DEF ExtractedRight
    <3> QED BY <2>1, <3>1, <3>2
  <2> QED BY <2>3, <2>4 DEF Product
<1>7. CASE ExtractDone
  <2>1. /\ pc = "extract" /\ pc' = "extracted" /\ bytes.left = {} /\ offsets = {} /\ offsets' = offsets
        /\ bytes' = bytes /\ trie' = trie /\ offset_distribution' = offset_distribution
        /\ payloads' = payloads
    BY <1>7 DEF ExtractDone, productVars, loopVars, trieVars, inputVars
  <2>2. Starting' /\ CountedRight'
    BY <2>1 DEF Starting, Positions, CountedRight
  <2>3. ExtractedRight'
    BY <2>1, ExtractedStays
  <2> QED BY <2>2, <2>3 DEF Product
<1> QED
  BY <1>1, <1>2, <1>3, <1>4, <1>5, <1>6, <1>7 DEF product_distribution_main

LEMMA ProductInvariant == Spec => []Product
<1>1. Init => Product
  <2> SUFFICES ASSUME Init PROVE Product
    OBVIOUS
  <2>1. /\ pc = "flows" /\ DOMAIN trie = {} /\ nth = 1 /\ index = 0 /\ DOMAIN offset_distribution = {}
        /\ bytes = [offset |-> 0, left |-> {}]
    BY DEF Init, PositionInit, ProductInit, Nothing
  <2> QED BY <2>1 DEF Product, Starting, CountedRight, ExtractedRight
<1>2. Occurring /\ Product /\ [Next]_vars => Product'
  <2> SUFFICES ASSUME Occurring, Product, [Next]_vars PROVE Product'
    OBVIOUS
  <2>0. Given /\ Starting /\ CountedRight /\ ExtractedRight
    BY DEF Occurring, Product
  <2>1. CASE UNCHANGED vars
    <3>1. /\ payloads' = payloads /\ trie' = trie /\ offsets' = offsets /\ pc' = pc
          /\ nth' = nth /\ index' = index /\ offset_distribution' = offset_distribution /\ bytes' = bytes
      BY <2>1 DEF vars, positionVars, productVars, inputVars, trieVars, loopVars
    <3>2. Starting'
      BY <2>0, <3>1 DEF Starting
    <3>3. CountedRight'
      BY <2>0, <3>1 DEF CountedRight, Visited, Measured, Sample, Values
    <3>4. ExtractedRight'
      BY <2>0, <3>1, ExtractedStays
    <3> QED BY <3>2, <3>3, <3>4 DEF Product
  <2>2. CASE position_constraints_main /\ UNCHANGED productVars
    <3>1. pc' \in Positions
      BY <2>2 DEF position_constraints_main, FlowNew, FlowsDone, TraverseToken, TraverseDone, FixOffset,
                  FixDone, SearchOffsets, SearchDone, MergeVariants, MergeDone, Positions
    <3>2. Starting'
      BY <2>0, <2>2, PositionStarting
    <3> QED BY <3>1, <3>2 DEF Product, CountedRight, ExtractedRight, Positions
  <2>3. CASE product_distribution_main
    BY <2>0, <2>3, ProductProduct
  <2>4. CASE convertion_main
    <3>1. pc' \in { "convert", "convert_next", "converted" } /\ bytes' = bytes
      BY <2>4 DEF convertion_main, StartFlow, ReplaceMatch, ReplaceRest, FlowDone, productVars
    <3> QED BY <2>0, <3>1 DEF Product, Starting, CountedRight, ExtractedRight, Positions
  <2> QED BY <2>1, <2>2, <2>3, <2>4 DEF Next
<1> QED BY <1>1, <1>2, OccurringInvariant, PTL DEF Spec

(* At the first and the last offsets a byte is a token where few values    *)
(* occur, and only there, it takes the place of what had the same text,    *)
(* and is found at one of its offsets; its kind is that of the offset,     *)
(* unless it is the byte "^" or "$"; and a byte behind the first payload   *)
(* is the only one that no payload has there: for any payloads.            *)
THEOREM SinglesCorrect == Spec => []SinglesRight
<1>1. ExtractedRight => SinglesRight
  <2> SUFFICES ASSUME ExtractedRight, pc = "extracted", Measured PROVE SinglesRight
    BY DEF SinglesRight, Measured
  <2>1. /\ DOMAIN offset_distribution = VisitedOffsets
        /\ \A o \in VisitedOffsets : SampleOf(o)
        /\ offsets = {} /\ bytes.left = {}
        /\ \A s \in Taken : single_token(s[1], s[2]) \in DOMAIN trie /\ single_token(s[1], s[2]) # << >>
        /\ \A t \in DOMAIN trie : TokenTaken(t)
    BY DEF ExtractedRight
  <2>2. Taken = Singles
    BY <2>1 DEF Taken
  <2>3. \A t : SinglesFor(t) = TakenFor(t)
    BY <2>2 DEF SinglesFor, TakenFor
  <2>4. ASSUME NEW t \in DOMAIN trie, SinglesFor(t) # {}
        PROVE  /\ trie[t].position_specific \in SingleKinds
               /\ \E s \in SinglesFor(t) :
                    /\ trie[t].offset_occurrence = Once(s[2])
                    /\ s[1] \notin { Hat, Dollar } => trie[t].position_specific = PositionKind(s[2])
    <3>1. trie[t].position_specific = Kind(t)
      BY <2>1, <2>3, <2>4 DEF TokenTaken
    <3>2. PICK s \in SinglesFor(t) : trie[t].offset_occurrence = Once(s[2])
      BY <2>1, <2>3, <2>4 DEF TokenTaken
    <3>3. single_token(s[1], s[2]) = t /\ t # << >>
      BY <2>1, <2>3 DEF TakenFor
    <3>4. s[1] \notin { Hat, Dollar } => Kind(t) = PositionKind(s[2])
      BY <3>3, KindOfSingle
    <3>5. Kind(t) \in SingleKinds
      BY DEF Kind, SingleKinds
    <3> QED BY <3>1, <3>2, <3>4, <3>5
  <2>5. \A t \in DOMAIN trie : SinglesFor(t) = {} => trie[t].position_specific \in PlainKinds
    BY <2>1, <2>3 DEF TokenTaken
  <2> QED BY <2>1, <2>2, <2>4, <2>5 DEF SinglesRight, PlainKinds
<1> QED BY <1>1, ProductInvariant, PTL DEF Product

-----------------------------------------------------------------------------
(* The matches of a token in a payload, from left to right: there is one   *)
(* set of them.                                                            *)

Words == Text \ { << >> }

Apart(t, M) == \A m, o \in M : m < o => m + Len(t) <= o

Reached(t, o, M) == \E m \in M : m <= o /\ o < m + Len(t)

\* The matches that start before p.
IsMatches(t, w, p, M) ==
  /\ M \in SUBSET OfPrefix(Occurrences(t, w), p) /\ Apart(t, M)
  /\ \A o \in OfPrefix(Occurrences(t, w), p) : Reached(t, o, M)

LEMMA WordLength ==
  ASSUME NEW t \in Words
  PROVE  t \in Text /\ Len(t) \in Nat \ { 0 }
<1>1. t \in Seq(1..255) /\ t # << >>
  BY DEF Words, Text
<1> QED BY <1>1, EmptySeq, LenProperties DEF Text

LEMMA MatchesExist ==
  ASSUME NEW t \in Words, NEW w \in Text, NEW p \in Nat
  PROVE  \E M : IsMatches(t, w, p, M)
<1> DEFINE Bad == { q \in Nat : ~ \E M : IsMatches(t, w, q, M) }
           Occ == Occurrences(t, w)
           L == Len(t)
<1>1. SUFFICES ASSUME Bad # {} PROVE FALSE
  OBVIOUS
<1>2. PICK q \in Bad : \A k \in Bad : q <= k
  <2>1. Bad \in SUBSET Nat
    OBVIOUS
  <2> HIDE DEF Bad
  <2> QED BY <1>1, <2>1, LeastNatural
<1>3. q \in Nat /\ ~ \E M : IsMatches(t, w, q, M)
  OBVIOUS
<1>4. Occ \in SUBSET Nat /\ L \in Nat \ { 0 }
  BY WordLength, OccurrencesType
<1>5. \A k, M : IsMatches(t, w, k, M) <=>
        /\ M \in SUBSET { o \in Occ : o < k } /\ \A m, o \in M : m < o => m + L <= o
        /\ \A o \in Occ : o < k => \E m \in M : m <= o /\ o < m + L
  BY DEF IsMatches, OfPrefix, Apart, Reached
<1> HIDE DEF Occ, L
<1>6. q # 0
  <2>1. IsMatches(t, w, 0, {})
    <3>1. \A o \in Occ : ~ o < 0
      BY <1>4
    <3> QED BY <1>5, <3>1
  <2> QED BY <1>3, <2>1
<1>7. q - 1 \in Nat /\ \A o \in Nat : o < q <=> o < q - 1 \/ o = q - 1
  BY <1>3, <1>6
<1>8. PICK M : IsMatches(t, w, q - 1, M)
  <2>1. q - 1 \notin Bad
    <3>1. ~ q <= q - 1
      BY <1>3, <1>6
    <3> QED BY <1>2, <3>1
  <2> QED BY <1>7, <2>1
<1> DEFINE k == q - 1
<1>9. /\ M \in SUBSET { o \in Occ : o < k } /\ \A m, o \in M : m < o => m + L <= o
      /\ \A o \in Occ : o < k => \E m \in M : m <= o /\ o < m + L
  BY <1>5, <1>8
<1>10. k \in Nat /\ \A o \in Occ : o < q <=> o < k \/ o = k
  BY <1>4, <1>7
<1> HIDE DEF k
<1>11. CASE k \in Occ /\ ~ \E m \in M : m <= k /\ k < m + L
  <2> DEFINE N == M \cup { k }
  <2>1. N \in SUBSET { o \in Occ : o < q }
    BY <1>9, <1>10, <1>11
  <2>2. \A m \in M : m \in Nat /\ m < k /\ m + L <= k
    BY <1>4, <1>9, <1>10, <1>11
  <2>3. \A m, o \in N : m < o => m + L <= o
    BY <1>9, <1>10, <2>2
  <2>4. ASSUME NEW o \in Occ, o < q PROVE \E m \in N : m <= o /\ o < m + L
    <3>1. CASE o < k
      BY <1>9, <3>1
    <3>2. CASE o = k
      <4>1. k <= k /\ k < k + L
        BY <1>4, <1>10
      <4> QED BY <3>2, <4>1
    <3> QED BY <1>10, <2>4, <3>1, <3>2
  <2>5. IsMatches(t, w, q, N)
    BY <1>5, <2>1, <2>3, <2>4
  <2> QED BY <1>3, <2>5
<1>12. CASE ~ (k \in Occ /\ ~ \E m \in M : m <= k /\ k < m + L)
  <2>1. \A o \in Occ : o < q => \E m \in M : m <= o /\ o < m + L
    BY <1>9, <1>10, <1>12
  <2>2. IsMatches(t, w, q, M)
    BY <1>5, <1>9, <1>10, <2>1
  <2> QED BY <1>3, <2>2
<1> QED BY <1>11, <1>12

LEMMA MatchesRight ==
  ASSUME NEW t \in Words, NEW w \in Text
  PROVE  /\ Matches(t, w) \in SUBSET Occurrences(t, w) /\ Matches(t, w) \in SUBSET Nat
         /\ IsFiniteSet(Matches(t, w)) /\ Apart(t, Matches(t, w))
         /\ \A o \in Occurrences(t, w) : Reached(t, o, Matches(t, w))
<1> DEFINE P(M) == Apart(t, M) /\ \A o \in Occurrences(t, w) : Reached(t, o, M)
<1>1. Matches(t, w) = CHOOSE M \in SUBSET Occurrences(t, w) : P(M)
  BY DEF Matches, Apart, Reached
<1>2. \E M \in SUBSET Occurrences(t, w) : P(M)
  <2>1. Len(w) \in Nat /\ Len(t) \in Nat \ { 0 } /\ t \in Text
    BY WordLength, TextChars
  <2>2. \A o \in Occurrences(t, w) : o < Len(w) + 1
    <3>1. \A o \in Occurrences(t, w) : o \in 0..(Len(w) - Len(t))
      BY DEF Occurrences
    <3> QED BY <2>1, <3>1
  <2>3. OfPrefix(Occurrences(t, w), Len(w) + 1) = Occurrences(t, w)
    BY <2>2 DEF OfPrefix
  <2>4. PICK M : IsMatches(t, w, Len(w) + 1, M)
    BY <2>1, MatchesExist
  <2> QED BY <2>3, <2>4 DEF IsMatches
<1> HIDE DEF P
<1>3. Matches(t, w) \in SUBSET Occurrences(t, w) /\ P(Matches(t, w))
  BY <1>1, <1>2
<1>4. Occurrences(t, w) \in SUBSET Nat /\ IsFiniteSet(Occurrences(t, w))
  BY WordLength, OccurrencesType
<1>5. IsFiniteSet(Matches(t, w))
  BY <1>3, <1>4, FS_Subset
<1> QED BY <1>3, <1>4, <1>5 DEF P

-----------------------------------------------------------------------------
(* What an item has to become, if only some tokens of a trie are looked at. *)

Covering(w, n, D) == { t \in D : Covers(t, w, n) }

LastOf(C) == CHOOSE u \in C : \A v \in C \ { u } : Before(v, u)

MatchOver(t, w, n) == CHOOSE o \in Matches(t, w) : o < n /\ n <= o + Len(t)

\* The items of the matches before, and of its own, that come first.
Preceded(t, w, n) ==
  Cardinality(OfPrefix(Matches(t, w), MatchOver(t, w, n))) * Len(t) + n - MatchOver(t, w, n) - 1

CodeOver(f, t, w, n) ==
  IF Preceded(t, w, n) < f[t].shortest_len THEN f[t].replacement ELSE -1

ItemOf(f, w, n, D) ==
  IF Covering(w, n, D) = {} THEN ToInt(w[n])
  ELSE CodeOver(f, LastOf(Covering(w, n, D)), w, n)

LEMMA ConvertedItem ==
  ASSUME NEW w, NEW n
  PROVE  Converted(w, n) = ItemOf(trie, w, n, DOMAIN trie)
BY DEF Converted, ItemOf, Covering, LastOf, CodeOver, Preceded, MatchOver

Behind(t, D) == \A u \in D : Before(u, t)

\* A token that comes behind others and covers the item decides.
LEMMA ItemCovered ==
  ASSUME NEW f, NEW D \in SUBSET Words, NEW t \in Words, Behind(t, D),
         NEW w, NEW n, Covers(t, w, n)
  PROVE  ItemOf(f, w, n, D \cup { t }) = CodeOver(f, t, w, n)
<1> DEFINE C == Covering(w, n, D \cup { t })
<1>1. t \in C /\ C \in SUBSET (D \cup { t })
  BY DEF Covering
<1>2. D \cup { t } \in SUBSET Text
  BY DEF Words
<1> HIDE DEF C
<1>3. \A v \in C \ { t } : Before(v, t)
  BY <1>1 DEF Behind
<1>4. ASSUME NEW u \in C, \A v \in C \ { u } : Before(v, u) PROVE u = t
  <2> SUFFICES ASSUME u # t PROVE FALSE
    OBVIOUS
  <2>1. Before(u, t) /\ Before(t, u)
    BY <1>1, <1>3, <1>4
  <2>2. u \in Text /\ t \in Text
    BY <1>1, <1>2
  <2> QED BY <2>1, <2>2, BeforeTransitive, BeforeNotItself
<1>5. LastOf(C) = t
  BY <1>1, <1>3, <1>4 DEF LastOf
<1> QED BY <1>1, <1>5 DEF ItemOf, C

\* One that does not is as if it were not there.
LEMMA ItemNotCovered ==
  ASSUME NEW f, NEW D, NEW t, NEW w, NEW n, ~ Covers(t, w, n)
  PROVE  ItemOf(f, w, n, D \cup { t }) = ItemOf(f, w, n, D)
<1>1. Covering(w, n, D \cup { t }) = Covering(w, n, D)
  BY DEF Covering
<1> QED BY <1>1 DEF ItemOf

LEMMA ItemOfNone ==
  ASSUME NEW f, NEW w, NEW n
  PROVE  ItemOf(f, w, n, {}) = ToInt(w[n])
BY DEF ItemOf, Covering

-----------------------------------------------------------------------------
(* One token in one payload, from match to match.                          *)

\* No match that starts before p goes beyond it.
Between(t, w, p) == \A m \in Matches(t, w) : m < p => m + Len(t) <= p

LEMMA NextMatch ==
  ASSUME NEW t \in Words, NEW w \in Text, NEW p \in Nat, Between(t, w, p), NEW pos,
         pos = Least({ o \in Occurrences(t, w) : o >= p }),
         { o \in Occurrences(t, w) : o >= p } # {}
  PROVE  /\ pos \in Nat /\ p <= pos /\ pos + Len(t) <= Len(w) /\ pos \in Matches(t, w)
         /\ \A m \in Matches(t, w) : m < p \/ m = pos \/ m >= pos + Len(t)
         /\ Between(t, w, pos + Len(t))
         /\ OfPrefix(Matches(t, w), pos) = OfPrefix(Matches(t, w), p)
         /\ Cardinality(OfPrefix(Matches(t, w), p)) \in Nat
         /\ Cardinality(OfPrefix(Matches(t, w), pos + Len(t)))
              = Cardinality(OfPrefix(Matches(t, w), p)) + 1
<1> DEFINE Occ == Occurrences(t, w)
           A == { o \in Occ : o >= p }
           L == Len(t)
           M == Matches(t, w)
<1>1. Occ \in SUBSET Nat /\ L \in Nat \ { 0 } /\ Len(w) \in Nat
  BY WordLength, OccurrencesType, TextChars
<1>2. /\ M \in SUBSET Occ /\ IsFiniteSet(M)
      /\ \A m, o \in M : m < o => m + L <= o
      /\ \A o \in Occ : \E m \in M : m <= o /\ o < m + L
  BY MatchesRight DEF Apart, Reached
<1>3. \A o \in Occ : o + L <= Len(w)
  <2>1. \A o \in Occ : o \in 0..(Len(w) - L)
    BY DEF Occurrences
  <2> HIDE DEF Occ, L
  <2> QED BY <1>1, <2>1
<1>4. \A m \in M : m < p => m + L <= p
  BY DEF Between
<1> HIDE DEF Occ, L, M
<1>5. pos \in A /\ \A o \in A : pos <= o
  <2>1. A \in SUBSET Nat /\ A # {}
    BY <1>1 DEF Occ
  <2>2. pos = Least(A)
    BY DEF Occ
  <2> HIDE DEF A
  <2> QED BY <2>1, <2>2, LeastNatural DEF Least
<1>6. pos \in Nat /\ pos \in Occ /\ p <= pos
  BY <1>1, <1>5
<1>7. pos \in M
  <2>1. PICK m \in M : m <= pos /\ pos < m + L
    BY <1>2, <1>6
  <2>2. m \in Nat /\ m \in Occ
    BY <1>1, <1>2
  <2>3. m >= p
    BY <1>1, <1>4, <1>6, <2>1, <2>2
  <2>4. pos <= m
    BY <1>5, <2>2, <2>3
  <2> QED BY <1>6, <2>1, <2>2, <2>4
<1>8. \A m \in M : m \in Nat /\ (m < p \/ m = pos \/ m >= pos + L)
  <2>1. ASSUME NEW m \in M PROVE m \in Nat /\ (m < p \/ m = pos \/ m >= pos + L)
    <3>1. m \in Nat /\ m \in Occ
      BY <1>1, <1>2
    <3>2. CASE m >= p
      <4>1. pos <= m
        BY <1>5, <3>1, <3>2
      <4>2. pos < m => pos + L <= m
        BY <1>2, <1>7
      <4> QED BY <1>1, <1>6, <3>1, <4>1, <4>2
    <3>3. CASE ~ m >= p
      BY <3>1, <3>3
    <3> QED BY <3>2, <3>3
  <2> QED BY <2>1
<1>a. p \in Nat /\ L \in Nat \ { 0 } /\ pos \in Nat /\ p <= pos
  BY <1>1, <1>6
<1>b. \A m \in M : m \in Nat /\ (m < p \/ m = pos \/ ~ m < pos + L) /\ (m < pos <=> m < p) /\ (m < pos + L <=> m < p \/ m = pos)
  <2>1. ASSUME NEW m \in M PROVE m \in Nat /\ (m < p \/ m = pos \/ ~ m < pos + L) /\ (m < pos <=> m < p) /\ (m < pos + L <=> m < p \/ m = pos)
    <3>1. m \in Nat /\ (m < p \/ m = pos \/ m >= pos + L)
      BY <1>8
    <3> QED BY ONLY <1>a, <3>1
  <2> QED BY <2>1
<1>9. \A m \in M : m < pos + L => m + L <= pos + L
  <2>1. ASSUME NEW m \in M, m < pos + L PROVE m + L <= pos + L
    <3>1. m \in Nat /\ (m < p \/ m = pos)
      BY <1>b, <2>1
    <3> QED BY ONLY <1>a, <3>1
  <2> QED BY <2>1
<1>10. OfPrefix(M, pos) = OfPrefix(M, p)
  <2>1. \A m \in M : m < pos <=> m < p
    BY <1>b
  <2> QED BY <2>1 DEF OfPrefix
<1>11. /\ OfPrefix(M, pos + L) = OfPrefix(M, p) \cup { pos } /\ pos \notin OfPrefix(M, p)
       /\ IsFiniteSet(OfPrefix(M, p))
  <2>1. \A m \in M : m < pos + L <=> m < p \/ m = pos
    BY <1>b
  <2>2. ~ pos < p
    BY <1>6
  <2>3. OfPrefix(M, p) \in SUBSET M
    BY DEF OfPrefix
  <2> QED BY <1>2, <1>7, <2>1, <2>2, <2>3, FS_Subset DEF OfPrefix
<1>12. /\ Cardinality(OfPrefix(M, p)) \in Nat
       /\ Cardinality(OfPrefix(M, pos + L)) = Cardinality(OfPrefix(M, p)) + 1
  BY <1>11, FS_AddElement, FS_CardinalityType
<1>13. pos + L <= Len(w)
  BY <1>3, <1>6
<1> QED BY <1>6, <1>7, <1>8, <1>9, <1>10, <1>12, <1>13 DEF Between, L, M

\* The items up to the end of the next match.
LEMMA ItemsOfMatch ==
  ASSUME NEW t \in Words, NEW w \in Text, NEW p \in Nat, Between(t, w, p), NEW pos \in Nat,
         p <= pos, pos \in Matches(t, w),
         \A m \in Matches(t, w) : m < p \/ m = pos \/ m >= pos + Len(t),
         NEW n \in Nat, p < n
  PROVE  /\ n <= pos => ~ Covers(t, w, n)
         /\ pos < n /\ n <= pos + Len(t) => Covers(t, w, n) /\ MatchOver(t, w, n) = pos
<1> DEFINE L == Len(t)
           M == Matches(t, w)
<1>1. L \in Nat \ { 0 } /\ M \in SUBSET Nat
  BY WordLength, MatchesRight
<1>2. \A m \in M : m < p => m + L <= p
  BY DEF Between
<1>3. \A m \in M : m < p \/ m = pos \/ m >= pos + L
  OBVIOUS
<1>4. Covers(t, w, n) <=> \E m \in M : m < n /\ n <= m + L
  BY DEF Covers
<1>5. MatchOver(t, w, n) = CHOOSE m \in M : m < n /\ n <= m + L
  BY DEF MatchOver
<1>6. pos \in M
  OBVIOUS
<1> HIDE DEF L, M
<1>7. \A m \in M : m < n /\ n <= m + L => m >= pos
  <2>1. ASSUME NEW m \in M, m < p PROVE ~ n <= m + L
    BY <1>1, <1>2, <2>1
  <2> QED BY <1>1, <1>3, <2>1
<1>8. ASSUME n <= pos PROVE ~ Covers(t, w, n)
  BY <1>1, <1>4, <1>7, <1>8
<1>9. ASSUME pos < n, n <= pos + L PROVE Covers(t, w, n) /\ MatchOver(t, w, n) = pos
  <2>1. ASSUME NEW m \in M, m < n, n <= m + L PROVE m = pos
    <3>1. m >= pos /\ m \in Nat
      BY <1>1, <1>7, <2>1
    <3>2. ~ m >= pos + L
      BY <1>1, <1>9, <2>1, <3>1
    <3>3. ~ m < p
      BY <3>1
    <3> QED BY <1>3, <3>2, <3>3
  <2> QED BY <1>4, <1>5, <1>6, <1>9, <2>1
<1> QED BY <1>8, <1>9 DEF L

\* The items behind the last match.
LEMMA ItemsOfRest ==
  ASSUME NEW t \in Words, NEW w \in Text, NEW p \in Nat, Between(t, w, p),
         { o \in Occurrences(t, w) : o >= p } = {}, NEW n \in Nat, p < n
  PROVE  ~ Covers(t, w, n)
<1> DEFINE L == Len(t)
           M == Matches(t, w)
<1>1. L \in Nat \ { 0 } /\ M \in SUBSET Nat /\ M \in SUBSET Occurrences(t, w)
  BY WordLength, MatchesRight
<1>2. \A m \in M : m < p => m + L <= p
  BY DEF Between
<1>3. Covers(t, w, n) <=> \E m \in M : m < n /\ n <= m + L
  BY DEF Covers
<1> HIDE DEF L, M
<1>4. \A m \in M : m < p
  <2>1. \A m \in M : m \in Nat /\ ~ m >= p
    BY <1>1
  <2> QED BY <2>1
<1> QED BY <1>1, <1>2, <1>3, <1>4

-----------------------------------------------------------------------------
(* One payload, from token to token.                                       *)

Spelling ==
  /\ trie = [t \in DOMAIN trie |-> trie[t]]
  /\ DOMAIN trie \in SUBSET Words /\ IsFiniteSet(DOMAIN trie)

\* The tokens of a trie that are not in a list.
Tried(f, list) == DOMAIN f \ ToSet(list)

ItemSoFar(f, w, list, p, flag, n) ==
  IF n <= p THEN ItemOf(f, w, n, Tried(f, list) \cup { Head(list) })
  ELSE IF flag = 0 THEN Unset ELSE ItemOf(f, w, n, Tried(f, list))

\* Where string_replace is with payload w, and what it has made of it.
SoFar(f, w, list, p, flag, counter, converted) ==
  /\ p \in 0..Len(w) /\ (list = << >> => p = 0)
  /\ flag \in Nat /\ (flag = 0 <=> Tried(f, list) = {})
  /\ list # << >> =>
       /\ Between(Head(list), w, p)
       /\ counter = Cardinality(OfPrefix(Matches(Head(list), w), p)) * Len(Head(list))
  /\ converted = [n \in 1..Len(w) |-> ItemSoFar(f, w, list, p, flag, n)]

Converting ==
  pc = "convert" =>
    /\ nth \in 1..Len(payloads) /\ Rest(todo)
    /\ SoFar(trie, flow, todo, src_p, first_flag, replacement_counter, flow_converted)

\* The start with a token.
LEMMA TokenStart ==
  ASSUME NEW t \in Words, NEW w \in Text
  PROVE  Between(t, w, 0) /\ 0 = Cardinality(OfPrefix(Matches(t, w), 0)) * Len(t)
<1>1. Matches(t, w) \in SUBSET Nat /\ Len(t) \in Nat
  BY MatchesRight, WordLength
<1>2. \A m \in Matches(t, w) : ~ m < 0
  BY <1>1
<1>3. OfPrefix(Matches(t, w), 0) = {}
  BY <1>2 DEF OfPrefix
<1>4. 0 * Len(t) = 0
  BY <1>1
<1> QED BY <1>2, <1>3, <1>4, FS_EmptySet DEF Between

LEMMA StartFlowConverting ==
  ASSUME Given, Spelling, StartFlow, pc' = "convert", pc = "convert_next" => nth \in 1..Len(payloads)
  PROVE  Converting'
<1>a. nth' > Len(payloads) => pc' = "converted"
  BY DEF StartFlow
<1>b. ~ nth' > Len(payloads)
  BY <1>a
<1>1. /\ (pc = "extracted" /\ nth' = 1) \/ (pc = "convert_next" /\ nth' = nth + 1)
      /\ ~ nth' > Len(payloads)
      /\ flow_converted' = [n \in 1..Len(payloads[nth']) |-> Unset]
      /\ first_flag' = 0 /\ src_p' = 0 /\ replacement_counter' = 0 /\ todo' = trie_dfs
      /\ payloads' = payloads /\ trie' = trie
  BY <1>b DEF StartFlow, earlierVars, inputVars, trieVars
<1>2. nth' \in 1..Len(payloads)
  BY <1>1, GivenTexts
<1>3. flow' = payloads[nth'] /\ flow' \in Text
  BY <1>1, <1>2, GivenTexts DEF flow
<1>4. Rest(trie_dfs) /\ Done(trie_dfs) = {}
  BY DfsRest DEF Spelling, Words
<1> DEFINE list == trie_dfs
           w == flow'
           conv == flow_converted'
<1>5. Rest(todo)'
  BY <1>1, <1>4 DEF Rest, Upwards, Done
<1>6. Tried(trie, list) = {}
  BY <1>4 DEF Tried, Done
<1>7. list # << >> => Head(list) \in Words
  BY <1>4, RestTail DEF Spelling, Words
<1> HIDE DEF list, w
<1>8. Len(w) \in Nat
  BY <1>3, TextChars DEF w
<1>9. SoFar(trie, w, list, 0, 0, 0, conv)
  <2>1. \A n \in 1..Len(w) : ItemSoFar(trie, w, list, 0, 0, n) = Unset
    BY <1>8 DEF ItemSoFar
  <2>2. conv = [n \in 1..Len(w) |-> Unset]
    BY <1>1, <1>3 DEF w
  <2>3. list # << >> => Between(Head(list), w, 0) /\ 0 = Cardinality(OfPrefix(Matches(Head(list), w), 0)) * Len(Head(list))
    BY <1>3, <1>7, TokenStart DEF w
  <2> QED BY <1>6, <1>8, <2>1, <2>2, <2>3 DEF SoFar
<1>10. SoFar(trie', flow', todo', src_p', first_flag', replacement_counter', flow_converted')
  BY <1>1, <1>9 DEF list, w
<1> QED BY <1>1, <1>2, <1>5, <1>10 DEF Converting

LEMMA ReplaceMatchConverting ==
  ASSUME Given, Spelling, Converting, ReplaceMatch
  PROVE  Converting'
<1> DEFINE t == Head(todo)
           w == flow
           pos == Least(Ahead)
           L == Len(t)
           D == Tried(trie, todo)
           counter == replacement_counter
           conv == flow_converted
           Item(n) == IF counter + n - pos - 1 < trie[t].shortest_len
                        THEN trie[t].replacement ELSE -1
           New(n) == IF pos < n /\ n <= pos + L THEN Item(n)
                     ELSE IF src_p < n /\ n <= pos /\ first_flag = 0 THEN ToInt(w[n]) ELSE conv[n]
<1>1. /\ pc = "convert" /\ todo # << >> /\ Ahead # {}
      /\ src_p' = pos + L /\ counter' = counter + L
      /\ payloads' = payloads /\ trie' = trie /\ nth' = nth /\ todo' = todo /\ first_flag' = first_flag
      /\ pc' = pc
  BY DEF ReplaceMatch, earlierVars, inputVars, trieVars, productVars
<1>2. conv' = [n \in DOMAIN conv |-> New(n)]
  BY DEF ReplaceMatch, Copied
<1>3. /\ nth \in 1..Len(payloads) /\ Rest(todo)
      /\ SoFar(trie, w, todo, src_p, first_flag, counter, conv)
  BY <1>1 DEF Converting
<1>4. w \in Text /\ Len(w) \in Nat
  BY <1>3, GivenTexts, TextChars DEF flow
<1>5. /\ t \in Words /\ t \in DOMAIN trie /\ D \in SUBSET Words /\ Behind(t, D)
      /\ L \in Nat \ { 0 }
  <2>1. t \in DOMAIN trie /\ \A u \in Done(todo) : Before(u, t)
    BY <1>1, <1>3, RestTail DEF Spelling, Words
  <2> QED BY <2>1, WordLength DEF Spelling, Tried, Done, Behind
<1>6. /\ src_p \in Nat /\ src_p <= Len(w) /\ Between(t, w, src_p)
      /\ first_flag \in Nat /\ (first_flag = 0 <=> D = {})
      /\ counter = Cardinality(OfPrefix(Matches(t, w), src_p)) * L
      /\ conv = [n \in 1..Len(w) |-> ItemSoFar(trie, w, todo, src_p, first_flag, n)]
  BY <1>1, <1>3, <1>4 DEF SoFar
<1>7. pos = Least({ o \in Occurrences(t, w) : o >= src_p }) /\ { o \in Occurrences(t, w) : o >= src_p } # {}
  BY <1>1 DEF Ahead
<1> HIDE DEF t, w, pos, L, D, counter, conv, New, Item
<1> DEFINE c == Cardinality(OfPrefix(Matches(t, w), src_p))
<1>8. /\ pos \in Nat /\ src_p <= pos /\ pos + L <= Len(w) /\ pos \in Matches(t, w)
      /\ \A m \in Matches(t, w) : m < src_p \/ m = pos \/ m >= pos + L
      /\ Between(t, w, pos + L)
      /\ OfPrefix(Matches(t, w), pos) = OfPrefix(Matches(t, w), src_p)
      /\ c \in Nat /\ Cardinality(OfPrefix(Matches(t, w), pos + L)) = c + 1
  BY <1>4, <1>5, <1>6, <1>7, NextMatch DEF L
<1>9. counter = c * L /\ counter + L = (c + 1) * L
  <2>1. counter = c * L
    BY <1>6
  <2> HIDE DEF c
  <2>2. c \in Nat /\ L \in Nat
    BY <1>5, <1>8
  <2>3. (c + 1) * L = c * L + L
    BY <2>2
  <2> QED BY <2>1, <2>3
<1>10. DOMAIN conv = 1..Len(w) /\ \A n \in 1..Len(w) : conv[n] = ItemSoFar(trie, w, todo, src_p, first_flag, n)
  BY <1>6
<1>11. ASSUME NEW n \in 1..Len(w)
       PROVE  New(n) = ItemSoFar(trie, w, todo, pos + L, first_flag, n)
  <2> DEFINE now == ItemOf(trie, w, n, D \cup { t })
             old == ItemOf(trie, w, n, D)
  <2>1. /\ conv[n] = IF n <= src_p THEN now ELSE IF first_flag = 0 THEN Unset ELSE old
        /\ ItemSoFar(trie, w, todo, pos + L, first_flag, n)
             = IF n <= pos + L THEN now ELSE IF first_flag = 0 THEN Unset ELSE old
    BY <1>10 DEF ItemSoFar, D, t
  <2>2. n \in Nat
    BY <1>4
  <2>3. CASE n <= src_p
    <3>1. ~ pos < n /\ ~ src_p < n /\ n <= pos + L
      BY <1>5, <1>6, <1>8, <2>2, <2>3
    <3> QED BY <2>1, <2>3, <3>1 DEF New
  <2>4. CASE src_p < n /\ n <= pos
    <3>1. ~ pos < n /\ ~ n <= src_p /\ n <= pos + L
      BY <1>5, <1>6, <1>8, <2>2, <2>4
    <3>2. ~ Covers(t, w, n)
      BY <1>4, <1>5, <1>6, <1>8, <2>2, <2>4, ItemsOfMatch DEF L
    <3>3. now = old
      BY <3>2, ItemNotCovered
    <3>4. first_flag = 0 => old = ToInt(w[n])
      BY <1>6, ItemOfNone
    <3> QED BY <2>1, <2>4, <3>1, <3>3, <3>4 DEF New
  <2>5. CASE pos < n /\ n <= pos + L
    <3>1. src_p < n
      BY <1>6, <1>8, <2>2, <2>5
    <3>2. Covers(t, w, n) /\ MatchOver(t, w, n) = pos
      BY <1>4, <1>5, <1>6, <1>8, <2>2, <2>5, <3>1, ItemsOfMatch DEF L
    <3>3. now = CodeOver(trie, t, w, n)
      BY <1>5, <3>2, ItemCovered
    <3>4. Preceded(t, w, n) = counter + n - pos - 1
      BY <1>8, <1>9, <3>2 DEF Preceded, L
    <3>5. now = Item(n)
      BY <3>3, <3>4 DEF CodeOver, Item
    <3> QED BY <2>1, <2>5, <3>5 DEF New
  <2>6. CASE pos + L < n
    <3>1. ~ n <= pos + L /\ ~ n <= pos /\ ~ n <= src_p
      BY <1>5, <1>6, <1>8, <2>2, <2>6
    <3> QED BY <2>1, <3>1 DEF New
  <2>7. n <= src_p \/ (src_p < n /\ n <= pos) \/ (pos < n /\ n <= pos + L) \/ pos + L < n
    BY <1>5, <1>6, <1>8, <2>2
  <2> QED BY <2>3, <2>4, <2>5, <2>6, <2>7
<1>12. conv' = [n \in 1..Len(w) |-> ItemSoFar(trie, w, todo, pos + L, first_flag, n)]
  BY <1>2, <1>10, <1>11
<1>13. pos + L \in 0..Len(w)
  BY <1>4, <1>5, <1>8
<1>14. SoFar(trie, w, todo, pos + L, first_flag, counter + L, conv')
  <2>1. counter + L = Cardinality(OfPrefix(Matches(t, w), pos + L)) * L
    BY <1>8, <1>9
  <2> QED BY <1>1, <1>6, <1>8, <1>12, <1>13, <2>1 DEF SoFar, t, L, D
<1>15. flow' = w
  BY <1>1 DEF flow, w
<1>16. SoFar(trie', flow', todo', src_p', first_flag', replacement_counter', flow_converted')
  BY <1>1, <1>14, <1>15 DEF counter, conv
<1>17. Rest(todo)'
  BY <1>1, <1>3 DEF Rest, Upwards, Done
<1> QED BY <1>1, <1>3, <1>16, <1>17 DEF Converting

LEMMA ReplaceRestConverting ==
  ASSUME Given, Spelling, Converting, ReplaceRest
  PROVE  Converting'
<1> DEFINE t == Head(todo)
           r == Tail(todo)
           w == flow
           D == Tried(trie, todo)
           conv == flow_converted
           New(n) == IF src_p < n /\ n <= Len(w) /\ first_flag = 0 THEN ToInt(w[n]) ELSE conv[n]
<1>1. /\ pc = "convert" /\ todo # << >> /\ Ahead = {}
      /\ src_p' = 0 /\ replacement_counter' = 0 /\ first_flag' = first_flag + 1 /\ todo' = r
      /\ payloads' = payloads /\ trie' = trie /\ nth' = nth /\ pc' = pc
  BY DEF ReplaceRest, earlierVars, inputVars, trieVars, productVars
<1>2. conv' = [n \in DOMAIN conv |-> New(n)]
  BY DEF ReplaceRest, Copied
<1>3. /\ nth \in 1..Len(payloads) /\ Rest(todo)
      /\ SoFar(trie, w, todo, src_p, first_flag, replacement_counter, conv)
  BY <1>1 DEF Converting
<1>4. w \in Text /\ Len(w) \in Nat
  BY <1>3, GivenTexts, TextChars DEF flow
<1>5. /\ t \in Words /\ t \in DOMAIN trie /\ Rest(r) /\ Tried(trie, r) = D \cup { t }
      /\ (r # << >> => Head(r) \in Words)
  <2>1. t \in DOMAIN trie /\ Rest(r) /\ Done(r) = Done(todo) \cup { t }
    BY <1>1, <1>3, RestTail DEF Spelling, Words
  <2>2. r # << >> => Head(r) \in DOMAIN trie
    BY <2>1, RestTail DEF Spelling, Words
  <2> QED BY <2>1, <2>2 DEF Spelling, Tried, Done
<1>6. /\ src_p \in Nat /\ src_p <= Len(w) /\ Between(t, w, src_p)
      /\ first_flag \in Nat /\ (first_flag = 0 <=> D = {})
      /\ conv = [n \in 1..Len(w) |-> ItemSoFar(trie, w, todo, src_p, first_flag, n)]
  BY <1>1, <1>3, <1>4 DEF SoFar
<1>7. { o \in Occurrences(t, w) : o >= src_p } = {}
  BY <1>1 DEF Ahead
<1> HIDE DEF t, r, w, D, conv, New
<1>8. DOMAIN conv = 1..Len(w) /\ \A n \in 1..Len(w) : conv[n] = ItemSoFar(trie, w, todo, src_p, first_flag, n)
  BY <1>6
<1>9. ASSUME NEW n \in 1..Len(w)
      PROVE  New(n) = ItemSoFar(trie, w, r, 0, first_flag + 1, n)
  <2> DEFINE now == ItemOf(trie, w, n, D \cup { t })
             old == ItemOf(trie, w, n, D)
  <2>1. conv[n] = IF n <= src_p THEN now ELSE IF first_flag = 0 THEN Unset ELSE old
    BY <1>8 DEF ItemSoFar, D, t
  <2>2. n \in Nat /\ ~ n <= 0 /\ first_flag + 1 # 0 /\ n <= Len(w)
    BY <1>4, <1>6
  <2>3. ItemSoFar(trie, w, r, 0, first_flag + 1, n) = now
    BY <1>5, <2>2 DEF ItemSoFar
  <2>4. CASE n <= src_p
    <3>1. ~ src_p < n
      BY <1>6, <2>2, <2>4
    <3> QED BY <2>1, <2>3, <2>4, <3>1 DEF New
  <2>5. CASE src_p < n
    <3>1. ~ n <= src_p
      BY <1>6, <2>2, <2>5
    <3>2. ~ Covers(t, w, n)
      BY <1>4, <1>5, <1>6, <1>7, <2>2, <2>5, ItemsOfRest
    <3>3. now = old
      BY <3>2, ItemNotCovered
    <3>4. first_flag = 0 => old = ToInt(w[n])
      BY <1>6, ItemOfNone
    <3> QED BY <2>1, <2>2, <2>3, <2>5, <3>1, <3>3, <3>4 DEF New
  <2>6. n <= src_p \/ src_p < n
    BY <1>6, <2>2
  <2> QED BY <2>4, <2>5, <2>6
<1>10. conv' = [n \in 1..Len(w) |-> ItemSoFar(trie, w, r, 0, first_flag + 1, n)]
  BY <1>2, <1>8, <1>9
<1>11. SoFar(trie, w, r, 0, first_flag + 1, 0, conv')
  <2>1. 0 \in 0..Len(w) /\ first_flag + 1 \in Nat /\ first_flag + 1 # 0
    BY <1>4, <1>6
  <2>2. Tried(trie, r) # {}
    BY <1>5
  <2>3. r # << >> => Between(Head(r), w, 0) /\ 0 = Cardinality(OfPrefix(Matches(Head(r), w), 0)) * Len(Head(r))
    BY <1>4, <1>5, TokenStart
  <2> QED BY <1>10, <2>1, <2>2, <2>3 DEF SoFar
<1>12. flow' = w
  BY <1>1 DEF flow, w
<1>13. SoFar(trie', flow', todo', src_p', first_flag', replacement_counter', flow_converted')
  BY <1>1, <1>11, <1>12 DEF conv
<1>14. Rest(todo)'
  BY <1>1, <1>5 DEF Rest, Upwards, Done
<1> QED BY <1>1, <1>3, <1>13, <1>14 DEF Converting

-----------------------------------------------------------------------------
(* What the trie holds: texts that are not empty, with the lengths, kinds  *)
(* and offsets of tokens.                                                  *)

Kinds == PlainKinds \cup { "PS_SINGLE_BEGIN", "PS_SINGLE_END", "PS_SINGLE" }

IsTable(c) == c \in [DOMAIN c -> Nat \ { 0 }]

TokenTyped(r) ==
  r.shortest_len \in 1..256 /\ r.position_specific \in Kinds /\ IsTable(r.offset_occurrence)

TrieTyped == Spelling /\ \A t \in DOMAIN trie : TokenTyped(trie[t])

LEMMA CountsTable == ASSUME NEW c, IsCounts(c) PROVE IsTable(c)
BY DEF IsCounts, IsTable

LEMMA TokenNewTyped ==
  ASSUME TrieTyped, NEW text \in Words, Len(text) <= 256, NEW offset, NEW kind \in Kinds,
         token_new(text, offset, kind)
  PROVE  TrieTyped'
<1> DEFINE new == NewToken(text, offset, kind)
<1>1. trie' = With(trie, text, new)
  BY TokenNewEffect
<1>2. new.position_specific = kind /\ new.offset_occurrence = Once(offset) /\ new.shortest_len = Len(text)
  BY NewTokenFields
<1>3. Len(text) \in 1..256
  <2> DEFINE l == Len(text)
  <2>1. l \in Nat \ { 0 } /\ l <= 256
    BY WordLength
  <2> HIDE DEF l
  <2>2. l \in 1..256
    BY <2>1
  <2> QED BY <2>2 DEF l
<1>4. IsTable(Once(offset))
  BY DEF IsTable, Once
<1>5. TokenTyped(new)
  BY <1>2, <1>3, <1>4 DEF TokenTyped
<1> HIDE DEF new
<1>6. /\ DOMAIN trie' = DOMAIN trie \cup { text } /\ trie'[text] = new
      /\ \A t \in DOMAIN trie : t # text => trie'[t] = trie[t]
      /\ trie' = [t \in DOMAIN trie' |-> trie'[t]]
  BY <1>1 DEF With
<1>7. DOMAIN trie' \in SUBSET Words /\ IsFiniteSet(DOMAIN trie')
  BY <1>6, FS_AddElement DEF TrieTyped, Spelling
<1>8. \A t \in DOMAIN trie' : TokenTyped(trie'[t])
  BY <1>5, <1>6 DEF TrieTyped
<1> QED BY <1>6, <1>7, <1>8 DEF TrieTyped, Spelling

\* One token is changed.
LEMMA TokenChangedTyped ==
  ASSUME TrieTyped, NEW text, NEW r, TokenTyped(r), trie' = [trie EXCEPT ![text] = r]
  PROVE  TrieTyped'
<1>1. /\ trie = [t \in DOMAIN trie |-> trie[t]] /\ \A t \in DOMAIN trie : TokenTyped(trie[t])
      /\ DOMAIN trie \in SUBSET Words /\ IsFiniteSet(DOMAIN trie)
  BY DEF TrieTyped, Spelling
<1>2. /\ DOMAIN trie' = DOMAIN trie /\ trie' = [t \in DOMAIN trie' |-> trie'[t]]
      /\ \A t \in DOMAIN trie' : IF t = text THEN trie'[t] = r ELSE trie'[t] = trie[t]
  BY <1>1
<1>3. \A t \in DOMAIN trie' : TokenTyped(trie'[t])
  BY <1>1, <1>2
<1> QED BY <1>1, <1>2, <1>3 DEF TrieTyped, Spelling

\* A token that occurs is no longer than a payload.
LEMMA FoundLength ==
  ASSUME Given, NEW t \in ToSet(tokens), FoundAt(t) # {}
  PROVE  t \in Words /\ Len(t) <= 256
<1>1. t \in Text /\ t # << >>
  BY GivenTexts
<1>2. PICK p \in DOMAIN payloads : Occurrences(t, payloads[p]) # {}
  BY DEF FoundAt
<1>3. payloads[p] \in Text /\ Len(payloads[p]) <= 256
  BY GivenTexts DEF Given
<1>4. Len(t) \in Nat /\ Len(payloads[p]) \in Nat
  BY <1>1, <1>3, TextChars
<1>5. 0..(Len(payloads[p]) - Len(t)) # {}
  BY <1>2 DEF Occurrences
<1>6. Len(t) <= 256
  BY <1>3, <1>4, <1>5
<1> QED BY <1>1, <1>6 DEF Words

LEMMA TraverseTokenTyped ==
  ASSUME Given, Codes, Traversing, TrieTyped, TraverseToken
  PROVE  TrieTyped'
<1> DEFINE e == Head(todo)
           text == e.token
           offset == e.offset
<1>1. /\ pc = "traverse" /\ todo # << >>
      /\ IF text \in DOMAIN trie THEN token_add(text, offset)
         ELSE token_new(text, offset, "PS_ORDINARY")
  BY DEF TraverseToken
<1>2. /\ todo \in Seq(Element)
      /\ \A t \in DOMAIN trie : IsCounts(trie[t].offset_occurrence)
      /\ \A t \in Text, o \in Nat : Seen(t, o) + Times(todo, At(t, o)) = Target(t, o)
  BY <1>1 DEF Traversing
<1>3. Tail(todo) \in Seq(Element) /\ e \in Element
  BY <1>1, <1>2, TimesTail
<1>4. text \in Text /\ offset \in Nat /\ e = At(text, offset)
  BY <1>3 DEF Element, At
<1> HIDE DEF text, offset
<1>5. CASE text \in DOMAIN trie
  <2> DEFINE c == trie[text].offset_occurrence
             x == Plus1(c, offset)
             r == [trie[text] EXCEPT !.offset_occurrence = x]
  <2>1. token_add(text, offset) /\ IsToken(trie[text]) /\ TokenTyped(trie[text])
    BY <1>1, <1>5 DEF Codes, TrieTyped
  <2>2. trie' = [trie EXCEPT ![text] = r]
    BY <2>1 DEF token_add
  <2>3. IsCounts(x)
    BY <1>2, <1>4, <1>5, Plus1Counts
  <2> HIDE DEF x
  <2>4. /\ r.offset_occurrence = x /\ r.shortest_len = trie[text].shortest_len
        /\ r.position_specific = trie[text].position_specific
    BY <2>1, ChangedToken DEF Fields
  <2> HIDE DEF r
  <2>5. TokenTyped(r)
    BY <2>1, <2>3, <2>4, CountsTable DEF TokenTyped
  <2> QED BY <2>2, <2>5, TokenChangedTyped
<1>6. CASE text \notin DOMAIN trie
  <2>1. token_new(text, offset, "PS_ORDINARY") /\ "PS_ORDINARY" \in Kinds
    BY <1>1, <1>6 DEF Kinds, PlainKinds
  <2>2. Target(text, offset) # 0
    <3> DEFINE n == Times(Tail(todo), e)
    <3>1. Times(todo, e) = n + 1
      BY <1>1, <1>2, TimesTail
    <3>2. n \in Nat
      BY <1>3, TimesType
    <3>3. Seen(text, offset) = 0
      BY <1>6 DEF Seen
    <3>4. 0 + Times(todo, e) = Target(text, offset)
      BY <1>2, <1>4, <3>3
    <3> HIDE DEF n, e
    <3> QED BY <3>1, <3>2, <3>4
  <2>3. text \in ToSet(tokens) /\ FoundAt(text) # {}
    <3>1. text \in ToSet(tokens) /\ Tally(text, offset) # 0
      BY <2>2 DEF Target
    <3> QED BY <1>4, <3>1, TallySize
  <2> QED BY <2>1, <2>3, FoundLength, TokenNewTyped
<1> QED BY <1>5, <1>6

LEMMA FixOffsetTyped ==
  ASSUME Codes, TrieTyped, FixOffset
  PROVE  TrieTyped'
<1> DEFINE text == Head(todo)
           fixed == Cardinality(DOMAIN trie[text].offset_occurrence) = 1
           r == [trie[text] EXCEPT !.position_specific = "PS_NOT_MERGE"]
<1>1. trie' = IF fixed THEN [trie EXCEPT ![text] = r] ELSE trie
  BY DEF FixOffset
<1>2. text \in DOMAIN trie => /\ r.offset_occurrence = trie[text].offset_occurrence
                              /\ r.shortest_len = trie[text].shortest_len
                              /\ r.position_specific = "PS_NOT_MERGE"
  BY ChangedToken DEF Fields, Codes
<1> HIDE DEF r, fixed, text
<1>3. "PS_NOT_MERGE" \in Kinds
  BY DEF Kinds, PlainKinds
<1>4. CASE fixed /\ text \in DOMAIN trie
  <2>1. TokenTyped(r)
    BY <1>2, <1>3, <1>4 DEF TrieTyped, TokenTyped
  <2> QED BY <1>1, <1>4, <2>1, TokenChangedTyped
<1>5. CASE ~ (fixed /\ text \in DOMAIN trie)
  <2>1. trie' = trie
    BY <1>1, <1>5 DEF TrieTyped, Spelling
  <2> QED BY <2>1 DEF TrieTyped, Spelling
<1> QED BY <1>4, <1>5

-----------------------------------------------------------------------------
(* The lists of variants.                                                  *)

VariantsTyped ==
  /\ offset_variants \in [DOMAIN offset_variants ->
                            [num_variants : 1..Len(tokens), variants : ToSet(tokens)]]
  /\ set_next \in [ToSet(tokens) -> ToSet(tokens) \cup { NULL }]

\* A walk stays among the tokens.
LEMMA VariantsTokens ==
  ASSUME Given, VariantsTyped, NEW o \in DOMAIN offset_variants
  PROVE  ToSet(Variants(o)) \in SUBSET ToSet(tokens)
<1> DEFINE L == Len(tokens)
           T == ToSet(tokens)
           w == CHOOSE f : IsWalk(f, o, L)
           Bad == { n \in 0..L : w[n] \notin T \cup { NULL } }
<1>1. L \in Nat
  BY GivenTexts
<1>2. IsWalk(w, o, L)
  BY <1>1, WalkExists
<1>3. ToSet(Variants(o)) = { w[n - 1] : n \in { m \in 1..L : w[m - 1] # NULL } }
  <2>1. Variants(o) = [n \in { m \in 1..L : w[m - 1] # NULL } |-> w[n - 1]]
    BY DEF Variants, IsWalk
  <2> HIDE DEF w
  <2> QED BY <2>1 DEF ToSet
<1>4. HeadOf(o) \in T
  BY DEF HeadOf, VariantsTyped
<1>5. \A t \in T : set_next[t] \in T \cup { NULL }
  BY DEF VariantsTyped
<1> HIDE DEF w, L, T
<1>6. \A n \in 0..L : w[n] = IF n = 0 THEN HeadOf(o) ELSE IF w[n - 1] = NULL THEN NULL ELSE set_next[w[n - 1]]
  BY <1>2 DEF IsWalk
<1>7. Bad = {}
  <2> SUFFICES ASSUME Bad # {} PROVE FALSE
    OBVIOUS
  <2>1. PICK n \in Bad : \A m \in Bad : n <= m
    <3>1. Bad \in SUBSET Nat
      BY <1>1
    <3> HIDE DEF Bad
    <3> QED BY <3>1, LeastNatural
  <2>2. n \in 0..L /\ n \in Nat /\ w[n] \notin T \cup { NULL }
    BY <1>1
  <2>3. n # 0
    BY <1>4, <1>6, <2>2
  <2>4. n - 1 \in 0..L /\ ~ n <= n - 1
    BY <1>1, <2>2, <2>3
  <2>5. w[n - 1] \in T \cup { NULL }
    BY <2>1, <2>4
  <2>6. w[n] = IF w[n - 1] = NULL THEN NULL ELSE set_next[w[n - 1]]
    BY <1>6, <2>2, <2>3
  <2> QED BY <1>5, <2>2, <2>5, <2>6
<1>8. \A n \in 1..L : n - 1 \in 0..L
  BY <1>1
<1>9. \A n \in 1..L : w[n - 1] \in T \cup { NULL }
  BY <1>7, <1>8
<1> QED BY <1>3, <1>9 DEF T

LEMMA SearchOffsetsTyped ==
  ASSUME Occurring, Searched, VariantsTyped, SearchOffsets
  PROVE  VariantsTyped'
<1> DEFINE t == Head(todo)
           T == ToSet(tokens)
           new == Counting(t)
           counts == [num_variants : 1..Len(tokens), variants : T]
<1>1. /\ pc = "search" /\ todo # << >> /\ offset_variants' = new
      /\ IF Frequent(t) = {} THEN set_next' = set_next
         ELSE \E last \in Frequent(t) : set_next' = [set_next EXCEPT ![t] = HeadOf(last)]
      /\ payloads' = payloads /\ tokens' = tokens /\ k_offset' = k_offset /\ trie' = trie
  BY DEF SearchOffsets, inputVars, trieVars
<1>2. InPositions /\ Rest(todo)
  BY <1>1 DEF Searched, InPositions
<1>3. DOMAIN trie \in SUBSET T /\ DOMAIN trie \in SUBSET Text /\ \A o : Sharing(o) \in SUBSET DOMAIN trie
  BY <1>2, SharingShared
<1>4. t \in DOMAIN trie /\ t \in T
  BY <1>1, <1>2, <1>3, RestTail
<1>5. /\ IsFiniteSet(T) /\ Cardinality(T) <= Len(tokens) /\ Len(tokens) \in Nat /\ Cardinality(T) \in Nat
  BY GivenTexts, FS_CardinalityType DEF Occurring
<1>6. ASSUME NEW o \in DOMAIN new PROVE new[o] \in counts
  <2> DEFINE done == Done(todo)'
             S == Sharing(o) \cap done
             n == new[o].num_variants
  <2>1. Listing(Done(todo))'
    BY SearchOffsetsListing
  <2>2. o \in DOMAIN offset_variants'
    BY <1>1
  <2>3. \A q : Sharing(q)' = Sharing(q)
    BY <1>1 DEF Sharing, FoundAt, Tally, Found, Listed
  <2>4. n = Cardinality(S) /\ \E u \in done : o \in Shared(u)'
    BY <1>1, <2>1, <2>2, <2>3 DEF Listing
  <2>5. S # {}
    <3>1. PICK u \in done : o \in Shared(u)'
      BY <2>4
    <3>2. u \in Sharing(o)
      BY <2>3, <3>1 DEF Shared
    <3> QED BY <3>1, <3>2
  <2>6. S \in SUBSET T
    BY <1>3
  <2> HIDE DEF S, T, done
  <2>7. IsFiniteSet(S) /\ Cardinality(S) <= Cardinality(T)
    BY <1>5, <2>6, FS_Subset
  <2>8. Cardinality(S) \in Nat /\ Cardinality(S) # 0
    BY <2>5, <2>7, FS_CardinalityType, FS_EmptySet
  <2>9. n \in 1..Len(tokens)
    BY <1>5, <2>4, <2>7, <2>8
  <2>10. CASE o \in Frequent(t)
    <3>1. new[o] = [num_variants |-> NumVariants(o) + 1, variants |-> t]
      BY <2>10 DEF Counting
    <3> HIDE DEF new
    <3>2. new[o] = [num_variants |-> n, variants |-> t]
      BY <3>1
    <3> HIDE DEF n
    <3> QED BY <1>4, <2>9, <3>2 DEF T
  <2>11. CASE o \notin Frequent(t)
    <3>1. o \in DOMAIN offset_variants /\ new[o] = offset_variants[o]
      BY <2>11 DEF Counting
    <3> QED BY <3>1 DEF VariantsTyped, T
  <2> QED BY <2>10, <2>11
<1>7. offset_variants' \in [DOMAIN offset_variants' -> counts]
  <2>1. new = [o \in DOMAIN new |-> new[o]]
    BY DEF Counting
  <2> HIDE DEF new, counts
  <2> QED BY <1>1, <1>6, <2>1
<1>8. set_next' \in [T -> T \cup { NULL }]
  <2>1. set_next \in [T -> T \cup { NULL }]
    BY DEF VariantsTyped
  <2>2. \A last : HeadOf(last) \in T \cup { NULL }
    BY DEF HeadOf, VariantsTyped
  <2> HIDE DEF T, t
  <2> QED BY <1>1, <2>1, <2>2
<1> QED BY <1>1, <1>7, <1>8 DEF VariantsTyped

LEMMA MergeVariantsTyped ==
  ASSUME Given, Codes, VariantsTyped, TrieTyped, NEW o \in offsets, MergeVariants(o),
         offsets \in SUBSET DOMAIN offset_variants
  PROVE  TrieTyped'
<1>1. CASE ~ offset_variants[o].num_variants < beta_merge
  <2>1. trie' = trie
    BY <1>1 DEF MergeVariants
  <2> QED BY <2>1 DEF TrieTyped, Spelling
<1>2. CASE offset_variants[o].num_variants < beta_merge
  <2> DEFINE members == ToSet(Variants(o))
             lengths == { 256 } \cup { Len(u) : u \in members }
  <2>1. members \in SUBSET Words
    <3>1. members \in SUBSET ToSet(tokens)
      BY VariantsTokens
    <3> QED BY <3>1, GivenTexts DEF Words
  <2>2. PICK junk \in Junk :
          trie' = [t \in DOMAIN trie |->
                     IF t \in members THEN Merged(t, MergedText(o, junk), members) ELSE trie[t]]
    BY <1>2 DEF MergeVariants
  <2>3. Shortest(members) \in 1..256
    <3>1. lengths \in SUBSET (Nat \ { 0 }) /\ 256 \in lengths
      <4>1. \A u \in members : Len(u) \in Nat \ { 0 }
        BY <2>1, WordLength
      <4> HIDE DEF members
      <4> QED BY <4>1
    <3>2. Shortest(members) = Least(lengths)
      BY DEF Shortest
    <3> HIDE DEF lengths
    <3>3. lengths \in SUBSET Nat /\ lengths # {}
      BY <3>1
    <3>4. Least(lengths) \in lengths /\ \A n \in lengths : Least(lengths) <= n
      BY <3>3, LeastNatural DEF Least
    <3> DEFINE l == Least(lengths)
    <3>5. l \in Nat \ { 0 } /\ l <= 256
      BY <3>1, <3>4
    <3> HIDE DEF l
    <3>6. l \in 1..256
      BY <3>5
    <3> QED BY <3>2, <3>6 DEF l
  <2> HIDE DEF members
  <2>4. ASSUME NEW t \in DOMAIN trie PROVE TokenTyped(trie'[t])
    <3> DEFINE text == MergedText(o, junk)
               m == Merged(t, text, members)
    <3>1. IsToken(trie[t]) /\ TokenTyped(trie[t])
      BY DEF Codes, TrieTyped
    <3> HIDE DEF text
    <3>2. /\ m.offset_occurrence = trie[t].offset_occurrence
          /\ SameText(t, text) => /\ m.position_specific = trie[t].position_specific
                                  /\ m.shortest_len = trie[t].shortest_len
          /\ ~ SameText(t, text) => /\ m.position_specific = "PS_MERGE"
                                    /\ m.shortest_len = Shortest(members)
      BY <3>1, MergedToken
    <3>3. trie'[t] = m \/ trie'[t] = trie[t]
      BY <2>2 DEF text
    <3> HIDE DEF m
    <3>4. "PS_MERGE" \in Kinds
      BY DEF Kinds, PlainKinds
    <3>5. TokenTyped(m)
      BY <2>3, <3>1, <3>2, <3>4 DEF TokenTyped
    <3> QED BY <3>1, <3>3, <3>5
  <2>5. DOMAIN trie' = DOMAIN trie /\ trie' = [t \in DOMAIN trie' |-> trie'[t]]
    BY <2>2
  <2> QED BY <2>4, <2>5 DEF TrieTyped, Spelling
<1> QED BY <1>1, <1>2

-----------------------------------------------------------------------------
(* The counts of bytes.                                                    *)

Bytes ==
  /\ \A o \in DOMAIN offset_distribution : DOMAIN offset_distribution[o] \in SUBSET (0..255)
  /\ bytes.left \in SUBSET (0..255)
  /\ pc = "merge" => offsets \in SUBSET DOMAIN offset_variants
  /\ pc = "extract" => offsets \in SUBSET DOMAIN offset_distribution

LEMMA CountedBytes ==
  ASSUME NEW byte \in 0..255, Counted(byte),
         \A o \in DOMAIN offset_distribution : DOMAIN offset_distribution[o] \in SUBSET (0..255)
  PROVE  \A o \in DOMAIN offset_distribution' : DOMAIN offset_distribution'[o] \in SUBSET (0..255)
<1> DEFINE d == Distributed(index)
           e == Plus1(d, byte)
<1>1. offset_distribution' = With(offset_distribution, index, e)
  BY DEF Counted
<1>2. DOMAIN d \in SUBSET (0..255)
  BY DEF Distributed, Nothing
<1> HIDE DEF d
<1>3. DOMAIN e = DOMAIN d \cup { byte }
  BY DEF Plus1, With
<1> HIDE DEF e
<1>4. /\ DOMAIN offset_distribution' = DOMAIN offset_distribution \cup { index }
      /\ offset_distribution'[index] = e
      /\ \A o \in DOMAIN offset_distribution : o # index => offset_distribution'[o] = offset_distribution[o]
  BY <1>1 DEF With
<1>5. DOMAIN e \in SUBSET (0..255)
  BY <1>2, <1>3
<1> QED BY <1>4, <1>5

LEMMA CountByteBytes ==
  ASSUME Given, Bytes, CountByte, nth \in Nat \ { 0 }, index \in Nat
  PROVE  Bytes'
<1> DEFINE length == Len(payloads[nth])
           byte   == payloads[nth][index + 1]
<1>1. /\ nth <= Len(payloads) /\ nth' = nth /\ payloads' = payloads /\ bytes' = bytes
      /\ pc = "count" /\ pc' \in { "count", "crashed" }
      /\ \/ index < length /\ Counted(byte)
         \/ offset_distribution' = offset_distribution
         \/ \E b \in Past : Counted(b)
  BY DEF CountByte, inputVars
<1>2. payloads[nth] \in Text
  <2>1. nth \in 1..Len(payloads)
    BY <1>1, GivenTexts
  <2> QED BY <2>1, GivenTexts
<1>3. index < length => byte \in 0..255
  <2> SUFFICES ASSUME index < length PROVE byte \in 0..255
    OBVIOUS
  <2>1. length \in Nat
    BY <1>2, TextChars
  <2>2. index + 1 \in 1..length
    BY <2>1
  <2>3. byte \in 1..255
    BY <1>2, <2>2, TextChars
  <2> QED BY <2>3
<1>4. \A b \in Past : b \in 0..255
  BY PastAssumption
<1>5. \A o \in DOMAIN offset_distribution' : DOMAIN offset_distribution'[o] \in SUBSET (0..255)
  <2>1. \A o \in DOMAIN offset_distribution : DOMAIN offset_distribution[o] \in SUBSET (0..255)
    BY DEF Bytes
  <2>2. CASE index < length /\ Counted(byte)
    <3> HIDE DEF byte
    <3> QED BY <1>3, <2>1, <2>2, CountedBytes
  <2>3. CASE offset_distribution' = offset_distribution
    BY <2>1, <2>3
  <2>4. CASE \E b \in Past : Counted(b)
    BY <1>4, <2>1, <2>4, CountedBytes
  <2> QED BY <1>1, <2>2, <2>3, <2>4
<1> QED BY <1>1, <1>5 DEF Bytes

LEMMA ExtractByteTyped ==
  ASSUME Bytes, TrieTyped, NEW byte \in bytes.left, ExtractByte(byte)
  PROVE  TrieTyped'
<1> DEFINE text == single_token(byte, bytes.offset)
<1>1. byte \in 0..255
  BY DEF Bytes
<1>2. text \in Text /\ Len(text) <= 256
  <2> DEFINE r == Raw(byte)
  <2>1. r \in Seq(1..255) /\ (Len(r) = 0 \/ Len(r) = 1)
    <3>1. CASE byte = 0
      <4>1. r = << >>
        BY <3>1 DEF Raw
      <4> QED BY <4>1
    <3>2. CASE byte # 0
      <4>1. r = << byte >> /\ byte \in 1..255
        BY <1>1, <3>2 DEF Raw
      <4> HIDE DEF r
      <4>2. << byte >> \in Seq(1..255) /\ Len(<< byte >>) = 1
        BY <4>1
      <4> QED BY <4>1, <4>2
    <3> QED BY <3>1, <3>2
  <2> HIDE DEF r
  <2>2. r \in Seq(1..255) /\ Len(r) <= 1 /\ Len(r) \in Nat
    <3> DEFINE k == Len(r)
    <3>1. k = 0 \/ k = 1
      BY <2>1
    <3> HIDE DEF k
    <3>2. k <= 1 /\ k \in Nat
      BY <3>1
    <3> QED BY <2>1, <3>2 DEF k
  <2>3. << Hat >> \in Seq(1..255) /\ << Dollar >> \in Seq(1..255) /\ Len(<< Hat >>) = 1 /\ Len(<< Dollar >>) = 1
    BY DEF Hat, Dollar
  <2>4. /\ << Hat >> \o r \in Seq(1..255) /\ Len(<< Hat >> \o r) = 1 + Len(r)
        /\ r \o << Dollar >> \in Seq(1..255) /\ Len(r \o << Dollar >>) = Len(r) + 1
    BY <2>2, <2>3, ConcatProperties
  <2>5. text = << Hat >> \o r \/ text = r \o << Dollar >> \/ text = r
    BY DEF single_token, r
  <2> HIDE DEF text
  <2>6. text \in Seq(1..255)
    BY <2>2, <2>4, <2>5
  <2>7. Len(text) = 1 + Len(r) \/ Len(text) = Len(r) + 1 \/ Len(text) = Len(r)
    BY <2>4, <2>5
  <2> DEFINE l == Len(text)
             k == Len(r)
  <2>8. k \in Nat /\ k <= 1 /\ (l = 1 + k \/ l = k + 1 \/ l = k)
    BY <2>2, <2>7
  <2> HIDE DEF l, k
  <2>9. l <= 256
    BY <2>8
  <2> QED BY <2>6, <2>9 DEF Text, l
<1>3. CASE text = << >>
  <2>1. trie' = trie
    BY <1>3 DEF ExtractByte, trieVars
  <2> QED BY <2>1 DEF TrieTyped, Spelling
<1>4. CASE text # << >>
  <2>1. token_new(text, bytes.offset, Kind(text)) /\ Kind(text) \in Kinds /\ text \in Words
    BY <1>2, <1>4 DEF ExtractByte, Kind, Kinds, Words
  <2> HIDE DEF text
  <2> QED BY <1>2, <2>1, TokenNewTyped
<1> QED BY <1>3, <1>4

LEMMA TrieTypedStays == ASSUME TrieTyped, trie' = trie PROVE TrieTyped'
<1>1. Spelling'
  BY DEF TrieTyped, Spelling
<1>2. \A t \in DOMAIN trie' : TokenTyped(trie'[t])
  BY DEF TrieTyped
<1> QED BY <1>1, <1>2 DEF TrieTyped

LEMMA VariantsTypedStay ==
  ASSUME VariantsTyped, UNCHANGED variantVars, tokens' = tokens
  PROVE  VariantsTyped'
BY DEF VariantsTyped, variantVars

Typed == TrieTyped /\ VariantsTyped /\ Bytes

LEMMA PositionTyped ==
  ASSUME Occurring, Searched, Typed, position_constraints_main, UNCHANGED productVars
  PROVE  Typed'
<1>0. /\ Given /\ Codes /\ Traversing /\ TrieTyped /\ VariantsTyped /\ Bytes
      /\ offset_distribution' = offset_distribution /\ bytes' = bytes
  BY DEF Occurring, Typed, productVars
<1>1. CASE FlowNew \/ FlowsDone \/ TraverseDone \/ FixDone \/ MergeDone
  <2>1. /\ trie' = trie /\ tokens' = tokens /\ UNCHANGED variantVars /\ pc' \notin { "merge", "extract" }
    BY <1>1 DEF FlowNew, FlowsDone, TraverseDone, FixDone, MergeDone, trieVars, inputVars
  <2>2. Bytes'
    BY <1>0, <2>1 DEF Bytes
  <2> QED BY <1>0, <2>1, <2>2, TrieTypedStays, VariantsTypedStay DEF Typed
<1>2. CASE TraverseToken
  <2>1. tokens' = tokens /\ UNCHANGED variantVars /\ pc' = "traverse"
    BY <1>2 DEF TraverseToken, inputVars
  <2>2. Bytes'
    BY <1>0, <2>1 DEF Bytes
  <2> QED BY <1>0, <1>2, <2>1, <2>2, TraverseTokenTyped, VariantsTypedStay DEF Typed
<1>3. CASE FixOffset
  <2>1. tokens' = tokens /\ UNCHANGED variantVars /\ pc' = "fix"
    BY <1>3 DEF FixOffset, inputVars
  <2>2. Bytes'
    BY <1>0, <2>1 DEF Bytes
  <2> QED BY <1>0, <1>3, <2>1, <2>2, FixOffsetTyped, VariantsTypedStay DEF Typed
<1>4. CASE SearchOffsets
  <2>1. trie' = trie /\ pc' = "search"
    BY <1>4 DEF SearchOffsets, trieVars
  <2>2. Bytes'
    BY <1>0, <2>1 DEF Bytes
  <2> QED BY <1>0, <1>4, <2>1, <2>2, TrieTypedStays, SearchOffsetsTyped DEF Typed
<1>5. CASE SearchDone
  <2>1. /\ trie' = trie /\ tokens' = tokens /\ UNCHANGED variantVars /\ pc' = "merge"
        /\ offsets' = DOMAIN offset_variants'
    BY <1>5 DEF SearchDone, trieVars, inputVars, variantVars
  <2>2. Bytes'
    BY <1>0, <2>1 DEF Bytes
  <2> QED BY <1>0, <2>1, <2>2, TrieTypedStays, VariantsTypedStay DEF Typed
<1>6. ASSUME NEW o \in offsets, MergeVariants(o) PROVE Typed'
  <2>1. /\ tokens' = tokens /\ UNCHANGED variantVars /\ pc = "merge" /\ pc' = "merge"
        /\ offsets' \in SUBSET offsets
    BY <1>6 DEF MergeVariants, inputVars
  <2>2. offsets \in SUBSET DOMAIN offset_variants
    BY <1>0, <2>1 DEF Bytes
  <2>3. Bytes'
    BY <1>0, <2>1, <2>2 DEF Bytes, variantVars
  <2>4. TrieTyped'
    BY <1>0, <1>6, <2>2, MergeVariantsTyped
  <2> QED BY <1>0, <2>1, <2>3, <2>4, VariantsTypedStay DEF Typed
<1> QED BY <1>1, <1>2, <1>3, <1>4, <1>5, <1>6 DEF position_constraints_main

LEMMA ProductTyped ==
  ASSUME Given, Product, Typed, product_distribution_main
  PROVE  Typed'
<1>0. /\ TrieTyped /\ VariantsTyped /\ Bytes
      /\ bytes = [offset |-> bytes.offset, left |-> bytes.left]
  BY DEF Typed, Product, Starting
<1>1. VariantsTyped'
  <2>1. UNCHANGED variantVars /\ tokens' = tokens
    BY DEF product_distribution_main, StartCount, CountByte, CountNextPayload, CountDone, ExtractOffset,
           ExtractByte, ExtractDone, inputVars
  <2> QED BY <1>0, <2>1, VariantsTypedStay
<1>2. CASE StartCount \/ CountNextPayload \/ ExtractDone
  <2>1. /\ trie' = trie /\ offset_distribution' = offset_distribution /\ bytes' = bytes
        /\ pc' \notin { "merge", "extract" }
    BY <1>2 DEF StartCount, CountNextPayload, ExtractDone, trieVars, productVars
  <2>2. Bytes'
    BY <1>0, <2>1 DEF Bytes
  <2> QED BY <1>0, <1>1, <2>1, <2>2, TrieTypedStays DEF Typed
<1>3. CASE CountByte
  <2>1. trie' = trie /\ pc = "count"
    BY <1>3 DEF CountByte, trieVars
  <2>2. nth \in Nat \ { 0 } /\ index \in Nat
    BY <2>1, VisitsOffsets DEF Product, CountedRight
  <2>3. Bytes'
    BY <1>0, <1>3, <2>2, CountByteBytes
  <2> QED BY <1>0, <1>1, <2>1, <2>3, TrieTypedStays DEF Typed
<1>4. CASE CountDone
  <2>1. /\ trie' = trie /\ offset_distribution' = offset_distribution /\ bytes' = bytes
        /\ pc' = "extract" /\ offsets' = DOMAIN offset_distribution'
    BY <1>4 DEF CountDone, trieVars, productVars
  <2>2. Bytes'
    BY <1>0, <2>1 DEF Bytes
  <2> QED BY <1>0, <1>1, <2>1, <2>2, TrieTypedStays DEF Typed
<1>5. ASSUME NEW o \in offsets, ExtractOffset(o) PROVE Typed'
  <2>1. /\ trie' = trie /\ offset_distribution' = offset_distribution
        /\ bytes' = [ offset |-> o,
                      left   |-> IF Cardinality(DOMAIN offset_distribution[o]) > gamma_merge
                                   THEN {} ELSE DOMAIN offset_distribution[o] ]
        /\ pc = "extract" /\ pc' = "extract" /\ offsets' \in SUBSET offsets
    BY <1>5 DEF ExtractOffset, trieVars
  <2>2. /\ bytes'.left = {} \/ bytes'.left = DOMAIN offset_distribution[o]
    BY <2>1
  <2>3. o \in DOMAIN offset_distribution /\ offsets \in SUBSET DOMAIN offset_distribution
    BY <1>0, <2>1 DEF Bytes
  <2>4. Bytes'
    BY <1>0, <2>1, <2>2, <2>3 DEF Bytes
  <2> QED BY <1>0, <1>1, <2>1, <2>4, TrieTypedStays DEF Typed
<1>6. ASSUME NEW byte \in bytes.left, ExtractByte(byte) PROVE Typed'
  <2>1. /\ bytes' = [bytes EXCEPT !.left = @ \ { byte }] /\ offset_distribution' = offset_distribution
        /\ pc = "extract" /\ pc' # "merge" /\ offsets' = offsets
    BY <1>6 DEF ExtractByte, loopVars
  <2>2. bytes'.left \in SUBSET bytes.left
    BY <1>0, <2>1
  <2>3. Bytes'
    BY <1>0, <2>1, <2>2 DEF Bytes
  <2> QED BY <1>0, <1>1, <1>6, <2>3, ExtractByteTyped DEF Typed
<1> QED BY <1>2, <1>3, <1>4, <1>5, <1>6 DEF product_distribution_main

LEMMA TypedInvariant == Spec => []Typed
<1>1. Init => Typed
  <2> SUFFICES ASSUME Init PROVE Typed
    OBVIOUS
  <2>1. /\ pc = "flows" /\ trie = Nothing /\ offset_variants = Nothing /\ offset_distribution = Nothing
        /\ bytes = [offset |-> 0, left |-> {}]
    BY DEF Init, PositionInit, ProductInit
  <2>2. DOMAIN Nothing = {} /\ Nothing = [t \in DOMAIN Nothing |-> Nothing[t]]
    BY DEF Nothing
  <2>3. TrieTyped
    BY <2>1, <2>2, FS_EmptySet DEF TrieTyped, Spelling
  <2>4. Bytes
    BY <2>1, <2>2 DEF Bytes
  <2>5. set_next \in [ToSet(tokens) -> ToSet(tokens) \cup { NULL }]
    <3>1. PICK in \in Inputs :
            /\ tokens = in.tokens
            /\ set_next = [t \in ToSet(in.tokens) |->
                 LET n == CHOOSE m \in DOMAIN in.tokens :
                            /\ in.tokens[m] = t
                            /\ \A l \in DOMAIN in.tokens : in.tokens[l] = t => l <= m
                 IN  IF n < Len(in.tokens) THEN in.tokens[n + 1] ELSE NULL]
      BY DEF Init, PositionInit
    <3> DEFINE s == tokens
    <3>2. Len(s) \in Nat /\ DOMAIN s = 1..Len(s)
      BY <3>1, InputsAssumption, LenProperties
    <3>3. set_next = [t \in ToSet(s) |->
                        LET n == CHOOSE m \in DOMAIN s :
                                   s[m] = t /\ \A l \in DOMAIN s : s[l] = t => l <= m
                        IN  IF n < Len(s) THEN s[n + 1] ELSE NULL]
      BY <3>1
    <3> HIDE DEF s
    <3>4. ASSUME NEW t \in ToSet(s)
          PROVE  (LET n == CHOOSE m \in DOMAIN s : s[m] = t /\ \A l \in DOMAIN s : s[l] = t => l <= m
                  IN  IF n < Len(s) THEN s[n + 1] ELSE NULL) \in ToSet(s) \cup { NULL }
      <4> DEFINE n == CHOOSE m \in DOMAIN s : s[m] = t /\ \A l \in DOMAIN s : s[l] = t => l <= m
                 d == Len(s)
                 Behind1 == { k \in 0..(d - 1) : s[d - k] = t }
      <4>1. \E m \in DOMAIN s : s[m] = t /\ \A l \in DOMAIN s : s[l] = t => l <= m
        <5>1. PICK m \in 1..d : s[m] = t
          BY <3>2 DEF ToSet
        <5>2. d - m \in 0..(d - 1) /\ d - (d - m) = m /\ 0..(d - 1) \in SUBSET Nat
          BY <3>2
        <5>3. Behind1 \in SUBSET Nat /\ d - m \in Behind1
          BY <5>1, <5>2
        <5> HIDE DEF Behind1
        <5>4. PICK k \in Behind1 : \A j \in Behind1 : k <= j
          BY <5>3, LeastNatural
        <5> DEFINE e == d - k
        <5>5. e \in 1..d /\ s[e] = t
          BY <3>2, <5>4 DEF Behind1
        <5>6. ASSUME NEW l \in 1..d, s[l] = t PROVE l <= e
          <6>1. d - l \in 0..(d - 1) /\ d - (d - l) = l
            BY <3>2
          <6>2. d - l \in Behind1
            BY <5>6, <6>1 DEF Behind1
          <6>3. k <= d - l /\ k \in Nat
            BY <5>3, <5>4, <6>2
          <6> QED BY <3>2, <6>3
        <5> HIDE DEF e
        <5> QED BY <3>2, <5>5, <5>6
      <4> HIDE DEF Behind1
      <4>2. n \in DOMAIN s
        BY <4>1
      <4> HIDE DEF n
      <4>3. n < Len(s) => n + 1 \in DOMAIN s
        BY <3>2, <4>2
      <4>4. (IF n < Len(s) THEN s[n + 1] ELSE NULL) \in ToSet(s) \cup { NULL }
        BY <4>3 DEF ToSet
      <4> QED BY <4>4 DEF n
    <3> QED BY <3>3, <3>4 DEF s
  <2>6. VariantsTyped
    BY <2>1, <2>2, <2>5 DEF VariantsTyped
  <2> QED BY <2>3, <2>4, <2>6 DEF Typed
<1>2. Occurring /\ Searched /\ Product /\ Typed /\ [Next]_vars => Typed'
  <2> SUFFICES ASSUME Occurring, Searched, Product, Typed, [Next]_vars PROVE Typed'
    OBVIOUS
  <2>1. CASE UNCHANGED vars
    <3>1. /\ trie' = trie /\ tokens' = tokens /\ UNCHANGED variantVars /\ pc' = pc /\ offsets' = offsets
          /\ offset_distribution' = offset_distribution /\ bytes' = bytes
      BY <2>1 DEF vars, positionVars, productVars, inputVars, trieVars, loopVars
    <3>2. Bytes'
      BY <3>1 DEF Bytes, Typed, variantVars
    <3> QED BY <3>1, <3>2, TrieTypedStays, VariantsTypedStay DEF Typed
  <2>2. CASE position_constraints_main /\ UNCHANGED productVars
    BY <2>2, PositionTyped
  <2>3. CASE product_distribution_main
    BY <2>3, ProductTyped DEF Occurring
  <2>4. CASE convertion_main
    <3>1. /\ trie' = trie /\ tokens' = tokens /\ UNCHANGED variantVars
          /\ pc' \notin { "merge", "extract" }
          /\ offset_distribution' = offset_distribution /\ bytes' = bytes
      BY <2>4 DEF convertion_main, StartFlow, ReplaceMatch, ReplaceRest, FlowDone, earlierVars, productVars,
                  inputVars, trieVars
    <3>2. Bytes'
      BY <3>1 DEF Bytes, Typed
    <3> QED BY <3>1, <3>2, TrieTypedStays, VariantsTypedStay DEF Typed
  <2> QED BY <2>1, <2>2, <2>3, <2>4 DEF Next
<1> QED BY <1>1, <1>2, OccurringInvariant, SearchedInvariant, ProductInvariant, PTL DEF Spec

-----------------------------------------------------------------------------
(* The list of what was converted.                                         *)

Items == Int \cup { Unset }

\* The payload that convertion_main is at.
Turn ==
  /\ nth \in 1..(Len(payloads) + 1)
  /\ pc \in { "convert", "convert_next" } => nth <= Len(payloads)

Out ==
  /\ src_p \in Nat /\ first_flag \in Nat
  /\ flow_converted \in Seq(Items) /\ flows_converted \in Seq(Seq(Items))

ConvertedFlow(f, w) == [n \in 1..Len(w) |-> ItemOf(f, w, n, DOMAIN f)]

\* The first k payloads converted, the last of them first.
AllConverted(f, ws, k) == [i \in 1..k |-> ConvertedFlow(f, ws[(k + 1) - i])]

Finished ==
  /\ pc \notin { "convert", "convert_next", "converted" } => flows_converted = << >>
  /\ trie # Nothing =>
       /\ pc = "convert" => flows_converted = AllConverted(trie, payloads, nth - 1)
       /\ pc = "convert_next" => flows_converted = AllConverted(trie, payloads, nth)
       /\ pc = "converted" => flows_converted = AllConverted(trie, payloads, Len(payloads))

LEMMA StartFlowTurn ==
  ASSUME Given, Turn, StartFlow
  PROVE  Turn'
<1>1. /\ (pc = "extracted" /\ nth' = 1) \/ (pc = "convert_next" /\ nth' = nth + 1)
      /\ IF nth' > Len(payloads) THEN pc' = "converted" ELSE pc' = "convert"
      /\ payloads' = payloads
  BY DEF StartFlow, earlierVars, inputVars
<1> DEFINE l == Len(payloads)
<1>2. l \in Nat /\ nth \in 1..(l + 1) /\ (pc = "convert_next" => nth <= l)
  BY GivenTexts DEF Turn
<1>3. Len(payloads') = l
  BY <1>1
<1> HIDE DEF l
<1>4. nth' \in 1..(l + 1) /\ (~ nth' > l => nth' <= l)
  BY <1>1, <1>2
<1> QED BY <1>1, <1>3, <1>4 DEF Turn, l

LEMMA CodeType ==
  ASSUME Codes, NEW t \in DOMAIN trie
  PROVE  trie[t].replacement \in Int
<1>1. trie[t].replacement \in (specific + 1)..-2 \cup 258..(ordinary - 1)
  BY DEF Codes, CodesDistinct
<1> DEFINE c == trie[t].replacement
<1>2. specific \in Int /\ ordinary \in Int
  BY DEF Codes, Counters
<1> HIDE DEF c
<1>3. c \in Int
  BY <1>1, <1>2 DEF c
<1> QED BY <1>3 DEF c

LEMMA ByteType ==
  ASSUME NEW w \in Text, NEW n \in 1..Len(w)
  PROVE  ToInt(w[n]) \in Items
<1> DEFINE b == w[n]
<1>1. b \in 1..255
  BY TextChars
<1> HIDE DEF b
<1>2. ToInt(b) \in Int
  BY <1>1 DEF ToInt
<1> QED BY <1>2 DEF b, Items

LEMMA StartFlowOut ==
  ASSUME Given, Turn, Out, StartFlow
  PROVE  Out'
<1>1. CASE nth' > Len(payloads)
  BY <1>1 DEF StartFlow, Out, conversionVars
<1>2. CASE ~ nth' > Len(payloads)
  <2>1. /\ flow_converted' = [n \in 1..Len(payloads[nth']) |-> Unset]
        /\ first_flag' = 0 /\ src_p' = 0 /\ flows_converted' = flows_converted
        /\ pc' = "convert" /\ payloads' = payloads
    BY <1>2 DEF StartFlow, earlierVars, inputVars
  <2>2. nth' \in 1..Len(payloads)
    <3>1. Turn' /\ Len(payloads) \in Nat
      BY StartFlowTurn, GivenTexts
    <3> QED BY <2>1, <3>1 DEF Turn
  <2> DEFINE l == Len(payloads[nth'])
             f == flow_converted'
  <2>3. l \in Nat /\ Unset \in Items
    BY <2>2, GivenTexts, TextChars DEF Items
  <2>4. f = [n \in 1..l |-> Unset]
    BY <2>1
  <2> HIDE DEF l, f
  <2>5. f \in Seq(Items)
    BY <2>3, <2>4, IsASeq
  <2> QED BY <2>1, <2>5 DEF Out, f
<1> QED BY <1>1, <1>2

LEMMA ReplaceMatchOut ==
  ASSUME Given, Spelling, Codes, Converting, Out, ReplaceMatch
  PROVE  Out'
<1> DEFINE t == Head(todo)
           w == flow
           pos == Least(Ahead)
           conv == flow_converted
           Item(n) == IF replacement_counter + n - pos - 1 < trie[t].shortest_len
                        THEN trie[t].replacement ELSE -1
           New(n) == IF pos < n /\ n <= pos + Len(t) THEN Item(n)
                     ELSE IF src_p < n /\ n <= pos /\ first_flag = 0 THEN ToInt(w[n]) ELSE conv[n]
<1>1. /\ pc = "convert" /\ todo # << >>
      /\ first_flag' = first_flag /\ flows_converted' = flows_converted
  BY DEF ReplaceMatch
<1>2. conv' = [n \in DOMAIN conv |-> New(n)]
  BY DEF ReplaceMatch, Copied
<1>3. nth \in 1..Len(payloads) /\ w \in Text /\ DOMAIN conv = 1..Len(w) /\ Rest(todo)
  <2>1. nth \in 1..Len(payloads) /\ Rest(todo) /\ DOMAIN conv = 1..Len(w)
    BY <1>1 DEF Converting, SoFar
  <2> QED BY <2>1, GivenTexts DEF flow
<1>4. t \in DOMAIN trie
  BY <1>1, <1>3, RestTail DEF Spelling, Words
<1>5. trie[t].replacement \in Int
  BY <1>4, CodeType
<1>6. src_p' \in Nat
  <2>1. pc' = "convert" /\ flow' = flow
    BY <1>1 DEF ReplaceMatch, flow, earlierVars, inputVars, productVars
  <2>2. Converting'
    BY ReplaceMatchConverting
  <2>3. src_p' \in 0..Len(w)
    BY <2>1, <2>2 DEF Converting, SoFar
  <2> HIDE DEF w
  <2>4. Len(w) \in Nat
    BY <1>3, TextChars
  <2> QED BY <2>3, <2>4
<1>7. /\ first_flag \in Nat /\ conv \in Seq(Items) /\ flows_converted \in Seq(Seq(Items))
  BY DEF Out
<1> HIDE DEF t, w, conv, pos, New
<1>8. Len(w) \in Nat /\ Len(conv) \in Nat /\ DOMAIN conv = 1..Len(conv)
      /\ \A n \in DOMAIN conv : conv[n] \in Items
  BY <1>3, <1>7, TextChars, LenProperties, ElementOfSeq
<1>9. ASSUME NEW n \in DOMAIN conv PROVE New(n) \in Items
  <2>1. ToInt(w[n]) \in Items
    BY <1>3, ByteType
  <2>2. Item(n) \in Items
    BY <1>5 DEF Items
  <2> HIDE DEF Item
  <2> QED BY <1>8, <2>1, <2>2 DEF New
<1>10. conv' \in Seq(Items)
  <2> DEFINE l == Len(conv)
             f == conv'
  <2>1. f \in [1..l -> Items] /\ l \in Nat
    BY <1>2, <1>8, <1>9
  <2> HIDE DEF l, f
  <2>2. f \in Seq(Items)
    BY <2>1, IsASeq
  <2> QED BY <2>2 DEF f
<1> QED BY <1>1, <1>6, <1>7, <1>10 DEF Out, conv

LEMMA ReplaceRestOut ==
  ASSUME Given, Converting, Out, ReplaceRest
  PROVE  Out'
<1> DEFINE w == flow
           conv == flow_converted
           New(n) == IF src_p < n /\ n <= Len(w) /\ first_flag = 0 THEN ToInt(w[n]) ELSE conv[n]
<1>1. /\ pc = "convert" /\ flows_converted' = flows_converted
      /\ src_p' = 0 /\ first_flag' = first_flag + 1
  BY DEF ReplaceRest
<1>2. conv' = [n \in DOMAIN conv |-> New(n)]
  BY DEF ReplaceRest, Copied
<1>3. w \in Text /\ DOMAIN conv = 1..Len(w)
  <2>1. nth \in 1..Len(payloads) /\ DOMAIN conv = 1..Len(w)
    BY <1>1 DEF Converting, SoFar
  <2> QED BY <2>1, GivenTexts DEF flow
<1>4. first_flag \in Nat /\ conv \in Seq(Items) /\ flows_converted \in Seq(Seq(Items))
  BY DEF Out
<1> HIDE DEF w, conv, New
<1>5. Len(conv) \in Nat /\ DOMAIN conv = 1..Len(conv) /\ \A n \in DOMAIN conv : conv[n] \in Items
  BY <1>4, LenProperties, ElementOfSeq
<1>6. ASSUME NEW n \in DOMAIN conv PROVE New(n) \in Items
  <2>1. ToInt(w[n]) \in Items
    BY <1>3, ByteType
  <2> QED BY <1>5, <2>1 DEF New
<1>7. conv' \in Seq(Items)
  <2> DEFINE l == Len(conv)
             f == conv'
  <2>1. f \in [1..l -> Items] /\ l \in Nat
    BY <1>2, <1>5, <1>6
  <2> HIDE DEF l, f
  <2>2. f \in Seq(Items)
    BY <2>1, IsASeq
  <2> QED BY <2>2 DEF f
<1> QED BY <1>1, <1>4, <1>7 DEF Out, conv

\* One payload more.
LEMMA AllConvertedMore ==
  ASSUME NEW f, NEW ws, NEW k \in Nat \ { 0 }, NEW S, ConvertedFlow(f, ws[k]) \in S,
         AllConverted(f, ws, k - 1) \in Seq(S)
  PROVE  << ConvertedFlow(f, ws[k]) >> \o AllConverted(f, ws, k - 1) = AllConverted(f, ws, k)
<1> DEFINE a == ConvertedFlow(f, ws[k])
           r == AllConverted(f, ws, k - 1)
           s == << a >> \o r
<1>0. k \in Nat /\ k - 1 \in Nat
  OBVIOUS
<1>1. Len(r) \in Nat /\ DOMAIN r = 1..Len(r)
  BY LenProperties
<1>2. DOMAIN r = 1..(k - 1) /\ \A i \in 1..(k - 1) : r[i] = ConvertedFlow(f, ws[((k - 1) + 1) - i])
  BY DEF AllConverted
<1>3. r \in Seq(S) /\ a \in S
  OBVIOUS
<1> HIDE DEF a, r
<1>4. Len(r) = k - 1
  <2> DEFINE l == Len(r)
             m == k - 1
  <2>1. l \in Nat /\ m \in Nat /\ 1..l = 1..m
    BY <1>0, <1>1, <1>2
  <2> HIDE DEF l, m
  <2>2. l = m
    BY <2>1
  <2> QED BY <2>2 DEF l, m
<1>5. << a >> \in Seq(S) /\ Len(<< a >>) = 1 /\ << a >>[1] = a
  BY <1>3
<1>6. /\ s \in Seq(S) /\ Len(s) = 1 + (k - 1)
      /\ \A i \in 1..(1 + (k - 1)) : s[i] = IF i <= 1 THEN << a >>[i] ELSE r[i - 1]
  BY <1>3, <1>4, <1>5, ConcatProperties
<1>7. 1 + (k - 1) = k
  OBVIOUS
<1> HIDE DEF s
<1>8. s = [i \in 1..k |-> s[i]]
  BY <1>6, <1>7, LenProperties
<1>9. ASSUME NEW i \in 1..k PROVE s[i] = ConvertedFlow(f, ws[(k + 1) - i])
  <2>1. CASE i = 1
    <3>1. s[i] = a /\ (k + 1) - i = k
      BY <1>5, <1>6, <1>7, <2>1
    <3> QED BY <3>1 DEF a
  <2>2. CASE i # 1
    <3>1. i - 1 \in 1..(k - 1) /\ ~ i <= 1 /\ ((k - 1) + 1) - (i - 1) = (k + 1) - i
      BY <2>2
    <3> QED BY <1>2, <1>6, <1>7, <3>1
  <2> QED BY <2>1, <2>2
<1>10. s = AllConverted(f, ws, k)
  BY <1>8, <1>9 DEF AllConverted
<1> QED BY <1>10 DEF s, a, r

LEMMA AllConvertedNone == ASSUME NEW f, NEW ws PROVE AllConverted(f, ws, 0) = << >>
<1> DEFINE s == AllConverted(f, ws, 0)
<1>1. s = [i \in 1..0 |-> ConvertedFlow(f, ws[(0 + 1) - i])]
  BY DEF AllConverted
<1>2. DOMAIN s = {} /\ s = [i \in {} |-> s[i]]
  BY <1>1
<1> HIDE DEF s
<1>3. s \in [1..0 -> {}]
  BY <1>2
<1>4. s \in Seq({})
  BY <1>3, IsASeq
<1>5. s = << >>
  BY <1>2, <1>4, EmptySeq, LenProperties
<1> QED BY <1>5 DEF s

\* A payload that all the tokens were tried on.
LEMMA FlowConverted ==
  ASSUME Given, Spelling, Converting, pc = "convert", todo = << >>, trie # Nothing
  PROVE  flow_converted = ConvertedFlow(trie, payloads[nth])
<1>1. /\ nth \in 1..Len(payloads) /\ flow = payloads[nth] /\ flow \in Text
      /\ SoFar(trie, flow, << >>, src_p, first_flag, replacement_counter, flow_converted)
  BY GivenTexts DEF Converting, flow
<1> DEFINE w == flow
<1>2. Tried(trie, << >>) = DOMAIN trie /\ DOMAIN trie # {}
  <2>1. Tried(trie, << >>) = DOMAIN trie
    BY DEF Tried, ToSet
  <2>2. trie = [t \in DOMAIN trie |-> trie[t]]
    BY DEF Spelling
  <2>3. ASSUME DOMAIN trie = {} PROVE FALSE
    <3> DEFINE f == trie
    <3>1. f = [t \in {} |-> f[t]] /\ f # Nothing
      BY <2>2, <2>3
    <3> HIDE DEF f
    <3>2. f = [t \in {} |-> NULL]
      BY <3>1
    <3> QED BY <3>1, <3>2 DEF Nothing
  <2> QED BY <2>1, <2>3
<1>3. Len(w) \in Nat
  BY <1>1, TextChars
<1>4. /\ src_p = 0 /\ first_flag # 0
      /\ flow_converted = [n \in 1..Len(w) |-> ItemSoFar(trie, w, << >>, src_p, first_flag, n)]
  BY <1>1, <1>2 DEF SoFar
<1> HIDE DEF w
<1>5. ASSUME NEW n \in 1..Len(w)
      PROVE  ItemSoFar(trie, w, << >>, src_p, first_flag, n) = ItemOf(trie, w, n, DOMAIN trie)
  <2>1. ~ n <= 0
    BY <1>3
  <2> QED BY <1>2, <1>4, <2>1 DEF ItemSoFar
<1>6. flow_converted = ConvertedFlow(trie, w)
  BY <1>4, <1>5 DEF ConvertedFlow
<1> QED BY <1>1, <1>6 DEF w

LEMMA FlowDoneFinished ==
  ASSUME Given, Spelling, Converting, Out, Finished, FlowDone
  PROVE  Out' /\ Finished' /\ Turn'
<1>1. /\ pc = "convert" /\ todo = << >> /\ pc' = "convert_next"
      /\ flows_converted' = << flow_converted >> \o flows_converted
      /\ flow_converted' = flow_converted /\ src_p' = src_p /\ first_flag' = first_flag
      /\ trie' = trie /\ payloads' = payloads /\ nth' = nth
  BY DEF FlowDone, earlierVars, inputVars, trieVars, productVars
<1>2. nth \in 1..Len(payloads) /\ Len(payloads) \in Nat
  BY <1>1, GivenTexts DEF Converting
<1>3. Turn'
  <2> DEFINE l == Len(payloads)
  <2>1. l \in Nat /\ nth \in 1..l
    BY <1>2
  <2> HIDE DEF l
  <2>2. nth \in 1..(l + 1) /\ nth <= l
    BY <2>1
  <2> QED BY <1>1, <2>2 DEF Turn, l
<1>4. /\ src_p \in Nat /\ first_flag \in Nat
      /\ flow_converted \in Seq(Items) /\ flows_converted \in Seq(Seq(Items))
  BY DEF Out
<1>5. << flow_converted >> \o flows_converted \in Seq(Seq(Items))
  <2> DEFINE S == Seq(Items)
  <2>1. flow_converted \in S /\ flows_converted \in Seq(S)
    BY <1>4
  <2> HIDE DEF S
  <2>2. << flow_converted >> \in Seq(S)
    BY <2>1
  <2>3. << flow_converted >> \o flows_converted \in Seq(S)
    BY <2>1, <2>2, ConcatProperties
  <2> QED BY <2>3 DEF S
<1>6. Out'
  BY <1>1, <1>4, <1>5 DEF Out
<1>7. trie # Nothing => flows_converted' = AllConverted(trie, payloads, nth)
  <2> SUFFICES ASSUME trie # Nothing PROVE flows_converted' = AllConverted(trie, payloads, nth)
    OBVIOUS
  <2>1. flows_converted = AllConverted(trie, payloads, nth - 1)
    BY <1>1 DEF Finished
  <2>2. flow_converted = ConvertedFlow(trie, payloads[nth])
    BY <1>1, FlowConverted
  <2>3. nth \in Nat \ { 0 }
    BY <1>2
  <2> DEFINE S == Seq(Items)
  <2>4. ConvertedFlow(trie, payloads[nth]) \in S /\ AllConverted(trie, payloads, nth - 1) \in Seq(S)
    BY <1>4, <2>1, <2>2
  <2> HIDE DEF S
  <2>5. << ConvertedFlow(trie, payloads[nth]) >> \o AllConverted(trie, payloads, nth - 1)
          = AllConverted(trie, payloads, nth)
    BY <2>3, <2>4, AllConvertedMore
  <2> QED BY <1>1, <2>1, <2>2, <2>5
<1>8. Finished'
  BY <1>1, <1>7 DEF Finished
<1> QED BY <1>3, <1>6, <1>8

LEMMA StartFlowFinished ==
  ASSUME Given, Turn, Finished, StartFlow
  PROVE  Finished'
<1>1. /\ (pc = "extracted" /\ nth' = 1) \/ (pc = "convert_next" /\ nth' = nth + 1)
      /\ IF nth' > Len(payloads) THEN pc' = "converted" ELSE pc' = "convert"
      /\ payloads' = payloads /\ trie' = trie
  BY DEF StartFlow, earlierVars, inputVars, trieVars
<1>2. flows_converted' = flows_converted
  BY DEF StartFlow, conversionVars
<1> DEFINE l == Len(payloads)
<1>3. l \in Nat /\ nth \in 1..(l + 1) /\ (pc = "convert_next" => nth <= l)
  BY GivenTexts DEF Turn
<1>4. pc = "extracted" => flows_converted = << >>
  BY DEF Finished
<1>5. pc = "convert_next" /\ trie # Nothing => flows_converted = AllConverted(trie, payloads, nth)
  BY DEF Finished
<1>6. AllConverted(trie, payloads, 0) = << >>
  BY AllConvertedNone
<1>7. IF nth' > l THEN pc' = "converted" ELSE pc' = "convert"
  BY <1>1
<1> HIDE DEF l
<1>8. CASE pc = "extracted" /\ nth' = 1
  <2>1. (nth' > l => l = 0) /\ nth' - 1 = 0
    BY <1>3, <1>8
  <2>2. /\ pc' = "convert" => flows_converted' = AllConverted(trie', payloads', nth' - 1)
        /\ pc' = "converted" => flows_converted' = AllConverted(trie', payloads', l)
    BY <1>1, <1>2, <1>4, <1>6, <1>7, <1>8, <2>1
  <2> QED BY <1>1, <2>2 DEF Finished, l
<1>9. CASE pc = "convert_next" /\ nth' = nth + 1
  <2>1. (nth' > l => l = nth) /\ nth' - 1 = nth
    BY <1>3, <1>9
  <2>2. trie' # Nothing =>
          /\ pc' = "convert" => flows_converted' = AllConverted(trie', payloads', nth' - 1)
          /\ pc' = "converted" => flows_converted' = AllConverted(trie', payloads', l)
    BY <1>1, <1>2, <1>5, <1>7, <1>9, <2>1
  <2> QED BY <1>1, <2>2 DEF Finished, l
<1> QED BY <1>1, <1>8, <1>9

ConversionRight == Turn /\ Converting /\ Out /\ Finished

LEMMA ConvertionRight ==
  ASSUME Given, Codes, Spelling, ConversionRight, convertion_main
  PROVE  ConversionRight'
<1>0. Turn /\ Converting /\ Out /\ Finished
  BY DEF ConversionRight
<1>1. CASE StartFlow
  <2>1. Turn' /\ Out' /\ Finished'
    BY <1>0, <1>1, StartFlowTurn, StartFlowOut, StartFlowFinished
  <2>2. Converting'
    <3>1. CASE pc' = "convert"
      <4>1. pc = "convert_next" => nth \in 1..Len(payloads)
        <5> DEFINE l == Len(payloads)
        <5>1. l \in Nat /\ nth \in 1..(l + 1) /\ (pc = "convert_next" => nth <= l)
          BY <1>0, GivenTexts DEF Turn
        <5> HIDE DEF l
        <5>2. pc = "convert_next" => nth \in 1..l
          BY <5>1
        <5> QED BY <5>2 DEF l
      <4> QED BY <1>1, <3>1, <4>1, StartFlowConverting
    <3>2. CASE pc' # "convert"
      BY <3>2 DEF Converting
    <3> QED BY <3>1, <3>2
  <2> QED BY <2>1, <2>2 DEF ConversionRight
<1>2. CASE ReplaceMatch
  <2>1. /\ pc = "convert" /\ pc' = pc /\ nth' = nth /\ payloads' = payloads /\ trie' = trie
        /\ flows_converted' = flows_converted
    BY <1>2 DEF ReplaceMatch, earlierVars, inputVars, trieVars, productVars
  <2>2. Turn' /\ Finished'
    BY <1>0, <2>1 DEF Turn, Finished
  <2>3. Converting' /\ Out'
    BY <1>0, <1>2, ReplaceMatchConverting, ReplaceMatchOut
  <2> QED BY <2>2, <2>3 DEF ConversionRight
<1>3. CASE ReplaceRest
  <2>1. /\ pc = "convert" /\ pc' = pc /\ nth' = nth /\ payloads' = payloads /\ trie' = trie
        /\ flows_converted' = flows_converted
    BY <1>3 DEF ReplaceRest, earlierVars, inputVars, trieVars, productVars
  <2>2. Turn' /\ Finished'
    BY <1>0, <2>1 DEF Turn, Finished
  <2>3. Converting' /\ Out'
    BY <1>0, <1>3, ReplaceRestConverting, ReplaceRestOut
  <2> QED BY <2>2, <2>3 DEF ConversionRight
<1>4. CASE FlowDone
  <2>1. Turn' /\ Out' /\ Finished'
    BY <1>0, <1>4, FlowDoneFinished
  <2>2. pc' # "convert"
    BY <1>4 DEF FlowDone
  <2> QED BY <2>1, <2>2 DEF ConversionRight, Converting
<1> QED BY <1>1, <1>2, <1>3, <1>4 DEF convertion_main

LEMMA ConversionInvariant == Spec => []ConversionRight
<1>1. Init => ConversionRight
  <2> SUFFICES ASSUME Init PROVE ConversionRight
    OBVIOUS
  <2>1. /\ pc = "flows" /\ trie = Nothing /\ nth = 1 /\ src_p = 0 /\ first_flag = 0
        /\ flow_converted = << >> /\ flows_converted = << >>
    BY DEF Init, PositionInit, ProductInit
  <2>2. Len(payloads) \in Nat
    BY InputsAssumption, LenProperties DEF Init, PositionInit
  <2>3. Turn
    <3>1. 1 \in 1..(Len(payloads) + 1)
      BY <2>2
    <3> QED BY <2>1, <3>1 DEF Turn
  <2>4. Out
    BY <2>1, EmptySeq DEF Out
  <2> QED BY <2>1, <2>3, <2>4 DEF ConversionRight, Converting, Finished
<1>2. Occurring /\ Product /\ Typed /\ ConversionRight /\ [Next]_vars => ConversionRight'
  <2> SUFFICES ASSUME Occurring, Product, Typed, ConversionRight, [Next]_vars PROVE ConversionRight'
    OBVIOUS
  <2>0. Given /\ Codes /\ Spelling /\ Turn /\ Converting /\ Out /\ Finished
    BY DEF Occurring, Typed, TrieTyped, ConversionRight
  <2>1. CASE UNCHANGED vars
    <3>1. /\ payloads' = payloads /\ trie' = trie /\ todo' = todo /\ pc' = pc /\ nth' = nth
          /\ src_p' = src_p /\ first_flag' = first_flag /\ replacement_counter' = replacement_counter
          /\ flow_converted' = flow_converted /\ flows_converted' = flows_converted
      BY <2>1 DEF vars, positionVars, productVars, conversionVars, inputVars, trieVars, loopVars
    <3>2. Turn' /\ Out' /\ Finished'
      BY <2>0, <3>1 DEF Turn, Out, Finished
    <3>3. flow' = flow
      BY <3>1 DEF flow
    <3>4. Rest(todo) => Rest(todo)'
      BY <3>1 DEF Rest, Upwards, Done
    <3>5. Converting'
      BY <2>0, <3>1, <3>3, <3>4 DEF Converting
    <3> QED BY <3>2, <3>5 DEF ConversionRight
  <2>2. CASE position_constraints_main /\ UNCHANGED << productVars, conversionVars >>
    <3>1. /\ pc \in Positions /\ pc' \in Positions /\ payloads' = payloads /\ nth' = nth
          /\ UNCHANGED conversionVars
      BY <2>2 DEF position_constraints_main, FlowNew, FlowsDone, TraverseToken, TraverseDone, FixOffset,
                  FixDone, SearchOffsets, SearchDone, MergeVariants, MergeDone, Positions, inputVars,
                  productVars
    <3> QED BY <2>0, <3>1 DEF ConversionRight, Turn, Converting, Out, Finished, Positions, conversionVars
  <2>3. CASE product_distribution_main /\ UNCHANGED conversionVars
    <3>1. /\ pc \in Positions \cup { "count", "extract" } /\ pc' \in { "count", "crashed", "extract", "extracted" }
          /\ payloads' = payloads /\ UNCHANGED conversionVars
      BY <2>3 DEF product_distribution_main, StartCount, CountByte, CountNextPayload, CountDone,
                  ExtractOffset, ExtractByte, ExtractDone, inputVars, Positions
    <3>2. nth' = nth \/ (pc = "count" /\ nth <= Len(payloads) /\ nth' = nth + 1)
      BY <2>3 DEF product_distribution_main, StartCount, CountByte, CountNextPayload, CountDone,
                  ExtractOffset, ExtractByte, ExtractDone, productVars
    <3>3. Turn'
      <4> DEFINE l == Len(payloads)
      <4>1. l \in Nat /\ nth \in 1..(l + 1) /\ (nth' = nth \/ (nth <= l /\ nth' = nth + 1))
        BY <2>0, <3>2, GivenTexts DEF Turn
      <4> HIDE DEF l
      <4>2. nth' \in 1..(l + 1)
        BY <4>1
      <4> QED BY <3>1, <4>2 DEF Turn, l
    <3> QED BY <2>0, <3>1, <3>3 DEF ConversionRight, Converting, Out, Finished, Positions, conversionVars
  <2>4. CASE convertion_main
    BY <2>0, <2>4, ConvertionRight
  <2> QED BY <2>1, <2>2, <2>3, <2>4 DEF Next
<1> QED BY <1>1, <1>2, OccurringInvariant, ProductInvariant, TypedInvariant, PTL DEF Spec

LEMMA TypesRight == ASSUME Codes, Typed, ConversionRight PROVE TypeOK
<1>1. \A t \in DOMAIN trie : trie[t].replacement \in Int
  BY CodeType
<1>2. \A t \in DOMAIN trie : TokenTyped(trie[t])
  BY DEF Typed, TrieTyped
<1>3. DOMAIN trie \subseteq Seq(1..255)
  BY DEF Typed, TrieTyped, Spelling, Words, Text
<1>4. /\ ordinary \in Int /\ ordinary >= 258 /\ specific \in Int /\ specific <= -2
      /\ offset_variants \in [DOMAIN offset_variants ->
                                [num_variants : 1..Len(tokens), variants : ToSet(tokens)]]
      /\ set_next \in [ToSet(tokens) -> ToSet(tokens) \cup { NULL }]
  BY DEF Codes, Counters, Typed, VariantsTyped
<1>5. /\ nth \in 1..(Len(payloads) + 1) /\ src_p \in Nat /\ first_flag \in Nat
      /\ flow_converted \in Seq(Int \cup { Unset })
      /\ flows_converted \in Seq(Seq(Int \cup { Unset }))
  BY DEF ConversionRight, Turn, Out, Items
<1>6. ASSUME NEW t \in DOMAIN trie
      PROVE  /\ trie[t].replacement \in Int /\ trie[t].shortest_len \in 1..256
             /\ trie[t].position_specific \in { "PS_ORDINARY", "PS_NOT_MERGE", "PS_MERGE",
                                                "PS_SINGLE_BEGIN", "PS_SINGLE_END", "PS_SINGLE" }
             /\ trie[t].offset_occurrence \in [DOMAIN trie[t].offset_occurrence -> Nat \ { 0 }]
  <2> DEFINE r == trie[t]
  <2>1. r.replacement \in Int /\ TokenTyped(r)
    BY <1>1, <1>2
  <2> HIDE DEF r
  <2>2. /\ r.replacement \in Int /\ r.shortest_len \in 1..256
        /\ r.position_specific \in { "PS_ORDINARY", "PS_NOT_MERGE", "PS_MERGE",
                                     "PS_SINGLE_BEGIN", "PS_SINGLE_END", "PS_SINGLE" }
        /\ r.offset_occurrence \in [DOMAIN r.offset_occurrence -> Nat \ { 0 }]
    BY <2>1 DEF TokenTyped, IsTable, Kinds, PlainKinds
  <2> QED BY <2>2 DEF r
<1> QED BY <1>3, <1>4, <1>5, <1>6 DEF TypeOK

(* Whatever the payloads and the tokens are: every payload is converted,   *)
(* the last of them first, with every item the code, or the mark for       *)
(* deletion, of the token with a match there that comes last in the trie,  *)
(* or its byte if there is none.                                           *)
THEOREM ConvertedCorrect == Spec => []ConvertedRight
<1>1. Given /\ Codes /\ Typed /\ ConversionRight => ConvertedRight
  <2> SUFFICES ASSUME Given, Codes, Typed, ConversionRight, pc = "converted", trie # Nothing
               PROVE  flows_converted =
                        Reverse([p \in DOMAIN payloads |->
                          [n \in 1..Len(payloads[p]) |-> Converted(payloads[p], n)]])
    BY TypesRight DEF ConvertedRight
  <2> DEFINE s == [p \in DOMAIN payloads |->
                     [n \in 1..Len(payloads[p]) |-> Converted(payloads[p], n)]]
             l == Len(payloads)
             flowOf == [p \in DOMAIN payloads |-> ConvertedFlow(trie, payloads[p])]
  <2>1. flows_converted = AllConverted(trie, payloads, l)
    BY DEF ConversionRight, Finished
  <2>2. \A w, n : Converted(w, n) = ItemOf(trie, w, n, DOMAIN trie)
    BY ConvertedItem
  <2>3. s = flowOf
    BY <2>2 DEF ConvertedFlow
  <2>4. l \in Nat /\ DOMAIN payloads = 1..l
    BY GivenTexts
  <2> HIDE DEF s, l
  <2>5. s \in [1..l -> { s[p] : p \in 1..l }]
    BY <2>3, <2>4
  <2>6. s \in Seq({ s[p] : p \in 1..l })
    BY <2>4, <2>5, IsASeq, SMTT(30)
  <2>7. Len(s) = l
    <3>1. Len(s) \in Nat /\ DOMAIN s = 1..Len(s)
      BY <2>6, LenProperties
    <3> DEFINE k == Len(s)
    <3>2. k \in Nat /\ 1..k = 1..l
      BY <2>5, <3>1
    <3> HIDE DEF k
    <3>3. k = l
      BY <2>4, <3>2
    <3> QED BY <3>3 DEF k
  <2>8. Reverse(s) = [i \in 1..l |-> s[(l - i) + 1]]
    BY <2>7 DEF Reverse
  <2>9. ASSUME NEW i \in 1..l PROVE s[(l - i) + 1] = ConvertedFlow(trie, payloads[(l + 1) - i])
    <3>1. (l - i) + 1 = (l + 1) - i /\ (l + 1) - i \in DOMAIN payloads
      BY <2>4
    <3> QED BY <2>3, <3>1
  <2>10. Reverse(s) = AllConverted(trie, payloads, l)
    BY <2>8, <2>9 DEF AllConverted
  <2> QED BY <2>1, <2>10 DEF s
<1> QED BY <1>1, GivenInvariant, CodesInvariant, TypedInvariant, ConversionInvariant, PTL
=============================================================================
