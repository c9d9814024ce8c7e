-------------------------------- MODULE HashSet --------------------------------
(***************************************************************************)
(* The sets of src/set.c: chains of values in a table that is made larger  *)
(* when it is a third full.  A caller keeps two sets and the one that      *)
(* set_union or set_intersection makes of them, which share its values.    *)
(* These two take a step per value that their iterator returns, the other  *)
(* calls are one step.  Any allocation may fail.                           *)
(***************************************************************************)
EXTENDS Integers, SequencesExt

CONSTANTS
  Value,     \* the values that callers allocate
  Key,       \* what the equality function compares
  Hash,      \* what the hash function returns
  Primes,    \* set_primes
  Inserts,   \* bound: which values the caller inserts into which set
  NULL

ASSUME KeyAssumption == Key \in [Value -> Nat]
ASSUME HashAssumption ==
  /\ Hash \in [Value -> Nat]
  /\ \A u, v \in Value : Key[u] = Key[v] => Hash[u] = Hash[v]
ASSUME PrimesAssumption == Primes \in Seq(Nat \ { 0 }) /\ Primes # << >>
ASSUME InsertsAssumption == Inserts \subseteq STRING \X Value
ASSUME NullAssumption ==
  /\ NULL \notin Value /\ NULL \notin BOOLEAN /\ NULL \notin { "union", "intersection" }
  /\ Value \cap BOOLEAN = {}
  /\ \A values \in SUBSET Value : values # NULL

VARIABLES
  sets,       \* struct _Set for the caller's names, NoSet where there is none
  owners,     \* the sets with a free function
  freed,      \* the values it was called for
  given,      \* history: the values that were in a set with a free function
  iterator,   \* SetIterator; next_entry is the value of the entry
  pc,         \* "ready", "iterate", "union1", "union2", "intersect"
  result,     \* what the last call returned
  oom         \* history: an allocation of the last call failed

ownVars == << owners, freed, given >>
vars    == << sets, ownVars, iterator, pc, result, oom >>

Names    == { "set1", "set2", "new_set" }
Operands == { "set1", "set2" }
NoSet    == [table |-> << >>, table_size |-> 0, entries |-> 0, prime_index |-> 0]
Live     == { s \in Names : sets[s] # NoSet }
NoIterator == [set |-> NULL, next_chain |-> 0, next_entry |-> NULL]

-----------------------------------------------------------------------------
(***************************************************************************)
(* The struct: what is in it, and what an operation makes of it.           *)
(***************************************************************************)
NoEntries(size) == [c \in 0..(size - 1) |-> << >>]

EmptySet == [table |-> NoEntries(Primes[1]), table_size |-> Primes[1],
             entries |-> 0, prime_index |-> 1]

Stored(set)  == UNION { ToSet(set.table[c]) : c \in DOMAIN set.table }

index(set, v) == Hash[v] % set.table_size

\* The order in which the loops over a table come to its values.
Precedes(set, u, v) ==
  \/ index(set, u) < index(set, v)
  \/ /\ index(set, u) = index(set, v)
     /\ \E p, q \in DOMAIN set.table[index(set, u)] :
          p < q /\ set.table[index(set, u)][p] = u /\ set.table[index(set, u)][q] = v

\* The places in the chain of v that hold an equal value.
Places(set, v) ==
  { p \in DOMAIN set.table[index(set, v)] : Key[set.table[index(set, v)][p]] = Key[v] }

set_query(set, v) == Places(set, v) # {}

Full(set) == (set.entries * 3) \div set.table_size > 0

\* set_allocate_table
NewSize(set) ==
  IF set.prime_index + 1 <= Len(Primes) THEN Primes[set.prime_index + 1]
  ELSE set.entries * 10

\* Mutant of Enlarged: the entries stay in the chains they were in.
Enlarged_OldIndex(set) ==
  LET size == NewSize(set)
  IN  [set EXCEPT !.prime_index = @ + 1, !.table_size = size,
         !.table = [c \in 0..(size - 1) |-> IF c \in DOMAIN set.table THEN Reverse(set.table[c])
                                            ELSE << >>]]

\* set_enlarge: the old entries, one after the other, go to the head of the
\* chain that the new size gives them, so that those after an entry in the
\* old order are before it in the new chain.
Rehashed(set, size, c) == { v \in Stored(set) : Hash[v] % size = c }

Relinked(set, size, c) ==
  [n \in 1..Cardinality(Rehashed(set, size, c)) |->
     CHOOSE v \in Rehashed(set, size, c) :
       Cardinality({ w \in Rehashed(set, size, c) : Precedes(set, v, w) }) = n - 1]

Enlarged(set) ==
  LET size == NewSize(set)
  IN  [set EXCEPT !.prime_index = @ + 1, !.table_size = size,
         !.table = [c \in 0..(size - 1) |-> Relinked(set, size, c)]]

Added(set, v) ==
  [set EXCEPT !.table[index(set, v)] = << v >> \o @, !.entries = @ + 1]

Removed(set, v, p) ==
  [set EXCEPT !.table[index(set, v)] = RemoveAt(@, p), !.entries = @ - 1]

Outcome(set, ok, failed) == [set |-> set, ok |-> ok, oom |-> failed]

Linked(set, v) ==
  IF set_query(set, v) THEN { Outcome(set, FALSE, FALSE) }
  ELSE { Outcome(Added(set, v), TRUE, FALSE), Outcome(set, FALSE, TRUE) }

\* Mutant of set_insert: a set that could not be enlarged loses its table.
set_insert_Loses(set, v) ==
  IF Full(set)
    THEN { Outcome([set EXCEPT !.table = NoEntries(set.table_size)], FALSE, TRUE) }
           \cup Linked(Enlarged(set), v)
    ELSE Linked(set, v)

\* set_insert: what it can make of the set, what it returns, and whether an
\* allocation failed.  An equal value is looked for after the enlarging.
set_insert(set, v) ==
  IF Full(set)
    THEN { Outcome(set, FALSE, TRUE) } \cup Linked(Enlarged(set), v)
    ELSE Linked(set, v)

\* The iterator at the first entry of the first chain from c on that has any.
FirstFrom(s, c) ==
  LET used == { d \in DOMAIN sets[s].table : d >= c /\ sets[s].table[d] # << >> }
      d    == CHOOSE d \in used : \A b \in used : d <= b
  IN  [set        |-> s,
       next_chain |-> IF used = {} THEN sets[s].table_size ELSE d,
       next_entry |-> IF used = {} THEN NULL ELSE Head(sets[s].table[d])]

set_iterate(s) == FirstFrom(s, 0)

\* The iterator after set_iter_next has returned next_entry.
set_iter_next ==
  LET chain == sets[iterator.set].table[iterator.next_chain]
      p     == CHOOSE p \in DOMAIN chain : chain[p] = iterator.next_entry
  IN  IF p < Len(chain) THEN [iterator EXCEPT !.next_entry = chain[p + 1]]
      ELSE FirstFrom(iterator.set, iterator.next_chain + 1)

set_iter_has_more == iterator.next_entry # NULL

-----------------------------------------------------------------------------
Init ==
  /\ sets = [s \in Names |-> NoSet]
  /\ owners = {} /\ freed = {} /\ given = {}
  /\ iterator = NoIterator
  /\ pc = "ready" /\ result = NULL /\ oom = FALSE

\* A caller works on the result of a combination until it frees or keeps it.
Current(s) == s \in Live /\ ("new_set" \in Live => s = "new_set")

\* set_new
New(s) ==
  /\ pc = "ready" /\ s \notin Live /\ "new_set" \notin Live
  /\ \/ sets' = [sets EXCEPT ![s] = EmptySet] /\ result' = TRUE /\ oom' = FALSE
     \/ sets' = sets /\ result' = NULL /\ oom' = TRUE
  /\ UNCHANGED << ownVars, iterator, pc >>

\* A caller inserts a value of its own, that no set holds and none has freed.
Fresh(v) == v \notin freed /\ \A s \in Live : v \notin Stored(sets[s])

Insert(s, v) ==
  /\ pc = "ready" /\ Current(s) /\ Fresh(v) /\ << s, v >> \in Inserts
  /\ \E out \in set_insert(sets[s], v) :
       /\ sets' = [sets EXCEPT ![s] = out.set]
       /\ result' = out.ok
       /\ oom' = out.oom
       /\ given' = given \cup (IF out.ok /\ s \in owners THEN { v } ELSE {})
  /\ UNCHANGED << owners, freed, iterator, pc >>

Shared(s) == \E t \in Live \ { s } : Stored(sets[s]) \cap Stored(sets[t]) # {}

\* A caller lets a set free values only while no other set has them, and while
\* it iterates removes nothing but what the iterator has just returned.
MayRemove(s, v) ==
  /\ s \in owners => ~ Shared(s)
  /\ pc = "ready" \/ (pc = "iterate" /\ iterator.set = s /\ result = v)

set_remove(s, v) ==
  /\ Current(s) /\ MayRemove(s, v)
  /\ IF Places(sets[s], v) = {}
       THEN result' = FALSE /\ UNCHANGED << sets, freed >>
       ELSE \E p \in Places(sets[s], v) :
              /\ sets' = [sets EXCEPT ![s] = Removed(@, v, p)]
              /\ freed' = freed \cup
                   (IF s \in owners THEN { sets[s].table[index(sets[s], v)][p] } ELSE {})
              /\ result' = TRUE
  /\ UNCHANGED << owners, given, iterator, pc, oom >>

\* Callers say how values are freed before they insert any.
set_register_free_function(s) ==
  /\ pc = "ready" /\ Current(s) /\ sets[s].entries = 0
  /\ owners' = owners \cup { s }
  /\ UNCHANGED << sets, freed, given, iterator, pc, result, oom >>

\* set_free
FreeSet(s) ==
  /\ sets' = [sets EXCEPT ![s] = NoSet]
  /\ freed' = freed \cup (IF s \in owners THEN Stored(sets[s]) ELSE {})
  /\ owners' = owners \ { s }

Free(s) ==
  /\ pc = "ready" /\ Current(s)
  /\ FreeSet(s)
  /\ UNCHANGED << given, iterator, pc, result, oom >>

-----------------------------------------------------------------------------
Iterate(s) ==
  /\ pc = "ready" /\ Current(s)
  /\ iterator' = set_iterate(s)
  /\ pc' = "iterate"
  /\ UNCHANGED << sets, ownVars, result, oom >>

\* At the end set_iter_next returns SET_NULL, and the caller is done.
IterNext ==
  /\ pc = "iterate"
  /\ result' = iterator.next_entry
  /\ IF set_iter_has_more
       THEN iterator' = set_iter_next /\ UNCHANGED pc
       ELSE iterator' = NoIterator /\ pc' = "ready"
  /\ UNCHANGED << sets, ownVars, oom >>

-----------------------------------------------------------------------------
(***************************************************************************)
(* set_union and set_intersection.  The new set has no free function.      *)
(***************************************************************************)
Start(phase) ==
  /\ pc = "ready" /\ Operands \subseteq Live /\ "new_set" \notin Live
  /\ \/ /\ sets' = [sets EXCEPT !["new_set"] = EmptySet]
        /\ iterator' = set_iterate("set1")
        /\ pc' = phase
        /\ oom' = FALSE
        /\ UNCHANGED result
     \/ /\ result' = NULL /\ oom' = TRUE
        /\ UNCHANGED << sets, iterator, pc >>

\* Mutant of Combine: the new set frees values like the first one.
Combine_FreesValues(phase) ==
  /\ Start(phase)
  /\ owners' = IF "set1" \in owners /\ pc' = phase THEN owners \cup { "new_set" } ELSE owners
  /\ UNCHANGED << freed, given >>

Combine(phase) == Start(phase) /\ UNCHANGED ownVars

Return(value) == pc' = "ready" /\ iterator' = NoIterator /\ result' = value

\* One value goes into the new set; if it does not, the new set is freed.
Copy ==
  \E out \in set_insert(sets["new_set"], iterator.next_entry) :
    /\ oom' = out.oom
    /\ IF out.ok
         THEN /\ sets' = [sets EXCEPT !["new_set"] = out.set]
              /\ iterator' = set_iter_next
              /\ UNCHANGED << ownVars, pc, result >>
         ELSE /\ FreeSet("new_set")
              /\ Return(NULL)
              /\ UNCHANGED given

Skip ==
  /\ iterator' = set_iter_next
  /\ UNCHANGED << sets, ownVars, pc, result, oom >>

UnionFirst ==
  /\ pc = "union1" /\ set_iter_has_more
  /\ Copy

UnionTurn ==
  /\ pc = "union1" /\ ~ set_iter_has_more
  /\ iterator' = set_iterate("set2")
  /\ pc' = "union2"
  /\ UNCHANGED << sets, ownVars, result, oom >>

\* Mutant of UnionSecond: the values of the first set are inserted again.
UnionSecond_NoQuery ==
  /\ pc = "union2" /\ set_iter_has_more
  /\ Copy

UnionSecond ==
  /\ pc = "union2" /\ set_iter_has_more
  /\ IF set_query(sets["new_set"], iterator.next_entry) THEN Skip ELSE Copy

Intersect ==
  /\ pc = "intersect" /\ set_iter_has_more
  /\ IF set_query(sets["set2"], iterator.next_entry) THEN Copy ELSE Skip

Combined ==
  /\ pc \in { "union2", "intersect" } /\ ~ set_iter_has_more
  /\ Return(TRUE)
  /\ UNCHANGED << sets, ownVars, oom >>

\* alg_set_indices puts the union where the first set was, which is lost.
Keep ==
  /\ pc = "ready" /\ { "set1", "new_set" } \subseteq Live /\ owners = {}
  /\ sets' = [sets EXCEPT !["set1"] = sets["new_set"], !["new_set"] = NoSet]
  /\ UNCHANGED << ownVars, iterator, pc, result, oom >>

-----------------------------------------------------------------------------
Next ==
  \/ \E s \in Operands : New(s)
  \/ \E s \in Names :
       \/ set_register_free_function(s) \/ Free(s) \/ Iterate(s)
       \/ \E v \in Value : Insert(s, v) \/ set_remove(s, v)
  \/ IterNext
  \/ Combine("union1") \/ Combine("intersect")
  \/ UnionFirst \/ UnionTurn \/ UnionSecond \/ Intersect \/ Combined
  \/ Keep

Spec == Init /\ [][Next]_vars

-----------------------------------------------------------------------------
\* struct _Set
Struct(set) ==
  /\ set.table_size \in Nat \ { 0 }
  /\ set \in [table : [0..(set.table_size - 1) -> Seq(Value)], table_size : { set.table_size },
              entries : Nat, prime_index : Nat \ { 0 }]

TypeOK ==
  /\ pc \in { "ready", "iterate", "union1", "union2", "intersect" }
  /\ owners \subseteq Names /\ freed \subseteq Value /\ given \subseteq Value
  /\ oom \in BOOLEAN /\ result \in BOOLEAN \cup Value \cup { NULL }
  /\ DOMAIN sets = Names
  /\ \A s \in Live : Struct(sets[s])

\* What set_query relies on: a value is in the chain of its hash, no two are
\* equal, and entries counts them.
Chained(set) ==
  /\ \A c \in DOMAIN set.table : \A p \in DOMAIN set.table[c] :
       /\ index(set, set.table[c][p]) = c
       /\ \A q \in DOMAIN set.table[c] : Key[set.table[c][p]] = Key[set.table[c][q]] => p = q
  /\ set.entries = Cardinality(Stored(set))

(* Whatever a set has grown to, and also one that is only half made, each  *)
(* value is where its hash says, once, and an iterator, also one that      *)
(* set_union runs, points to an entry that is still in its set.            *)
SetsRight ==
  /\ TypeOK
  /\ \A s \in Live : Chained(sets[s])
  /\ pc # "ready" =>
       /\ iterator.set \in Live
       /\ set_iter_has_more => iterator.next_entry \in Stored(sets[iterator.set])

(* A value is freed when the set that frees it lets it go, and not before: *)
(* a union or intersection that fails half way, or is freed, leaves the    *)
(* values to the sets it took them from.                                   *)
ValuesFreed ==
  /\ \A s \in Live : Stored(sets[s]) \cap freed = {}
  /\ given = freed \cup UNION { Stored(sets[s]) : s \in owners }

(* "NULL if it was not possible to allocate memory" (set.h), and only then:*)
(* set_union does not take a value that both sets have for a failure.      *)
NullWithoutMemory ==
  [][ (pc \in { "union1", "union2", "intersect" } /\ pc' = "ready" /\ result' = NULL) => oom' ]_vars

(* The three sets implement the abstract ones: enlarging is not visible,   *)
(* a refused call changes nothing, and what the loops of set_union and     *)
(* set_intersection end with is the union and the intersection, while the  *)
(* two operands stay as they are.                                          *)
Algebra == INSTANCE SetAlgebra
  WITH contents <- [s \in Names |->
         IF s \notin Live \/ (s = "new_set" /\ pc \in { "union1", "union2", "intersect" })
           THEN NULL ELSE Stored(sets[s])],
       combining <- IF pc \in { "union1", "union2" } THEN "union"
                    ELSE IF pc = "intersect" THEN "intersection" ELSE NULL

SetSpec == Algebra!Spec

-----------------------------------------------------------------------------
(***************************************************************************)
(* The inductive invariant, of which HashSetProof shows all four.          *)
(***************************************************************************)
Good(set) == Struct(set) /\ Chained(set) /\ IsFiniteSet(Stored(set))

\* An iterator is at an entry of its set, in the chain of that entry.
Positioned ==
  pc # "ready" =>
    /\ iterator \in [set : Live, next_chain : Nat, next_entry : Value \cup { NULL }]
    /\ set_iter_has_more =>
         /\ iterator.next_entry \in Stored(sets[iterator.set])
         /\ iterator.next_chain = index(sets[iterator.set], iterator.next_entry)

\* The value that a caller may remove is behind the iterator.
Returned ==
  /\ pc # "iterate" => result \notin Value
  /\ pc = "iterate" /\ result \in Value =>
       result \in Stored(sets[iterator.set]) /\ result # iterator.next_entry

\* Only a set that does not free its values shares any, but for a result.
Owned ==
  /\ owners \subseteq Live
  /\ \A s \in Live : Stored(sets[s]) \cap freed = {}
  /\ given = freed \cup UNION { Stored(sets[s]) : s \in owners }
  /\ \A s \in owners : \A t \in Live \ { s, "new_set" } :
       Stored(sets[s]) \cap Stored(sets[t]) = {}

\* The values that the iterator has returned or skipped.
Passed ==
  { v \in Stored(sets[iterator.set]) :
      set_iter_has_more => Precedes(sets[iterator.set], v, iterator.next_entry) }

\* What the loops of set_union and set_intersection have made of these.
HalfMade ==
  /\ pc \in { "union1", "union2", "intersect" } => Live = Names /\ "new_set" \notin owners
  /\ pc = "union1" => /\ iterator.set = "set1"
                      /\ Stored(sets["new_set"]) = Passed
  /\ pc = "union2" => /\ iterator.set = "set2"
                      /\ Stored(sets["new_set"]) =
                           Algebra!Union(Stored(sets["set1"]), Passed)
  /\ pc = "intersect" => /\ iterator.set = "set1"
                         /\ Stored(sets["new_set"]) =
                              Algebra!Intersection(Passed, Stored(sets["set2"]))

IInv ==
  /\ TypeOK
  /\ \A s \in Live : Good(sets[s])
  /\ Positioned /\ Returned /\ Owned /\ HalfMade
=============================================================================
