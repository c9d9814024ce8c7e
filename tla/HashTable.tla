------------------------------- MODULE HashTable -------------------------------
(***************************************************************************)
(* The hash table of src/hash-table.c: chains of entries, a table that is  *)
(* made larger when it is a third full, keys and values that the table     *)
(* frees through registered functions, calls refused for want of memory,   *)
(* and an iterator.  A call is one step, but for an insertion that makes   *)
(* the table larger: the loop that links the entries into the new table    *)
(* takes a step per entry.                                                 *)
(***************************************************************************)
EXTENDS Integers, Sequences, FiniteSets

CONSTANTS
  Object,    \* the key and value pairs that callers allocate
  Key,       \* the key of a pair: what the equality function compares
  Hash,      \* what the hash function returns for it
  Primes,    \* hash_table_primes
  NULL

ASSUME KeyAssumption == Key \in [Object -> Nat]
ASSUME HashAssumption ==
  /\ Hash \in [Object -> Nat]
  /\ \A o, p \in Object : Key[o] = Key[p] => Hash[o] = Hash[p]
ASSUME PrimesAssumption == Primes \in Seq(Nat \ { 0 }) /\ Primes # << >>
ASSUME NullAssumption == NULL \notin Object /\ \A o \in Object : Key[o] # NULL

VARIABLES
  table, table_size, entries, prime_index,   \* struct _HashTable
  old_table, i,                              \* hash_table_enlarge
  new,                                       \* the pair being inserted
  freed_keys, freed_values,                  \* handed to the free functions
  iterator,                                  \* next_chain, next_entry (its key)
  seen,                                      \* the keys the iterator returned
  pc,                                        \* "ready", "rehash", "iterate", "freed"
  result,                                    \* what the last call returned
  given                                      \* history: the pairs once stored

tableVars == << table, table_size, entries, prime_index >>
oldVars   == << old_table, i, new >>
freedVars == << freed_keys, freed_values >>
iterVars  == << iterator, seen >>
vars      == << tableVars, oldVars, freedVars, iterVars, pc, result, given >>

Entry == [key : Object, value : Object]
NoEntries(size) == [c \in 0..(size - 1) |-> << >>]

Init ==
  /\ prime_index = 1 /\ table_size = Primes[1] /\ entries = 0
  /\ table = NoEntries(table_size)
  /\ old_table = << >> /\ i = 0 /\ new = NULL
  /\ freed_keys = {} /\ freed_values = {}
  /\ iterator = [next_chain |-> 0, next_entry |-> NULL] /\ seen = << >>
  /\ pc = "ready" /\ result = NULL /\ given = {}

InChain(chain) == { chain[p] : p \in DOMAIN chain }

Stored ==
  (UNION { InChain(table[c]) : c \in DOMAIN table })
    \cup (UNION { InChain(old_table[c]) : c \in DOMAIN old_table })

index(o) == Hash[o] % table_size

\* The places in the chain of o's key that hold that key.
Places(o) ==
  { p \in DOMAIN table[index(o)] : Key[table[index(o)][p].key] = Key[o] }

-----------------------------------------------------------------------------
\* Mutant of Overwrite: the old key stays in the entry although it is freed.
Overwrite_KeepsKey(o, p) ==
  LET old == table[index(o)][p]
  IN  /\ table' = [table EXCEPT ![index(o)][p].value = o]
      /\ freed_keys' = freed_keys \cup { old.key }
      /\ freed_values' = freed_values \cup { old.value }
      /\ UNCHANGED entries /\ result' = TRUE
      /\ given' = given \cup { o }

(***************************************************************************)
(* hash_table_insert, from the search for an entry with the same key on.   *)
(* The old key and value go to the free functions.                         *)
(***************************************************************************)
Overwrite(o, p) ==
  LET old == table[index(o)][p]
  IN  /\ table' = [table EXCEPT ![index(o)][p] = [key |-> o, value |-> o]]
      /\ freed_keys' = freed_keys \cup { old.key }
      /\ freed_values' = freed_values \cup { old.value }
      /\ UNCHANGED entries /\ result' = TRUE
      /\ given' = given \cup { o }

AddEntry(o) ==
  /\ table' = [table EXCEPT ![index(o)] = << [key |-> o, value |-> o] >> \o @]
  /\ entries' = entries + 1
  /\ result' = TRUE
  /\ given' = given \cup { o }
  /\ UNCHANGED freedVars

\* malloc of the entry, or calloc of the larger table, returned NULL.
Refuse == result' = FALSE /\ UNCHANGED << table, entries, freedVars, given >>

Store(o) ==
  IF Places(o) # {}
    THEN \E p \in Places(o) : Overwrite(o, p)
    ELSE AddEntry(o) \/ Refuse

\* Table is more than 1/3 full.
Full == (entries * 3) \div table_size > 0

\* A caller passes a pair of its own: not one that the table holds or freed.
Fresh(o) ==
  /\ o \notin freed_keys \cup freed_values
  /\ \A e \in Stored : e.key # o /\ e.value # o

Insert(o) ==
  /\ pc = "ready" /\ Fresh(o) /\ ~ Full
  /\ Store(o)
  /\ UNCHANGED << table_size, prime_index, oldVars, iterVars, pc >>

\* Mutant of InsertRefused: the old table is not put back.
InsertRefused_Loses(o) ==
  /\ pc = "ready" /\ Fresh(o) /\ Full
  /\ table' = NoEntries(table_size)
  /\ result' = FALSE
  /\ UNCHANGED << entries, freedVars, given, table_size, prime_index, oldVars, iterVars, pc >>

InsertRefused(o) ==
  /\ pc = "ready" /\ Fresh(o) /\ Full
  /\ Refuse
  /\ UNCHANGED << table_size, prime_index, oldVars, iterVars, pc >>

\* hash_table_allocate_table
NewSize ==
  IF prime_index + 1 <= Len(Primes) THEN Primes[prime_index + 1] ELSE entries * 10

Enlarge(o) ==
  /\ pc = "ready" /\ Fresh(o) /\ Full
  /\ prime_index' = prime_index + 1
  /\ table_size' = NewSize
  /\ table' = NoEntries(NewSize)
  /\ old_table' = table /\ i' = 0 /\ new' = o
  /\ pc' = "rehash"
  /\ UNCHANGED << entries, freedVars, iterVars, result, given >>

\* Mutant of Relink: the entry keeps the index of its old chain.
Relink_SameIndex ==
  /\ pc = "rehash" /\ i \in DOMAIN old_table /\ old_table[i] # << >>
  /\ table' = [table EXCEPT ![i] = << Head(old_table[i]) >> \o @]
  /\ old_table' = [old_table EXCEPT ![i] = Tail(@)]
  /\ UNCHANGED << table_size, entries, prime_index, i, new, freedVars, iterVars,
                  pc, result, given >>

\* Link the first entry left in old chain i into the new table.
Relink ==
  /\ pc = "rehash" /\ i \in DOMAIN old_table /\ old_table[i] # << >>
  /\ LET rover == Head(old_table[i])
     IN  table' = [table EXCEPT ![index(rover.key)] = << rover >> \o @]
  /\ old_table' = [old_table EXCEPT ![i] = Tail(@)]
  /\ UNCHANGED << table_size, entries, prime_index, i, new, freedVars, iterVars,
                  pc, result, given >>

NextChain ==
  /\ pc = "rehash" /\ i \in DOMAIN old_table /\ old_table[i] = << >>
  /\ i' = i + 1
  /\ UNCHANGED << tableVars, old_table, new, freedVars, iterVars, pc, result, given >>

Enlarged ==
  /\ pc = "rehash" /\ i \notin DOMAIN old_table
  /\ Store(new)
  /\ old_table' = << >> /\ i' = 0 /\ new' = NULL
  /\ pc' = "ready"
  /\ UNCHANGED << table_size, prime_index, iterVars >>

-----------------------------------------------------------------------------
\* A caller asks with a key that compares equal to that of o.
Lookup(o) ==
  /\ pc \in { "ready", "iterate" }
  /\ result' = IF Places(o) = {} THEN NULL
               ELSE table[index(o)][CHOOSE p \in Places(o) : TRUE].value
  /\ UNCHANGED << tableVars, oldVars, freedVars, iterVars, pc, given >>

\* A chain without its entry p.
Unlinked(chain, p) ==
  [q \in 1..(Len(chain) - 1) |-> IF q < p THEN chain[q] ELSE chain[q + 1]]

\* While an iterator is in use, callers remove nothing but what it returned.
MayRemove(o) ==
  pc = "ready" \/ (pc = "iterate" /\ \E m \in DOMAIN seen : seen[m] = Key[o])

Remove(o) ==
  /\ MayRemove(o)
  /\ IF Places(o) = {}
       THEN result' = FALSE /\ UNCHANGED << table, entries, freedVars >>
       ELSE \E p \in Places(o) :
              LET entry == table[index(o)][p]
              IN  /\ table' = [table EXCEPT ![index(o)] = Unlinked(@, p)]
                  /\ freed_keys' = freed_keys \cup { entry.key }
                  /\ freed_values' = freed_values \cup { entry.value }
                  /\ entries' = entries - 1
                  /\ result' = TRUE
  /\ UNCHANGED << table_size, prime_index, oldVars, iterVars, pc, given >>

-----------------------------------------------------------------------------
\* The iterator at the first entry of the first chain from c on that has any.
FirstFrom(c) ==
  LET used == { d \in DOMAIN table : d >= c /\ table[d] # << >> }
      d    == CHOOSE d \in used : \A b \in used : d <= b
  IN  IF used = {} THEN [next_chain |-> table_size, next_entry |-> NULL]
      ELSE [next_chain |-> d, next_entry |-> Key[table[d][1].key]]

\* hash_table_iterate
Iterate ==
  /\ pc = "ready"
  /\ iterator' = FirstFrom(0)
  /\ seen' = << >>
  /\ pc' = "iterate"
  /\ UNCHANGED << tableVars, oldVars, freedVars, result, given >>

\* Mutant of IterNext: at the end of a chain it searches on from that chain.
IterNext_SameChain ==
  /\ pc = "iterate" /\ iterator.next_entry # NULL
  /\ LET chain == table[iterator.next_chain]
         p     == CHOOSE p \in DOMAIN chain : Key[chain[p].key] = iterator.next_entry
     IN  iterator' = IF p < Len(chain)
                       THEN [iterator EXCEPT !.next_entry = Key[chain[p + 1].key]]
                       ELSE FirstFrom(iterator.next_chain)
  /\ seen' = Append(seen, iterator.next_entry)
  /\ UNCHANGED << tableVars, oldVars, freedVars, pc, result, given >>

\* hash_table_iter_next
IterNext ==
  /\ pc = "iterate" /\ iterator.next_entry # NULL
  /\ LET chain == table[iterator.next_chain]
         p     == CHOOSE p \in DOMAIN chain : Key[chain[p].key] = iterator.next_entry
     IN  iterator' = IF p < Len(chain)
                       THEN [iterator EXCEPT !.next_entry = Key[chain[p + 1].key]]
                       ELSE FirstFrom(iterator.next_chain + 1)
  /\ seen' = Append(seen, iterator.next_entry)
  /\ UNCHANGED << tableVars, oldVars, freedVars, pc, result, given >>

\* The caller is done with the iterator, at the end or before.
IterStop ==
  /\ pc = "iterate"
  /\ pc' = "ready"
  /\ UNCHANGED << tableVars, oldVars, freedVars, iterVars, result, given >>

-----------------------------------------------------------------------------
hash_table_free ==
  /\ pc = "ready"
  /\ freed_keys' = freed_keys \cup { e.key : e \in Stored }
  /\ freed_values' = freed_values \cup { e.value : e \in Stored }
  /\ table' = << >>
  /\ pc' = "freed"
  /\ UNCHANGED << table_size, entries, prime_index, oldVars, iterVars, result, given >>

Next ==
  \/ \E o \in Object :
       Insert(o) \/ InsertRefused(o) \/ Enlarge(o) \/ Lookup(o) \/ Remove(o)
  \/ Relink \/ NextChain \/ Enlarged
  \/ Iterate \/ IterNext \/ IterStop
  \/ hash_table_free

Spec == Init /\ [][Next]_vars

-----------------------------------------------------------------------------
TypeOK ==
  /\ pc \in { "ready", "rehash", "iterate", "freed" }
  /\ table_size \in Nat \ { 0 } /\ entries \in Nat /\ prime_index \in Nat \ { 0 }
  /\ pc # "freed" => table \in [0..(table_size - 1) -> Seq(Entry)]
  /\ pc = "freed" => table = << >>
  /\ DOMAIN old_table \subseteq Nat /\ old_table \in [DOMAIN old_table -> Seq(Entry)]
  /\ pc # "rehash" => old_table = << >> /\ new = NULL
  /\ pc = "rehash" => new \in Object
  /\ i \in Nat
  /\ freed_keys \subseteq Object /\ freed_values \subseteq Object /\ given \subseteq Object
  /\ iterator \in [next_chain : Nat, next_entry : Nat \cup { NULL }] /\ seen \in Seq(Nat)

\* Every entry is in the chain where hash_table_lookup searches for its key,
\* and none is left in an old chain that was passed.
Findable ==
  /\ \A c \in DOMAIN table : \A p \in DOMAIN table[c] : index(table[c][p].key) = c
  /\ \A c \in DOMAIN old_table : c < i => old_table[c] = << >>

Once(t) ==
  \A c, d \in DOMAIN t : \A p \in DOMAIN t[c], q \in DOMAIN t[d] :
    Key[t[c][p].key] = Key[t[d][q].key] => c = d /\ p = q

\* No key has two entries, in the table or in what is left of the old one,
\* and entries counts them.
KeysOnce ==
  /\ Once(table) /\ Once(old_table)
  /\ \A c \in DOMAIN table, d \in DOMAIN old_table :
       \A p \in DOMAIN table[c], q \in DOMAIN old_table[d] :
         Key[table[c][p].key] # Key[old_table[d][q].key]
  /\ pc # "freed" => entries = Cardinality(Stored)

(* Whatever the table has grown to, and while its entries move, a search   *)
(* in one chain finds what there is of a key: each entry is where its hash *)
(* says, and it is the only one.                                           *)
ChainsRight == TypeOK /\ Findable /\ KeysOnce

(* A key or value is freed when its entry goes, and not before: what was   *)
(* stored is in the table or freed, never both, and never lost.            *)
Ownership ==
  LET keys   == { e.key : e \in Stored }
      values == { e.value : e \in Stored }
  IN  /\ given = keys \cup freed_keys /\ keys \cap freed_keys = {}
      /\ given = values \cup freed_values /\ values \cap freed_values = {}

Seen == { seen[m] : m \in DOMAIN seen }

(* An iterator never holds an entry that was removed, returns no key twice *)
(* and, when it has no more, has returned every key of the table, also if  *)
(* the caller removed entries on the way.                                  *)
IterRight ==
  pc = "iterate" =>
    /\ \A m, n \in DOMAIN seen : seen[m] = seen[n] => m = n
    /\ iterator.next_entry # NULL =>
         /\ iterator.next_entry \notin Seen
         /\ iterator.next_chain \in DOMAIN table
         /\ \E e \in InChain(table[iterator.next_chain]) : Key[e.key] = iterator.next_entry
    /\ iterator.next_entry = NULL => \A e \in Stored : Key[e.key] \in Seen

-----------------------------------------------------------------------------
(***************************************************************************)
(* The inductive invariant.                                                *)
(***************************************************************************)
Distinct(chain) ==
  \A p, q \in DOMAIN chain : Key[chain[p].key] = Key[chain[q].key] => p = q

\* ChainsRight chain by chain, as the operations change one chain at a time.
Chained ==
  /\ \A c \in DOMAIN table :
       Distinct(table[c]) /\ \A e \in InChain(table[c]) : index(e.key) = c
  /\ \A c \in DOMAIN old_table :
       /\ Distinct(old_table[c])
       /\ c < i => old_table[c] = << >>
       /\ 0..c \subseteq DOMAIN old_table
       /\ \A e \in InChain(old_table[c]) :
            /\ \A d \in DOMAIN old_table \ { c } : \A f \in InChain(old_table[d]) : Key[e.key] # Key[f.key]
            /\ \A d \in DOMAIN table : \A f \in InChain(table[d]) : Key[e.key] # Key[f.key]

Counted == IsFiniteSet(Stored) /\ (pc # "freed" => entries = Cardinality(Stored))

\* An overwritten entry gives up its key with its value, and a pair that
\* waits for the table to grow is stored nowhere yet.
PairsOwned ==
  /\ Ownership
  /\ \A e \in Stored : e.key = e.value
  /\ pc = "rehash" => Fresh(new)

\* The iterator has returned the entries up to where it stands, and no other.
IterAhead ==
  pc = "iterate" =>
    /\ \A m, n \in DOMAIN seen : seen[m] = seen[n] => m = n
    /\ iterator.next_entry = NULL => \A e \in Stored : Key[e.key] \in Seen
    /\ iterator.next_entry # NULL =>
         /\ iterator.next_chain \in DOMAIN table
         /\ \E p \in DOMAIN table[iterator.next_chain] :
              /\ Key[table[iterator.next_chain][p].key] = iterator.next_entry
              /\ \A c \in DOMAIN table : \A q \in DOMAIN table[c] :
                   Key[table[c][q].key] \in Seen <=>
                     c < iterator.next_chain \/ (c = iterator.next_chain /\ q < p)

IInv == TypeOK /\ Chained /\ Counted /\ PairsOwned /\ IterAhead

-----------------------------------------------------------------------------
(* The table implements a map: making it larger is not visible, a lookup   *)
(* finds the value inserted last, and a refused call changes nothing.      *)
Map == INSTANCE FiniteMap
  WITH Keys   <- { Key[o] : o \in Object },
       Values <- Object,
       map    <- { << Key[e.key], e.value >> : e \in Stored },
       open   <- pc # "freed"

MapSpec == Map!Spec
=============================================================================
