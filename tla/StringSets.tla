------------------------------ MODULE StringSets ------------------------------
(***************************************************************************)
(* The string sets of src/lst_string.c, which are BSD lists through the    *)
(* one link that a string has, together with the suffix tree as the other  *)
(* holder of strings: lst_stree_clear and lst_stringset_free both free the *)
(* strings they hold.  A call is one step, but for the loops over a list   *)
(* or over the strings of the tree, which take a step per string.          *)
(***************************************************************************)
EXTENDS Integers, SequencesExt

CONSTANTS
  String,     \* the string objects
  Set,        \* the string sets of the callers
  CleansUp,   \* whether callers clean up a set that was passed to a tree
  NULL

ASSUME CleansUpAssumption == CleansUp \in BOOLEAN
ASSUME NullAssumption == /\ NULL \notin String /\ String \cap Set = {}
                         /\ \A strings \in SUBSET String : strings # NULL

VARIABLES
  status,          \* of a string: "none", "live", "freed"
  le_next, le_prev,\* its link; le_prev is the set or the string that points to it
  lh_first, size,  \* struct lst_stringset
  sets,            \* the sets that exist
  tree,            \* the strings in the hash of the tree, NULL if there is no tree
  pc, cursor,      \* the loop that runs: over which set, or at which string
  touched,         \* a string was read or written after it was freed
  members,         \* history: the strings a set has, the last one added first
  seen, todo       \* history: the strings lst_stringset_foreach came to, and has to

linkVars  == << le_next, le_prev, lh_first >>
histVars  == << members, seen, todo >>
vars      == << status, linkVars, size, sets, tree, pc, cursor, touched, histVars >>

Freed(strings) == \E s \in strings \cap String : status[s] = "freed"

Init ==
  /\ status = [s \in String |-> "none"]
  /\ le_next = [s \in String |-> NULL] /\ le_prev = [s \in String |-> NULL]
  /\ lh_first = [l \in Set |-> NULL] /\ size = [l \in Set |-> 0]
  /\ sets = {} /\ tree = NULL
  /\ pc = "ready" /\ cursor = NULL /\ touched = FALSE
  /\ members = [l \in Set |-> << >>] /\ seen = << >> /\ todo = << >>

-----------------------------------------------------------------------------
(***************************************************************************)
(* The macros of sys/queue.h.                                              *)
(***************************************************************************)
LIST_INSERT_HEAD(l, s) ==
  LET old == lh_first[l]
  IN  /\ le_next' = [le_next EXCEPT ![s] = old]
      /\ le_prev' = [t \in String |-> IF t = s THEN l
                                      ELSE IF t = old THEN s ELSE le_prev[t]]
      /\ lh_first' = [lh_first EXCEPT ![l] = s]
      /\ touched' = (touched \/ Freed({ s, old }))

LIST_REMOVE(s) ==
  LET next == le_next[s]
      prev == le_prev[s]
  IN  /\ le_prev' = [t \in String |-> IF t = next THEN prev ELSE le_prev[t]]
      /\ lh_first' = [l \in Set |-> IF l = prev THEN next ELSE lh_first[l]]
      /\ le_next' = [t \in String |-> IF t = prev THEN next ELSE le_next[t]]
      /\ touched' = (touched \/ Freed({ s, next, prev }))

\* The strings a loop over the list comes to: those that every set has that
\* has the first string and, with a string, the one le_next leads to.
Holds(S, l) == /\ lh_first[l] \in S \cup { NULL }
               /\ \A s \in S : le_next[s] \in S \cup { NULL }

Strings(l) == { s \in String : \A S \in SUBSET String : Holds(S, l) => s \in S }

\* A sequence of distinct strings without one of them.
Without(strings, s) == RemoveAt(strings, CHOOSE n \in DOMAIN strings : strings[n] = s)

-----------------------------------------------------------------------------
(***************************************************************************)
(* What callers may do.  A string is in one set at most.  A list with a    *)
(* freed string in it is left alone, unless the caller cleans it up.       *)
(***************************************************************************)
Linked(s)    == \E l \in sets : Contains(members[l], s)
InTree(s)    == tree # NULL /\ s \in tree
Usable(l)    == l \in sets /\ ~ Freed(ToSet(members[l]))

\* The callback of a running lst_stringset_foreach makes calls, too.
MayCall == pc \in { "ready", "foreach" }

lst_string_new(s) ==
  /\ MayCall /\ status[s] = "none"
  /\ status' = [status EXCEPT ![s] = "live"]
  /\ UNCHANGED << linkVars, size, sets, tree, pc, cursor, touched, histVars >>

lst_string_free(s) ==
  /\ pc = "ready" /\ status[s] = "live" /\ ~ Linked(s) /\ ~ InTree(s)
  /\ status' = [status EXCEPT ![s] = "freed"]
  /\ UNCHANGED << linkVars, size, sets, tree, pc, cursor, touched, histVars >>

lst_stringset_new(l) ==
  /\ MayCall /\ l \notin sets
  /\ sets' = sets \cup { l }
  /\ lh_first' = [lh_first EXCEPT ![l] = NULL] /\ size' = [size EXCEPT ![l] = 0]
  /\ UNCHANGED << status, le_next, le_prev, tree, pc, cursor, touched, histVars >>

\* Strings that a callback took out of the list it runs over stay out.
lst_stringset_add(l, s) ==
  /\ MayCall /\ Usable(l) /\ status[s] = "live" /\ ~ Linked(s) /\ ~ Contains(seen, s)
  /\ LIST_INSERT_HEAD(l, s)
  /\ size' = [size EXCEPT ![l] = @ + 1]
  /\ members' = [members EXCEPT ![l] = << s >> \o @]
  /\ UNCHANGED << status, sets, tree, pc, cursor, seen, todo >>

\* Mutant of lst_stringset_remove: the link of the string that was taken out
\* is cleared.
lst_stringset_remove_Cleared(l, s) ==
  /\ pc = "ready" \/ (pc = "foreach" /\ seen # << >> /\ s = Last(seen))
  /\ Usable(l) /\ status[s] = "live" /\ s \in Strings(l)
  /\ lh_first' = [k \in Set |-> IF k = le_prev[s] THEN le_next[s] ELSE lh_first[k]]
  /\ le_next' = [t \in String |-> IF t = s THEN NULL
                                  ELSE IF t = le_prev[s] THEN le_next[s] ELSE le_next[t]]
  /\ le_prev' = [t \in String |-> IF t = le_next[s] THEN le_prev[s] ELSE le_prev[t]]
  /\ size' = [size EXCEPT ![l] = @ - 1]
  /\ members' = [members EXCEPT ![l] = Without(@, s)]
  /\ UNCHANGED << status, sets, tree, pc, cursor, touched, seen, todo >>

\* The string is removed if it is found in this set; a callback removes
\* nothing but the string it was called with.
lst_stringset_remove(l, s) ==
  /\ pc = "ready" \/ (pc = "foreach" /\ seen # << >> /\ s = Last(seen))
  /\ Usable(l) /\ status[s] = "live"
  /\ IF s \in Strings(l)
       THEN /\ LIST_REMOVE(s)
            /\ size' = [size EXCEPT ![l] = @ - 1]
            /\ members' = [members EXCEPT ![l] = Without(@, s)]
       ELSE UNCHANGED << linkVars, size, touched, members >>
  /\ UNCHANGED << status, sets, tree, pc, cursor, seen, todo >>

-----------------------------------------------------------------------------
lst_stringset_foreach(l) ==
  /\ pc = "ready" /\ Usable(l)
  /\ cursor' = lh_first[l]
  /\ pc' = "foreach"
  /\ seen' = << >> /\ todo' = members[l]
  /\ UNCHANGED << status, linkVars, size, sets, tree, touched, members >>

\* The callback for the string at the cursor begins; what it does follows.
Callback ==
  /\ pc = "foreach" /\ cursor # NULL /\ ~ Contains(seen, cursor)
  /\ seen' = Append(seen, cursor)
  /\ UNCHANGED << status, linkVars, size, sets, tree, pc, cursor, touched, members, todo >>

\* It has returned: the link is read only now.
NextString ==
  /\ pc = "foreach" /\ cursor # NULL /\ Contains(seen, cursor)
  /\ cursor' = le_next[cursor]
  /\ touched' = (touched \/ Freed({ cursor }))
  /\ UNCHANGED << status, linkVars, size, sets, tree, pc, histVars >>

EndForeach ==
  /\ pc = "foreach" /\ cursor = NULL
  /\ pc' = "ready" /\ seen' = << >> /\ todo' = << >>
  /\ UNCHANGED << status, linkVars, size, sets, tree, cursor, touched, members >>

-----------------------------------------------------------------------------
\* lst_stringset_free
FreeSet(l) ==
  /\ pc = "ready" /\ l \in sets
  /\ CleansUp \/ (Usable(l) /\ \A s \in ToSet(members[l]) : ~ InTree(s))
  /\ pc' = "free_set" /\ cursor' = l
  /\ UNCHANGED << status, linkVars, size, sets, tree, touched, histVars >>

\* Mutant of FreeFirst: the string is freed, then taken out of the list.
FreeFirst_Early ==
  /\ pc = "free_set" /\ lh_first[cursor] # NULL
  /\ LET s == lh_first[cursor]
     IN  /\ status' = [status EXCEPT ![s] = "freed"]
         /\ lh_first' = [lh_first EXCEPT ![cursor] = le_next[s]]
         /\ le_prev' = [t \in String |-> IF t = le_next[s] THEN cursor ELSE le_prev[t]]
         /\ touched' = (touched \/ status'[s] = "freed")
         /\ UNCHANGED le_next
  /\ members' = [members EXCEPT ![cursor] = IF @ = << >> THEN @ ELSE Tail(@)]
  /\ UNCHANGED << size, sets, tree, pc, cursor, seen, todo >>

FreeFirst ==
  /\ pc = "free_set" /\ lh_first[cursor] # NULL
  /\ LET s == lh_first[cursor]
     IN  LIST_REMOVE(s) /\ status' = [status EXCEPT ![s] = "freed"]
  /\ members' = [members EXCEPT ![cursor] = IF @ = << >> THEN @ ELSE Tail(@)]
  /\ UNCHANGED << size, sets, tree, pc, cursor, seen, todo >>

SetFreed ==
  /\ pc = "free_set" /\ lh_first[cursor] = NULL
  /\ sets' = sets \ { cursor }
  /\ pc' = "ready" /\ cursor' = NULL
  /\ UNCHANGED << status, linkVars, size, tree, touched, histVars >>

-----------------------------------------------------------------------------
\* lst_stree_new with a set adds its strings in the order of the list.
lst_stree_new(l) ==
  /\ pc = "ready" /\ tree = NULL /\ Usable(l)
  /\ tree' = Strings(l)
  /\ touched' = (touched \/ Freed(Strings(l)))
  /\ UNCHANGED << status, linkVars, size, sets, pc, cursor, histVars >>

lst_stree_add_string(s) ==
  /\ pc = "ready" /\ tree # NULL /\ s \notin tree /\ status[s] = "live"
  /\ tree' = tree \cup { s }
  /\ UNCHANGED << status, linkVars, size, sets, pc, cursor, touched, histVars >>

\* lst_stree_clear and lst_stree_free
lst_stree_clear ==
  /\ pc = "ready" /\ tree # NULL
  /\ pc' = "clear"
  /\ UNCHANGED << status, linkVars, size, sets, tree, cursor, touched, histVars >>

ClearString ==
  /\ pc = "clear"
  /\ \E s \in tree :
       /\ tree' = tree \ { s }
       /\ status' = [status EXCEPT ![s] = "freed"]
       /\ touched' = (touched \/ Freed({ s }))
  /\ UNCHANGED << linkVars, size, sets, pc, cursor, histVars >>

TreeCleared ==
  /\ pc = "clear" /\ tree = {}
  /\ tree' = NULL
  /\ pc' = "ready"
  /\ UNCHANGED << status, linkVars, size, sets, cursor, touched, histVars >>

-----------------------------------------------------------------------------
Next ==
  \/ \E s \in String : lst_string_new(s) \/ lst_string_free(s) \/ lst_stree_add_string(s)
  \/ \E l \in Set :
       \/ lst_stringset_new(l) \/ lst_stringset_foreach(l) \/ FreeSet(l) \/ lst_stree_new(l)
       \/ \E s \in String : lst_stringset_add(l, s) \/ lst_stringset_remove(l, s)
  \/ Callback \/ NextString \/ EndForeach
  \/ FreeFirst \/ SetFreed
  \/ lst_stree_clear \/ ClearString \/ TreeCleared

Spec == Init /\ [][Next]_vars

-----------------------------------------------------------------------------
\* What the place n of a list points to, and what points to it.
After(strings, n)     == IF n < Len(strings) THEN strings[n + 1] ELSE NULL
Before(l, strings, n) == IF n = 1 THEN l ELSE strings[n - 1]

Chain(l, strings) ==
  /\ lh_first[l] = After(strings, 0)
  /\ \A n \in DOMAIN strings : /\ le_next[strings[n]] = After(strings, n)
                             /\ le_prev[strings[n]] = Before(l, strings, n)

(* The list of a set has the strings that were added and not removed, from *)
(* this set or any other, the last one first; each string points back to   *)
(* what points to it, and size counts them.  lst_stringset_foreach comes   *)
(* to the strings the set had when it began, each once and in order,       *)
(* whatever the callback adds and though it may remove the string it was   *)
(* called with.                                                            *)
ListsRight ==
  /\ \A l \in sets :
       /\ Chain(l, members[l])
       /\ pc # "free_set" => size[l] = Len(members[l])
  /\ pc = "foreach" => IsPrefix(seen, todo) /\ (cursor = NULL => seen = todo)

(* "Create a string set, then add strings to the set, pass the set to an   *)
(* algorithm, and clean up the set afterwards" (lst_string.h): no string   *)
(* is used, or freed, after it was freed.                                  *)
NothingFreedIsUsed == ~ touched

-----------------------------------------------------------------------------
(***************************************************************************)
(* The inductive invariant, of which StringSetsProof shows both.           *)
(***************************************************************************)
TypeOK ==
  /\ status \in [String -> { "none", "live", "freed" }]
  /\ le_next \in [String -> String \cup { NULL }]
  /\ le_prev \in [String -> String \cup Set \cup { NULL }]
  /\ lh_first \in [Set -> String \cup { NULL }]
  /\ size \in [Set -> Int]
  /\ sets \in SUBSET Set
  /\ tree = NULL \/ tree \in SUBSET String
  /\ pc \in { "ready", "foreach", "free_set", "clear" }
  /\ cursor \in String \cup Set \cup { NULL }
  /\ touched \in BOOLEAN
  /\ members \in [Set -> Seq(String)]
  /\ seen \in Seq(String) /\ todo \in Seq(String)

\* A string is at one place of one list.
Apart == \A k, l \in Set : \A i \in DOMAIN members[k], j \in DOMAIN members[l] :
           members[k][i] = members[l][j] => k = l /\ i = j

Chains == \A l \in Set : Chain(l, members[l])

Sizes == \A l \in Set :
           /\ l \notin sets => members[l] = << >>
           /\ l \in sets => (pc = "free_set" /\ cursor = l) \/ size[l] = Len(members[l])

\* The links from the string that was last seen on are those of the list as
\* it was when the loop began.
Ahead ==
  pc = "foreach" =>
    /\ \A i, j \in DOMAIN todo : todo[i] = todo[j] => i = j
    /\ \A n \in DOMAIN todo : status[todo[n]] # "freed"
    /\ Len(seen) <= Len(todo) /\ \A n \in DOMAIN seen : seen[n] = todo[n]
    /\ \/ cursor = After(todo, Len(seen))
       \/ seen # << >> /\ cursor = todo[Len(seen)]
    /\ \A n \in DOMAIN todo : n >= Len(seen) => le_next[todo[n]] = After(todo, n)
    /\ \A n \in DOMAIN todo : n > Len(seen) => Linked(todo[n])

\* What is still to be freed was not freed, and only one frees it.
Alive ==
  CleansUp \/ /\ ~ touched
              /\ \A s \in String : InTree(s) => status[s] # "freed"
              /\ pc = "free_set" => \A n \in DOMAIN members[cursor] :
                   status[members[cursor][n]] # "freed" /\ ~ InTree(members[cursor][n])

IInv ==
  /\ TypeOK /\ Apart /\ Chains /\ Sizes
  /\ pc = "free_set" => cursor \in sets
  /\ pc = "clear" => tree \in SUBSET String
  /\ Ahead /\ Alive
=============================================================================
