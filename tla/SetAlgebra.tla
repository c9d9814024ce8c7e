------------------------------ MODULE SetAlgebra ------------------------------
(***************************************************************************)
(* What src/set.h promises: sets of values, of which no two are equal, and *)
(* the union and the intersection of two of them as a new set.  A call may *)
(* be refused for want of memory, and then changes nothing.                *)
(***************************************************************************)
CONSTANTS Names, Value, Key, NULL

VARIABLES
  contents,   \* the values in a set, NULL if there is no such set
  combining,  \* the combination under way, NULL if there is none
  result      \* what the last call returned

vars == << contents, combining, result >>

Live == { s \in Names : contents[s] # NULL }

\* The values of a set that are equal to v.
Equals(v, values) == { u \in values : Key[u] = Key[v] }

\* The first set, and what the second has beyond it.
Union(values1, values2) ==
  values1 \cup { v \in values2 : Equals(v, values1) = {} }

Intersection(values1, values2) == { v \in values1 : Equals(v, values2) # {} }

Init == contents = [s \in Names |-> NULL] /\ combining = NULL /\ result = NULL

New(s) ==
  /\ s \notin Live
  /\ \/ contents' = [contents EXCEPT ![s] = {}] /\ result' = TRUE
     \/ contents' = contents /\ result' = NULL

Insert(s, v) ==
  \/ /\ Equals(v, contents[s]) = {}
     /\ contents' = [contents EXCEPT ![s] = @ \cup { v }] /\ result' = TRUE
  \/ contents' = contents /\ result' = FALSE

Remove(s, v) ==
  LET equals == Equals(v, contents[s])
  IN  contents' = [contents EXCEPT ![s] = @ \ equals] /\ result' = (equals # {})

\* What an iterator returns, and NULL at the end.
IterNext(s) == contents' = contents /\ result' \in contents[s] \cup { NULL }

Free(s) == contents' = [contents EXCEPT ![s] = NULL] /\ result' = result

\* A caller that keeps the result of a combination as its first set.
Keep(s, t) ==
  contents' = [contents EXCEPT ![s] = contents[t], ![t] = NULL] /\ result' = result

(***************************************************************************)
(* set_union and set_intersection begin, and end with a new set or with    *)
(* NULL; nothing else happens on the way.                                  *)
(***************************************************************************)
Begin(op) ==
  /\ combining = NULL
  /\ \/ combining' = op /\ UNCHANGED << contents, result >>
     \/ result' = NULL /\ UNCHANGED << contents, combining >>

End(s, t, new) ==
  LET values == IF combining = "union" THEN Union(contents[s], contents[t])
                ELSE Intersection(contents[s], contents[t])
  IN  /\ combining # NULL /\ combining' = NULL
      /\ \/ contents' = [contents EXCEPT ![new] = values] /\ result' = TRUE
         \/ contents' = contents /\ result' = NULL

OneSet(s) ==
  \/ IterNext(s) \/ Free(s)
  \/ \E v \in Value : Insert(s, v) \/ Remove(s, v)

Plain ==
  \/ \E s \in Names : New(s)
  \/ \E s \in Live : OneSet(s)
  \/ \E s, t \in Live : Keep(s, t)

Next ==
  \/ combining = NULL /\ Plain /\ UNCHANGED combining
  \/ \E op \in { "union", "intersection" } : Begin(op)
  \/ \E s, t \in Live : \E new \in Names \ Live : s # t /\ End(s, t, new)

Spec == Init /\ [][Next]_vars
=============================================================================
