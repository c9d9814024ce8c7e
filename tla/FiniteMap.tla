------------------------------- MODULE FiniteMap -------------------------------
(***************************************************************************)
(* What src/hash-table.h promises: a map from keys to values.  A call may  *)
(* be refused for want of memory, and then changes nothing.                *)
(***************************************************************************)
CONSTANTS Keys, Values, NULL

VARIABLES
  map,      \* the pairs << key, value >> in the map
  result,   \* what the last call returned
  open      \* until the map is freed

vars == << map, result, open >>

Init == map = {} /\ result = NULL /\ open = TRUE

Others(k) == { pair \in map : pair[1] # k }

Insert(k, v) ==
  \/ map' = Others(k) \cup { << k, v >> } /\ result' = TRUE
  \/ map' = map /\ result' = FALSE

Lookup(k) ==
  /\ map' = map
  /\ \/ \E v \in Values : << k, v >> \in map /\ result' = v
     \/ Others(k) = map /\ result' = NULL

Remove(k) == map' = Others(k) /\ result' = (Others(k) # map)

Free == map' = {} /\ result' = result

Call == \E k \in Keys : Lookup(k) \/ Remove(k) \/ \E v \in Values : Insert(k, v)

Next ==
  /\ open = TRUE
  /\ \/ Call /\ open' = TRUE
     \/ Free /\ open' = FALSE

Spec == Init /\ [][Next]_vars
=============================================================================
