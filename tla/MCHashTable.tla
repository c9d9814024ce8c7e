------------------------------ MODULE MCHashTable ------------------------------
(* A small instance of HashTable: pairs with few keys, one of them twice   *)
(* and two that collide in every table, and a short list of small sizes.   *)
EXTENDS HashTable, TLC

CONSTANTS obj1, obj2, obj3, obj4

MCObject == { obj1, obj2, obj3, obj4 }
MCKey    == obj1 :> 1 @@ obj2 :> 1 @@ obj3 :> 5 @@ obj4 :> 33
MCHash   == obj1 :> 1 @@ obj2 :> 1 @@ obj3 :> 5 @@ obj4 :> 21
MCPrimes == << 2, 4, 7 >>
=============================================================================
