------------------------------- MODULE MCHashSet -------------------------------
(* A small instance of HashSet: an equal value for each of the two sets, a  *)
(* value with the same hash for the first, one with another hash for the    *)
(* second or the result, and sizes 2 and then ten times the entries.        *)
EXTENDS HashSet, TLC

CONSTANTS val1, val2, val3, val4

MCValue   == { val1, val2, val3, val4 }
MCKey     == val1 :> 1 @@ val2 :> 1 @@ val3 :> 2 @@ val4 :> 3
MCHash    == val1 :> 1 @@ val2 :> 1 @@ val3 :> 11 @@ val4 :> 5
MCPrimes  == << 2 >>
MCInserts == { << "set1", val1 >>, << "set1", val3 >>, << "set2", val2 >>,
               << "set2", val4 >>, << "new_set", val4 >> }
=============================================================================
