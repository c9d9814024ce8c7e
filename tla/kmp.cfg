SPECIFICATION FairSpec
CONSTANTS
  Char = {"a", "b"}
  M = 6
  N = 8
  Garbage = {3}
INVARIANTS TableRight SearchRight
PROPERTIES NeverBack Returns
CHECK_DEADLOCK FALSE
