SPECIFICATION Spec
CONSTANTS
  Char = {0, 1, 2}
  Values = {v, w}
  NULL = NULL
  Keys <- MCKeys
INVARIANTS NoLeakNoDangling UseCounts DfsRight
PROPERTY MapSpec
CHECK_DEADLOCK FALSE
