SPECIFICATION Spec
CONSTANTS
  Inputs <- MCInputs
  Behind <- MCBehind
INVARIANTS MergeRight
CHECK_DEADLOCK FALSE
