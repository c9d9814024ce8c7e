SPECIFICATION FairAlgSpec
CONSTANTS
  MaxLen = 2
  MaxStrings = 2
  Behind = {0}
  Checked <- MCChecked
  MaxCalls = 1
  Fns = {"first_k"}
  MinLens = {1, 2}
  MaxLens = {0}
  Ks = {2}
  Inputs <- MCInputs
  Calls <- MCCalls
PROPERTY FirstKReturns
CHECK_DEADLOCK FALSE
