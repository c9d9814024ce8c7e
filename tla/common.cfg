SPECIFICATION FairAlgSpec
CONSTANTS
  MaxLen = 4
  MaxStrings = 3
  Behind = {0, 1}
  Checked <- MCChecked
  MaxCalls = 2
  Fns = {"lcs"}
  MinLens = {2}
  MaxLens = {0}
  Ks = {2}
  Inputs <- MCFew
  Calls <- MCMixed
INVARIANTS BusCountsKids LabelsRight
PROPERTIES LongestRight FirstKRight CheckRight CallReturns
CHECK_DEADLOCK FALSE
