SPECIFICATION Spec
CONSTANTS
  s1 = s1
  s2 = s2
  s3 = s3
  payloads = payloads
  tokens = tokens
  NULL = NULL
  String <- MCString
  Set <- MCSet
  CleansUp = FALSE
INVARIANTS ListsRight NothingFreedIsUsed
CHECK_DEADLOCK FALSE
