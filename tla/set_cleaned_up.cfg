SPECIFICATION Spec
CONSTANTS
  s1 = s1
  s2 = s2
  s3 = s3
  payloads = payloads
  tokens = tokens
  NULL = NULL
  String <- MCString
  Set <- MCSet
  CleansUp = TRUE
INVARIANT NothingFreedIsUsed
CHECK_DEADLOCK FALSE
