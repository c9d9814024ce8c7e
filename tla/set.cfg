SPECIFICATION Spec
CONSTANTS
  val1 = val1
  val2 = val2
  val3 = val3
  val4 = val4
  NULL = NULL
  Value <- MCValue
  Key <- MCKey
  Hash <- MCHash
  Primes <- MCPrimes
  Inserts <- MCInserts
INVARIANTS SetsRight ValuesFreed
PROPERTIES NullWithoutMemory SetSpec
CHECK_DEADLOCK FALSE
