SPECIFICATION Spec
CONSTANTS
  obj1 = obj1
  obj2 = obj2
  obj3 = obj3
  obj4 = obj4
  NULL = NULL
  Object <- MCObject
  Key <- MCKey
  Hash <- MCHash
  Primes <- MCPrimes
INVARIANTS ChainsRight Ownership IterRight
PROPERTY MapSpec
CHECK_DEADLOCK FALSE
