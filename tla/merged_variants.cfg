SPECIFICATION Spec
CONSTANTS
  NULL = NULL
  Unset = Unset
  Payloads <- MCPayloads
  Tokens <- MCTokens
  NumPayloads = {2}
  NumTokens = {3}
  Inputs <- MCInputs
  KOffsets = {0}
  Twice = {FALSE}
  beta_merge = 3
  Junk = {FALSE}
  first_bytes = 2
  last_bytes = 1
  num_bytes = 4
  gamma_merge = 1
  Past = {0}
INVARIANT VariantsAlwaysListed
CHECK_DEADLOCK FALSE
