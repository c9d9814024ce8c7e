SPECIFICATION FairSpec
CONSTANTS
  NULL = NULL
  Unset = Unset
  Payloads <- MCPayloads
  Tokens <- MCTokens
  NumPayloads = {2}
  NumTokens = {3}
  Inputs <- MCInputs
  KOffsets = {0, 2}
  Twice = {FALSE, TRUE}
  beta_merge = 3
  Junk = {FALSE, TRUE}
  first_bytes = 2
  last_bytes = 1
  num_bytes = 4
  gamma_merge = 1
  Past = {0, 97}
INVARIANTS OccurrencesRight VariantsRight CodesDistinct MergedRight SinglesRight ConvertedRight
PROPERTY EncodingEnds
CHECK_DEADLOCK FALSE
