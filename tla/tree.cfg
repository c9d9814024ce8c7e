SPECIFICATION FairSpec
CONSTANTS
  MaxLen = 3
  MaxStrings = 2
  Inputs <- MCBordered
INVARIANTS
  TreeShape
  SuffixesAreLeaves ExtensionInPlace SuffixLinksRight ImplicitTree
PROPERTIES OnceALeaf AddStringReturns IndexSpec
CHECK_DEADLOCK FALSE
