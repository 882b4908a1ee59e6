CONSTANTS
  W = 2
  L1S = 2
  L2S = 4
  Blocks <- MCBlocks
  MaxTrace = 2
  TailLength = 1
SPECIFICATION SampleSpec
INVARIANT WholeTraceCounted
