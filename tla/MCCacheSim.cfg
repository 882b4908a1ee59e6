CONSTANTS
  W = 2
  L1S = 2
  L2S = 4
  Blocks <- MCBlocks
  MaxTrace = 2
SPECIFICATION Spec
INVARIANTS CacheInv NoDuplicates
PROPERTIES NoDirtyLost NoNeedlessWriteback ImplementsReference
