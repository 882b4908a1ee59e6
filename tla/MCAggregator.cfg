CONSTANTS
  THREADS = 3
  TableSize = 2
  NumSymbols = 2
  NegativePrices = FALSE
  Streams <- MCStreams
  Infinity = 100
  Unspecified = Unspecified
  Runs = 2
SPECIFICATION Spec
INVARIANTS AggregatorInv NoLostUpdate EveryTickCounted
PROPERTIES ImplementsReduction RunReturns
