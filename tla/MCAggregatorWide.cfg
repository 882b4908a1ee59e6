CONSTANTS
  THREADS = 2
  TableSize = 2
  NumSymbols = 3
  NegativePrices = FALSE
  Streams <- MCStreams
  Infinity = 100
  Unspecified = Unspecified
  Runs = 1
SPECIFICATION Spec
PROPERTIES ImplementsReduction
