CONSTANTS
  THREADS = 2
  TableSize = 2
  NumSymbols = 2
  NegativePrices = TRUE
  Streams <- MCStreams
  Infinity = 100
  Unspecified = Unspecified
  Runs = 1
SPECIFICATION Spec
PROPERTIES ImplementsReduction
