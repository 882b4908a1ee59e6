CONSTANTS
  NoItem = NoItem
  s1 = s1
  s2 = s2
  Symbols <- MCSymbols
  Feeds <- MCFeeds
  Items <- Decoded
  MaxPushes <- MCMaxPushes
  Window = 8
  Capacity = 2
  IndexMod = 4
  Runs = 2
  MaxTicks = 11
  PriceScale = 100
  FractionBits = 16
  Precision = 10
  MaxExponent = 16
SPECIFICATION Spec
INVARIANTS PipelineInv NothingLeftBehind OrdersConsistent WindowLayout ReportMatchesReference
PROPERTIES ImplementsSequential RingIntact RunReturns
