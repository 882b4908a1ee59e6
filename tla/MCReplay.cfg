CONSTANTS
  s1 = s1
  s2 = s2
  s3 = s3
  s4 = s4
  s5 = s5
  Malformed = Malformed
  Symbols <- MCSymbols
  Files <- MCFiles
  ShortNames <- MCShortNames
  Bases = {0, 4}
  Window = 8
  MaxSymbols = 2
  N = 4
  Latencies = {0, 4, 40}
  Quantiles = {0, 500, 900, 990, 999, 1000}
  Precision = 18
  MaxExponent = 20
SPECIFICATION Spec
INVARIANTS ReplayInv InternedSinceGrown MapMatchesStorage RollingSumsBounded NeverPyramids SupportsAllSymbols ReportConsistent RoundingHeals PercentileBounds
PROPERTIES ImplementsSpecified
