CONSTANTS
  Symbols = {0}
  Accesses = 5
  Chunk = 2
  RecordSize = 2
  StartMids = {3}
  MinMid = 2
  Steps <- MCSteps
  Spreads = {3}
  Zero = Zero
  MaxRuns = 2
SPECIFICATION Spec
INVARIANTS FeedInv NothingStale RunGetsWholeTicks QuotesValid
