CONSTANTS
  c1 = c1
  c2 = c2
  r1 = r1
  r2 = r2
  Call = {c1, c2}
  Jobs <- AllJobs
  Rows <- AllRows
  DefaultMaxRows = 1
  MaxAffected = 2
SPECIFICATION PairSpec
INVARIANTS IInv AllOrNothing WithinLimits OkIsDurable RefusedLeavesNothing
PROPERTIES KeepsPromise EveryCallEnds RowsAreFreed
CHECK_DEADLOCK FALSE
