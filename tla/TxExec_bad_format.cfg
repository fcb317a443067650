CONSTANTS
  c1 = c1
  c2 = c2
  r1 = r1
  r2 = r2
  Call = {c1}
  Jobs <- BadFormatJobs
  Rows <- AllRows
  DefaultMaxRows = 1
  MaxAffected = 2
SPECIFICATION CalmSpec
INVARIANT FailureRollsBack
CHECK_DEADLOCK FALSE
