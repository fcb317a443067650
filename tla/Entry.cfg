CONSTANTS
  Numerals <- SomeNumerals
  Calls <- SomeCalls
  Slips <- SomeSlips
  Size = 3
  PipeSize = 1
SPECIFICATION FairSpec
INVARIANTS RunsAsMeant ExitIsTrue
PROPERTIES CallEnds
CHECK_DEADLOCK FALSE
