CONSTANTS
  Numerals <- SomeNumerals
  Calls <- TxCalls
  Slips = {}
  Size = 1
  PipeSize = 1
SPECIFICATION Spec
INVARIANTS RunsAsMeant
CHECK_DEADLOCK FALSE
