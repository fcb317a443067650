CONSTANTS
  Char <- EscapeChars
  MaxLen = 6
SPECIFICATION WordedSpec
INVARIANT SeveralAreSeen
CHECK_DEADLOCK FALSE
