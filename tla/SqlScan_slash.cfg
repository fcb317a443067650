CONSTANTS
  Char <- SlashChars
  MaxLen = 9
SPECIFICATION WordedSpec
INVARIANT SeveralAreSeen
CHECK_DEADLOCK FALSE
