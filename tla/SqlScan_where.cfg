CONSTANTS
  Char <- WhereChars
  MaxLen = 6
SPECIFICATION Spec
INVARIANT BlockedLacksWhere
CHECK_DEADLOCK FALSE
