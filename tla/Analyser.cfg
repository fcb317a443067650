CONSTANTS
  Statements <- Grammar
  Spelling <- Spelled
  Arguments <- SomeArguments
  SqlLists <- SomeLists
  ArgumentLists <- SomeArgumentLists
  Char <- ScanChars
  MaxLen = 5
SPECIFICATION AnalyserSpec
INVARIANTS SplitIsRight StripIsRight VerbIsMain NoTableOverlooked OthersAreNoTables AllowedIsCovered
CHECK_DEADLOCK FALSE
