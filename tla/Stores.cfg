CONSTANTS
  orders = orders
  billing = billing
  Name <- Names
  Only = orders
  MaxEdits = 2
  Machine = {laptop, server}
  Proc = {first, second}
  Password = {word}
  Phrase = {right, wrong}
  MaxKeys = 2
  Value = {"text", "empty", "null", "time", "big"}
  Rowsets <- SomeRows
  Extensions = {"csv", "json", "other"}
  MaxExports = 2
SPECIFICATION StoresSpec
INVARIANTS
  IInv UsedAgentFirst NotFoundIsTrue ListedAgentFirst ListIsComplete
  PrintedCanBeOpened ReasonIsTrue
  OkIsWhole ImportedWasExported
CHECK_DEADLOCK FALSE
