CONSTANTS
  Statements <- Inserts
  Spelling <- Spelled
  Arguments <- SomeArguments
  SqlLists <- SomeLists
  ArgumentLists <- SomeArgumentLists
SPECIFICATION Spec
INVARIANT ObjectsAreTables
CHECK_DEADLOCK FALSE
