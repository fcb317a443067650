CONSTANTS
  users = users
  orders = orders
  main = main
  spare = spare
  None = None
  Table <- Tables
  Database <- Databases
  Invocations <- SomeInvocations
  Profiles <- SomeProfiles
  Inputs <- SomeInputs
  MaxEdits = 2
SPECIFICATION Spec
INVARIANTS IInv SentWasPermitted SentWasRead CheckedBeforeSent Untouched ShownWasPermitted
CHECK_DEADLOCK FALSE
