CONSTANTS
  PageSizes = {0, 1, 2}
  MaxRows = 4
  MaxWrites = 2
  MaxFails = 1
  customers = customers
  items = items
  orders = orders
  a = a
  b = b
  Null = Null
  MaxEdits = 3
  Tables <- Listing
  Column = {a, b}
  Catalogs <- Evolved
  Calls <- SomeCalls
SPECIFICATION ReadsSpec
INVARIANTS IInv PageIsSlice PagesArePrefix NothingRepeated NothingSkipped DescribedAsItWas SchemaAsItWas
CHECK_DEADLOCK FALSE
