CONSTANTS
  t1 = t1
  t2 = t2
  Tabs = {t1, t2}
  ByteLimit = 4
  Limit = 16
  RowLength = 2
  i2c_max_stringlength = 2
  Addresses = {1, 6}
  Values = {6}
  Lengths = {0, 2}
  Ranges <- Dumps
  MaxRequests = 2
SPECIFICATION Spec
CHECK_DEADLOCK FALSE
INVARIANTS TypeOK ValueBelongsToAddress DumpExact
PROPERTIES CellsChangeAsAsked RequestsEnd
