SPECIFICATION CallSpec
CONSTANTS
  MaxNesting = 4
  MaxDepth = 2
  Calls <- NestedCalls
  MaxSizes = {88, 160}
  Rooms = {5, 40}
  LineFields <- MCLineFields
INVARIANTS SizeIsWritten
CHECK_DEADLOCK FALSE
