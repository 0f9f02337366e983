SPECIFICATION Spec
CONSTANTS
  Size = 4
  PosMod = 8
  MaxMsgSize = 3
  MaxMsgs = 5
INVARIANTS
  WriteableIsFree
PROPERTIES
  UnreadIntact
  ImplementsQueue
CHECK_DEADLOCK FALSE
