SPECIFICATION Spec
CONSTANTS
  g = g
  n = n
  l = l
  Producers = {n}
  Policy <- MCPolicy
  Size = 8
  PosMod = 16
  MsgSizes = {1, 2}
  Timed = {FALSE}
  MaxCalls = 9
  MaxFlushes = 0
  MaxStops = 0
INVARIANTS
  SleepsOnlyIfRoom
PROPERTIES
  DropWakesCore
CHECK_DEADLOCK FALSE
