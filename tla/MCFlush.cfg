SPECIFICATION FairSpec
CONSTANTS
  g = g
  n = n
  l = l
  Producers = {g}
  Policy <- MCPolicy
  Size = 4
  PosMod = 8
  MsgSizes = {3, 4}
  Timed = {TRUE, FALSE}
  MaxCalls = 3
  MaxFlushes = 1
  MaxStops = 1
INVARIANTS NoLostWakeup WaitsBounded
PROPERTIES CallsReturn StopReturns
CHECK_DEADLOCK FALSE
