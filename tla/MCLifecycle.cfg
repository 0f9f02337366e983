CONSTANTS
  Threads = {t1, t2}
  Cores = {c1, c2}
  Buffers = {b1, b2, b3}
  Sinks = {s1}
  Slots = {0}
  MaxId = 4
  MaxUnread = 1
  MaxPasses = 1
  Arrays = {left, right}
  Elements = {x}
  Default = d0
  Blocks = {m1, m2, m3}
  Null = Null
  Raw = Raw
  MinGrowth = 2
  MaxMemory = 4
  MaxSize = 8
SPECIFICATION ListedSpec
SYMMETRY Symmetry
INVARIANTS CountIsHolders OwnBuffer NothingStranded SinkExclusive ArrayIsIntact
PROPERTIES MessagesLeaveByReading
CHECK_DEADLOCK FALSE
