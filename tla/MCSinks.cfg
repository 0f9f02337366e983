SPECIFICATION MCSpec
SYMMETRY MCSymmetry
CONSTANTS
  MaxStamp = 2
  MaxMsgs = 5
  Length = 6
  Stamps = {0, 1, 2}
  Wrap = 16
  Handles = {f1, f2}
  Blocks = {m1, m2}
  Words = 2
  WordBits = 2
  Levels = {0, 2, 7}
  NoBlock = NoBlock
  Sinks = {s1, s2}
  Formatters = {t1, t2}
  single = single
  shared = shared
  mine = mine
  ours = ours
  Outputs = {single, shared}
  Shared = {shared}
  Streams = {mine, ours}
  StreamOf <- MCStreamOf
  User = User
  None = None
  Objects = {file_, temp}
  FileHandles = {h1, h2}
  Buffers = {b1, b2}
  BufferSizes = {0, 1, 3, 9}
  MaxBuffer = 4
  Null = Null
  MaxWrites = 3
  LevelNames <- MCLevelNames
  ColouredNames <- MCColouredNames
  Lines <- MCLines
INVARIANTS NothingLost DisorderIsLate NothingHeldBack Merged StableMerge LivesWhileHeld UsedByOne StreamsApart FileIsIntact OnlyLevelsColoured FilterIsAsked
PROPERTIES FlushSorts
CHECK_DEADLOCK FALSE
