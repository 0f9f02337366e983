SPECIFICATION Spec
CONSTANTS
  MaxNesting = 4
  MaxDepth = 2
  Calls <- MCCalls
  MaxSizes = {88, 160}
  Rooms = {5, 40}
  LineFields <- MCLineFields
  RawSources <- MCRawSources
  Texts <- MCTexts
  Formats <- MCFormats
  FieldRooms = {9, 40}
  TailFormats <- MCTailFormats
  Alphabet <- MCAlphabet
  MaxLength = 4
  Parts <- MCParts
  Zones <- MCZones
  Minutes <- MCMinutes
  UtcTime <- MCUtcTime
  LocalTime <- MCLocalTime
  Ticks <- MCTicks
  TimeFormats <- MCTimeFormats
  StampRooms = {62, 63}
  CacheSize = 2
  CharIsSigned = TRUE
  Pieces <- MCPiecesOfFormat
  MaxPieces = 5
  Lines <- MCLines
  MessageLines <- MCMessageLines
  DefaultFormatString <- MCDefaultFormatString
  LineRooms = {12, 64}
  BufferSize = 40
  CacheLine = 2
INVARIANTS SizeIsWritten CroppedOnlyIfTooLong LineIsTrue NothingSwallowed CutWithError NothingUnprintable FieldIsWide SpecIsRead StampIsAsked FormatsAccepted LineIsFormat
CHECK_DEADLOCK FALSE
