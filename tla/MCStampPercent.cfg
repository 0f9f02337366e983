SPECIFICATION StampSpec
CONSTANTS
  Alphabet = {}
  MaxLength = 1
  Parts = {}
  RawSources = {}
  Texts = {}
  Formats = {}
  FieldRooms = {}
  TailFormats = {}
  Zones <- MCZones
  Minutes <- MCMinutes
  UtcTime <- MCUtcTime
  LocalTime <- MCLocalTime
  Ticks <- MCTicks
  TimeFormats <- MCPercentFormats
  StampRooms = {63}
  CacheSize = 2
  CharIsSigned = TRUE
INVARIANT IsStrftime
CHECK_DEADLOCK FALSE
