SPECIFICATION FairSpec
CONSTANTS
  a = a
  b = b
  Sinks = {a, b}
  FlushInterval <- MCEvery
  InitialSinks = {a}
  Added = {b}
  Released = {}
  PollIntervals = {}
  InitialPoll = 0
  MaxSleep = 2
  MaxLag = 1
PROPERTY SinkFlushed
