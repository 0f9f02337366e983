SPECIFICATION FairSpec
CONSTANTS
  a = a
  b = b
  Sinks = {a}
  FlushInterval <- MCIntervals
  InitialSinks = {}
  Added = {a}
  Released = {}
  PollIntervals = {1}
  InitialPoll = 1
  MaxSleep = 3
  MaxLag = 1
PROPERTY SinkFlushed
