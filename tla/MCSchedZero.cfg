SPECIFICATION Spec
CONSTANTS
  a = a
  b = b
  Sinks = {a}
  FlushInterval <- MCIntervals
  InitialSinks = {a}
  Added = {}
  Released = {}
  PollIntervals = {0}
  InitialPoll = 1
  MaxSleep = 3
  MaxLag = 1
INVARIANT ZeroMeansNoPolling
