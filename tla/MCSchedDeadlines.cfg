SPECIFICATION Spec
CONSTANTS
  a = a
  b = b
  Sinks = {a, b}
  FlushInterval <- MCIntervals
  InitialSinks = {a, b}
  Added = {}
  Released = {b}
  PollIntervals = {1, 2}
  InitialPoll = 0
  MaxSleep = 3
  MaxLag = 1
INVARIANTS SinksNotOverslept
