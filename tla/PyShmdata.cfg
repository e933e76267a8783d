\* Two threads of Python, two writers one after the other, a reader.
SPECIFICATION FairSpec
CONSTANTS
  Threads = {t1, t2}
  MaxFrames = 3
  MaxRuns = 2
INVARIANTS
  BuffersCounted
  TypeOfFrame
PROPERTIES
  PushReturns
  DeallocReturns
CHECK_DEADLOCK FALSE
