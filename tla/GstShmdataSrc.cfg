\* Two writers one after the other, the first with a type that is no caps, and an
\* element stopped, flushed and restarted.
SPECIFICATION FairSpec
CONSTANTS
  MaxFrames = 3
  MaxRuns = 2
  MaxForced = 3
  CapsFail = TRUE
  BadTypes = {1}
  SetAnyTime = FALSE
INVARIANTS
  FewOverwritten
  CapsNotOlder
  WaitIsPaid
PROPERTIES
  InOrderOnce
  OnDataReturns
  StopReturns
CHECK_DEADLOCK FALSE
