\* Three runs of the writer, none of which ends while the follower is busy.
SPECIFICATION FairSpec
CONSTANTS
  MaxRuns = 3
  MaxReaders = 4
  WriterWaits = TRUE
  UserWaits = TRUE
INVARIANTS
  OneReader
  NoThreadSurvives
PROPERTIES
  Reconnects
  DtorReturns
CHECK_DEADLOCK FALSE
