\* A writer that may stop at any moment.
SPECIFICATION FairSpec
CONSTANTS
  MaxRuns = 3
  MaxReaders = 5
  WriterWaits = FALSE
  UserWaits = FALSE
PROPERTIES
  Reconnects
CHECK_DEADLOCK FALSE
