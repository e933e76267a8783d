\* Living readers whose callbacks last more than a second, under fairness.
SPECIFICATION FairSpec
CONSTANTS
  Readers = {r1}
  Crashing = {}
  NumFrames = 2
  MaxQueue = 1
  Timing = "slow"
PROPERTIES
  WriteCompletes
CHECK_DEADLOCK FALSE
