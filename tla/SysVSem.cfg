\* Two readers that may be killed at any step, under fairness.
SPECIFICATION FairSpec
CONSTANTS
  Readers = {r1, r2}
  Crashing = {r1, r2}
  NumFrames = 2
  MaxQueue = 1
  Timing = "reasonable"
INVARIANTS
  SemInvariant
  ReadsAnnouncedFrame
  NoUnlockBlocks
PROPERTIES
  NoFrameSkipped
  ImplementsExchange
  WriteCompletes
  UpdateIsRead
  BlockedReaderReleased
CHECK_DEADLOCK FALSE
