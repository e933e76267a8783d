\* A sink that is renegotiated, stopped and resized, with a reader.
SPECIFICATION SinkFairSpec
CONSTANTS
  Readers = {r1}
  Sizes = {1, 2, 3, 4}
  ShmMax = 3
  MaxSegs = 3
  CanFail = FALSE
  Growing = FALSE
  MaxFrames = 2
  MaxBufs = 2
  Orderly = TRUE
INVARIANTS
  SizeIsReal
  SentIsFrame
  OwnIsCurrent
PROPERTIES
  RenderReturns
CHECK_DEADLOCK FALSE
