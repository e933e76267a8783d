\* Four writers that start and stop one at a time and may be killed at any step.
SPECIFICATION Spec
CONSTANTS
  Writers = {w1, w2, w3, w4}
  Readers = {r1}
  MaxInode = 3
  Reuse = TRUE
  Overlap = FALSE
  ResizeAnyTime = FALSE
SYMMETRY WriterSymmetry
INVARIANTS
  ServedIsIntact
  ServedIsReadable
  RightSemaphore
PROPERTIES
  FailsOnlyIfUsed
  NothingLeft
CHECK_DEADLOCK FALSE
