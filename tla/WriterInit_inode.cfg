\* A file system that never gives an inode number twice.
SPECIFICATION Spec
CONSTANTS
  Writers = {w1, w2}
  Readers = {r1}
  MaxInode = 4
  Reuse = FALSE
  Overlap = FALSE
  ResizeAnyTime = FALSE
INVARIANTS
  ServedIsReadable
CHECK_DEADLOCK FALSE
