\* Two readers and a writer whose segments only grow, on a system that may be out of memory.
SPECIFICATION Spec
CONSTANTS
  Readers = {r1, r2}
  Sizes = {1, 2, 3}
  MaxSegs = 4
  CanFail = TRUE
  Growing = TRUE
SYMMETRY ReaderSymmetry
INVARIANTS
  ReadsWritersSegment
CHECK_DEADLOCK FALSE
