SPECIFICATION Spec
CONSTANTS
  Sizes = {1, 2}
  MaxSegmentBytes = 3
  IndexInterval = 2
  FsyncEvery = 0
  MaxAppends = 4
  MaxCrashes = 0
  IndexOutlivesLog = FALSE
INVARIANTS ReadContiguous
