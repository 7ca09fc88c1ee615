SPECIFICATION Spec
CONSTANTS
  Sizes = {1, 2}
  MaxSegmentBytes = 5
  IndexInterval = 2
  FsyncEvery = 2
  MaxAppends = 6
  MaxCrashes = 2
  IndexOutlivesLog = FALSE
INVARIANTS TypeOK SegmentsContiguous IndexSound ReadSound
PROPERTIES AppendOnly
