SPECIFICATION FairSpec
CONSTANTS
  MaxRecords = 3
  MaxLoops = 2
INVARIANTS TypeOK Aligned OneFollower
PROPERTIES QuietAfterClose CloseEnds FollowsOrStranded
CHECK_DEADLOCK FALSE
