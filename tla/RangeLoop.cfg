SPECIFICATION Spec
CONSTANTS
  MaxMembers = 5
  MaxPartitions = 11
INVARIANTS LoopInv RangeCorrect
CHECK_DEADLOCK FALSE
