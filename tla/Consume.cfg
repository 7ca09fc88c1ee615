SPECIFICATION FairSpec
CONSTANTS
  Ids = {1, 2}
  Topics = {"a"}
  PartitionCount <- OnePartition
  Session = 1
  RebalanceWait = 1
  Topic = "a"
  FromBeginning = TRUE
  Coordinators = {1}
  Slow = {1}
  CanExit = {1}
  MaxRecords = 3
  MaxFaults = 1
  MaxFailovers = 1
  MaxGeneration = 3
INVARIANTS TypeOK AtLeastOnce
PROPERTIES Drains
