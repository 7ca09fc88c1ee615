SPECIFICATION FairSpec
CONSTANTS
  Ids = {1, 2}
  Topics = {"a"}
  PartitionCount <- OnePartition
  Session = 1
  RebalanceWait = 1
  Topic = "a"
  FromBeginning = TRUE
  Coordinators = {1}
  Slow = {}
  CanExit = {}
  MaxRecords = 0
  MaxFaults = 0
  MaxFailovers = 0
  MaxGeneration = 3
PROPERTY Settles
