SPECIFICATION FairSpec
CONSTANTS
  Ids = {1, 2, 3}
  Topics = {"a"}
  PartitionCount <- ThreePartitions
  Subscriptions = {{"a"}}
  Session = 2
  RebalanceWait = 1
  MaxGeneration = 3
  MaxFailovers = 1
INVARIANTS TypeOK EveryPartitionOwned ExclusiveViews
PROPERTIES AssignmentFixed RebalanceCompletes
