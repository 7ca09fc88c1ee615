SPECIFICATION FairSpec
CONSTANTS
  Brokers = {1, 2}
  Replicas <- Two
  MaxRecords = 2
  MaxCrashes = 1
  MaxPushes = 0
  MaxAcks = 1
  MaxCalls = 1
  AckModes = {"1", "all"}
  Killable = {2}
  CanRestart = FALSE
  MaxFaults = 0
INVARIANTS FollowersPrefix
PROPERTIES ProduceCommits CommitCovered
