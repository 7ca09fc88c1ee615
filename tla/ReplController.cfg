SPECIFICATION FairSpec
CONSTANTS
  Brokers = {1, 2, 3}
  Replicas <- TwoOfThree
  MaxRecords = 0
  MaxCrashes = 1
  MaxPushes = 2
  MaxAcks = 1
  MaxCalls = 0
  AckModes = {"1"}
  Killable = {2}
  CanRestart = FALSE
  MaxFaults = 1
PROPERTIES ControllerRepairs
