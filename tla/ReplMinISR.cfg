SPECIFICATION Spec
CONSTANTS
  Brokers = {1, 2}
  Replicas <- Two
  MaxRecords = 1
  MaxCrashes = 0
  MaxPushes = 1
  MaxAcks = 1
  MaxCalls = 1
  AckModes = {"all"}
  Killable = {}
  CanRestart = FALSE
  MaxFaults = 0
INVARIANTS HWIsMinISR
