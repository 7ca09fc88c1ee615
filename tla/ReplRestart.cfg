SPECIFICATION Spec
CONSTANTS
  Brokers = {1, 2}
  Replicas <- Two
  MaxRecords = 2
  MaxCrashes = 1
  MaxPushes = 1
  MaxAcks = 1
  MaxCalls = 0
  AckModes = {"1"}
  Killable = {1, 2}
  CanRestart = TRUE
  MaxFaults = 0
INVARIANTS TypeOK OffsetIdentity AckedLEOReal HWWithinLog
PROPERTIES CommitCovered
