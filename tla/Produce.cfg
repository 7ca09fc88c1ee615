SPECIFICATION FairSpec
CONSTANTS
  Brokers = {1, 2}
  N = 2
  Keys = {"k", "j"}
  NoKey = ""
  Hash <- HashTwo
  Requests <- AllRequests
  Attempts = 2
  MaxHops = 3
  MaxFaults = 1
  MaxMoves = 1
INVARIANTS TypeOK ResponseTruthful CopiesAccounted KeyOrder
PROPERTIES RequestEnds
CHECK_DEADLOCK FALSE
