SPECIFICATION FairSpec
CONSTANTS
  Backends = {"jsonl", "sqlite"}
  Backpressures = {"block", "drop"}
  QueueSize = 2
  MaxRecords = 2
  MaxTrips = 4
  MaxCrashes = 1
INVARIANT ChainIntact
INVARIANT TipSurvives
INVARIANT TamperDetected
INVARIANT DrainedOnClose
PROPERTY EverySettles
CHECK_DEADLOCK FALSE
