SPECIFICATION SideSpec
CONSTANTS
  Handlers = {"h1"}
  SinkFailureThreshold = 2
  PanicThreshold = 1
  MinTrip = 1
  RecoveryWindow = 1
  BackoffMultiplier = 2
  MaxTrip = 3
  DurationMax = 7
  OutOfRange <- Indefinite
  AgeCap = 5
  PIDs = {1}
  Cgroups = {101}
  CgroupOf <- MCCgroupOf
  Watchers = {"informer", "rescan"}
INVARIANT BadMeansTripped
INVARIANT ProxyFollows
PROPERTY ClearsOnlyAfterHealth
PROPERTY BackoffGrows
PROPERTY RecoversOnceHealthy
INVARIANT AllWatchedDenied
INVARIANT EarlyExfilHeld
