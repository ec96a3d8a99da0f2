SPECIFICATION SensorFairSpec
CONSTANTS
  PIDs = {p1}
  Cgroups = {101}
  CgroupOf <- MCCgroupOf
  FDs = {3}
  Dests = {d1, d2}
  ConnectTo = {d1}
  SendTo = {d2}
  DNS = {d2}
  Atoms = {1, 2, 10}
  Buffers <- MCBuffers
  IovArrays = {}
  Messages = {}
  Caps = {}
  NULL = NULL
  Unmapped = Unmapped
  BadIovec = BadIovec
  OtherFamily = OtherFamily
  PAYLOAD_MAX = 2
  IOV_MAX = 2
  EventsSize = 1
  CriticalSize = 2
  MapEntries = 1
  MaxCalls = 3
  Secret <- MCSecret
  Allowlists <- MCAllowlists
  anyFD = anyFD
  maxFDsPerPID = 1
  SuspiciousConnectTTL = 0
  staleFDTTL = 0
  MaxTime = 1
  egressFragmentMaxAge = 0
  egressFragmentMaxChunks = 2
  egressFragmentMaxBytes = 4
  egressMaxFlows = 1
  NL = 0
  DOT = 10
INVARIANT CorrelationExplained
INVARIANT PiecesJoined
PROPERTY LeakContained
CHECK_DEADLOCK FALSE
