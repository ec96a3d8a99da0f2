SPECIFICATION Spec
CONSTANTS
  PIDs = {p1, p2}
  Cgroups = {101}
  CgroupOf <- MCCgroupOf
  FDs = {2, 3}
  Dests = {d1}
  Atoms = {1, 2, 3, 4}
  Buffers <- MCBuffers
  IovArrays <- MCIovArrays
  Messages <- MCMessages
  Caps = {2, 9}
  NULL = NULL
  Unmapped = Unmapped
  BadIovec = BadIovec
  OtherFamily = OtherFamily
  PAYLOAD_MAX = 3
  IOV_MAX = 2
  EventsSize = 1
  CriticalSize = 1
  MapEntries = 1
  MaxCalls = 2
INVARIANT CapturedExactly
INVARIANT NothingLostUncounted
CHECK_DEADLOCK FALSE
SYMMETRY MCSymmetry
