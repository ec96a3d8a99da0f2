SPECIFICATION FairSpec
CONSTANTS
  Registrations = {"k1", "k2", "short"}
  Valid <- MCValid
  Conns = {c1, c2, c3}
  MaxStops = 2
  None = None
INVARIANT HandledOnce
INVARIANT OkMeansDelivered
PROPERTY CloseEnds
CHECK_DEADLOCK FALSE
