SPECIFICATION Spec
CONSTANTS
  Handlers = {"h1"}
  SinkFailureThreshold = 2
  PanicThreshold = 1
  MinTrip = 1
  RecoveryWindow = 1
  BackoffMultiplier = 2
  MaxTrip = 3
  DurationMax = 7
  OutOfRange <- Indefinite
  AgeCap = 5
INVARIANT DeniesWhileTripped
