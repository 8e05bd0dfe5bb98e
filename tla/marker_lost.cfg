\* Attempts and sockets are bounded, so the system stops.
CHECK_DEADLOCK FALSE
SPECIFICATION Spec
CONSTANTS
  Chunks = 2
  PerChunk = 2
  MaxSockets = 5
  MaxAttempts = 3
INVARIANTS
  MarkerMeansDelivered
