SPECIFICATION Spec
CONSTANTS
  Names <- Nested2
  Faces = {1, 2}
  Registrations <- Plain
  Destroyable = {}
  MAX_NUM_TIMEOUTS = 1
  MaxUpdates = 4
  MaxQueue = 1
  MaxTimeouts = 0
INVARIANTS
  OwnRoutesInstalled
CHECK_DEADLOCK FALSE
