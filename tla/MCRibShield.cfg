SPECIFICATION Spec
CONSTANTS
  Names <- Nested3
  Faces = {1, 2}
  Registrations <- Shielding
  Destroyable = {}
  MAX_NUM_TIMEOUTS = 1
  MaxUpdates = 5
  MaxQueue = 1
  MaxTimeouts = 0
INVARIANTS
  NearestInherited
CHECK_DEADLOCK FALSE
