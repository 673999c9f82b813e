SPECIFICATION Spec
CONSTANTS
  Names <- Nested3
  Faces = {1, 2}
  Registrations <- Mixed
  Destroyable = {2}
  MAX_NUM_TIMEOUTS = 1
  MaxUpdates = 4
  MaxQueue = 1
  MaxTimeouts = 1
INVARIANTS
  TypeOK
  NextHopsJustified
  InheritedInstalled
  OneBatchAtATime
  QueueAdvances
  ExpiryPending
PROPERTIES
  AssertedOnlyForCapture
  ExpiresOwnRoute
CHECK_DEADLOCK FALSE
