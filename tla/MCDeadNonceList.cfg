SPECIFICATION LoadSpec
CONSTANTS
  Entry = {e1}
  MARK = MARK
  INITIAL_CAPACITY = 8
  MIN_CAPACITY = 5
  MAX_CAPACITY = 12
  EXPECTED_MARK_COUNT = 2
  EVICT_LIMIT = 3
  LOADS = {0, 2, 5, 8}
INVARIANTS TypeOK BoundedMemory
PROPERTIES RecentNoncesSurvive EntriesKeptForLifetime CapacitySettles
