SPECIFICATION Spec
CONSTANTS
  Names <- FiveNames
  Hash <- Hashes
  WORD = 32
  MIN_BUCKETS = 2
  ENLARGE = 50
  SHRINK = 25
  Strategies = {"multicast", "ncc", "access"}
  DEFAULT_STRATEGY = "multicast"
  FibNames <- Leaf
  PitKeys <- Interests
  ChoiceNames <- Upper
  DataNames <- Branch
  INITIAL_LIFETIME = 1
  MEASUREMENTS_LIFETIME = 3
  ME_LIFETIME = 2
  UPDATE_MEASUREMENTS_N_LEVELS = 2
INVARIANTS
  TypeOK
  TreeExact
  HashTableSound
  InfoOfEffectiveStrategy
  MeasurementsKept
  AssertedOnlyAcrossNamespaces
CHECK_DEADLOCK FALSE
