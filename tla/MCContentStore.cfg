SPECIFICATION Spec
CONSTANTS
  Data <- FourPackets
  NameOf <- ThreeNames
  Freshness <- MixedFreshness
  Interests <- Lookups
  Limits = {1, 2, 3}
  Policies = {"lru", "fifo"}
  MaxTime = 3
INVARIANTS TypeOK IndexConsistent FindAnswers
PROPERTY ImplementsBoundedCache
CHECK_DEADLOCK FALSE
