SPECIFICATION Spec
CONSTANTS
  MinRto = 1
  MaxRto = 4
  InitialRtt = 1
  MaxMultiplier = 2
  Window = 6
  SeqMax = 3
  RetxNum = 2
  LifeTime = 2
  Margins = {0, 1}
  SameNames = {FALSE, TRUE}
INVARIANTS TypeOK RequestsTracked
PROPERTIES KarnRule NeverGivenUpEarly RequestResolved
CHECK_DEADLOCK FALSE
