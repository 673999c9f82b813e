SPECIFICATION Spec
CONSTANTS
  MinRto = 1
  MaxRto = 8
  InitialRtt = 1
  MaxMultiplier = 2
  Window = 14
  SeqMax = 3
  RetxNum = 3
  LifeTime = 2
  Margins = {0, 3}
  SameNames = {FALSE}
PROPERTIES HistoryWithinWindow
