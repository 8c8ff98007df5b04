CONSTANTS
  x = x
  y = y
  SizeX = 1
  SizeY = 2
  NoFile = NoFile
  Files <- XY
  Size <- SizeXY
  Pkts = {}
  Modes = {"nd", "nr"}
  NextModes <- SameMode
  StatusFirst = TRUE
  SkipRules <- TakeOrDestroy
  Faults = {"crash", "rename"}
  Window = 3
SPECIFICATION FairSpec
INVARIANTS NoLoss NoDup
PROPERTIES Delivers SessionsEnd
