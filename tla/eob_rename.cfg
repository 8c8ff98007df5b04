CONSTANTS
  x = x
  y = y
  SizeX = 1
  SizeY = 2
  NoFile = NoFile
  Files <- XY
  Size <- SizeXY
  Pkts = {}
  Modes = {"nd"}
  NextModes <- SameMode
  StatusFirst = TRUE
  SkipRules <- TakeEverything
  Faults = {"eobrename"}
  Window = 3
SPECIFICATION Spec
INVARIANT NoLoss
