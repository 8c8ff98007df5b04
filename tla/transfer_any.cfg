CONSTANTS
  x = x
  y = y
  SizeX = 1
  SizeY = 2
  NoFile = NoFile
  Files <- XY
  Size <- SizeXY
  Pkts = {y}
  Modes = {"nd", "plain", "nr"}
  NextModes <- AnyMode
  StatusFirst = FALSE
  SkipRules <- TakeOrSkip
  Faults = {"crash", "gotcrash", "space", "stc", "rename", "eobrename"}
  Window = 2
SPECIFICATION Spec
INVARIANTS TypeOK GotMeansHeld DataBelongs
PROPERTY SpoolSafe
