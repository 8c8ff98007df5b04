SPECIFICATION Spec
CONSTANTS
  Size <- Sizes
  Modes <- PlainGZ
  Partial = {0}
  InitFails = {FALSE}
  oblksize = 2
  ZBLKSIZE = 2
  zminsize = 1
  MaxNotes = 0
  MAX_BLKSIZE = 5
  WireCap = 3
INVARIANT FileRestored
