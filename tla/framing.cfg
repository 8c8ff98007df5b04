SPECIFICATION FairSpec
CONSTANTS
  Size <- Sizes
  Modes <- Sound
  Partial = {0, 1}
  InitFails = {FALSE, TRUE}
  oblksize = 2
  ZBLKSIZE = 2
  zminsize = 1
  MaxNotes = 1
  MAX_BLKSIZE = 5
  WireCap = 3
INVARIANT FileRestored
PROPERTIES FramesInOrder FileArrives
