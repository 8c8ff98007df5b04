CONSTANTS
  Sessions = {s1}
  MaxEvents = 2
  Faults = {"bad", "perl", "stuck", "listen"}
SPECIFICATION FairSpec
INVARIANT ConfigLive
PROPERTIES RetiredFreed EditLoaded ExitEnds
CHECK_DEADLOCK FALSE
