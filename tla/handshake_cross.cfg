SPECIFICATION Spec
CONSTANTS
  Calls <- TwoCalls
  Nodes <- AB
  Caller <- Cross1
  Called <- Cross2
  To <- CrossTo
  Addresses <- Addrs
  Passwords = {"p", "q"}
  Confs <- CrossConfs
  MayBreak = TRUE
  Tossed <- A2Tossed
INVARIANTS
  LinksHeld
  NoFlagLeft
  CalledNodeHeld
