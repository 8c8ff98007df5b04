SPECIFICATION FairSpec
CONSTANTS
  Calls <- OneCall
  Nodes <- AB
  Caller <- ByA
  Called <- OfB
  To <- ToB1
  Addresses <- Addrs
  Passwords = {"p", "q"}
  Confs <- OneCallConfs
  MayBreak = FALSE
  Tossed <- NoTosser
INVARIANTS
  ModesAgree
  FramesReadable
  AkasAuthenticated
  SecurityAgrees
PROPERTY
  LoginsEnd
