SPECIFICATION Spec
CONSTANTS
  Rank <- MCRank
  HeadLines <- MCHeadLines
  CoreLines <- MCCoreLines
  OtherLines <- MCOtherLines
  MaxCore = 2
  MaxOther = 1
  MaxLevel = 1
  PasswordFiles <- MCPasswordFiles
  Dirs <- MCDirs
  Ports = {"binkp", "24555"}
  DNS <- MCDNS
  SRV <- MCSRV
  Literals = {}
  Links <- MCLinks
  Hooks = {"keep", "abort", "direct", "hosts"}
  HookHosts <- MCHookHosts
  BindErrors = {"family", "other"}
  MaxCalls = 2
INVARIANTS AcceptedWhole NodesFound SessionReaches 
PROPERTY CallEnds
CHECK_DEADLOCK FALSE
