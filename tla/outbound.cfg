CONSTANTS
  Attached = {a1, a2}
  Packets = {m}
  Requests = {r}
  Boxed = {b}
  Responses = {s}
  LineActs = {"d", "t"}
  Predictors = {"=", "-"}
  FLO = flo
  MaxPuts = 2
  MaxRcvd = 1
  MaxFaults = 1
  Faults = {"crash", "drop", "delete", "veto", "perl", "skip"}
SPECIFICATION FairSpec
INVARIANTS Kept AnsweredOnce
PROPERTIES BatchesEnd MailLeaves
CHECK_DEADLOCK FALSE
