SPECIFICATION FairSpec
CONSTANTS
  Nodes = {x}
  Callers = {c1, c2}
  Servers = {s1}
  max_clients = 1
  max_servers = 1
  tries = 2
  kill_old_bsy = TRUE
  MailFlavours = {1, 2, 3}
  PollFlags = {FALSE, TRUE}
  StartsAlone = TRUE
  Faults = {"fork", "line", "kill", "power", "term", "tosser", "skip"}
INVARIANTS OneSession LimitsKept QuitsIdle
PROPERTIES MailGoes PollEnds
CHECK_DEADLOCK FALSE
