SPECIFICATION FairSpec
CONSTANTS
  Threads = {t1, t2, t3}
  Flows = {f1, f2}
  NumPorts = 2
  Cells = {c1, c2}
  MAX_PKT_IN_BUF = 1
  Expiry = 1
  MaxInFlight = 1
  MaxTime = 2
  NULL = NULL
  Junk = Junk
CHECK_DEADLOCK FALSE
PROPERTIES EveryPacketAnswered
