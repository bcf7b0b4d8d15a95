SPECIFICATION Spec
CONSTANTS
  Threads = {t1, t2, t3}
  Flows = {f1}
  NumPorts = 2
  Cells = {c1, c2}
  MAX_PKT_IN_BUF = 2
  Expiry = 2
  MaxInFlight = 2
  MaxTime = 1
  NULL = NULL
  Junk = Junk
SYMMETRY PacketSymmetry
CHECK_DEADLOCK FALSE
PROPERTIES OnlyIdleRemoved
