SPECIFICATION Spec
CONSTANTS
  Threads = {t1, t2, t3, t4}
  Flows = {f1, f2, f3}
  NumPorts = 2
  Cells = {c1, c2, c3}
  MAX_PKT_IN_BUF = 2
  Expiry = 2
  MaxInFlight = 1
  MaxTime = 3
  NULL = NULL
  Junk = Junk
SYMMETRY PacketSymmetry
CHECK_DEADLOCK FALSE
INVARIANTS TypeOK TableSound
PROPERTIES MapSpec OnlyIdleRemoved NoStaleUse
