SPECIFICATION RateSpec
CONSTANTS
  Packets = {p1, p2, p3, p4, p5}
  Size = 2
  FillTime = 2
  MaxLag = 1
  MaxTime = 10
  MAX_PKT_IN_BUF = 2
SYMMETRY PacketSymmetry
CHECK_DEADLOCK FALSE
INVARIANTS RateTypeOK FullOnlyAtStart NoOvertaking BoundedWait BucketInv DelayBounded RoomSoon
PROPERTIES ContractSpec DelayedOnlyWhenDue
