SPECIFICATION Spec
CONSTANTS
  h1 = h1
  h2 = h2
  zero = zero
  Hosts = {h1, h2, zero}
  Zero = zero
  Dests = {d1, d2}
  Slot <- SomeSlots
  Sizes = {1, 3}
  HHThresh = 3
  HCThresh = 2
  SSThresh = 1
  MaxEpoch = 3
  MaxPackets = 4
SYMMETRY DestSymmetry
CHECK_DEADLOCK FALSE
INVARIANTS TypeOK CurrentTable HeavyHittersExact HeavyChangersExact
