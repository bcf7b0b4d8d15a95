SPECIFICATION Spec
CONSTANTS
  Flows = {f1, f2, f3, f4}
  NumPorts = 3
  Expiry = 2
  MaxDelay = 1
  MaxTime = 7
SYMMETRY FlowSymmetry
INVARIANTS TypeOK TableSound
PROPERTIES OneLeakPerCallback
