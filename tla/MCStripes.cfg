SPECIFICATION Spec
CONSTANTS
  N = 3
  K = 2
  BlockSize = 500
  IntMax = 2200
  Solvable <- AllPairs
  Sizes <- SomeSizes
  Capacity = 1
  MaxRuns = 2
  MaxFaults = 1
CHECK_DEADLOCK FALSE
INVARIANTS TypeOK OthersStored MetaAfterBlocks WholeServersRestore EndsOnlyWhenLeftOut
PROPERTIES ClientEnds
