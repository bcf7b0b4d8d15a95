SPECIFICATION Spec
CONSTANTS
  Sizes <- SomeSizes
  BATCH_SIZE = 2
CHECK_DEADLOCK FALSE
INVARIANTS TypeOK PrefixWritten CompleteMeansWhole NoFailureAlone LeftOver
PROPERTIES TransferEnds
