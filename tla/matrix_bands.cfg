CONSTANTS
  Sizes = {0, 1, 2, 5}
  MaxThreads = 4
SPECIFICATION Spec
INVARIANTS
  BandsPartition
  ResultIsProduct
PROPERTY Completes
\* The process ends.
CHECK_DEADLOCK FALSE
