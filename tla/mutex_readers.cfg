CONSTANTS
  MAX_THREADS = 3
  MAX_SIZE = 2
  Lines = 3
SPECIFICATION Spec
INVARIANTS
  OneLeftAsleep
  BoundedOverrun
  EntriesInOrder
PROPERTY AllRead
\* The process ends, or crashes.
CHECK_DEADLOCK FALSE
