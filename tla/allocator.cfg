CONSTANTS
  Ptrs = {p1, p2}
  Requests = {0, 1, 2, 5}
  HEADER = 2
  DEFAULT_SIZE = 11
  SIZE_MAX = 100
SPECIFICATION AllocSpec
INVARIANTS
  AllocTypeOK
  ListTiles
  DataKept
PROPERTY CallReturns
\* The process may end.
CHECK_DEADLOCK FALSE
