\* The first of two clients leaves, and the thread created for a third serves the second.
CONSTANTS
  MAX_CLIENTS = 3
  MaxConns = 3
  Talkers = {1, 2, 3}
SPECIFICATION Spec
INVARIANT HandlesItsClient
CHECK_DEADLOCK FALSE
