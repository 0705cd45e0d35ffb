\* Three connections to a server for three: two clients are served together, and with the
\* third the server is at its limit, unless one was closed or a change of the count lost.
CONSTANTS
  MAX_CLIENTS = 3
  MaxConns = 3
  Talkers = {1, 2}
SPECIFICATION FairSpec
INVARIANTS
  IndexInArray
  CountIsAccurate
  OwnClient
PROPERTY MessageAnswered
\* Once the connections of the bound have come, the server waits for another one; and the
\* model ends with its process.
CHECK_DEADLOCK FALSE
