\* Three servers and two runs, the first of which may be interrupted anywhere.
CONSTANTS
  NEAREST_SERVERS_NUM = 3
  Latencies = {0, 1, 2}
  Garbage <- SomeGarbage
  MaxRuns = 2
SPECIFICATION Spec
INVARIANTS
  LatencyIsEarned
  BestIsFastest
  ListIsFresh
  LatencyIsMeasured
