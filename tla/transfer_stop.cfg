\* One slot used twice, longer transfers: what happens around the stop flag and the change
\* of phase, with both reporting threads.  Only the main thread is scheduled fairly.  Every
\* step is a step of the pool.
CONSTANTS
  Workers = {w1, w2}
  NoWorker = NoWorker
  Reporters = {"dl", "ul"}
  ThreadNums = 1
  THREAD_NUMBER = 8
  Sizes = {1}
  UL_BUFFER_TIMES = 2
  DL_RECVS = 2
SPECIFICATION FairSpec
INVARIANTS
  BoundedOvershoot
  OwnRequest
  FinalReportComplete
PROPERTIES
  Termination
  FigureNotBehind
  ImplementsPool
