\* Two transfers at once around the mutex, a third that takes over a slot, the phases;
\* once the three have run, pthread_create fails.  The reports are in transfer_stop.
CONSTANTS
  Workers = {w1, w2, w3}
  NoWorker = NoWorker
  Reporters = {}
  ThreadNums = 2
  THREAD_NUMBER = 8
  Sizes = {1}
  UL_BUFFER_TIMES = 2
  DL_RECVS = 2
SPECIFICATION Spec
SYMMETRY WorkerSymmetry
INVARIANTS
  SlotExclusive
  SlotAlive
  NoLostBytes
