CONSTANTS
  MAX_THREADS = 2
  MAX_VALUE = 3
SPECIFICATION Spec
INVARIANTS
  NumbersInFile
  OneFileCounts
  AllWritten
PROPERTY Termination
\* The process ends.
CHECK_DEADLOCK FALSE
