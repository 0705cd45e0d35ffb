CONSTANTS
  Earlier <- EarlierFiles
  MaxLines = 8
SPECIFICATION MCSpec
INVARIANTS
  OneTurn
PROPERTIES
  ImplementsLog
  TimelyAnswered
\* A lost signal, or an exit, leaves both processes waiting.
CHECK_DEADLOCK FALSE
