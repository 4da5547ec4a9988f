SPECIFICATION TidySpec
CONSTANTS
  Timeout = 2
  Lag = 1
  MaxTime = 5
  MaxHelpers = 2
INVARIANTS
  TypeOK
  OkMeansFinishedInTime
  ErrorIsTheProgramsOwn
  NoOverlap
  MarkerComplete
PROPERTIES
  ImplementsContract
  RunEnds
\* One call: the system stops when runCommand has returned.
CHECK_DEADLOCK FALSE
