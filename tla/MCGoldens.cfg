SPECIFICATION Spec
CONSTANTS
  Count = 3
  f1 = f1
  f2 = f2
  Paths <- MCPaths
  GoldenPath <- MCGoldenPath
  Contents = {c1, c2}
  Unlowerable = Unlowerable
  NoFile = NoFile
  Torn = Torn
  MaxStarts = 2
INVARIANTS
  Converged
  CountsChanges
  RerunWritesNothing
  KillIsSafe
\* The system stops when no start is left.
CHECK_DEADLOCK FALSE
