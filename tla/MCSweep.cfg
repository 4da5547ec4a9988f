SPECIFICATION FairSpec
CONSTANTS
  Height = 2
  Runtimes <- MCRuntimes
  TwoPhase <- MCTwoPhase
  Options <- MCOptions
  Durations = {0, 3}
  Pause = 0
  Dirs = {d1, d2}
  NoDir = NoDir
  MaxKills = 1
INVARIANTS
  OwnArtifact
  CellsComplete
  CappedOnlyByBudget
  DirsBounded
PROPERTIES
  ImplementsTable
  SweepEnds
\* One invocation: the system stops when the sweep is done.
CHECK_DEADLOCK FALSE
