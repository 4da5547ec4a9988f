SPECIFICATION Spec
CONSTANTS
  Height = 2
  Runtimes <- MCRuntimes
  TwoPhase <- MCTwoPhase
  Options <- MCOptions
  Durations = {3}
  Pause = 0
  Dirs = {d1}
  NoDir = NoDir
  MaxKills = 1
INVARIANT NoteCarriesCompilerMessage
CHECK_DEADLOCK FALSE
