SPECIFICATION ReadingsSpec
CONSTANTS
  Readings <- MCReadingSet
  MaxSamples = 10
  Sort <- MCSort
  Numbers <- MCNumbers
  NaN = NaN
  Beyond = Beyond
  MaxDuration = 9
  MaxTokens = 8
  GOOS = "linux"
  NoUsage = NoUsage
INVARIANTS
  RanksAreNearest
  NumbersAgree
PROPERTIES
  RunPullsItsWay
  AbsentIsDropped
  LastMarkerWins
  NoiseChangesNothing
\* Either ends with its last sample or token.
CHECK_DEADLOCK FALSE
