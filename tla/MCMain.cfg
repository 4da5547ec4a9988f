SPECIFICATION BenchSpec
CONSTANTS
  Paths = {p1, p2}
  NoPath = NoPath
  MaxStarts = 2
  Trees <- MCTrees
  Misc = 3
  Lower <- MCLower
  Trim <- MCTrim
  Table <- MCTable
  Bento = "bento"
  SkipLists <- MCSkipLists
  MaxChanges = 1
INVARIANTS
  ExitZeroMeansWritten
  ExitTwoHasAReason
  RecordsKeptUntilMeasured
  SummaryHasItsRecord
  PublishedIsWhole
  SkippedIsLeftAlone
  LookupsAgree
\* The command has ended when no start is left.
CHECK_DEADLOCK FALSE
