SPECIFICATION BenchSpec
CONSTANTS
  Paths = {p1, p2}
  NoPath = NoPath
  MaxStarts = 1
  Trees <- MCTrees
  Misc = 3
  Lower <- MCLower
  Trim <- MCTrim
  Table <- MCTable
  Bento = "bento"
  SkipLists <- MCSkipLists
  MaxChanges = 0
INVARIANT JSONWritten
\* The command has ended when no start is left.
CHECK_DEADLOCK FALSE
