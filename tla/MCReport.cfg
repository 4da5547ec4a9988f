SPECIFICATION Spec
CONSTANTS
  Lists <- MCLists
  Bento = "bento"
  Categories = {"startup", "json"}
  Startup = "startup"
  Measurement <- MCMeasurement
  MaxRows = 2
  Sort <- MCSort
INVARIANTS
  PageHasNoGap
  MarksAreEarned
  TablesAgree
  SummariesAreMedians
  RatioBetweenRows
  VerdictFollowsMarks
\* The command is done with its pages.
CHECK_DEADLOCK FALSE
