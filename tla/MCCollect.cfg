SPECIFICATION FairCollectSpec
CONSTANTS
  Options <- MCOptions
  Durations = {0, 1, 2}
  Pause = 1
INVARIANTS
  ShortOnlyWhenSpent
  SoftCeiling
PROPERTY CollectReturns
