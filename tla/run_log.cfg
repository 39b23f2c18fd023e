SPECIFICATION FairSpec
CONSTANTS
  Every <- MCEvery
  CheckpointEvery = 2
  MaxRecords = 2
  MaxLives = 3
INVARIANTS
  LogTypeOK
  Reopens
  ToldTruth
  FramesTrue
  PrefixCurrent
  FoldIsLog
PROPERTIES
  DurableStays
  CallsReturn
  StagedCommits
CHECK_DEADLOCK FALSE
