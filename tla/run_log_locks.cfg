SPECIFICATION Spec
CONSTANTS
  Every <- MCEvery
  CheckpointEvery = 2
  MaxRecords = 3
  MaxLives = 1
INVARIANT
  LocksNeverCross
CHECK_DEADLOCK FALSE
