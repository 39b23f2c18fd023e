SPECIFICATION DaemonSafety
CONSTANTS
  MaxAttempts = 2
  Jobs = {1}
  StoreOf <- OneStore
  Rerun = {}
  Exclusive = {}
  Slots = 1
  Troubles = {"crash", "reboot", "death", "fault", "disk", "cancel", "sweep"}
  MaxTroubles = 3
INVARIANTS
  DaemonTypeOK
  OnlyRunningExecutes
  RunsOncePerAttempt
  AnswersOwed
PROPERTIES
  EndsTruthfully
CHECK_DEADLOCK FALSE
