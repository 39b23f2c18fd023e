SPECIFICATION DaemonSpec
CONSTANTS
  MaxAttempts = 2
  Jobs = {1}
  StoreOf <- OneStore
  Rerun = {}
  Exclusive = {}
  Slots = 1
  Troubles = {"crash"}
  MaxTroubles = 1
PROPERTIES
  CrashedLaunchDiscarded
CHECK_DEADLOCK FALSE
