SPECIFICATION DaemonSafety
CONSTANTS
  MaxAttempts = 2
  Jobs = {1, 2}
  StoreOf <- OwnStores
  Rerun = {2}
  Exclusive = {2}
  Slots = 2
  Troubles = {"crash", "death", "fault", "disk", "unlisted", "cancel"}
  MaxTroubles = 1
INVARIANTS
  MachineNotShared
  SpawnFindsNoRun
PROPERTIES
  OutcomeKept
CHECK_DEADLOCK FALSE
