SPECIFICATION DaemonSafety
CONSTANTS
  MaxAttempts = 2
  Jobs = {1, 2}
  StoreOf <- OneStore
  Rerun = {}
  Exclusive = {}
  Slots = 1
  Troubles = {"crash", "fault", "unlisted"}
  MaxTroubles = 3
PROPERTIES
  OldestFirst
CHECK_DEADLOCK FALSE
