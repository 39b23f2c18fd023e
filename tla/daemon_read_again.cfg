SPECIFICATION DaemonSafety
CONSTANTS
  MaxAttempts = 2
  Jobs = {1}
  StoreOf <- OneStore
  Rerun = {}
  Exclusive = {}
  Slots = 1
  Troubles = {"fault", "unlisted"}
  MaxTroubles = 2
PROPERTIES
  OutcomeKept
CHECK_DEADLOCK FALSE
