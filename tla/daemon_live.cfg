SPECIFICATION DaemonSpec
CONSTANTS
  MaxAttempts = 2
  Jobs = {1}
  StoreOf <- OneStore
  Rerun = {1}
  Exclusive = {1}
  Slots = 1
  Troubles = {"fault", "death", "cancel", "reboot", "sweep"}
  MaxTroubles = 2
INVARIANTS
  RunsOncePerAttempt
PROPERTIES
  JobsEnd
  StepsOfMachine
CHECK_DEADLOCK FALSE
