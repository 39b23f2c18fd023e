SPECIFICATION Spec
CONSTANTS
  MaxAttempts = 1
  Jobs = {1, 2}
  StoreOf <- OneStore
  Rerun = {2}
  Exclusive = {2}
  Slots = 2
CONSTRAINT OneTroubled
INVARIANTS
  TypeOK
  Coherent
  NoStranded
PROPERTIES
  StartsAlone
  DecidedEndStands
