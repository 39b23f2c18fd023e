SPECIFICATION Spec
CONSTANTS
  Steps = {"t"}
  Kind <- MCKind
  Deps <- MCDeps
  RetryLimit = 0
  Scopes = {{"t"}}
  Watched = {}
  MaxTroubles = 1

INVARIANT
  ParkDueIsSeen
