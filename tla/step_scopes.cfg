SPECIFICATION Spec
CONSTANTS
  Steps = {"w", "p", "c", "j", "t", "d"}
  Kind <- MCKind
  Deps <- MCDeps
  RetryLimit = 1
  Scopes = {{"j"}, {"j", "c"}, {"w", "d"}, {"w", "p"}, {"p", "t"}}
  Watched = {"t"}
  MaxTroubles = 1
INVARIANTS
  LoopTypeOK
  NoRefusal
  RetryBound
  ChargedForFailures
  ParksClean
  SnapshotAlone
  ClosingHasWork
  DrainWaits
  EndIsClean
PROPERTIES
  KeepsContract
  ResultSticks
