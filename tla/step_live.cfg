SPECIFICATION FairSpec
CONSTANTS
  Steps = {"w", "p", "c", "j"}
  Kind <- MCKind
  Deps <- MCDeps
  RetryLimit = 0
  Scopes = {{"j"}, {"c"}, {"w", "p"}}
  Watched = {}
  MaxTroubles = 1

PROPERTIES
  CancelEnds
  PauseRests
  StepsEnd
