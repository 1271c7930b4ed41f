\* Calls to two companions.  Every call may settle, and then the client rests: no deadlock check.
SPECIFICATION FairSpec
CONSTANTS
  Companion = {c1, c2}
  Named = {c1, c2}
  Caller = {a, b}
  NoCompanion = NoCompanion
  NoOpening = NoOpening
  MaxSockets = 2
  EarlyLoss = FALSE
  CloseWindow = FALSE
PROPERTY OpeningSettles
CHECK_DEADLOCK FALSE
