\* One companion, no early loss, no CLOSING window.  Every call may settle, and then the client rests: no deadlock check.
SPECIFICATION FairSpec
CONSTANTS
  Companion = {c1}
  Named = {c1}
  Caller = {a, b, d}
  NoCompanion = NoCompanion
  NoOpening = NoOpening
  MaxSockets = 3
  EarlyLoss = FALSE
  CloseWindow = FALSE
PROPERTY CallSettles
PROPERTY NoClaimWar
CHECK_DEADLOCK FALSE
