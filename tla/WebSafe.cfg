\* CLOSING may be seen.  Every call may settle, and then the browser rests: no deadlock check.
SPECIFICATION WebSpec
CONSTANTS
  Companion = {c1, c2}
  Named = {c1, c2, NoCompanion}
  Caller = {a, b, d}
  NoCompanion = NoCompanion
  NoOpening = NoOpening
  MaxSockets = 3
  EarlyLoss = FALSE
  CloseWindow = TRUE
  Stream = {s1, s2}
  NoStream = NoStream
  MaxRows = 3
  MaxHappenings = 2
INVARIANT OneSocket
INVARIANT RightRoom
INVARIANT ViewConverges
SYMMETRY Symmetric
CHECK_DEADLOCK FALSE
