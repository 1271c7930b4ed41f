\* An append may come between the two numbers of another.  The connections end: no deadlock check.
SPECIFICATION Spec
CONSTANTS
  MaxConn = 1
  TtlMs = 3
  HeartbeatMs = 1
  Batch = 1
  MaxReads = 1
  MaxEvents = 2
  MaxFaults = 0
  StampsInOrder = FALSE
  EarlyClose = FALSE
  NoClaim = NoClaim
  NotRead = NotRead
INVARIANT NothingSkipped
CHECK_DEADLOCK FALSE
