\* The client may go away while its claim is being made.  The connections end: no deadlock check.
SPECIFICATION FairSpec
CONSTANTS
  MaxConn = 2
  TtlMs = 3
  HeartbeatMs = 1
  Batch = 1
  MaxReads = 1
  MaxEvents = 0
  MaxFaults = 0
  StampsInOrder = TRUE
  EarlyClose = TRUE
  NoClaim = NoClaim
  NotRead = NotRead
PROPERTY AbsentWhenGone
CHECK_DEADLOCK FALSE
