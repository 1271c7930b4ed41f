\* Sockets close after their heartbeat is armed.  The connections end and the room rests: no deadlock check.
SPECIFICATION FairSpec
CONSTANTS
  MaxConn = 2
  TtlMs = 3
  HeartbeatMs = 1
  Batch = 1
  MaxReads = 2
  MaxEvents = 2
  MaxFaults = 1
  StampsInOrder = TRUE
  EarlyClose = FALSE
  NoClaim = NoClaim
  NotRead = NotRead
INVARIANT NothingSkipped
PROPERTY HolderKept
PROPERTY SupersededTold
PROPERTY AbsentWhenGone
PROPERTY EventDelivered
CHECK_DEADLOCK FALSE
