\* One failed call, lost enqueue, crash or shutdown; prompt timers.
\* Every bound may be used up, and then the system rests: no deadlock check.
SPECIFICATION FairSpec
CONSTANTS
  Owner = {n1, n2}
  K = 1
  Companion = {c1}
  Key = {k1}
  SweptKey = {k1}
  LeaseMs = 4
  HeartbeatMs = 1
  PromptTimers = TRUE
  ClaimCandidateBatch = 1
  MaxJobs = 2
  MaxGeneration = 4
  MaxTriggers = 1
  MaxErrors = 1
  MaxCrashes = 1
  MaxFaults = 1
  Loop <- MCLoop
  NodeOf <- MCNodeOf
  NoClaim = NoClaim
INVARIANT OneLiveDrain
PROPERTY JobSettles
PROPERTY ShutdownSettles
PROPERTY EventuallySeen
CHECK_DEADLOCK FALSE
