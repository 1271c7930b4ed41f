\* Two loops per node share one owner id.
\* Every bound may be used up, and then the system rests: no deadlock check.
SPECIFICATION Spec
CONSTANTS
  Owner = {n1, n2}
  K = 2
  Companion = {c1}
  Key = {k1}
  SweptKey = {k1}
  LeaseMs = 2
  HeartbeatMs = 1
  PromptTimers = FALSE
  ClaimCandidateBatch = 1
  MaxJobs = 2
  MaxGeneration = 3
  MaxTriggers = 1
  MaxErrors = 0
  MaxCrashes = 0
  MaxFaults = 1
  Loop <- MCLoop
  NodeOf <- MCNodeOf
  NoClaim = NoClaim
PROPERTY OutcomeFinal
SYMMETRY Symmetric
CHECK_DEADLOCK FALSE
