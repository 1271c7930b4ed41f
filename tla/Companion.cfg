\* Each component on its own smallest interesting instance.
\* Every bound may be used up, and then a component rests: no deadlock check.
SPECIFICATION CompanionFairSpec
CONSTANTS
  Recompute = {g1, g2}
  Counted <- MCCounted
  BandWidth = 2
  MaxMisses = 1
  Lead = {l1}
  Limit = 1
  Greeter = {h1}
  Ambient = {a1}
  Addressed = {e1}
  MaxNotes = 2
  MaxSlips = 1
  Feeder = {f1, f2}
  InitialFood = 1
  StartTokens = 1
  MaxFeeds = 3
  MaxBills = 1
  MaxLostFeeds = 1
  Mission = {m1, m2}
  Wakes = 1
  MaxMissionFaults = 2
  MaxTurns = 2
  RetrievalCost <- MCRetrievalCost
  Confirm = {k1}
  MaxMissions = 1
  MaxClaims = 2
  MaxIterations = 1
  MaxCalls = 2
  MaxProposals = 1
  MaxTurnFaults = 1
  Valence = {0, 2, 3}
  MaxReads = 3
  MaxMoodFaults = 1
  MaxStated = 3
  Seeder = {n1}
  MaxEdits = 2
  MaxFactFaults = 1
  Reflector = {r1, r2}
  MinTurns = 2
  MaxWindow = 3
  MaxMessages = 3
  MaxReflectFaults = 1
  MaxReflectOverlaps = 1
  Source = {s1}
  Ingester = {i1, i2}
  MaxQueueDepth = 1
  MaxIngestFaults = 1
  MaxIngestOverlaps = 1
  BatchSize = 3
  BatchBudget = 4
  FallbackSize = 2
  Length = {1, 3}
  MaxParagraphs = 4
  MaxMarked = 2
INVARIANT SectionsCover
INVARIANT ExecutedOnce
INVARIANT StopRegates
INVARIANT OverlapBounded
INVARIANT BilledOnce
INVARIANT NothingForgotten
INVARIANT AnnouncedOnce
INVARIANT ReflectedOnce
INVARIANT ScoredOnce
INVARIANT FoodAccounted
INVARIANT SwingsAddUp
INVARIANT CurrentFact
PROPERTY StaleWakesEnd
PROPERTY BacklogConsolidated
PROPERTY IngestSettles
CHECK_DEADLOCK FALSE
