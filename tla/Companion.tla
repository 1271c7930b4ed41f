----------------------------- MODULE Companion -----------------------------
(***************************************************************************)
(* The companion's own components checked side by side.  They share no     *)
(* state in the models (a wallet that runs empty is a free choice wherever *)
(* it is read), so that any interleaving of them satisfies a property of   *)
(* one exactly when that one does: a behaviour here is a behaviour of the  *)
(* one component `part` names, while the others rest.                      *)
(***************************************************************************)
EXTENDS Growth, Rewards, Feeding, Missions, Turns, Mood, UserFacts, Consolidation, Ingestion, Segmentation

VARIABLE part   \* the component that moves

companionVars ==
  <<growthVars, rewardVars, feedingVars, missionVars, turnVars, moodVars, factVars,
    consolidationVars, ingestionVars, segmentationVars, part>>

Part ==
  {"growth", "rewards", "feeding", "missions", "turns", "mood", "facts", "consolidation", "ingestion",
   "segmentation"}

CompanionInit ==
  /\ part \in Part
  /\ GrowthInit
  /\ RewardInit
  /\ FeedingInit
  /\ MissionInit
  /\ TurnInit
  /\ MoodInit
  /\ FactsInit
  /\ ConsolidationInit
  /\ IngestionInit
  /\ SegmentationInit

GrowthMoves ==
  /\ part = "growth" /\ GrowthNext
  /\ UNCHANGED <<rewardVars, feedingVars, missionVars, turnVars,
                 moodVars, factVars, consolidationVars, ingestionVars, segmentationVars, part>>

RewardMoves ==
  /\ part = "rewards" /\ RewardNext
  /\ UNCHANGED <<growthVars, feedingVars, missionVars, turnVars,
                 moodVars, factVars, consolidationVars, ingestionVars, segmentationVars, part>>

FeedingMoves ==
  /\ part = "feeding" /\ FeedingNext
  /\ UNCHANGED <<growthVars, rewardVars, missionVars, turnVars,
                 moodVars, factVars, consolidationVars, ingestionVars, segmentationVars, part>>

MissionMoves ==
  /\ part = "missions" /\ MissionNext
  /\ UNCHANGED <<growthVars, rewardVars, feedingVars, turnVars,
                 moodVars, factVars, consolidationVars, ingestionVars, segmentationVars, part>>

TurnMoves ==
  /\ part = "turns" /\ TurnNext
  /\ UNCHANGED <<growthVars, rewardVars, feedingVars, missionVars,
                 moodVars, factVars, consolidationVars, ingestionVars, segmentationVars, part>>

MoodMoves ==
  /\ part = "mood" /\ MoodNext
  /\ UNCHANGED <<growthVars, rewardVars, feedingVars, missionVars,
                 turnVars, factVars, consolidationVars, ingestionVars, segmentationVars, part>>

FactMoves ==
  /\ part = "facts" /\ FactsNext
  /\ UNCHANGED <<growthVars, rewardVars, feedingVars, missionVars,
                 turnVars, moodVars, consolidationVars, ingestionVars, segmentationVars, part>>

ConsolidationMoves ==
  /\ part = "consolidation" /\ ConsolidationNext
  /\ UNCHANGED <<growthVars, rewardVars, feedingVars, missionVars,
                 turnVars, moodVars, factVars, ingestionVars, segmentationVars, part>>

IngestionMoves ==
  /\ part = "ingestion" /\ IngestionNext
  /\ UNCHANGED <<growthVars, rewardVars, feedingVars, missionVars,
                 turnVars, moodVars, factVars, consolidationVars, segmentationVars, part>>

SegmentationMoves ==
  /\ part = "segmentation" /\ SegmentationNext
  /\ UNCHANGED <<growthVars, rewardVars, feedingVars, missionVars, turnVars,
                 moodVars, factVars, consolidationVars, ingestionVars, part>>

CompanionNext ==
  \/ GrowthMoves \/ RewardMoves \/ FeedingMoves \/ MissionMoves \/ TurnMoves
  \/ MoodMoves \/ FactMoves \/ ConsolidationMoves \/ IngestionMoves
  \/ SegmentationMoves

CompanionSpec == CompanionInit /\ [][CompanionNext]_companionVars

\* The scheduler keeps firing an armed wake, and a live process handles it.
MissionFairness == \A k \in WakeSlot : WF_missionVars(part = "missions" /\ WakeStep(k))

\* The sweep's timer fires, a worker takes the pending job, and calls return.
ConsolidationFairness ==
  /\ WF_consolidationVars(part = "consolidation" /\ SweepRequests)
  /\ WF_consolidationVars(part = "consolidation" /\ \E r \in Reflector : RunClaimed(r))
  /\ \A r \in Reflector : WF_consolidationVars(part = "consolidation" /\ Reflects(r))

\* The sweep's timer fires, workers take each pending job, and calls return.
IngestionFairness ==
  /\ \A s \in Source :
       /\ WF_ingestionVars(part = "ingestion" /\ SweepResumes(s))
       /\ SF_ingestionVars(part = "ingestion" /\ \E r \in Ingester : IngestClaimed(r, s))
  /\ \A r \in Ingester : WF_ingestionVars(part = "ingestion" /\ Ingests(r))

\* Nobody owes a start, a stop, an upload, a turn's end or a fault.
CompanionFairness == MissionFairness /\ ConsolidationFairness /\ IngestionFairness

CompanionFairSpec == CompanionSpec /\ CompanionFairness
=============================================================================
