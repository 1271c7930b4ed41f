------------------------------ MODULE Missions ------------------------------
(***************************************************************************)
(* Missions and the scheduler jobs that wake them: start_mission           *)
(* (core/src/mission/start-mission-tool.ts), the wake and the stop of      *)
(* api/src/ws/methods/missions.ts, the reconciliation they share           *)
(* (mission-reconcile.ts) and the store (mission-store.ts).  The           *)
(* scheduler is an external service: a job it has armed fires again and    *)
(* again until it is cancelled.  All missions are of one companion, and    *)
(* each arms one job.                                                      *)
(***************************************************************************)
EXTENDS Integers, FiniteSets

CONSTANTS
  Mission,        \* the missions that may be started
  Wakes,          \* wakes of one mission handled at once
  MaxMissionFaults \* bound on failed calls and process deaths

ASSUME MissionConstants == Wakes \in Nat \ {0} /\ MaxMissionFaults \in Nat

VARIABLES
  status,         \* missions.status, "none" before the row exists
  jobIds,         \* whether missions.job_ids names the mission's job
  armed,          \* whether the scheduler fires the mission's job
  starting,       \* the confirmed start_mission of each mission: where it is
  waking,         \* each wake handler: where it is
  stopping,       \* the mission.stop of each mission: where it is
  missionFaults   \* how much of MaxMissionFaults is used

missionVars == <<status, jobIds, armed, starting, waking, stopping, missionFaults>>

WakeSlot == Mission \X (1..Wakes)

\* Where a cancel pass is: cancelling, then recording what it achieved.
Pass == {"cancel", "recordCancelled", "recordFailed"}

MissionInit ==
  /\ status = [m \in Mission |-> "none"]
  /\ jobIds = [m \in Mission |-> FALSE]
  /\ armed = [m \in Mission |-> FALSE]
  /\ starting = [m \in Mission |-> "idle"]
  /\ waking = [k \in WakeSlot |-> "idle"]
  /\ stopping = [m \in Mission |-> "idle"]
  /\ missionFaults = 0

MissionFault == missionFaults < MaxMissionFaults /\ missionFaults' = missionFaults + 1

Ended(m) == status[m] = "stopped"

-----------------------------------------------------------------------------
(* The mission store *)

Active == {m \in Mission : status[m] = "active"}

\* Mutant: the ids whose cancel failed are dropped too.
ReconcileJobsForgets(m, cancelled) == jobIds' = [jobIds EXCEPT ![m] = FALSE]

\* reconcileJobs: (job_ids minus the cancelled) plus the failed, at write time.
ReconcileJobs(m, cancelled) == jobIds' = [jobIds EXCEPT ![m] = ~cancelled]

\* MissionService.stop: a no-op on a terminal mission.
SetStopped(m) == status' = [status EXCEPT ![m] = "stopped"]

-----------------------------------------------------------------------------
(* reconcileMissionJobs, a process being at `at` of its pass on m's job and   *)
(* going on to `then` when it is over                                         *)

\* scheduler.cancel; a job that is gone counts as cancelled.
Cancel(m, at, nextAt) ==
  /\ at = "cancel"
  /\ \/ nextAt = "recordCancelled" /\ armed' = [armed EXCEPT ![m] = FALSE] /\ UNCHANGED missionFaults
     \/ nextAt = "recordFailed" /\ MissionFault /\ armed' \in {armed, [armed EXCEPT ![m] = FALSE]}
  /\ UNCHANGED jobIds

\* missions.reconcileJobs, whose failure is logged and swallowed.
RecordPass(m, at, nextAt, then) ==
  /\ at \in {"recordCancelled", "recordFailed"}
  /\ nextAt = then
  /\ \/ ReconcileJobs(m, at = "recordCancelled") /\ UNCHANGED missionFaults
     \/ MissionFault /\ UNCHANGED jobIds
  /\ UNCHANGED armed

PassStep(m, at, nextAt, then) == Cancel(m, at, nextAt) \/ RecordPass(m, at, nextAt, then)

-----------------------------------------------------------------------------
(* start_mission *)

StartAt(m, at) == starting' = [starting EXCEPT ![m] = at]

\* The guard hasActive, then createDraft.
CreateDraft(m) ==
  /\ starting[m] = "idle" /\ status[m] = "none"
  /\ Active = {}
  /\ status' = [status EXCEPT ![m] = "draft"]
  /\ StartAt(m, "arm")
  /\ UNCHANGED <<jobIds, armed, waking, stopping, missionFaults>>

\* armWakeJob.
Arm(m) ==
  /\ starting[m] = "arm"
  /\ armed' = [armed EXCEPT ![m] = TRUE]
  /\ StartAt(m, "activate")
  /\ UNCHANGED <<status, jobIds, waking, stopping, missionFaults>>

\* The scheduler call fails or times out, the job perhaps armed.
ArmFails(m) ==
  /\ starting[m] = "arm"
  /\ MissionFault
  /\ armed' \in {armed, [armed EXCEPT ![m] = TRUE]}
  /\ StartAt(m, "stopDraft")
  /\ UNCHANGED <<status, jobIds, waking, stopping>>

\* The WHERE of activate, and missions_one_active: one per companion.
Activatable(m) == status[m] = "draft" /\ Active = {}

\* activate: an update of nothing, or a violated index, is compensated.
Activate(m) ==
  /\ starting[m] = "activate"
  /\ IF Activatable(m)
     THEN /\ status' = [status EXCEPT ![m] = "active"]
          /\ jobIds' = [jobIds EXCEPT ![m] = TRUE]
          /\ StartAt(m, "idle")
     ELSE StartAt(m, "cancel") /\ UNCHANGED <<status, jobIds>>
  /\ UNCHANGED <<armed, waking, stopping, missionFaults>>

\* The write throws, committed or not: compensation.
ActivateThrows(m) ==
  /\ starting[m] = "activate"
  /\ MissionFault
  /\ \/ UNCHANGED <<status, jobIds>>
     \/ /\ Activatable(m)
        /\ status' = [status EXCEPT ![m] = "active"]
        /\ jobIds' = [jobIds EXCEPT ![m] = TRUE]
  /\ StartAt(m, "cancel")
  /\ UNCHANGED <<armed, waking, stopping>>

\* cancelOrphanedJob.
StartCancels(m) ==
  /\ \E at \in Pass \cup {"stopDraft"} : PassStep(m, starting[m], at, "stopDraft") /\ StartAt(m, at)
  /\ UNCHANGED <<status, waking, stopping>>

\* stopDraft, whose failure is logged.
StopDraft(m) ==
  /\ starting[m] = "stopDraft"
  /\ \/ SetStopped(m) /\ UNCHANGED missionFaults
     \/ MissionFault /\ UNCHANGED status
  /\ StartAt(m, "idle")
  /\ UNCHANGED <<jobIds, armed, waking, stopping>>

\* The process dies during the start.
StartDies(m) ==
  /\ starting[m] # "idle"
  /\ MissionFault
  /\ StartAt(m, "idle")
  /\ UNCHANGED <<status, jobIds, armed, waking, stopping>>

-----------------------------------------------------------------------------
(* mission.advance *)

WakeAt(k, at) == waking' = [waking EXCEPT ![k] = at]

\* The job fires and its wake reaches the handler.
Fires(k) ==
  /\ waking[k] = "idle" /\ armed[k[1]]
  /\ WakeAt(k, "route")
  /\ UNCHANGED <<status, jobIds, armed, starting, stopping, missionFaults>>

\* routeMissionAdvance: an active mission earns a turn; a terminal one whose
\* row names a job is reconciled; any other wake is skipped.
Routes(k) ==
  /\ waking[k] = "route"
  /\ WakeAt(k, IF Ended(k[1]) /\ jobIds[k[1]] THEN "cancel" ELSE "idle")
  /\ UNCHANGED <<status, jobIds, armed, starting, stopping, missionFaults>>

WakeReconciles(k) ==
  /\ \E at \in Pass \cup {"idle"} : PassStep(k[1], waking[k], at, "idle") /\ WakeAt(k, at)
  /\ UNCHANGED <<status, starting, stopping>>

\* A call of the handler throws, or the process dies.
WakeDies(k) ==
  /\ waking[k] # "idle"
  /\ MissionFault
  /\ WakeAt(k, "idle")
  /\ UNCHANGED <<status, jobIds, armed, starting, stopping>>

-----------------------------------------------------------------------------
(* mission.stop *)

StopAt(m, at) == stopping' = [stopping EXCEPT ![m] = at]

\* The handler reads the mission: only an active one is stopped.
StopReads(m) ==
  /\ stopping[m] = "idle" /\ status[m] = "active"
  /\ StopAt(m, IF jobIds[m] THEN "cancel" ELSE "find")
  /\ UNCHANGED <<status, jobIds, armed, starting, waking, missionFaults>>

StopCancels(m) ==
  /\ \E at \in Pass \cup {"find"} : PassStep(m, stopping[m], at, "find") /\ StopAt(m, at)
  /\ UNCHANGED <<status, starting, waking>>

\* MissionService.stop reads the mission again, and then writes its status.
StopFinds(m) ==
  /\ stopping[m] = "find"
  /\ StopAt(m, IF Ended(m) THEN "idle" ELSE "set")
  /\ UNCHANGED <<status, jobIds, armed, starting, waking, missionFaults>>

StopSets(m) ==
  /\ stopping[m] = "set"
  /\ SetStopped(m)
  /\ StopAt(m, "idle")
  /\ UNCHANGED <<jobIds, armed, starting, waking, missionFaults>>

StopDies(m) ==
  /\ stopping[m] # "idle"
  /\ MissionFault
  /\ StopAt(m, "idle")
  /\ UNCHANGED <<status, jobIds, armed, starting, waking>>

-----------------------------------------------------------------------------
StartStep(m) ==
  \/ CreateDraft(m) \/ Arm(m) \/ ArmFails(m) \/ Activate(m) \/ ActivateThrows(m)
  \/ StartCancels(m) \/ StopDraft(m) \/ StartDies(m)

WakeStep(k) == Fires(k) \/ Routes(k) \/ WakeReconciles(k)

StopStep(m) == StopReads(m) \/ StopCancels(m) \/ StopFinds(m) \/ StopSets(m) \/ StopDies(m)

MissionNext ==
  \/ \E m \in Mission : StartStep(m) \/ StopStep(m)
  \/ \E k \in WakeSlot : WakeStep(k) \/ WakeDies(k)

MissionSpec == MissionInit /\ [][MissionNext]_missionVars

-----------------------------------------------------------------------------
MissionTypeOK ==
  /\ status \in [Mission -> {"none", "draft", "active", "stopped"}]
  /\ jobIds \in [Mission -> BOOLEAN] /\ armed \in [Mission -> BOOLEAN]
  /\ starting \in [Mission -> {"idle", "arm", "activate", "stopDraft"} \cup Pass]
  /\ waking \in [WakeSlot -> {"idle", "route"} \cup Pass]
  /\ stopping \in [Mission -> {"idle", "find", "set"} \cup Pass]
  /\ missionFaults \in 0..MaxMissionFaults
  /\ Cardinality(Active) <= 1

\* A wake job the mission's row has ever named does not outlive the mission:
\* once the mission is stopped it is cancelled in the end, by the stop, by the
\* compensation of the start, or, when their cancel failed, by the stale wake
\* itself, whatever reconciliations race (mission-reconcile.ts
\* routeMissionAdvance).
StaleWakesEnd == \A m \in Mission : <>jobIds[m] => []<>(~Ended(m) \/ ~armed[m])
=============================================================================
