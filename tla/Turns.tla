------------------------------- MODULE Turns -------------------------------
(***************************************************************************)
(* Turns of one companion: the agent loop of core/src/harness/harness.ts,  *)
(* the approval gate (core/src/tools/gate.ts), held actions and their      *)
(* confirmation (api/src/proposals/confirm-proposal.ts) and the methods    *)
(* that start turns (api/src/ws/methods/streaming.ts, missions.ts).        *)
(* The companion's room moves from connection to connection; a turn re-    *)
(* reads its claim at the loop's fences only.  Missions start and stop     *)
(* while their turns run.  The model's stream is whatever calls it makes.  *)
(***************************************************************************)
EXTENDS Integers, FiniteSets

CONSTANTS
  MaxTurns,      \* bound on the turns of a behaviour, in any overlap
  MaxMissions,   \* bound on the missions that may drive a turn
  Confirm,       \* confirmations handled at once
  MaxClaims,     \* bound on the claims of the room
  MaxIterations, \* maxToolIterations, the loop's ceiling
  MaxCalls,      \* bound on the tool calls of one step
  MaxProposals,  \* bound on held actions
  RetrievalCost, \* the usage each turn's retrieval reports
  MaxTurnFaults  \* bound on calls that fail and processes that die

ASSUME TurnConstants ==
  /\ MaxTurns \in Nat /\ MaxMissions \in Nat
  /\ MaxClaims \in Nat \ {0} /\ MaxIterations \in Nat \ {0} /\ MaxCalls \in Nat
  /\ MaxProposals \in Nat /\ MaxTurnFaults \in Nat
  /\ IsFiniteSet(Confirm)

ASSUME RetrievalConstants == RetrievalCost \in [1..MaxTurns -> Nat]

VARIABLES
  room,          \* the claim_seq that holds the companion
  turn,          \* each turn; metered is its retrievalUsage and acc, a call
                 \* counted as one, spent (ghost) what its owner had of it
  mission,       \* status of each mission
  proposal,      \* status of each proposals row
  executed,      \* ghost: how often the action of a proposal ran
  confirm,       \* each confirmation: where it is and its proposal
  lostConfirms,  \* ghost: confirmations that died after their claim
  turnFaults     \* how much of MaxTurnFaults is used

turnVars == <<room, turn, mission, proposal, executed, confirm, lostConfirms, turnFaults>>

Turn == 1..MaxTurns

\* Missions by order of creation.
TurnMission == 1..MaxMissions

Kind == {"chat", "mission", "resume"}

\* In the `try` of runLoop with settledNormally false.
Unsettled == {"top", "stream", "calls", "hold", "ungated", "stepFence", "step", "replyFence", "holdFence"}

\* "entry" is past the retrieval and before the `try` of runLoop.
At == {"idle", "queued", "append", "prepare", "entry", "reply", "holdRows", "bill", "abandon", "ended"}
        \cup Unsettled

\* Why a run that is over was not billed.
Loss == {"none", "entry", "finish", "debit", "death"}

Proposal == 1..MaxProposals

NoTurn ==
  [at |-> "idle", kind |-> "chat", missionId |-> 0, seq |-> 0, iteration |-> 0, calls |-> 0,
   blocked |-> FALSE, metered |-> 0, spent |-> 0, billed |-> 0, lost |-> "none",
   late |-> 0, slack |-> 0, ungatedLate |-> 0]

TurnInit ==
  /\ room = 1
  /\ turn = [t \in Turn |-> NoTurn]
  /\ mission = [m \in TurnMission |-> "draft"]
  /\ proposal = [p \in Proposal |-> "none"]
  /\ executed = [p \in Proposal |-> 0]
  /\ confirm = [k \in Confirm |-> [at |-> "idle", p |-> 0]]
  /\ lostConfirms = 0
  /\ turnFaults = 0

-----------------------------------------------------------------------------
TurnFault == turnFaults < MaxTurnFaults /\ turnFaults' = turnFaults + 1

\* Slots are used up one after the other.
Fresh(t) == turn[t].at = "idle" /\ \A u \in 1..(t - 1) : turn[u].at # "idle"

\* EmbodimentStore.holds of the claim the turn started under.
Holds(t) == turn[t].seq = room

TurnAt(t, at) == turn' = [turn EXCEPT ![t].at = at]

\* Nothing of a turn but its bill outlives it.
EndTurn(t, billed, loss) ==
  turn' = [turn EXCEPT ![t] = [NoTurn EXCEPT !.at = "ended", !.spent = turn[t].spent,
                               !.billed = turn[t].billed + billed, !.lost = loss]]

\* A turn leaves the loop with its bill to settle: what the usage sink gets as
\* it goes, and what of that its owner had, on top of what it already took.
Leave(t, at, deposit, had, late) ==
  turn' = [turn EXCEPT ![t] = [NoTurn EXCEPT !.at = at, !.seq = turn[t].seq,
                               !.metered = turn[t].metered + deposit, !.spent = turn[t].spent + had,
                               !.billed = turn[t].billed, !.late = late, !.slack = turn[t].slack]]

LateRow(t) == turn[t].late + IF Holds(t) THEN 0 ELSE 1

\* A row of the transcript written by turn t, which then goes on at `at`.
Write(t, at) ==
  turn' = [turn EXCEPT ![t].at = at, ![t].late = LateRow(t)]

onlyTurn == <<room, mission, proposal, executed, confirm, lostConfirms>>

-----------------------------------------------------------------------------
(* The room and the missions *)

\* A newer connection claims the companion.
Supersede ==
  /\ room < MaxClaims
  /\ room' = room + 1
  /\ UNCHANGED <<turn, mission, proposal, executed, confirm, lostConfirms, turnFaults>>

MissionStarts(m) ==
  /\ mission[m] = "draft" /\ \A n \in TurnMission : mission[n] # "active"
  /\ \A n \in 1..(m - 1) : mission[n] # "draft"
  /\ mission' = [mission EXCEPT ![m] = "active"]
  /\ UNCHANGED <<room, turn, proposal, executed, confirm, lostConfirms, turnFaults>>

MissionStops(m) ==
  /\ mission[m] = "active"
  /\ mission' = [mission EXCEPT ![m] = "stopped"]
  /\ UNCHANGED <<room, turn, proposal, executed, confirm, lostConfirms, turnFaults>>

-----------------------------------------------------------------------------
(* The methods that start a turn *)

\* messages.send: fenced by embodiedCompanion, then queued on its connection.
SendMessage(t) ==
  /\ Fresh(t)
  /\ turn' = [turn EXCEPT ![t] = [NoTurn EXCEPT !.at = "queued", !.seq = room]]
  /\ UNCHANGED <<onlyTurn, turnFaults>>

\* mission.advance: fenced likewise, for an active mission.
MissionAdvance(t, m) ==
  /\ Fresh(t)
  /\ mission[m] = "active"
  /\ turn' = [turn EXCEPT ![t] = [NoTurn EXCEPT !.at = "queued", !.kind = "mission", !.missionId = m, !.seq = room]]
  /\ UNCHANGED <<onlyTurn, turnFaults>>

\* runSerial: the turns of one connection take turns.
RunSerial(t) ==
  /\ turn[t].at = "queued"
  /\ \A u \in Turn \ {t} : turn[u].seq = turn[t].seq => turn[u].at \in {"idle", "queued", "ended"}
  /\ TurnAt(t, IF turn[t].kind = "resume" THEN "prepare" ELSE "append")
  /\ UNCHANGED <<onlyTurn, turnFaults>>

\* runTurn appends the user's message before any fence.
AppendUser(t) ==
  /\ turn[t].at = "append"
  /\ Write(t, "prepare")
  /\ UNCHANGED <<onlyTurn, turnFaults>>

\* The append throws, when nothing was spent yet.
AppendFails(t) ==
  /\ turn[t].at = "append"
  /\ TurnFault
  /\ EndTurn(t, 0, "none")
  /\ UNCHANGED onlyTurn

\* prepare retrieves the context.  It costs nothing when its embedding was
\* cached, or when the arm throws, which is logged and reports no usage.
Prepare(t) ==
  /\ turn[t].at = "prepare"
  /\ turn' = [turn EXCEPT ![t].at = "entry", ![t].metered = RetrievalCost[t], ![t].spent = RetrievalCost[t]]
  /\ UNCHANGED <<onlyTurn, turnFaults>>

\* The snapshot is read and the citations are sent.
Enter(t) ==
  /\ turn[t].at = "entry"
  /\ TurnAt(t, "top")
  /\ UNCHANGED <<onlyTurn, turnFaults>>

\* The snapshot throws, or the consumer stops at the citations: outside the
\* `try` whose `finally` bills the run.
EntryFails(t) ==
  /\ turn[t].at = "entry"
  /\ TurnFault
  /\ EndTurn(t, 0, "entry")
  /\ UNCHANGED onlyTurn

-----------------------------------------------------------------------------
(* runLoop *)

\* Mutant: the claim is read again before the final rows only.
FinalFences == {"replyFence", "holdFence"}

\* The loop's fences.
Fences == {"top", "stepFence", "replyFence", "holdFence"}

\* Past its fence the turn exits, pauses, records or takes its next step; at
\* the ceiling it finishes with a partial answer.
PastFence(t) ==
  CASE turn[t].at = "top"        -> IF turn[t].iteration >= MaxIterations THEN "reply" ELSE "stream"
    [] turn[t].at = "stepFence"  -> "step"
    [] turn[t].at = "replyFence" -> "reply"
    [] turn[t].at = "holdFence"  -> "holdRows"

AtFence(t) == turn[t].at \in {"top", "stepFence", "replyFence", "holdFence"}

\* stoodDown: the claim moved, so the turn ends without its pending write.
StoodDown(t) ==
  /\ AtFence(t)
  /\ turn[t].at \in Fences /\ ~Holds(t)
  /\ Leave(t, "abandon", 0, 0, 0)
  /\ UNCHANGED <<onlyTurn, turnFaults>>

PassesFence(t) ==
  /\ AtFence(t)
  /\ turn[t].at \in Fences => Holds(t)
  /\ TurnAt(t, PastFence(t))
  /\ UNCHANGED <<onlyTurn, turnFaults>>

\* leaseLost: a read that fails counts as still held.
LeaseReadFails(t) ==
  /\ AtFence(t) /\ turn[t].at \in Fences
  /\ TurnFault
  /\ turn' = [turn EXCEPT ![t].at = PastFence(t), ![t].slack = @ + 1]
  /\ UNCHANGED onlyTurn

\* The model answers, or wants tools; its usage is deposited with its answer.
Stream(t, wantsTools) ==
  /\ turn[t].at = "stream"
  /\ turn' = [turn EXCEPT ![t].at = IF wantsTools THEN "calls" ELSE "replyFence",
                          ![t].iteration = @ + 1, ![t].calls = MaxCalls,
                          ![t].metered = @ + 1, ![t].spent = @ + 1]
  /\ UNCHANGED <<onlyTurn, turnFaults>>

\* A read-only call runs; one that is silent or fails records no row.
ReadOnlyCall(t, recorded) ==
  /\ turn[t].at = "calls" /\ turn[t].calls > 0
  /\ turn' = [turn EXCEPT ![t].at = IF recorded THEN "stepFence" ELSE "calls", ![t].calls = @ - 1]
  /\ UNCHANGED <<onlyTurn, turnFaults>>

\* recordToolStep, whose failure is logged.
RecordToolStep(t) ==
  /\ turn[t].at = "step"
  /\ \/ Write(t, "calls") /\ UNCHANGED turnFaults
     \/ TurnAt(t, "calls") /\ TurnFault
  /\ UNCHANGED onlyTurn

\* Mutant: a wake turn is ungated throughout, as decided when it started.
UngatedByTurnKind(t) == turn[t].kind = "mission"

\* The gate's bypass: the mission that drives this turn is still active.
Ungated(t) == turn[t].kind = "mission" /\ mission[turn[t].missionId] = "active"

\* beforeToolCall of an effectful call.
EffectfulCall(t) ==
  /\ turn[t].at = "calls" /\ turn[t].calls > 0
  /\ turn' = [turn EXCEPT ![t].at = IF Ungated(t) THEN "ungated" ELSE "hold", ![t].calls = @ - 1]
  /\ UNCHANGED <<onlyTurn, turnFaults>>

\* The gate holds the call as a pending proposal.
HoldCall(t) ==
  /\ turn[t].at = "hold"
  /\ \E p \in Proposal :
       /\ proposal[p] = "none" /\ \A q \in 1..(p - 1) : proposal[q] # "none"
       /\ proposal' = [proposal EXCEPT ![p] = "pending"]
  /\ turn' = [turn EXCEPT ![t].at = "calls", ![t].blocked = TRUE]
  /\ UNCHANGED <<room, mission, executed, confirm, lostConfirms, turnFaults>>

\* An effectful call runs inside a mission turn.
DispatchUngated(t) ==
  /\ turn[t].at = "ungated"
  /\ turn' = [turn EXCEPT ![t].at = "stepFence",
                          ![t].ungatedLate = IF mission[turn[t].missionId] = "active" THEN @ ELSE @ + 1]
  /\ UNCHANGED <<onlyTurn, turnFaults>>

\* The calls are done: pause for approval, or take the next step.
CallsDone(t) ==
  /\ turn[t].at = "calls"
  /\ turn' = [turn EXCEPT ![t].at = IF turn[t].blocked THEN "holdFence" ELSE "top", ![t].calls = 0]
  /\ UNCHANGED <<onlyTurn, turnFaults>>

\* finish and finishBlocked, settledNormally being set: rows, then the bill.
FinalRows(t) ==
  /\ turn[t].at \in {"reply", "holdRows"}
  /\ Leave(t, "bill", 0, 0, LateRow(t))
  /\ UNCHANGED <<onlyTurn, turnFaults>>

\* The reply or the pre-amble cannot be written, or the consumer stops at a
\* proposal event: settledNormally is set, and nothing bills the run.
FinalRowsFail(t) ==
  /\ turn[t].at \in {"reply", "holdRows"}
  /\ TurnFault
  /\ EndTurn(t, 0, "finish")
  /\ UNCHANGED onlyTurn

\* debit: nothing is written for no tokens, and a failure is logged.
Debit(t) ==
  \/ EndTurn(t, turn[t].metered, "none") /\ UNCHANGED turnFaults
  \/ turn[t].metered > 0 /\ EndTurn(t, 0, "debit") /\ TurnFault

\* finish and finishBlocked bill the run.
Bill(t) ==
  /\ turn[t].at = "bill"
  /\ Debit(t)
  /\ UNCHANGED onlyTurn

\* Mutant: the wrapper estimates every call that did not end.
ProviderFaultsMetered(t) ==
  /\ turn[t].at = "stream"
  /\ TurnFault
  /\ Leave(t, "abandon", 1, 0, 0)
  /\ UNCHANGED onlyTurn

\* The provider's stream throws, at any of its tokens: the wrapper deposits
\* nothing, and this call is free.
ProviderFaults(t) ==
  /\ turn[t].at = "stream"
  /\ TurnFault
  /\ Leave(t, "abandon", 0, 0, 0)
  /\ UNCHANGED onlyTurn

\* The consumer stops at a token it was sent: emitAll returns the generator,
\* and the wrapper deposits an estimate of what was streamed.
ConsumerStops(t) ==
  /\ turn[t].at = "stream"
  /\ TurnFault
  /\ Leave(t, "abandon", 1, 1, 0)
  /\ UNCHANGED onlyTurn

\* The gate or the log of a call throws, or the consumer stops at a tool step.
Abandoned(t) ==
  /\ turn[t].at \in {"calls", "hold"}
  /\ TurnFault
  /\ Leave(t, "abandon", 0, 0, 0)
  /\ UNCHANGED onlyTurn

\* The `finally` of an unsettled run bills what was metered.
SettleAbandoned(t) ==
  /\ turn[t].at = "abandon"
  /\ Debit(t)
  /\ UNCHANGED onlyTurn

\* The process dies.
TurnDies(t) ==
  /\ turn[t].at \notin {"idle", "ended"}
  /\ TurnFault
  /\ EndTurn(t, 0, "death")
  /\ UNCHANGED onlyTurn

-----------------------------------------------------------------------------
(* Proposals *)

\* Mutant: markResolved does not ask for a pending row.
ResolvableAgain(p) == proposal[p] # "none"

\* The WHERE of markResolved.
Resolvable(p) == proposal[p] = "pending"

\* proposals.confirm, fenced, claims the proposal.
ConfirmClaims(k, p) ==
  /\ confirm[k].at = "idle"
  /\ Resolvable(p)
  /\ proposal' = [proposal EXCEPT ![p] = "approved"]
  /\ confirm' = [confirm EXCEPT ![k] = [at |-> "dispatch", p |-> p]]
  /\ UNCHANGED <<room, turn, mission, executed, lostConfirms, turnFaults>>

\* The action runs; then the loop is re-entered with its outcome.
ConfirmDispatches(k) ==
  /\ confirm[k].at = "dispatch"
  /\ executed' = [executed EXCEPT ![confirm[k].p] = @ + 1]
  /\ confirm' = [confirm EXCEPT ![k] = [at |-> "idle", p |-> 0]]
  /\ \/ \E t \in Turn :
          /\ Fresh(t)
          /\ turn' = [turn EXCEPT ![t] = [NoTurn EXCEPT !.at = "queued", !.kind = "resume", !.seq = room]]
     \/ UNCHANGED turn
  /\ UNCHANGED <<room, mission, proposal, lostConfirms, turnFaults>>

ConfirmDies(k) ==
  /\ confirm[k].at = "dispatch"
  /\ TurnFault
  /\ lostConfirms' = lostConfirms + 1
  /\ confirm' = [confirm EXCEPT ![k] = [at |-> "idle", p |-> 0]]
  /\ UNCHANGED <<room, turn, mission, proposal, executed>>

\* proposals.reject.
Reject(p) ==
  /\ Resolvable(p)
  /\ proposal' = [proposal EXCEPT ![p] = "rejected"]
  /\ UNCHANGED <<room, turn, mission, executed, confirm, lostConfirms, turnFaults>>

-----------------------------------------------------------------------------
LoopStepOf(t) ==
  \/ StoodDown(t) \/ PassesFence(t) \/ LeaseReadFails(t)
  \/ \E b \in BOOLEAN : Stream(t, b) \/ ReadOnlyCall(t, b)
  \/ RecordToolStep(t) \/ EffectfulCall(t) \/ HoldCall(t) \/ DispatchUngated(t) \/ CallsDone(t)
  \/ FinalRows(t) \/ FinalRowsFail(t) \/ Bill(t)
  \/ ProviderFaults(t) \/ ConsumerStops(t) \/ Abandoned(t) \/ SettleAbandoned(t)

\* The steps of a turn before its loop.
EntryStepOf(t) ==
  \/ RunSerial(t) \/ AppendUser(t) \/ AppendFails(t)
  \/ Prepare(t) \/ Enter(t) \/ EntryFails(t)

TurnNext ==
  \/ Supersede
  \/ \E m \in TurnMission : MissionStarts(m) \/ MissionStops(m)
  \/ \E t \in Turn : \/ SendMessage(t) \/ EntryStepOf(t) \/ LoopStepOf(t) \/ TurnDies(t)
                     \/ \E m \in TurnMission : MissionAdvance(t, m)
  \/ \E k \in Confirm : \/ ConfirmDispatches(k) \/ ConfirmDies(k)
                        \/ \E p \in Proposal : ConfirmClaims(k, p)
  \/ \E p \in Proposal : Reject(p)

TurnSpec == TurnInit /\ [][TurnNext]_turnVars

-----------------------------------------------------------------------------
TurnTypeOK ==
  /\ room \in 1..MaxClaims
  /\ turn \in [Turn -> [at : At, kind : Kind, missionId : 0..MaxMissions, seq : 0..MaxClaims,
                        iteration : 0..MaxIterations, calls : 0..MaxCalls, blocked : BOOLEAN,
                        metered : Nat, spent : Nat, billed : Nat, lost : Loss, late : Nat,
                        slack : Nat, ungatedLate : Nat]]
  /\ mission \in [TurnMission -> {"draft", "active", "stopped"}]
  /\ proposal \in [Proposal -> {"none", "pending", "approved", "rejected"}]
  /\ executed \in [Proposal -> Nat]
  /\ confirm \in [Confirm -> [at : {"idle", "dispatch"}, p : 0..MaxProposals]]
  /\ lostConfirms \in 0..MaxTurnFaults /\ turnFaults \in 0..MaxTurnFaults

\* A held action runs at most once, and only if the user approved it; an
\* approved one runs unless its confirmation is under way or died, whatever
\* confirmations and rejections race (markResolved, confirmProposal).
ExecutedOnce ==
  /\ \A p \in Proposal : executed[p] <= IF proposal[p] = "approved" THEN 1 ELSE 0
  /\ Cardinality({p \in Proposal : proposal[p] = "approved" /\ executed[p] = 0})
       = lostConfirms + Cardinality({k \in Confirm : confirm[k].at = "dispatch"})

\* A mission stopped under its own wake turn re-gates the rest of that turn: at
\* most the one call already past the gate runs unapproved
\* (createApprovalGate).
StopRegates == \A t \in Turn : turn[t].ungatedLate <= 1

\* A turn whose room has moved writes at most the one group of rows whose
\* fence it had passed, and one more for each claim read that failed
\* (the fences of runLoop).
OverlapBounded == \A t \in Turn : turn[t].late <= 1 + turn[t].slack

\* A run is billed once for what its owner had of it, its retrieval and every
\* call of the model that answered or that the consumer cut short, and never for
\* a call the provider broke, however it ends: answered, held, superseded,
\* stopped by its consumer or failed.  Only these leave it unbilled: a failure
\* between the retrieval and the loop, a final write or a debit that failed, the
\* death of the process (runLoop, meteredLlmGateway).
BilledOnce ==
  \A t \in Turn :
    turn[t].billed = IF turn[t].at = "ended" /\ turn[t].lost = "none" THEN turn[t].spent ELSE 0
=============================================================================
