---------------------------- MODULE JobProcessor ----------------------------
(***************************************************************************)
(* The drain loops of packages/core/src/jobs/job-processor.ts on every     *)
(* node, over the tables of JobQueue.  A loop claims a companion, runs its *)
(* due jobs one at a time while a heartbeat renews the claim, and releases *)
(* it.  Every await is a step of its own, so loops, heartbeats, triggers,  *)
(* sweeps, crashes and shutdowns interleave as the event loops and the     *)
(* database allow.                                                         *)
(*                                                                         *)
(* The handler is reduced to the point where it reads the companion's      *)
(* state: `unseen` holds the (companion, key) whose latest event no        *)
(* handler run has read yet.                                               *)
(***************************************************************************)
EXTENDS JobQueue

CONSTANTS
  SweptKey,      \* the keys of job types that have a catch-up sweep
  Loop,          \* drain-loop slots, JOB_CONCURRENCY of them per node
  NodeOf,        \* the node each slot belongs to
  HeartbeatMs,   \* JOB_HEARTBEAT_MS, in ticks
  PromptTimers,  \* TRUE: no event loop or database call stalls for a tick
  MaxTriggers,   \* bound on the events the environment raises
  MaxErrors,     \* bound on failed database calls and lost enqueues
  MaxCrashes,    \* bound on process crashes and shutdowns
  MaxFaults      \* bound on both together

\* config.ts refuses JOB_HEARTBEAT_MS >= JOB_LEASE_MS.
ASSUME ProcessorConstants ==
  /\ SweptKey \subseteq Key
  /\ NodeOf \in [Loop -> Owner]
  /\ HeartbeatMs \in 1..(LeaseMs - 1)
  /\ PromptTimers \in BOOLEAN
  /\ MaxTriggers \in Nat /\ MaxErrors \in Nat /\ MaxCrashes \in Nat /\ MaxFaults \in Nat

VARIABLES
  pc,         \* where each loop is
  candidates, \* rows of claimNextCompanion not tried yet
  held,       \* the ClaimedCompanion of the loop's drain
  job,        \* the job the drain runs, or 0
  outcome,    \* the terminal status the drain is about to write
  aborted,    \* lease.signal.aborted
  elapsed,    \* Date.now() - lastRenewedAt
  beatIn,     \* ticks until the heartbeat timer is due
  renewal,    \* the heartbeat's renewal in flight
  node,       \* each process: running, stopping (close) or down
  unseen,     \* ghost: events no handler run has read
  triggers, errors, crashes   \* how much of each bound is used

loopVars == <<pc, candidates, held, job, outcome>>
beatVars == <<aborted, elapsed, beatIn, renewal>>
envVars  == <<triggers, errors, crashes>>
vars     == <<jobs, claims, loopVars, beatVars, node, unseen, envVars>>

\* Inside drainCompanion, before its `finally`: the heartbeat is armed.
Draining == {"next", "run", "ran", "mark", "between"}

PC == {"idle", "claiming", "trying", "release"} \cup Draining

NoClaimHeld == [companion |-> NoClaim, generation |-> 0]

Claim == [companion : Companion, generation : 1..MaxGeneration]

LoopTypeOK ==
  /\ pc \in [Loop -> PC]
  /\ candidates \in [Loop -> SUBSET [companion : Companion, oldest : 1..MaxJobs]]
  /\ held \in [Loop -> Claim \cup {NoClaimHeld}]
  /\ job \in [Loop -> 0..MaxJobs]
  /\ outcome \in [Loop -> Terminal \cup {"none"}]

BeatTypeOK ==
  /\ aborted \in [Loop -> BOOLEAN]
  /\ elapsed \in [Loop -> 0..LeaseMs]
  /\ beatIn \in [Loop -> 0..HeartbeatMs]
  /\ renewal \in [Loop -> {"none", "sent", "held", "lost"}]

EnvTypeOK ==
  /\ node \in [Owner -> {"running", "stopping", "down"}]
  /\ unseen \in [Companion -> SUBSET Key]
  /\ triggers \in 0..MaxTriggers
  /\ errors \in 0..MaxErrors
  /\ crashes \in 0..MaxCrashes

TypeOK == QueueTypeOK /\ LoopTypeOK /\ BeatTypeOK /\ EnvTypeOK

Init ==
  /\ QueueInit
  /\ pc = [w \in Loop |-> "idle"]
  /\ candidates = [w \in Loop |-> {}]
  /\ held = [w \in Loop |-> NoClaimHeld]
  /\ job = [w \in Loop |-> 0]
  /\ outcome = [w \in Loop |-> "none"]
  /\ aborted = [w \in Loop |-> FALSE]
  /\ elapsed = [w \in Loop |-> 0]
  /\ beatIn = [w \in Loop |-> 0]
  /\ renewal = [w \in Loop |-> "none"]
  /\ node = [n \in Owner |-> "running"]
  /\ unseen = [c \in Companion |-> {}]
  /\ triggers = 0 /\ errors = 0 /\ crashes = 0

-----------------------------------------------------------------------------
Goto(w, l) == pc' = [pc EXCEPT ![w] = l]

InDrain(w) == pc[w] \in Draining

\* The loop is in a drain of c that its heartbeat has not aborted.
LiveDrain(w, c) == InDrain(w) /\ held[w].companion = c /\ ~aborted[w]

FaultLeft == errors + crashes < MaxFaults

\* A database call or an enqueue fails.
Fails == FaultLeft /\ errors < MaxErrors /\ errors' = errors + 1 /\ UNCHANGED <<triggers, crashes>>

-----------------------------------------------------------------------------
(* Triggers and sweeps *)

\* An event is persisted, and its request enqueues a coalesced job.
Trigger(c, k) ==
  /\ triggers < MaxTriggers
  /\ triggers' = triggers + 1
  /\ unseen' = [unseen EXCEPT ![c] = @ \cup {k}]
  /\ Enqueue(c, k)
  /\ UNCHANGED <<claims, loopVars, beatVars, node, errors, crashes>>

\* The fire-and-forget enqueue of a trigger fails: the failure is logged.
TriggerLost(c, k) ==
  /\ Fails
  /\ unseen' = [unseen EXCEPT ![c] = @ \cup {k}]
  /\ UNCHANGED <<queueVars, loopVars, beatVars, node>>

\* sweepCompanions requests a job for a companion that still has work to do.
Sweep(c, k) ==
  /\ k \in SweptKey \cap unseen[c]
  /\ \E n \in Owner : node[n] = "running"
  /\ Enqueue(c, k)
  /\ UNCHANGED <<claims, loopVars, beatVars, node, unseen, envVars>>

-----------------------------------------------------------------------------
(* drainLoop: claim, drain, repeat *)

\* Mutant: nudge forgets that the pool is stopping.
NudgeWhileStopping(w) ==
  /\ pc[w] = "idle" /\ node[NodeOf[w]] # "down"
  /\ Goto(w, "claiming")
  /\ UNCHANGED <<queueVars, candidates, held, job, outcome, beatVars, node, unseen, envVars>>

\* nudge, on an enqueue or a poll tick, starts a loop in a free slot.
Nudge(w) ==
  /\ pc[w] = "idle" /\ node[NodeOf[w]] = "running"
  /\ Goto(w, "claiming")
  /\ UNCHANGED <<queueVars, candidates, held, job, outcome, beatVars, node, unseen, envVars>>

\* claimNextCompanion's query; with no candidate, or when stopping, the loop
\* exits.
QueryCandidates(w) ==
  /\ pc[w] = "claiming"
  /\ IF node[NodeOf[w]] = "stopping" \/ Candidates = {}
     THEN Goto(w, "idle") /\ UNCHANGED candidates
     ELSE Goto(w, "trying") /\ candidates' = [candidates EXCEPT ![w] = Candidates]
  /\ UNCHANGED <<queueVars, held, job, outcome, beatVars, node, unseen, envVars>>

\* One tryClaim of claimNextCompanion's loop, oldest candidate first.  A
\* claim starts a drain and arms its heartbeat.
ClaimNext(w) ==
  /\ pc[w] = "trying"
  /\ \E p \in candidates[w] :
       LET c == p.companion
           rest == candidates[w] \ {p}
       IN  /\ \A q \in candidates[w] : p.oldest <= q.oldest
           /\ \/ /\ TryClaim(c, NodeOf[w])
                 /\ held' = [held EXCEPT ![w] = [companion |-> c, generation |-> claims'[c].generation]]
                 /\ candidates' = [candidates EXCEPT ![w] = {}]
                 /\ beatIn' = [beatIn EXCEPT ![w] = HeartbeatMs]
                 /\ Goto(w, "next")
              \/ /\ ~Claimable(c)
                 /\ candidates' = [candidates EXCEPT ![w] = rest]
                 /\ IF rest = {} THEN Goto(w, "idle") ELSE UNCHANGED pc
                 /\ UNCHANGED <<claims, held, beatIn>>
  /\ UNCHANGED <<jobs, job, outcome, aborted, elapsed, renewal, node, unseen, envVars>>

\* The head of the drain's loop: stop, or fetch the oldest due job.
NextDueJob(w) ==
  LET c == held[w].companion
  IN  /\ pc[w] = "next"
      /\ IF node[NodeOf[w]] = "stopping" \/ aborted[w] \/ Pending(c) = {}
         THEN Goto(w, "release") /\ UNCHANGED job
         ELSE /\ Goto(w, "run")
              /\ \E j \in Pending(c) : IsNextDue(c, j) /\ job' = [job EXCEPT ![w] = j]
      /\ UNCHANGED <<queueVars, candidates, held, outcome, beatVars, node, unseen, envVars>>

\* The handler reads the state its job is about.  It is never told that the
\* lease was lost.
HandlerRead(w) ==
  /\ pc[w] = "run"
  /\ Goto(w, "ran")
  /\ unseen' = [unseen EXCEPT ![held[w].companion] = @ \ {jobs[job[w]].key}]
  /\ UNCHANGED <<queueVars, candidates, held, job, outcome, beatVars, node, envVars>>

\* The end of runJob: a lost lease records no outcome, else the write of the
\* outcome is issued.
Settle(w, o) ==
  /\ IF aborted[w]
     THEN Goto(w, "between") /\ job' = [job EXCEPT ![w] = 0] /\ UNCHANGED outcome
     ELSE Goto(w, "mark") /\ outcome' = [outcome EXCEPT ![w] = o] /\ UNCHANGED job
  /\ UNCHANGED <<queueVars, candidates, held, beatVars, node, unseen>>

\* The handler returns or throws.
HandlerSettles(w, o) ==
  /\ pc[w] = "ran"
  /\ Settle(w, o)
  /\ UNCHANGED envVars

\* The handler throws before it has read anything.
HandlerFails(w) ==
  /\ pc[w] = "run"
  /\ Fails
  /\ Settle(w, "failed")

\* The terminal write executes, fenced on the claim the drain started with.
Mark(w) ==
  /\ pc[w] = "mark"
  /\ MarkTerminal(job[w], outcome[w], held[w].companion, NodeOf[w], held[w].generation)
  /\ Goto(w, "between")
  /\ job' = [job EXCEPT ![w] = 0]
  /\ outcome' = [outcome EXCEPT ![w] = "none"]
  /\ UNCHANGED <<claims, candidates, held, beatVars, node, unseen, envVars>>

\* The between-jobs ownership check.
BetweenJobs(w) ==
  LET c == held[w].companion
  IN  /\ pc[w] = "between"
      /\ \/ /\ aborted[w]
            /\ Goto(w, "release")
            /\ UNCHANGED <<claims, elapsed>>
         \/ /\ ~aborted[w]
            /\ RenewClaim(c, NodeOf[w])
            /\ IF RenewHeld(c, NodeOf[w])
               THEN Goto(w, "next") /\ elapsed' = [elapsed EXCEPT ![w] = 0]
               ELSE Goto(w, "release") /\ UNCHANGED elapsed
      /\ UNCHANGED <<jobs, candidates, held, job, outcome, aborted, beatIn, renewal, node, unseen, envVars>>

\* A loop leaves its drain: nothing of the drain's state outlives it.
ForgetDrain(w) ==
  /\ held' = [held EXCEPT ![w] = NoClaimHeld]
  /\ job' = [job EXCEPT ![w] = 0]
  /\ outcome' = [outcome EXCEPT ![w] = "none"]
  /\ aborted' = [aborted EXCEPT ![w] = FALSE]
  /\ elapsed' = [elapsed EXCEPT ![w] = 0]
  /\ beatIn' = [beatIn EXCEPT ![w] = 0]
  /\ renewal' = [renewal EXCEPT ![w] = "none"]

\* The drain's `finally`: release, and back to claiming.
Release(w) ==
  /\ pc[w] = "release"
  /\ ReleaseClaim(held[w].companion, NodeOf[w])
  /\ Goto(w, "claiming")
  /\ ForgetDrain(w)
  /\ UNCHANGED <<jobs, candidates, node, unseen, envVars>>

-----------------------------------------------------------------------------
(* Database errors on the loop's own calls *)

\* claimNextCompanion throws: the loop returns.
ClaimError(w) ==
  /\ pc[w] \in {"claiming", "trying"}
  /\ Fails
  /\ Goto(w, "idle")
  /\ candidates' = [candidates EXCEPT ![w] = {}]
  /\ UNCHANGED <<queueVars, held, job, outcome, beatVars, node, unseen>>

\* A call of the drain throws: the catch logs and the `finally` releases.
\* A terminal write that throws may have been committed.
DrainError(w) ==
  /\ pc[w] \in {"next", "mark", "between"}
  /\ Fails
  /\ Goto(w, "release")
  /\ \/ UNCHANGED jobs
     \/ /\ pc[w] = "mark"
        /\ MarkTerminal(job[w], outcome[w], held[w].companion, NodeOf[w], held[w].generation)
  /\ UNCHANGED <<claims, candidates, held, job, outcome, beatVars, node, unseen>>

\* releaseClaim throws: the row stays until its lease lapses.
ReleaseError(w) ==
  /\ pc[w] = "release"
  /\ Fails
  /\ Goto(w, "claiming")
  /\ ForgetDrain(w)
  /\ UNCHANGED <<queueVars, candidates, node, unseen>>

-----------------------------------------------------------------------------
(* The heartbeat of a drain *)

\* A timer callback: give up near the lease's expiry, else send a renewal
\* unless one is in flight.
Beat(w) ==
  /\ InDrain(w) /\ ~aborted[w] /\ beatIn[w] = 0
  /\ beatIn' = [beatIn EXCEPT ![w] = HeartbeatMs]
  /\ IF elapsed[w] >= LeaseMs - HeartbeatMs
     THEN aborted' = [aborted EXCEPT ![w] = TRUE] /\ UNCHANGED renewal
     ELSE /\ renewal' = [renewal EXCEPT ![w] = IF @ = "none" THEN "sent" ELSE @]
          /\ UNCHANGED aborted
  /\ UNCHANGED <<queueVars, loopVars, elapsed, node, unseen, envVars>>

\* The renewal's statement executes.
RenewExecutes(w) ==
  LET c == held[w].companion
  IN  /\ renewal[w] = "sent"
      /\ RenewClaim(c, NodeOf[w])
      /\ renewal' = [renewal EXCEPT ![w] = IF RenewHeld(c, NodeOf[w]) THEN "held" ELSE "lost"]
      /\ UNCHANGED <<jobs, loopVars, aborted, elapsed, beatIn, node, unseen, envVars>>

\* Its reply arrives: held restarts the clock, lost aborts the drain.
RenewReplies(w) ==
  /\ renewal[w] \in {"held", "lost"}
  /\ IF renewal[w] = "held"
     THEN elapsed' = [elapsed EXCEPT ![w] = 0] /\ UNCHANGED aborted
     ELSE aborted' = [aborted EXCEPT ![w] = TRUE] /\ UNCHANGED elapsed
  /\ renewal' = [renewal EXCEPT ![w] = "none"]
  /\ UNCHANGED <<queueVars, loopVars, beatIn, node, unseen, envVars>>

\* The renewal throws: logged, and left to the next beat.
RenewError(w) ==
  /\ renewal[w] = "sent"
  /\ Fails
  /\ renewal' = [renewal EXCEPT ![w] = "none"]
  /\ UNCHANGED <<queueVars, loopVars, aborted, elapsed, beatIn, node, unseen>>

-----------------------------------------------------------------------------
(* Processes and time *)

\* SIGTERM: close() refuses new loops and lets the running ones settle.
Close(n) ==
  /\ node[n] = "running"
  /\ FaultLeft /\ crashes < MaxCrashes
  /\ crashes' = crashes + 1
  /\ node' = [node EXCEPT ![n] = "stopping"]
  /\ UNCHANGED <<queueVars, loopVars, beatVars, unseen, triggers, errors>>

\* whenIdle resolves and the process exits.
Exit(n) ==
  /\ node[n] = "stopping"
  /\ \A w \in Loop : NodeOf[w] = n => pc[w] = "idle"
  /\ node' = [node EXCEPT ![n] = "down"]
  /\ UNCHANGED <<queueVars, loopVars, beatVars, unseen, envVars>>

\* The process dies: its loops vanish, its rows stay.
Crash(n) ==
  /\ node[n] # "down"
  /\ FaultLeft /\ crashes < MaxCrashes
  /\ crashes' = crashes + 1
  /\ node' = [node EXCEPT ![n] = "down"]
  /\ pc' = [w \in Loop |-> IF NodeOf[w] = n THEN "idle" ELSE pc[w]]
  /\ candidates' = [w \in Loop |-> IF NodeOf[w] = n THEN {} ELSE candidates[w]]
  /\ held' = [w \in Loop |-> IF NodeOf[w] = n THEN NoClaimHeld ELSE held[w]]
  /\ job' = [w \in Loop |-> IF NodeOf[w] = n THEN 0 ELSE job[w]]
  /\ outcome' = [w \in Loop |-> IF NodeOf[w] = n THEN "none" ELSE outcome[w]]
  /\ aborted' = [w \in Loop |-> IF NodeOf[w] = n THEN FALSE ELSE aborted[w]]
  /\ elapsed' = [w \in Loop |-> IF NodeOf[w] = n THEN 0 ELSE elapsed[w]]
  /\ beatIn' = [w \in Loop |-> IF NodeOf[w] = n THEN 0 ELSE beatIn[w]]
  /\ renewal' = [w \in Loop |-> IF NodeOf[w] = n THEN "none" ELSE renewal[w]]
  /\ UNCHANGED <<queueVars, unseen, triggers, errors>>

\* The container restarts under the same host name and pid, hence owner id.
Boot(n) ==
  /\ node[n] = "down"
  /\ node' = [node EXCEPT ![n] = "running"]
  /\ UNCHANGED <<queueVars, loopVars, beatVars, unseen, envVars>>

\* The heartbeat of the drain still runs.
Armed(w) == InDrain(w) /\ ~aborted[w]

\* A drain whose timer is due, or whose renewal is unanswered.
Late(w) == Armed(w) /\ (beatIn[w] = 0 \/ renewal[w] # "none")

Tick ==
  /\ PromptTimers => \A w \in Loop : ~Late(w)
  /\ LeaseTick
  /\ elapsed' = [w \in Loop |-> IF Armed(w) /\ elapsed[w] < LeaseMs THEN elapsed[w] + 1 ELSE elapsed[w]]
  /\ beatIn' = [w \in Loop |-> IF Armed(w) /\ beatIn[w] > 0 THEN beatIn[w] - 1 ELSE beatIn[w]]
  /\ UNCHANGED <<jobs, loopVars, aborted, renewal, node, unseen, envVars>>

-----------------------------------------------------------------------------
LoopStep(w) ==
  \/ Nudge(w) \/ QueryCandidates(w) \/ ClaimNext(w) \/ NextDueJob(w)
  \/ HandlerRead(w) \/ Mark(w) \/ BetweenJobs(w) \/ Release(w)
  \/ \E o \in Terminal : HandlerSettles(w, o)

BeatStep(w) == Beat(w) \/ RenewExecutes(w) \/ RenewReplies(w)

ErrorStep(w) == HandlerFails(w) \/ ClaimError(w) \/ DrainError(w) \/ ReleaseError(w) \/ RenewError(w)

Next ==
  \/ \E c \in Companion, k \in Key : Trigger(c, k) \/ TriggerLost(c, k) \/ Sweep(c, k)
  \/ \E w \in Loop : LoopStep(w) \/ BeatStep(w) \/ ErrorStep(w)
  \/ \E n \in Owner : Close(n) \/ Exit(n) \/ Crash(n) \/ Boot(n)
  \/ Tick

Spec == Init /\ [][Next]_vars

(***************************************************************************)
(* Fairness: a live process runs its callbacks, the database answers, the  *)
(* poll and the sweeps fire, time passes, and a dead node is restarted.    *)
(* Errors, crashes, shutdowns and triggers are never owed.                 *)
(***************************************************************************)
Fairness ==
  /\ \A w \in Loop : WF_vars(LoopStep(w)) /\ WF_vars(BeatStep(w))
  /\ \A c \in Companion, k \in Key : WF_vars(Sweep(c, k))
  /\ \A n \in Owner : WF_vars(Exit(n) \/ Boot(n))
  /\ WF_vars(Tick)

FairSpec == Spec /\ Fairness

-----------------------------------------------------------------------------
(* Safety *)

\* A recorded outcome is final: once a job row is done or failed, no drain
\* rewrites it, however late its fenced write arrives (markDone, markFailed).
JobFrozen(j) == jobs[j].status \in Terminal => jobs'[j] = jobs[j]

OutcomeFinal == [][\A j \in DOMAIN jobs : JobFrozen(j)]_vars

\* With prompt timers no two drains of one companion are both live, through
\* failed renewals, crashes and restarts: the heartbeat's guard stops a drain
\* before its lease lapses (drainCompanion).
OneLiveDrain ==
  \A v, w \in Loop : \A c \in Companion : LiveDrain(v, c) /\ LiveDrain(w, c) => v = w

-----------------------------------------------------------------------------
(* Liveness *)

\* Every pending row reaches a terminal status, through crashes of the node
\* that runs it, failed calls and coalescing (claim expiry and the poll).
JobSettles ==
  LET Unsettled(j) == j \in DOMAIN jobs /\ jobs[j].status = "pending"
  IN  \A j \in 1..MaxJobs : Unsettled(j) ~> ~Unsettled(j)

\* Every event of a swept type is eventually read by a handler run, though its
\* enqueue failed or collapsed on the row of a run that had read already.
EventuallySeen ==
  \A c \in Companion, k \in SweptKey : (k \in unseen[c]) ~> (k \notin unseen[c])

\* close() completes: a stopping process settles its loops and exits.
ShutdownSettles == \A n \in Owner : (node[n] = "stopping") ~> (node[n] = "down")
=============================================================================
