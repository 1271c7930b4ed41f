------------------------- MODULE JobProcessorProofs -------------------------
(***************************************************************************)
(* Theorems about JobProcessor, for every value of its constants.  The     *)
(* inductive invariant adds to the types what a drain knows of the row it  *)
(* runs: as long as the claim table still shows the drain's owner and      *)
(* generation, the row is still pending.                                   *)
(***************************************************************************)
EXTENDS JobRefinement, TLAPS

\* JOB_CONCURRENCY = 1: a claim's owner identifies the loop that holds it.
OneLoopPerNode == \A v, w \in Loop : NodeOf[v] = NodeOf[w] => v = w

\* From the claim to its release a loop holds a real claim.
HoldsClaim(w) == pc[w] \in Draining \cup {"release"} => held[w] \in Claim

\* The fence of the drain's terminal write would let it through.
FenceOpen(w) == ClaimStillHeld(held[w].companion, NodeOf[w], held[w].generation)

\* The row a drain runs is one of its companion's.
RunsOwnRow(w) ==
  pc[w] \in {"run", "ran", "mark"} =>
    /\ job[w] \in DOMAIN jobs
    /\ jobs[job[w]].companion = held[w].companion

\* The row a drain runs is pending as long as its fence is open.
FencedRowPending(w) ==
  pc[w] \in {"run", "ran", "mark"} /\ FenceOpen(w) => jobs[job[w]].status = "pending"

\* A write that is issued has an outcome to write.
HasOutcome(w) == pc[w] = "mark" => outcome[w] \in Terminal

DrainOK == \A w \in Loop : HoldsClaim(w) /\ RunsOwnRow(w) /\ HasOutcome(w)

TypeInv == TypeOK /\ DrainOK

FenceInv == \A w \in Loop : FencedRowPending(w)

-----------------------------------------------------------------------------
(* What the statements of the queue do to the tables *)

\* enqueue adds at most one row and changes none.
LEMMA EnqueueAppends ==
  ASSUME QueueTypeOK, NEW c \in Companion, NEW k \in Key, Enqueue(c, k)
  PROVE  /\ jobs' \in Seq(JobRow) /\ Len(jobs') <= MaxJobs
         /\ \A j \in DOMAIN jobs : j \in DOMAIN jobs' /\ jobs'[j] = jobs[j]
<1>1. CASE PendingOn(c, k) # {}
  BY <1>1 DEF Enqueue, QueueTypeOK
<1>2. CASE PendingOn(c, k) = {}
  <2> DEFINE row == [companion |-> c, key |-> k, status |-> "pending"]
  <2>1. row \in JobRow
    BY DEF JobRow
  <2>2. Len(jobs) < MaxJobs /\ jobs' = Append(jobs, row)
    BY <1>2 DEF Enqueue
  <2>3. MaxJobs \in Nat /\ jobs \in Seq(JobRow)
    BY QueueConstants DEF QueueTypeOK
  <2> QED
    BY <2>1, <2>2, <2>3
<1> QED
  BY <1>1, <1>2

\* markDone and markFailed change one status, and only under an open fence.
LEMMA MarkTerminalFenced ==
  ASSUME QueueTypeOK, NEW j \in DOMAIN jobs, NEW o \in Terminal,
         NEW c, NEW n, NEW g, MarkTerminal(j, o, c, n, g)
  PROVE  /\ jobs' \in Seq(JobRow) /\ Len(jobs') = Len(jobs) /\ DOMAIN jobs' = DOMAIN jobs
         /\ \A i \in DOMAIN jobs : /\ jobs'[i].companion = jobs[i].companion
                                   /\ jobs'[i] # jobs[i] => i = j /\ ClaimStillHeld(c, n, g)
<1>1. jobs \in Seq(JobRow)
  BY DEF QueueTypeOK
<1>2. CASE ClaimStillHeld(c, n, g)
  <2>1. jobs' = [jobs EXCEPT ![j].status = o]
    BY <1>2 DEF MarkTerminal
  <2>2. \A i \in DOMAIN jobs : jobs[i] \in JobRow
    BY <1>1
  <2>3. [jobs[j] EXCEPT !.status = o] \in JobRow
    BY <2>2 DEF JobRow
  <2>4. [jobs[j] EXCEPT !.status = o].companion = jobs[j].companion
    BY <2>2 DEF JobRow
  <2>5. jobs' = [jobs EXCEPT ![j] = [jobs[j] EXCEPT !.status = o]]
    BY <2>1
  <2> QED
    BY <1>1, <1>2, <2>3, <2>4, <2>5
<1>3. CASE ~ClaimStillHeld(c, n, g)
  BY <1>1, <1>3 DEF MarkTerminal, QueueTypeOK
<1> QED
  BY <1>2, <1>3

\* tryClaim leaves a claim row, releaseClaim a claim row or none.
LEMMA ClaimStatementsTyped ==
  ASSUME QueueTypeOK, NEW c \in Companion, NEW n \in Owner
  PROVE  /\ TryClaim(c, n) => claims' \in [Companion -> ClaimRow \cup {NoClaim}] /\ claims'[c] \in ClaimRow
         /\ ReleaseClaim(c, n) => claims' \in [Companion -> ClaimRow \cup {NoClaim}]
<1>1. /\ LeaseMs \in Nat /\ MaxGeneration \in Nat \ {0} /\ NoClaim \notin ClaimRow
      /\ claims \in [Companion -> ClaimRow \cup {NoClaim}]
  BY QueueConstants DEF QueueTypeOK, ClaimRow
<1>2. ASSUME TryClaim(c, n)
      PROVE  claims' \in [Companion -> ClaimRow \cup {NoClaim}] /\ claims'[c] \in ClaimRow
  <2> DEFINE g == IF claims[c] = NoClaim THEN 1 ELSE claims[c].generation + 1
             row == [owner |-> n, generation |-> g, left |-> LeaseMs]
  <2>1. g <= MaxGeneration /\ claims' = [claims EXCEPT ![c] = row]
    BY <1>2 DEF TryClaim
  <2>2. g \in 1..MaxGeneration
    BY <1>1, <2>1 DEF ClaimRow
  <2>3. row \in ClaimRow
    BY <1>1, <2>2 DEF ClaimRow
  <2> QED
    BY <1>1, <2>1, <2>3
<1>3. ASSUME ReleaseClaim(c, n)
      PROVE  claims' \in [Companion -> ClaimRow \cup {NoClaim}]
  BY <1>1, <1>3 DEF ReleaseClaim
<1> QED
  BY <1>2, <1>3

\* renewClaim keeps the table's type.
LEMMA RenewTyped ==
  ASSUME QueueTypeOK, NEW c, NEW n, RenewClaim(c, n)
  PROVE  claims' \in [Companion -> ClaimRow \cup {NoClaim}]
<1>1. CASE RenewHeld(c, n) /\ c \in Companion
  <2>1. claims[c] \in ClaimRow
    BY <1>1 DEF QueueTypeOK, RenewHeld, OwnedBy
  <2>2. [claims[c] EXCEPT !.left = LeaseMs] \in ClaimRow
    BY <2>1, QueueConstants DEF ClaimRow
  <2>3. claims' = [claims EXCEPT ![c] = [claims[c] EXCEPT !.left = LeaseMs]]
    BY <1>1 DEF RenewClaim
  <2> QED
    BY <2>2, <2>3 DEF QueueTypeOK
<1>2. CASE ~(RenewHeld(c, n) /\ c \in Companion)
  <2>1. claims' = claims
    BY <1>2 DEF RenewClaim, QueueTypeOK
  <2> QED
    BY <2>1 DEF QueueTypeOK
<1> QED
  BY <1>1, <1>2

\* The clock never takes a lease below zero.
LEMMA TickTyped ==
  ASSUME QueueTypeOK, LeaseTick
  PROVE  claims' \in [Companion -> ClaimRow \cup {NoClaim}]
<1>1. \A d \in Companion :
        claims[d] # NoClaim /\ claims[d].left > 0 => [claims[d] EXCEPT !.left = @ - 1] \in ClaimRow
  BY QueueConstants DEF QueueTypeOK, ClaimRow
<1> QED
  BY <1>1 DEF QueueTypeOK, LeaseTick

\* A job's number is within the bound on the table.
LEMMA RowsBounded ==
  ASSUME QueueTypeOK
  PROVE  DOMAIN jobs \subseteq 1..MaxJobs
<1>1. Len(jobs) \in Nat /\ DOMAIN jobs = 1..Len(jobs) /\ Len(jobs) <= MaxJobs
  BY DEF QueueTypeOK
<1> QED
  BY <1>1, QueueConstants

-----------------------------------------------------------------------------
(* Type correctness *)

\* The initial tables and idle loops satisfy the typing invariant.
THEOREM InitTyped == Init => TypeInv
BY QueueConstants, ProcessorConstants
   DEF Init, QueueInit, TypeInv, TypeOK, QueueTypeOK, LoopTypeOK, BeatTypeOK, EnvTypeOK, DrainOK,
       HoldsClaim, RunsOwnRow, HasOutcome, PC, Draining, NoClaimHeld

\* Every step of every loop, timer, trigger and process keeps it.
LEMMA TypedStep ==
  ASSUME TypeInv, [Next]_vars
  PROVE  TypeInv'
<1> USE QueueConstants, ProcessorConstants
    DEF TypeInv, TypeOK, Goto, PC, Draining, queueVars, loopVars, beatVars, envVars
<1>1. ASSUME NEW c \in Companion, NEW k \in Key, Trigger(c, k) PROVE TypeInv'
  <2>1. QueueTypeOK'
    BY <1>1, EnqueueAppends DEF Trigger, QueueTypeOK, Claim
  <2>2. EnvTypeOK'
    BY <1>1 DEF Trigger, EnvTypeOK
  <2>3. DrainOK'
    BY <1>1, EnqueueAppends DEF Trigger, DrainOK, HoldsClaim, RunsOwnRow, HasOutcome, Claim
  <2>4. LoopTypeOK' /\ BeatTypeOK'
    BY <1>1 DEF Trigger, LoopTypeOK, BeatTypeOK
  <2> QED
    BY <2>1, <2>2, <2>3, <2>4
<1>2. ASSUME NEW c \in Companion, NEW k \in Key, TriggerLost(c, k) PROVE TypeInv'
  <2>1. EnvTypeOK'
    BY <1>2 DEF TriggerLost, Fails, EnvTypeOK
  <2>2. QueueTypeOK' /\ LoopTypeOK' /\ BeatTypeOK' /\ DrainOK'
    BY <1>2
       DEF TriggerLost, Fails, QueueTypeOK, LoopTypeOK, BeatTypeOK, DrainOK, HoldsClaim,
           RunsOwnRow, HasOutcome
  <2> QED
    BY <2>1, <2>2
<1>3. ASSUME NEW c \in Companion, NEW k \in Key, Sweep(c, k) PROVE TypeInv'
  <2>1. QueueTypeOK'
    BY <1>3, EnqueueAppends DEF Sweep, QueueTypeOK, Claim
  <2>2. DrainOK'
    BY <1>3, EnqueueAppends DEF Sweep, DrainOK, HoldsClaim, RunsOwnRow, HasOutcome, Claim
  <2>3. LoopTypeOK' /\ BeatTypeOK' /\ EnvTypeOK'
    BY <1>3 DEF Sweep, LoopTypeOK, BeatTypeOK, EnvTypeOK
  <2> QED
    BY <2>1, <2>2, <2>3
<1>4. ASSUME NEW w \in Loop, Nudge(w) PROVE TypeInv'
  <2>1. LoopTypeOK'
    BY <1>4 DEF Nudge, LoopTypeOK, Claim
  <2>2. DrainOK'
    BY <1>4 DEF Nudge, DrainOK, HoldsClaim, RunsOwnRow, HasOutcome, LoopTypeOK, Claim
  <2>3. QueueTypeOK' /\ BeatTypeOK' /\ EnvTypeOK'
    BY <1>4 DEF Nudge, QueueTypeOK, BeatTypeOK, EnvTypeOK
  <2> QED
    BY <2>1, <2>2, <2>3
<1>5. ASSUME NEW w \in Loop, QueryCandidates(w) PROVE TypeInv'
  <2>1. LoopTypeOK'
    <3>1. Candidates \in SUBSET [companion : Companion, oldest : 1..MaxJobs]
      BY RowsBounded DEF Candidates, Eligible
    <3> QED
      BY <1>5, <3>1 DEF QueryCandidates, LoopTypeOK
  <2>2. DrainOK'
    BY <1>5 DEF QueryCandidates, DrainOK, HoldsClaim, RunsOwnRow, HasOutcome, LoopTypeOK, Claim
  <2>3. QueueTypeOK' /\ BeatTypeOK' /\ EnvTypeOK'
    BY <1>5 DEF QueryCandidates, QueueTypeOK, BeatTypeOK, EnvTypeOK
  <2> QED
    BY <2>1, <2>2, <2>3
<1>6. ASSUME NEW w \in Loop, ClaimNext(w) PROVE TypeInv'
  <2>1. QueueTypeOK'
    BY <1>6, ClaimStatementsTyped
       DEF ClaimNext, QueueTypeOK, LoopTypeOK, Claim, DrainOK, HoldsClaim, RunsOwnRow, HasOutcome
  <2>2. LoopTypeOK'
    BY <1>6, ClaimStatementsTyped DEF ClaimNext, LoopTypeOK, ClaimRow, Claim
  <2>3. BeatTypeOK'
    BY <1>6 DEF ClaimNext, BeatTypeOK, LoopTypeOK
  <2>4. DrainOK'
    BY <1>6, ClaimStatementsTyped
       DEF ClaimNext, DrainOK, HoldsClaim, RunsOwnRow, HasOutcome, ClaimRow, LoopTypeOK, Claim
  <2>5. EnvTypeOK'
    BY <1>6 DEF ClaimNext, EnvTypeOK
  <2> QED
    BY <2>1, <2>2, <2>3, <2>4, <2>5
<1>7. ASSUME NEW w \in Loop, NextDueJob(w) PROVE TypeInv'
  <2>1. LoopTypeOK'
    <3>1. \A c : Pending(c) \subseteq 0..MaxJobs
      BY RowsBounded DEF Pending
    <3> QED
      BY <1>7, <3>1 DEF NextDueJob, LoopTypeOK
  <2>2. DrainOK'
    BY <1>7
       DEF NextDueJob, DrainOK, HoldsClaim, RunsOwnRow, HasOutcome, Pending, QueueTypeOK,
           LoopTypeOK, Claim
  <2>3. QueueTypeOK' /\ BeatTypeOK' /\ EnvTypeOK'
    BY <1>7 DEF NextDueJob, QueueTypeOK, BeatTypeOK, EnvTypeOK
  <2> QED
    BY <2>1, <2>2, <2>3
<1>8. ASSUME NEW w \in Loop, HandlerRead(w) PROVE TypeInv'
  <2>1. LoopTypeOK'
    BY <1>8 DEF HandlerRead, LoopTypeOK, Claim
  <2>2. EnvTypeOK'
    BY <1>8 DEF HandlerRead, EnvTypeOK
  <2>3. DrainOK'
    BY <1>8 DEF HandlerRead, DrainOK, HoldsClaim, RunsOwnRow, HasOutcome, LoopTypeOK, Claim
  <2>4. QueueTypeOK' /\ BeatTypeOK'
    BY <1>8 DEF HandlerRead, QueueTypeOK, BeatTypeOK
  <2> QED
    BY <2>1, <2>2, <2>3, <2>4
<1>9. ASSUME NEW w \in Loop, NEW o \in Terminal, HandlerSettles(w, o) PROVE TypeInv'
  <2>1. LoopTypeOK'
    BY <1>9 DEF HandlerSettles, Settle, LoopTypeOK, Claim
  <2>2. DrainOK'
    BY <1>9
       DEF HandlerSettles, Settle, DrainOK, HoldsClaim, RunsOwnRow, HasOutcome, LoopTypeOK, Claim
  <2>3. QueueTypeOK' /\ BeatTypeOK' /\ EnvTypeOK'
    BY <1>9 DEF HandlerSettles, Settle, QueueTypeOK, BeatTypeOK, EnvTypeOK
  <2> QED
    BY <2>1, <2>2, <2>3
<1>10. ASSUME NEW w \in Loop, HandlerFails(w) PROVE TypeInv'
  <2>1. LoopTypeOK'
    BY <1>10 DEF HandlerFails, Settle, Fails, LoopTypeOK, Terminal, Claim
  <2>2. EnvTypeOK'
    BY <1>10 DEF HandlerFails, Settle, Fails, EnvTypeOK
  <2>3. DrainOK'
    BY <1>10
       DEF HandlerFails, Settle, Fails, DrainOK, HoldsClaim, RunsOwnRow, HasOutcome, Terminal,
           LoopTypeOK, Claim
  <2>4. QueueTypeOK' /\ BeatTypeOK'
    BY <1>10 DEF HandlerFails, Settle, Fails, QueueTypeOK, BeatTypeOK
  <2> QED
    BY <2>1, <2>2, <2>3, <2>4
<1>11. ASSUME NEW w \in Loop, Mark(w) PROVE TypeInv'
  <2>1. QueueTypeOK'
    BY <1>11, MarkTerminalFenced
       DEF Mark, QueueTypeOK, LoopTypeOK, Claim, DrainOK, HoldsClaim, RunsOwnRow, HasOutcome
  <2>2. LoopTypeOK'
    BY <1>11 DEF Mark, LoopTypeOK, Claim
  <2>3. DrainOK'
    BY <1>11, MarkTerminalFenced
       DEF Mark, DrainOK, HoldsClaim, RunsOwnRow, HasOutcome, LoopTypeOK, Claim
  <2>4. BeatTypeOK' /\ EnvTypeOK'
    BY <1>11 DEF Mark, BeatTypeOK, EnvTypeOK
  <2> QED
    BY <2>1, <2>2, <2>3, <2>4
<1>12. ASSUME NEW w \in Loop, BetweenJobs(w) PROVE TypeInv'
  <2>1. QueueTypeOK'
    BY <1>12, RenewTyped
       DEF BetweenJobs, QueueTypeOK, LoopTypeOK, Claim, DrainOK, HoldsClaim, RunsOwnRow, HasOutcome
  <2>2. LoopTypeOK'
    BY <1>12 DEF BetweenJobs, LoopTypeOK, Claim
  <2>3. BeatTypeOK'
    BY <1>12 DEF BetweenJobs, BeatTypeOK, LoopTypeOK
  <2>4. DrainOK'
    BY <1>12 DEF BetweenJobs, DrainOK, HoldsClaim, RunsOwnRow, HasOutcome, LoopTypeOK, Claim
  <2>5. EnvTypeOK'
    BY <1>12 DEF BetweenJobs, EnvTypeOK
  <2> QED
    BY <2>1, <2>2, <2>3, <2>4, <2>5
<1>13. ASSUME NEW w \in Loop, Release(w) PROVE TypeInv'
  <2>1. QueueTypeOK'
    BY <1>13, ClaimStatementsTyped
       DEF Release, ForgetDrain, NoClaimHeld, QueueTypeOK, LoopTypeOK, Claim, DrainOK, HoldsClaim,
           RunsOwnRow, HasOutcome
  <2>2. LoopTypeOK'
    BY <1>13 DEF Release, ForgetDrain, NoClaimHeld, LoopTypeOK, Claim
  <2>3. BeatTypeOK'
    BY <1>13 DEF Release, ForgetDrain, NoClaimHeld, BeatTypeOK, LoopTypeOK
  <2>4. DrainOK'
    BY <1>13
       DEF Release, ForgetDrain, NoClaimHeld, DrainOK, HoldsClaim, RunsOwnRow, HasOutcome,
           LoopTypeOK, Claim
  <2>5. EnvTypeOK'
    BY <1>13 DEF Release, ForgetDrain, NoClaimHeld, EnvTypeOK
  <2> QED
    BY <2>1, <2>2, <2>3, <2>4, <2>5
<1>14. ASSUME NEW w \in Loop, ClaimError(w) PROVE TypeInv'
  <2>1. LoopTypeOK'
    BY <1>14 DEF ClaimError, Fails, LoopTypeOK, Claim
  <2>2. EnvTypeOK'
    BY <1>14 DEF ClaimError, Fails, EnvTypeOK
  <2>3. DrainOK'
    BY <1>14 DEF ClaimError, Fails, DrainOK, HoldsClaim, RunsOwnRow, HasOutcome, LoopTypeOK, Claim
  <2>4. QueueTypeOK' /\ BeatTypeOK'
    BY <1>14 DEF ClaimError, Fails, QueueTypeOK, BeatTypeOK
  <2> QED
    BY <2>1, <2>2, <2>3, <2>4
<1>15. ASSUME NEW w \in Loop, DrainError(w) PROVE TypeInv'
  <2>1. QueueTypeOK'
    BY <1>15, MarkTerminalFenced
       DEF DrainError, Fails, QueueTypeOK, LoopTypeOK, Claim, DrainOK, HoldsClaim, RunsOwnRow,
           HasOutcome
  <2>2. LoopTypeOK'
    BY <1>15 DEF DrainError, Fails, LoopTypeOK, Claim
  <2>3. EnvTypeOK'
    BY <1>15 DEF DrainError, Fails, EnvTypeOK
  <2>4. DrainOK'
    BY <1>15, MarkTerminalFenced
       DEF DrainError, Fails, DrainOK, HoldsClaim, RunsOwnRow, HasOutcome, LoopTypeOK, Claim
  <2>5. BeatTypeOK'
    BY <1>15 DEF DrainError, Fails, BeatTypeOK
  <2> QED
    BY <2>1, <2>2, <2>3, <2>4, <2>5
<1>16. ASSUME NEW w \in Loop, ReleaseError(w) PROVE TypeInv'
  <2>1. LoopTypeOK'
    BY <1>16 DEF ReleaseError, Fails, ForgetDrain, NoClaimHeld, LoopTypeOK, Claim
  <2>2. BeatTypeOK'
    BY <1>16 DEF ReleaseError, Fails, ForgetDrain, NoClaimHeld, BeatTypeOK, LoopTypeOK
  <2>3. EnvTypeOK'
    BY <1>16 DEF ReleaseError, Fails, ForgetDrain, NoClaimHeld, EnvTypeOK
  <2>4. DrainOK'
    BY <1>16
       DEF ReleaseError, Fails, ForgetDrain, NoClaimHeld, DrainOK, HoldsClaim, RunsOwnRow,
           HasOutcome, LoopTypeOK, Claim
  <2>5. QueueTypeOK'
    BY <1>16 DEF ReleaseError, Fails, ForgetDrain, NoClaimHeld, QueueTypeOK
  <2> QED
    BY <2>1, <2>2, <2>3, <2>4, <2>5
<1>17. ASSUME NEW w \in Loop, Beat(w) PROVE TypeInv'
  <2>1. BeatTypeOK'
    <3>1. aborted' \in [Loop -> BOOLEAN]
      BY <1>17 DEF Beat, BeatTypeOK
    <3>2. renewal' \in [Loop -> {"none", "sent", "held", "lost"}]
      BY <1>17 DEF Beat, BeatTypeOK
    <3> QED
      BY <1>17, <3>1, <3>2 DEF Beat, BeatTypeOK
  <2>2. QueueTypeOK' /\ LoopTypeOK' /\ EnvTypeOK' /\ DrainOK'
    BY <1>17
       DEF Beat, QueueTypeOK, LoopTypeOK, EnvTypeOK, DrainOK, HoldsClaim, RunsOwnRow, HasOutcome
  <2> QED
    BY <2>1, <2>2
<1>18. ASSUME NEW w \in Loop, RenewExecutes(w) PROVE TypeInv'
  <2>1. QueueTypeOK'
    BY <1>18, RenewTyped DEF RenewExecutes, QueueTypeOK
  <2>2. BeatTypeOK'
    BY <1>18 DEF RenewExecutes, BeatTypeOK, LoopTypeOK
  <2>3. LoopTypeOK' /\ EnvTypeOK' /\ DrainOK'
    BY <1>18 DEF RenewExecutes, LoopTypeOK, EnvTypeOK, DrainOK, HoldsClaim, RunsOwnRow, HasOutcome
  <2> QED
    BY <2>1, <2>2, <2>3
<1>19. ASSUME NEW w \in Loop, RenewReplies(w) PROVE TypeInv'
  <2>1. BeatTypeOK'
    <3>1. aborted' \in [Loop -> BOOLEAN]
      BY <1>19 DEF RenewReplies, BeatTypeOK
    <3>2. elapsed' \in [Loop -> 0..LeaseMs]
      BY <1>19 DEF RenewReplies, BeatTypeOK
    <3>3. renewal' \in [Loop -> {"none", "sent", "held", "lost"}]
      BY <1>19 DEF RenewReplies, BeatTypeOK
    <3> QED
      BY <1>19, <3>1, <3>2, <3>3 DEF RenewReplies, BeatTypeOK
  <2>2. QueueTypeOK' /\ LoopTypeOK' /\ EnvTypeOK' /\ DrainOK'
    BY <1>19
       DEF RenewReplies, QueueTypeOK, LoopTypeOK, EnvTypeOK, DrainOK, HoldsClaim, RunsOwnRow,
           HasOutcome
  <2> QED
    BY <2>1, <2>2
<1>20. ASSUME NEW w \in Loop, RenewError(w) PROVE TypeInv'
  <2>1. BeatTypeOK'
    BY <1>20 DEF RenewError, Fails, BeatTypeOK, LoopTypeOK
  <2>2. EnvTypeOK'
    BY <1>20 DEF RenewError, Fails, EnvTypeOK
  <2>3. QueueTypeOK' /\ LoopTypeOK' /\ DrainOK'
    BY <1>20
       DEF RenewError, Fails, QueueTypeOK, LoopTypeOK, DrainOK, HoldsClaim, RunsOwnRow, HasOutcome
  <2> QED
    BY <2>1, <2>2, <2>3
<1>21. ASSUME NEW n \in Owner, Close(n) PROVE TypeInv'
  <2>1. EnvTypeOK'
    BY <1>21 DEF Close, EnvTypeOK
  <2>2. QueueTypeOK' /\ LoopTypeOK' /\ BeatTypeOK' /\ DrainOK'
    BY <1>21
       DEF Close, QueueTypeOK, LoopTypeOK, BeatTypeOK, DrainOK, HoldsClaim, RunsOwnRow, HasOutcome
  <2> QED
    BY <2>1, <2>2
<1>22. ASSUME NEW n \in Owner, Exit(n) PROVE TypeInv'
  <2>1. EnvTypeOK'
    BY <1>22 DEF Exit, EnvTypeOK
  <2>2. QueueTypeOK' /\ LoopTypeOK' /\ BeatTypeOK' /\ DrainOK'
    BY <1>22
       DEF Exit, QueueTypeOK, LoopTypeOK, BeatTypeOK, DrainOK, HoldsClaim, RunsOwnRow, HasOutcome
  <2> QED
    BY <2>1, <2>2
<1>23. ASSUME NEW n \in Owner, Crash(n) PROVE TypeInv'
  <2>1. LoopTypeOK'
    BY <1>23 DEF Crash, NoClaimHeld, LoopTypeOK, Claim
  <2>2. BeatTypeOK'
    <3>1. aborted' \in [Loop -> BOOLEAN]
      BY <1>23, Zenon DEF Crash, BeatTypeOK
    <3>2. elapsed' \in [Loop -> 0..LeaseMs] /\ beatIn' \in [Loop -> 0..HeartbeatMs]
      BY <1>23 DEF Crash, BeatTypeOK
    <3>3. renewal' \in [Loop -> {"none", "sent", "held", "lost"}]
      BY <1>23 DEF Crash, BeatTypeOK
    <3> QED
      BY <3>1, <3>2, <3>3 DEF BeatTypeOK
  <2>3. EnvTypeOK'
    BY <1>23 DEF Crash, NoClaimHeld, EnvTypeOK
  <2>4. DrainOK'
    BY <1>23 DEF Crash, NoClaimHeld, DrainOK, HoldsClaim, RunsOwnRow, HasOutcome, LoopTypeOK, Claim
  <2>5. QueueTypeOK'
    BY <1>23 DEF Crash, NoClaimHeld, QueueTypeOK
  <2> QED
    BY <2>1, <2>2, <2>3, <2>4, <2>5
<1>24. ASSUME NEW n \in Owner, Boot(n) PROVE TypeInv'
  <2>1. EnvTypeOK'
    BY <1>24 DEF Boot, EnvTypeOK
  <2>2. QueueTypeOK' /\ LoopTypeOK' /\ BeatTypeOK' /\ DrainOK'
    BY <1>24
       DEF Boot, QueueTypeOK, LoopTypeOK, BeatTypeOK, DrainOK, HoldsClaim, RunsOwnRow, HasOutcome
  <2> QED
    BY <2>1, <2>2
<1>25. ASSUME Tick PROVE TypeInv'
  <2>1. QueueTypeOK'
    BY <1>25, TickTyped DEF Tick, QueueTypeOK
  <2>2. BeatTypeOK'
    BY <1>25 DEF Tick, BeatTypeOK
  <2>3. LoopTypeOK' /\ EnvTypeOK' /\ DrainOK'
    BY <1>25 DEF Tick, LoopTypeOK, EnvTypeOK, DrainOK, HoldsClaim, RunsOwnRow, HasOutcome
  <2> QED
    BY <2>1, <2>2, <2>3
<1>26. ASSUME UNCHANGED vars PROVE TypeInv'
  BY <1>26
     DEF vars, QueueTypeOK, LoopTypeOK, BeatTypeOK, EnvTypeOK, DrainOK, HoldsClaim, RunsOwnRow,
         HasOutcome
<1> QED
  BY <1>1, <1>2, <1>3, <1>4, <1>5, <1>6, <1>7, <1>8, <1>9, <1>10, <1>11, <1>12, <1>13, <1>14,
     <1>15, <1>16, <1>17, <1>18, <1>19, <1>20, <1>21, <1>22, <1>23, <1>24, <1>25, <1>26
     DEF Next, LoopStep, BeatStep, ErrorStep
-----------------------------------------------------------------------------
(* The fence *)

\* A new claim is the claimer's own; renewing and the clock touch no owner and
\* no generation.
LEMMA FenceOpensForClaimerOnly ==
  ASSUME QueueTypeOK, NEW c \in Companion, NEW n \in Owner, TryClaim(c, n),
         NEW d \in Companion, NEW o, NEW g, ClaimStillHeld(d, o, g)'
  PROVE  ClaimStillHeld(d, o, g) \/ o = n
BY DEF QueueTypeOK, TryClaim, ClaimStillHeld, OwnedBy

\* A renewal and a tick of the clock leave every owner and generation alone.
LEMMA RenewalOpensNoFence ==
  ASSUME QueueTypeOK, NEW c, NEW n, RenewClaim(c, n) \/ LeaseTick,
         NEW d \in Companion, NEW o, NEW g, ClaimStillHeld(d, o, g)'
  PROVE  ClaimStillHeld(d, o, g)
<1>1. claims[d] # NoClaim => claims[d] \in ClaimRow
  BY DEF QueueTypeOK
<1>2. CASE RenewClaim(c, n)
  <2>1. CASE claims'[d] = claims[d]
    BY <2>1 DEF ClaimStillHeld, OwnedBy
  <2>2. CASE claims'[d] # claims[d]
    <3>1. RenewHeld(c, n) /\ d = c /\ claims'[d] = [claims[d] EXCEPT !.left = LeaseMs]
      BY <1>2, <2>2 DEF RenewClaim, QueueTypeOK
    <3>2. claims[d] \in ClaimRow
      BY <1>1, <3>1 DEF RenewHeld, OwnedBy
    <3>3. claims'[d].owner = claims[d].owner /\ claims'[d].generation = claims[d].generation
      BY <3>1, <3>2 DEF ClaimRow
    <3> QED
      BY <3>1, <3>3 DEF ClaimStillHeld, OwnedBy, RenewHeld
  <2> QED
    BY <2>1, <2>2
<1>3. CASE LeaseTick
  <2>1. claims[d] # NoClaim
    BY <1>3 DEF LeaseTick, ClaimStillHeld, OwnedBy
  <2>2. claims'[d].owner = claims[d].owner /\ claims'[d].generation = claims[d].generation
    BY <1>1, <1>3, <2>1 DEF LeaseTick, ClaimRow
  <2> QED
    BY <2>1, <2>2 DEF ClaimStillHeld, OwnedBy
<1> QED
  BY <1>2, <1>3

\* The row a drain runs stays pending while the drain's fence is open: a row
\* becomes terminal under the fence of one drain only.
LEMMA FenceStep ==
  ASSUME OneLoopPerNode, TypeInv, FenceInv, [Next]_vars
  PROVE  FenceInv'
<1> SUFFICES ASSUME NEW v \in Loop PROVE FencedRowPending(v)'
  BY DEF FenceInv
<1> USE DEF TypeInv
<1>1. ASSUME NEW c \in Companion, NEW k \in Key, Trigger(c, k) PROVE FencedRowPending(v)'
  BY <1>1, EnqueueAppends
     DEF Trigger, TypeOK, DrainOK, RunsOwnRow, loopVars, FenceInv, FencedRowPending, FenceOpen,
         ClaimStillHeld, OwnedBy
<1>2. ASSUME NEW c \in Companion, NEW k \in Key, TriggerLost(c, k) PROVE FencedRowPending(v)'
  BY <1>2
     DEF TriggerLost, Fails, queueVars, loopVars, FenceInv, FencedRowPending, FenceOpen,
         ClaimStillHeld, OwnedBy
<1>3. ASSUME NEW c \in Companion, NEW k \in Key, Sweep(c, k) PROVE FencedRowPending(v)'
  BY <1>3, EnqueueAppends
     DEF Sweep, TypeOK, DrainOK, RunsOwnRow, loopVars, FenceInv, FencedRowPending, FenceOpen,
         ClaimStillHeld, OwnedBy
<1>4. ASSUME NEW w \in Loop, Nudge(w) PROVE FencedRowPending(v)'
  BY <1>4
     DEF Nudge, Goto, queueVars, TypeOK, LoopTypeOK, FenceInv, FencedRowPending, FenceOpen,
         ClaimStillHeld, OwnedBy
<1>5. ASSUME NEW w \in Loop, QueryCandidates(w) PROVE FencedRowPending(v)'
  BY <1>5
     DEF QueryCandidates, Goto, queueVars, TypeOK, LoopTypeOK, FenceInv, FencedRowPending,
         FenceOpen, ClaimStillHeld, OwnedBy
<1>6. ASSUME NEW w \in Loop, ClaimNext(w) PROVE FencedRowPending(v)'
  <2>1. pc[v] \in {"run", "ran", "mark"} => held[v].companion \in Companion
    BY DEF DrainOK, HoldsClaim, Draining, Claim
  <2>2. CASE v = w
    BY <1>6, <2>2 DEF ClaimNext, Goto, FencedRowPending, TypeOK, LoopTypeOK
  <2>3. CASE v # w
    <3>1. NodeOf[v] # NodeOf[w] /\ NodeOf[w] \in Owner
      BY <2>3, OneLoopPerNode, ProcessorConstants DEF OneLoopPerNode
    <3>2. /\ pc'[v] = pc[v] /\ held'[v] = held[v] /\ job' = job /\ jobs' = jobs
          /\ claims' = claims \/ \E c \in Companion : TryClaim(c, NodeOf[w])
      BY <1>6, <2>3 DEF ClaimNext, Goto, TypeOK, LoopTypeOK
    <3>3. pc[v] \in {"run", "ran", "mark"} /\ FenceOpen(v)' => FenceOpen(v)
      BY <2>1, <3>1, <3>2, FenceOpensForClaimerOnly DEF FenceOpen, ClaimStillHeld, OwnedBy, TypeOK
    <3> QED
      BY <3>2, <3>3 DEF FenceInv, FencedRowPending
  <2> QED
    BY <2>2, <2>3
<1>7. ASSUME NEW w \in Loop, NextDueJob(w) PROVE FencedRowPending(v)'
  BY <1>7
     DEF NextDueJob, Goto, queueVars, TypeOK, LoopTypeOK, Pending, FenceInv, FencedRowPending,
         FenceOpen, ClaimStillHeld, OwnedBy
<1>8. ASSUME NEW w \in Loop, HandlerRead(w) PROVE FencedRowPending(v)'
  BY <1>8
     DEF HandlerRead, Goto, queueVars, TypeOK, LoopTypeOK, FenceInv, FencedRowPending, FenceOpen,
         ClaimStillHeld, OwnedBy
<1>9. ASSUME NEW w \in Loop, NEW o \in Terminal, HandlerSettles(w, o) PROVE FencedRowPending(v)'
  BY <1>9
     DEF HandlerSettles, Settle, Goto, queueVars, TypeOK, LoopTypeOK, FenceInv, FencedRowPending,
         FenceOpen, ClaimStillHeld, OwnedBy
<1>10. ASSUME NEW w \in Loop, HandlerFails(w) PROVE FencedRowPending(v)'
  BY <1>10
     DEF HandlerFails, Settle, Goto, queueVars, TypeOK, LoopTypeOK, FenceInv, FencedRowPending,
         FenceOpen, ClaimStillHeld, OwnedBy
<1>11. ASSUME NEW w \in Loop, Mark(w) PROVE FencedRowPending(v)'
  BY <1>11, MarkTerminalFenced
     DEF Mark, Goto, TypeOK, LoopTypeOK, DrainOK, RunsOwnRow, HasOutcome, FenceInv,
         FencedRowPending, FenceOpen, ClaimStillHeld, OwnedBy, OneLoopPerNode
<1>12. ASSUME NEW w \in Loop, BetweenJobs(w) PROVE FencedRowPending(v)'
  <2>1. pc[v] \in {"run", "ran", "mark"} => held[v].companion \in Companion
    BY DEF DrainOK, HoldsClaim, Draining, Claim
  <2>2. /\ pc'[v] \in {"run", "ran", "mark"} => pc[v] \in {"run", "ran", "mark"}
        /\ held' = held /\ job' = job /\ jobs' = jobs
        /\ UNCHANGED claims \/ RenewClaim(held[w].companion, NodeOf[w])
    BY <1>12 DEF BetweenJobs, Goto, TypeOK, LoopTypeOK
  <2>3. pc[v] \in {"run", "ran", "mark"} /\ FenceOpen(v)' => FenceOpen(v)
    BY <2>1, <2>2, RenewalOpensNoFence DEF FenceOpen, ClaimStillHeld, OwnedBy, TypeOK
  <2> QED
    BY <2>2, <2>3 DEF FenceInv, FencedRowPending
<1>13. ASSUME NEW w \in Loop, Release(w) PROVE FencedRowPending(v)'
  BY <1>13
     DEF Release, Goto, ForgetDrain, TypeOK, LoopTypeOK, ReleaseClaim, QueueTypeOK, FenceInv,
         FencedRowPending, FenceOpen, ClaimStillHeld, OwnedBy
<1>14. ASSUME NEW w \in Loop, ClaimError(w) PROVE FencedRowPending(v)'
  BY <1>14
     DEF ClaimError, Goto, queueVars, TypeOK, LoopTypeOK, FenceInv, FencedRowPending, FenceOpen,
         ClaimStillHeld, OwnedBy
<1>15. ASSUME NEW w \in Loop, DrainError(w) PROVE FencedRowPending(v)'
  BY SMTT(30), <1>15, MarkTerminalFenced
     DEF DrainError, Goto, TypeOK, LoopTypeOK, DrainOK, RunsOwnRow, HasOutcome, FenceInv,
         FencedRowPending, FenceOpen, ClaimStillHeld, OwnedBy, OneLoopPerNode
<1>16. ASSUME NEW w \in Loop, ReleaseError(w) PROVE FencedRowPending(v)'
  BY <1>16
     DEF ReleaseError, Goto, ForgetDrain, queueVars, TypeOK, LoopTypeOK, FenceInv,
         FencedRowPending, FenceOpen, ClaimStillHeld, OwnedBy
<1>17. ASSUME NEW w \in Loop, Beat(w) PROVE FencedRowPending(v)'
  BY <1>17
     DEF Beat, queueVars, loopVars, FenceInv, FencedRowPending, FenceOpen, ClaimStillHeld, OwnedBy
<1>18. ASSUME NEW w \in Loop, RenewExecutes(w) PROVE FencedRowPending(v)'
  <2>1. pc[v] \in {"run", "ran", "mark"} => held[v].companion \in Companion
    BY DEF DrainOK, HoldsClaim, Draining, Claim
  <2>2. /\ pc' = pc /\ held' = held /\ job' = job /\ jobs' = jobs
        /\ RenewClaim(held[w].companion, NodeOf[w])
    BY <1>18 DEF RenewExecutes, loopVars
  <2>3. pc[v] \in {"run", "ran", "mark"} /\ FenceOpen(v)' => FenceOpen(v)
    BY <2>1, <2>2, RenewalOpensNoFence DEF FenceOpen, TypeOK
  <2> QED
    BY <2>2, <2>3 DEF FenceInv, FencedRowPending
<1>19. ASSUME NEW w \in Loop, RenewReplies(w) PROVE FencedRowPending(v)'
  BY <1>19
     DEF RenewReplies, queueVars, loopVars, FenceInv, FencedRowPending, FenceOpen, ClaimStillHeld,
         OwnedBy
<1>20. ASSUME NEW w \in Loop, RenewError(w) PROVE FencedRowPending(v)'
  BY <1>20
     DEF RenewError, queueVars, loopVars, FenceInv, FencedRowPending, FenceOpen, ClaimStillHeld,
         OwnedBy
<1>21. ASSUME NEW n \in Owner, Close(n) PROVE FencedRowPending(v)'
  BY <1>21
     DEF Close, queueVars, loopVars, FenceInv, FencedRowPending, FenceOpen, ClaimStillHeld, OwnedBy
<1>22. ASSUME NEW n \in Owner, Exit(n) PROVE FencedRowPending(v)'
  BY <1>22
     DEF Exit, queueVars, loopVars, FenceInv, FencedRowPending, FenceOpen, ClaimStillHeld, OwnedBy
<1>23. ASSUME NEW n \in Owner, Crash(n) PROVE FencedRowPending(v)'
  BY <1>23
     DEF Crash, queueVars, TypeOK, LoopTypeOK, FenceInv, FencedRowPending, FenceOpen,
         ClaimStillHeld, OwnedBy
<1>24. ASSUME NEW n \in Owner, Boot(n) PROVE FencedRowPending(v)'
  BY <1>24
     DEF Boot, queueVars, loopVars, FenceInv, FencedRowPending, FenceOpen, ClaimStillHeld, OwnedBy
<1>25. ASSUME Tick PROVE FencedRowPending(v)'
  <2>1. pc[v] \in {"run", "ran", "mark"} => held[v].companion \in Companion
    BY DEF DrainOK, HoldsClaim, Draining, Claim
  <2>2. pc' = pc /\ held' = held /\ job' = job /\ jobs' = jobs /\ LeaseTick
    BY <1>25 DEF Tick, loopVars
  <2>3. pc[v] \in {"run", "ran", "mark"} /\ FenceOpen(v)' => FenceOpen(v)
    BY <2>1, <2>2, RenewalOpensNoFence DEF FenceOpen, TypeOK
  <2> QED
    BY <2>2, <2>3 DEF FenceInv, FencedRowPending
<1>26. ASSUME UNCHANGED vars PROVE FencedRowPending(v)'
  BY <1>26
     DEF vars, queueVars, loopVars, FenceInv, FencedRowPending, FenceOpen, ClaimStillHeld, OwnedBy
<1> QED
  BY <1>1, <1>2, <1>3, <1>4, <1>5, <1>6, <1>7, <1>8, <1>9, <1>10, <1>11, <1>12, <1>13, <1>14,
     <1>15, <1>16, <1>17, <1>18, <1>19, <1>20, <1>21, <1>22, <1>23, <1>24, <1>25, <1>26
     DEF Next, LoopStep, BeatStep, ErrorStep

\* Whoever writes a row that is already terminal is fenced out.
LEMMA FrozenStep ==
  ASSUME OneLoopPerNode, TypeInv, FenceInv, [Next]_vars
  PROVE  [\A j \in DOMAIN jobs : JobFrozen(j)]_vars
<1> USE DEF TypeInv, JobFrozen
<1>1. ASSUME NEW w \in Loop, NEW o \in Terminal, pc[w] = "mark",
             MarkTerminal(job[w], o, held[w].companion, NodeOf[w], held[w].generation)
      PROVE  \A j \in DOMAIN jobs : JobFrozen(j)
  <2>1. job[w] \in DOMAIN jobs /\ (FenceOpen(w) => jobs[job[w]].status = "pending")
    BY <1>1 DEF DrainOK, RunsOwnRow, FenceInv, FencedRowPending
  <2>2. \A j \in DOMAIN jobs : jobs'[j] # jobs[j] => j = job[w] /\ FenceOpen(w)
    BY <1>1, <2>1, MarkTerminalFenced DEF TypeOK, FenceOpen
  <2> QED
    BY <2>1, <2>2 DEF Terminal
<1>2. ASSUME NEW c \in Companion, NEW k \in Key, Enqueue(c, k)
      PROVE  \A j \in DOMAIN jobs : JobFrozen(j)
  BY <1>2, EnqueueAppends DEF TypeOK
<1>3. ASSUME UNCHANGED jobs
      PROVE  \A j \in DOMAIN jobs : JobFrozen(j)
  BY <1>3
<1>4. \/ UNCHANGED jobs
      \/ \E c \in Companion, k \in Key : Enqueue(c, k)
      \/ \E w \in Loop : \E o \in Terminal :
           pc[w] = "mark" /\ MarkTerminal(job[w], o, held[w].companion, NodeOf[w], held[w].generation)
  <2>1. ASSUME NEW w \in Loop, Mark(w) \/ DrainError(w)
        PROVE  UNCHANGED jobs \/ \E o \in Terminal :
                 pc[w] = "mark" /\ MarkTerminal(job[w], o, held[w].companion, NodeOf[w], held[w].generation)
    BY <2>1 DEF Mark, DrainError, DrainOK, HasOutcome
  <2>2. ASSUME NEW w \in Loop, LoopStep(w) \/ BeatStep(w) \/ ErrorStep(w), ~Mark(w), ~DrainError(w)
        PROVE  UNCHANGED jobs
    BY <2>2
       DEF LoopStep, BeatStep, ErrorStep, Nudge, QueryCandidates, ClaimNext, NextDueJob,
           HandlerRead,
         HandlerSettles, HandlerFails, Settle, BetweenJobs, Release, ClaimError, ReleaseError, Beat,
         RenewExecutes, RenewReplies, RenewError, queueVars
  <2>3. ASSUME NEW c \in Companion, NEW k \in Key, Trigger(c, k) \/ TriggerLost(c, k) \/ Sweep(c, k)
        PROVE  UNCHANGED jobs \/ Enqueue(c, k)
    BY <2>3 DEF Trigger, TriggerLost, Sweep, queueVars
  <2>4. ASSUME NEW n \in Owner, Close(n) \/ Exit(n) \/ Crash(n) \/ Boot(n)
        PROVE  UNCHANGED jobs
    BY <2>4 DEF Close, Exit, Crash, Boot, queueVars
  <2>5. Tick \/ UNCHANGED vars => UNCHANGED jobs
    BY DEF Tick, vars
  <2> QED
    BY <2>1, <2>2, <2>3, <2>4, <2>5 DEF Next
<1> QED
  BY <1>1, <1>2, <1>3, <1>4

-----------------------------------------------------------------------------
(* The theorems *)

\* Every variable keeps its type, and a drain's job, claim and outcome are
\* what its position says (drainCompanion, runJob).
THEOREM TypeCorrect == Spec => []TypeOK
<1>1. TypeInv /\ [Next]_vars => TypeInv'
  BY TypedStep
<1>2. TypeInv => TypeOK
  BY DEF TypeInv
<1> QED
  BY InitTyped, <1>1, <1>2, PTL DEF Spec

\* With one loop per node no recorded outcome is ever rewritten: the fence of
\* markDone and markFailed stops every superseded drain, however late its
\* write, and whatever crashes, errors and stalls come between.
THEOREM OutcomeFinalHolds == OneLoopPerNode => (Spec => OutcomeFinal)
<1> SUFFICES ASSUME OneLoopPerNode
             PROVE  Spec => OutcomeFinal
  OBVIOUS
<1>1. Init => TypeInv /\ FenceInv
  BY InitTyped DEF Init, FenceInv, FencedRowPending
<1>2. TypeInv /\ FenceInv /\ [Next]_vars => (TypeInv /\ FenceInv)'
  BY TypedStep, FenceStep
<1>3. TypeInv /\ FenceInv /\ [Next]_vars => [\A j \in DOMAIN jobs : JobFrozen(j)]_vars
  BY FrozenStep
<1> QED
  BY <1>1, <1>2, <1>3, PTL DEF Spec, OutcomeFinal

-----------------------------------------------------------------------------
(* The refinement of the ledger *)

Running(l) == l \in {"run", "ran", "mark"}

\* A step that changes no row, and neither starts nor ends a run, is none of
\* the ledger's.
LEMMA LedgerStutters ==
  ASSUME UNCHANGED jobs,
         \A v \in Loop : /\ Running(pc'[v]) <=> Running(pc[v])
                         /\ Running(pc[v]) => job'[v] = job[v]
  PROVE  UNCHANGED Ledger!ledgerVars
<1>1. RunningRow' = RunningRow
  BY DEF RunningRow, Running
<1> QED
  BY <1>1 DEF Ledger!ledgerVars

\* A trigger's enqueue records one row or collapses on the pending one.
LEMMA EnqueueRecords ==
  ASSUME QueueTypeOK, NEW c \in Companion, NEW k \in Key, Enqueue(c, k), UNCHANGED <<pc, job>>
  PROVE  [Ledger!LedgerNext]_(Ledger!ledgerVars)
<1>1. RunningRow' = RunningRow
  BY DEF RunningRow
<1>2. CASE PendingOn(c, k) # {}
  BY <1>1, <1>2 DEF Enqueue, Ledger!ledgerVars
<1>3. CASE PendingOn(c, k) = {}
  <2>1. jobs' = Append(jobs, [companion |-> c, key |-> k, status |-> "pending"])
    BY <1>3 DEF Enqueue
  <2>2. \A j \in DOMAIN jobs : jobs[j].status = "pending" => jobs[j].companion # c \/ jobs[j].key # k
    BY <1>3 DEF PendingOn, Pending
  <2>3. Ledger!Record(c, k)
    BY <1>1, <2>1, <2>2 DEF Ledger!Record, Ledger!Open
  <2> QED
    BY <2>3 DEF Ledger!LedgerNext
<1> QED
  BY <1>2, <1>3

\* Loops whose runs end with no row changed abandon them.
LEMMA RunsAbandoned ==
  ASSUME UNCHANGED jobs, NEW ws \in SUBSET Loop,
         \A v \in ws : ~Running(pc'[v]),
         \A v \in Loop \ ws : /\ Running(pc'[v]) <=> Running(pc[v])
                              /\ Running(pc[v]) => job'[v] = job[v]
  PROVE  [Ledger!LedgerNext]_(Ledger!ledgerVars)
<1>1. RunningRow' = [w \in Loop |-> IF w \in ws THEN 0 ELSE RunningRow[w]]
  BY DEF RunningRow, Running
<1>2. Ledger!Abandon(ws)
  BY <1>1 DEF Ledger!Abandon
<1> QED
  BY <1>2 DEF Ledger!LedgerNext

\* A terminal write closes the row its loop runs, or is fenced out.
LEMMA MarkCloses ==
  ASSUME TypeInv, FenceInv, NEW w \in Loop, pc[w] = "mark",
         MarkTerminal(job[w], outcome[w], held[w].companion, NodeOf[w], held[w].generation),
         ~Running(pc'[w]),
         \A v \in Loop \ {w} : pc'[v] = pc[v] /\ job'[v] = job[v]
  PROVE  [Ledger!LedgerNext]_(Ledger!ledgerVars)
<1>1. CASE ~FenceOpen(w)
  <2>1. UNCHANGED jobs
    BY <1>1 DEF MarkTerminal, FenceOpen
  <2> QED
    BY <2>1, RunsAbandoned, {w} \in SUBSET Loop
<1>2. CASE FenceOpen(w)
  <2>1. jobs' = [jobs EXCEPT ![job[w]].status = outcome[w]]
    BY <1>2 DEF MarkTerminal, FenceOpen
  <2>2. outcome[w] \in {"done", "failed"} /\ job[w] \in DOMAIN jobs
    BY DEF TypeInv, DrainOK, HasOutcome, RunsOwnRow, Terminal
  <2>3. jobs[job[w]].status = "pending"
    BY <1>2 DEF FenceInv, FencedRowPending
  <2>4. DOMAIN jobs \subseteq Nat \ {0}
    BY RowsBounded, QueueConstants DEF TypeInv, TypeOK
  <2>5. RunningRow[w] = job[w] /\ job[w] # 0
    BY <2>2, <2>4 DEF RunningRow
  <2>6. RunningRow' = [RunningRow EXCEPT ![w] = 0]
    BY DEF RunningRow, Running
  <2>7. Ledger!Close(w, outcome[w])
    BY <2>1, <2>3, <2>5, <2>6 DEF Ledger!Close, Ledger!Open
  <2> QED
    BY <2>2, <2>7 DEF Ledger!LedgerNext
<1> QED
  BY <1>1, <1>2

\* nextDueJob begins the oldest pending row of the claimed companion.
LEMMA DrainBegins ==
  ASSUME TypeInv, NEW w \in Loop, NextDueJob(w)
  PROVE  [Ledger!LedgerNext]_(Ledger!ledgerVars)
<1> DEFINE c == held[w].companion
<1>1. /\ pc \in [Loop -> PC] /\ pc[w] = "next" /\ UNCHANGED jobs
      /\ job \in [Loop -> 0..MaxJobs]
  BY DEF TypeInv, TypeOK, LoopTypeOK, NextDueJob, queueVars
<1>2. CASE pc' = [pc EXCEPT ![w] = "release"] /\ UNCHANGED job
  BY <1>1, <1>2, LedgerStutters DEF Running
<1>3. ASSUME NEW j \in Pending(c), pc' = [pc EXCEPT ![w] = "run"], IsNextDue(c, j), job' = [job EXCEPT ![w] = j]
      PROVE  [Ledger!LedgerNext]_(Ledger!ledgerVars)
  <2>1. j \in DOMAIN jobs /\ jobs[j].companion = c /\ jobs[j].status = "pending"
    BY DEF Pending
  <2>2. RunningRow[w] = 0 /\ RunningRow' = [RunningRow EXCEPT ![w] = j]
    BY <1>1, <1>3 DEF RunningRow
  <2>3. jobs \in Seq(JobRow) /\ DOMAIN jobs = 1..Len(jobs) /\ Len(jobs) \in Nat
    BY DEF TypeInv, TypeOK, QueueTypeOK
  <2>4. \A i \in 1..(j - 1) : jobs[i].status = "pending" => jobs[i].companion # c
    <3> SUFFICES ASSUME NEW i \in 1..(j - 1), jobs[i].status = "pending", jobs[i].companion = c
                 PROVE  FALSE
      OBVIOUS
    <3>1. i \in DOMAIN jobs /\ i < j
      BY <2>1, <2>3
    <3>2. j <= i
      BY <1>3, <3>1 DEF IsNextDue, Pending
    <3> QED
      BY <2>1, <2>3, <3>1, <3>2
  <2>5. Ledger!Begin(w, j)
    BY <1>1, <2>1, <2>2, <2>4 DEF Ledger!Begin, Ledger!Open
  <2> QED
    BY <2>1, <2>5 DEF Ledger!LedgerNext
<1> QED
  BY <1>2, <1>3 DEF NextDueJob, Goto

\* The end of a handler run goes on to its write, or abandons its row.
LEMMA SettleAbandons ==
  ASSUME TypeInv, NEW w \in Loop, NEW o \in Terminal, pc[w] \in {"run", "ran"}, Settle(w, o)
  PROVE  [Ledger!LedgerNext]_(Ledger!ledgerVars)
<1>1. pc \in [Loop -> PC] /\ UNCHANGED jobs /\ job \in [Loop -> 0..MaxJobs]
  BY DEF TypeInv, TypeOK, LoopTypeOK, Settle, queueVars
<1>2. CASE aborted[w]
  <2>1. pc' = [pc EXCEPT ![w] = "between"] /\ job' = [job EXCEPT ![w] = 0]
    BY <1>2 DEF Settle, Goto
  <2>2. {w} \in SUBSET Loop /\ \A v \in {w} : ~Running(pc'[v])
    BY <1>1, <2>1 DEF Running
  <2>3. \A v \in Loop \ {w} : (Running(pc'[v]) <=> Running(pc[v])) /\ (Running(pc[v]) => job'[v] = job[v])
    BY <1>1, <2>1
  <2> QED
    BY <1>1, <2>2, <2>3, RunsAbandoned
<1>3. CASE ~aborted[w]
  <2>1. pc' = [pc EXCEPT ![w] = "mark"] /\ job' = job
    BY <1>3 DEF Settle, Goto
  <2>2. \A v \in Loop : (Running(pc'[v]) <=> Running(pc[v])) /\ (Running(pc[v]) => job'[v] = job[v])
    BY <1>1, <2>1 DEF Running
  <2> QED
    BY <1>1, <2>2, LedgerStutters
<1> QED
  BY <1>2, <1>3

\* Every step of the loops, timers, triggers and processes is a step of the
\* ledger, or none.
LEMMA LedgerStep ==
  ASSUME TypeInv, FenceInv, [Next]_vars
  PROVE  [Ledger!LedgerNext]_(Ledger!ledgerVars)
<1>0. pc \in [Loop -> PC] /\ job \in [Loop -> 0..MaxJobs] /\ QueueTypeOK
  BY DEF TypeInv, TypeOK, LoopTypeOK
<1>1. ASSUME NEW c \in Companion, NEW k \in Key, Trigger(c, k) \/ TriggerLost(c, k) \/ Sweep(c, k)
      PROVE  [Ledger!LedgerNext]_(Ledger!ledgerVars)
  <2>1. UNCHANGED <<pc, job>> /\ (UNCHANGED jobs \/ Enqueue(c, k))
    BY <1>1 DEF Trigger, TriggerLost, Sweep, queueVars, loopVars
  <2>2. UNCHANGED jobs => UNCHANGED Ledger!ledgerVars
    BY <2>1, LedgerStutters
  <2> QED
    BY <1>0, <2>1, <2>2, EnqueueRecords
<1>2. ASSUME NEW w \in Loop, NextDueJob(w)
      PROVE  [Ledger!LedgerNext]_(Ledger!ledgerVars)
  BY <1>2, DrainBegins
<1>3. ASSUME NEW w \in Loop, NEW o \in Terminal, HandlerSettles(w, o)
      PROVE  [Ledger!LedgerNext]_(Ledger!ledgerVars)
  BY <1>3, SettleAbandons DEF HandlerSettles
<1>4. ASSUME NEW w \in Loop, HandlerFails(w)
      PROVE  [Ledger!LedgerNext]_(Ledger!ledgerVars)
  BY <1>4, SettleAbandons DEF HandlerFails, Terminal
<1>5. ASSUME NEW w \in Loop, Mark(w)
      PROVE  [Ledger!LedgerNext]_(Ledger!ledgerVars)
  <2>1. pc' = [pc EXCEPT ![w] = "between"] /\ job' = [job EXCEPT ![w] = 0]
    BY <1>5 DEF Mark, Goto
  <2>2. ~Running(pc'[w]) /\ \A v \in Loop \ {w} : pc'[v] = pc[v] /\ job'[v] = job[v]
    BY <1>0, <2>1 DEF Running
  <2> QED
    BY <1>5, <2>2, MarkCloses DEF Mark
<1>6. ASSUME NEW w \in Loop, DrainError(w)
      PROVE  [Ledger!LedgerNext]_(Ledger!ledgerVars)
  <2>1. pc' = [pc EXCEPT ![w] = "release"] /\ job' = job
    BY <1>6 DEF DrainError, Goto
  <2>2. ~Running(pc'[w]) /\ \A v \in Loop \ {w} : pc'[v] = pc[v] /\ job'[v] = job[v]
    BY <1>0, <2>1 DEF Running
  <2>3. CASE UNCHANGED jobs
    BY <2>2, <2>3, RunsAbandoned, {w} \in SUBSET Loop
  <2>4. CASE pc[w] = "mark" /\ MarkTerminal(job[w], outcome[w], held[w].companion, NodeOf[w], held[w].generation)
    BY <2>2, <2>4, MarkCloses
  <2> QED
    BY <1>6, <2>3, <2>4 DEF DrainError
<1>7. ASSUME NEW w \in Loop,
             \/ Nudge(w) \/ QueryCandidates(w) \/ ClaimNext(w) \/ HandlerRead(w) \/ BetweenJobs(w)
             \/ ClaimError(w) \/ Release(w) \/ ReleaseError(w)
      PROVE  [Ledger!LedgerNext]_(Ledger!ledgerVars)
  <2>1. UNCHANGED jobs
    BY <1>7 DEF Nudge, QueryCandidates, ClaimNext, HandlerRead, BetweenJobs, ClaimError, Release,
         ReleaseError, queueVars
  <2>2. \A v \in Loop \ {w} : pc'[v] = pc[v] /\ job'[v] = job[v]
    BY <1>0, <1>7
       DEF Nudge, QueryCandidates, ClaimNext, HandlerRead, BetweenJobs, ClaimError, Release,
         ReleaseError, ForgetDrain, Goto
  <2>3. (Running(pc'[w]) <=> Running(pc[w])) /\ (Running(pc[w]) => job'[w] = job[w])
    BY <1>0, <1>7
       DEF Nudge, QueryCandidates, ClaimNext, HandlerRead, BetweenJobs, ClaimError, Release,
         ReleaseError, ForgetDrain, Goto, Running
  <2> QED
    BY <2>1, <2>2, <2>3, LedgerStutters
<1>8. ASSUME NEW w \in Loop, BeatStep(w) \/ RenewError(w)
      PROVE  [Ledger!LedgerNext]_(Ledger!ledgerVars)
  <2>1. UNCHANGED <<jobs, pc, job>>
    BY <1>8 DEF BeatStep, Beat, RenewExecutes, RenewReplies, RenewError, queueVars, loopVars
  <2> QED
    BY <2>1, LedgerStutters
<1>9. ASSUME NEW n \in Owner, Crash(n)
      PROVE  [Ledger!LedgerNext]_(Ledger!ledgerVars)
  <2> DEFINE ws == {w \in Loop : NodeOf[w] = n}
  <2>1. UNCHANGED jobs /\ ws \in SUBSET Loop
    BY <1>9 DEF Crash, queueVars
  <2>2. \A v \in ws : ~Running(pc'[v])
    BY <1>9 DEF Crash, Running
  <2>3. \A v \in Loop \ ws : (Running(pc'[v]) <=> Running(pc[v])) /\ (Running(pc[v]) => job'[v] = job[v])
    BY <1>9 DEF Crash
  <2> HIDE DEF ws
  <2> QED
    BY <2>1, <2>2, <2>3, RunsAbandoned
<1>10. ASSUME NEW n \in Owner, Close(n) \/ Exit(n) \/ Boot(n)
      PROVE  [Ledger!LedgerNext]_(Ledger!ledgerVars)
  <2>1. UNCHANGED <<jobs, pc, job>>
    BY <1>10 DEF Close, Exit, Boot, queueVars, loopVars
  <2> QED
    BY <2>1, LedgerStutters
<1>11. ASSUME Tick \/ UNCHANGED vars
      PROVE  [Ledger!LedgerNext]_(Ledger!ledgerVars)
  <2>1. UNCHANGED <<jobs, pc, job>>
    BY <1>11 DEF Tick, vars, loopVars
  <2> QED
    BY <2>1, LedgerStutters
<1> QED
  BY <1>1, <1>2, <1>3, <1>4, <1>5, <1>6, <1>7, <1>8, <1>9, <1>10, <1>11
     DEF Next, LoopStep, BeatStep, ErrorStep

\* With one loop per node the drain loops implement the ledger: a row is
\* recorded once while it is pending, begun oldest first, and settled at most
\* once by a loop that runs it (job-queue.ts; drainCompanion, runJob).
THEOREM LedgerImplementedHolds == OneLoopPerNode => (Spec => LedgerImplemented)
<1> SUFFICES ASSUME OneLoopPerNode
             PROVE  Spec => LedgerImplemented
  OBVIOUS
<1>1. Init => TypeInv /\ FenceInv
  BY InitTyped DEF Init, FenceInv, FencedRowPending
<1>2. TypeInv /\ FenceInv /\ [Next]_vars => (TypeInv /\ FenceInv)'
  BY TypedStep, FenceStep
<1>3. Init => Ledger!LedgerInit
  BY DEF Init, QueueInit, RunningRow, Ledger!LedgerInit
<1>4. TypeInv /\ FenceInv /\ [Next]_vars => [Ledger!LedgerNext]_(Ledger!ledgerVars)
  BY LedgerStep
<1> QED
  BY <1>1, <1>2, <1>3, <1>4, PTL DEF Spec, LedgerImplemented, Ledger!LedgerSpec

-----------------------------------------------------------------------------
(* The lease of a live drain, with prompt timers *)

\* A drain its heartbeat has not aborted holds a claim that cannot lapse
\* before the heartbeat's next beat: the lease is at least what is left since
\* the last renewal, and the beat comes before that is used up.
LeaseGuards(w) ==
  InDrain(w) /\ ~aborted[w] =>
    /\ FenceOpen(w)
    /\ elapsed[w] + beatIn[w] < LeaseMs
    /\ claims[held[w].companion].left + elapsed[w] >= LeaseMs
    /\ renewal[w] = "held" => claims[held[w].companion].left = LeaseMs

\* A loop outside a drain has no renewal in flight and no time on its clock.
FreshLoop(w) ==
  pc[w] \in {"idle", "claiming", "trying"} => ~aborted[w] /\ elapsed[w] = 0 /\ renewal[w] = "none"

LeaseInv == \A w \in Loop : LeaseGuards(w) /\ FreshLoop(w)

\* A loop's clocks and claim are numbers within their bounds.
LEMMA LeaseNumbers ==
  ASSUME TypeInv, NEW w \in Loop
  PROVE  /\ LeaseMs \in Nat /\ HeartbeatMs \in Nat /\ HeartbeatMs >= 1 /\ HeartbeatMs < LeaseMs
         /\ elapsed[w] \in Nat /\ elapsed[w] <= LeaseMs
         /\ beatIn[w] \in Nat /\ beatIn[w] <= HeartbeatMs
<1>1. LeaseMs \in Nat /\ HeartbeatMs \in 1..(LeaseMs - 1)
  BY QueueConstants, ProcessorConstants
<1>2. elapsed[w] \in 0..LeaseMs /\ beatIn[w] \in 0..HeartbeatMs
  BY DEF TypeInv, TypeOK, BeatTypeOK
<1> QED
  BY <1>1, <1>2

\* The claim behind an open fence is a row of the table.
LEMMA FencedClaim ==
  ASSUME TypeInv, NEW w \in Loop, InDrain(w), FenceOpen(w)
  PROVE  /\ held[w].companion \in Companion
         /\ claims[held[w].companion] \in ClaimRow /\ claims[held[w].companion] # NoClaim
         /\ claims[held[w].companion].owner = NodeOf[w]
         /\ claims[held[w].companion].left \in Nat /\ claims[held[w].companion].left <= LeaseMs
<1>1. held[w].companion \in Companion
  BY DEF InDrain, TypeInv, DrainOK, HoldsClaim, Claim
<1>2. /\ claims[held[w].companion] \in ClaimRow /\ claims[held[w].companion] # NoClaim
      /\ claims[held[w].companion].owner = NodeOf[w]
  BY <1>1 DEF FenceOpen, ClaimStillHeld, OwnedBy, TypeInv, TypeOK, QueueTypeOK
<1>3. claims[held[w].companion].left \in 0..LeaseMs
  BY <1>2 DEF ClaimRow
<1> QED
  BY <1>1, <1>2, <1>3, QueueConstants

\* No statement of another loop touches the claim of a live drain: it has not
\* lapsed, and its owner is another node's.
LEMMA OthersLeaveLease ==
  ASSUME OneLoopPerNode, TypeInv, LeaseInv, NEW v \in Loop, NEW w \in Loop, v # w,
         InDrain(v), ~aborted[v], NEW d,
         TryClaim(d, NodeOf[w]) \/ ReleaseClaim(d, NodeOf[w]) \/ RenewClaim(d, NodeOf[w])
  PROVE  claims'[held[v].companion] = claims[held[v].companion]
<1> DEFINE c == held[v].companion
<1>1. FenceOpen(v) /\ elapsed[v] + beatIn[v] < LeaseMs /\ claims[c].left + elapsed[v] >= LeaseMs
  BY DEF LeaseInv, LeaseGuards
<1>2. c \in Companion /\ claims[c] # NoClaim /\ claims[c].owner = NodeOf[v] /\ claims[c].left \in Nat
  BY <1>1, FencedClaim
<1>3. claims[c].left # 0
  BY <1>1, <1>2, LeaseNumbers
<1>4. NodeOf[v] # NodeOf[w]
  BY DEF OneLoopPerNode
<1>5. claims \in [Companion -> ClaimRow \cup {NoClaim}]
  BY DEF TypeInv, TypeOK, QueueTypeOK
<1> HIDE DEF c
<1>6. CASE TryClaim(d, NodeOf[w])
  <2>1. d # c
    BY <1>2, <1>3, <1>6 DEF TryClaim, Claimable
  <2> QED
    BY <1>2, <1>5, <1>6, <2>1 DEF TryClaim, c
<1>7. CASE ReleaseClaim(d, NodeOf[w])
  <2>1. d = c => ~OwnedBy(d, NodeOf[w])
    BY <1>2, <1>4 DEF OwnedBy
  <2> QED
    BY <1>2, <1>5, <1>7, <2>1 DEF ReleaseClaim, c
<1>8. CASE RenewClaim(d, NodeOf[w])
  <2>1. d = c => ~RenewHeld(d, NodeOf[w])
    BY <1>2, <1>4 DEF RenewHeld, OwnedBy
  <2> QED
    BY <1>2, <1>5, <1>8, <2>1 DEF RenewClaim, c
<1> QED
  BY <1>6, <1>7, <1>8

\* Renewing a live lease leaves it full, and its owner and generation alone.
LEMMA RenewFills ==
  ASSUME TypeInv, NEW w \in Loop, InDrain(w), FenceOpen(w), RenewClaim(held[w].companion, NodeOf[w]),
         claims[held[w].companion].left > 0, held'[w] = held[w]
  PROVE  FenceOpen(w)' /\ claims'[held[w].companion].left = LeaseMs
<1> DEFINE c == held[w].companion
           row == [claims[c] EXCEPT !.left = LeaseMs]
<1>1. c \in Companion /\ claims[c] \in ClaimRow /\ claims[c] # NoClaim /\ claims[c].owner = NodeOf[w]
  BY FencedClaim
<1>2. claims \in [Companion -> ClaimRow \cup {NoClaim}] /\ LeaseMs \in Nat /\ NoClaim \notin ClaimRow
  BY QueueConstants DEF TypeInv, TypeOK, QueueTypeOK, ClaimRow
<1>3. RenewHeld(c, NodeOf[w])
  BY <1>1 DEF RenewHeld, OwnedBy
<1>4. claims' = [claims EXCEPT ![c] = row]
  BY <1>3 DEF RenewClaim
<1>5. claims'[c] = row
  BY <1>1, <1>2, <1>4
<1>6. row \in ClaimRow /\ row.owner = claims[c].owner /\ row.generation = claims[c].generation /\ row.left = LeaseMs
  BY <1>1, <1>2 DEF ClaimRow
<1>7. claims'[c] # NoClaim
  BY <1>2, <1>5, <1>6
<1> QED
  BY <1>5, <1>6, <1>7 DEF FenceOpen, ClaimStillHeld, OwnedBy

\* A loop whose drain, clocks and claim a step leaves alone keeps its lease.
LEMMA LeaseFrame ==
  ASSUME LeaseInv, NEW v \in Loop,
         InDrain(v)' /\ ~aborted'[v] =>
           /\ InDrain(v) /\ ~aborted[v] /\ held'[v] = held[v]
           /\ elapsed'[v] = elapsed[v] /\ beatIn'[v] = beatIn[v]
           /\ renewal'[v] = "held" => renewal[v] = "held"
           /\ claims'[held[v].companion] = claims[held[v].companion]
  PROVE  LeaseGuards(v)'
BY DEF LeaseInv, LeaseGuards, FenceOpen, ClaimStillHeld, OwnedBy

\* A loop that leaves its drain forgets its clocks and its renewal.
LEMMA FreshStep ==
  ASSUME TypeInv, LeaseInv, [Next]_vars, NEW v \in Loop
  PROVE  FreshLoop(v)'
<1>1. /\ pc \in [Loop -> PC] /\ aborted \in [Loop -> BOOLEAN] /\ elapsed \in [Loop -> 0..LeaseMs]
      /\ renewal \in [Loop -> {"none", "sent", "held", "lost"}]
  BY DEF TypeInv, TypeOK, LoopTypeOK, BeatTypeOK
<1>2. FreshLoop(v)
  BY DEF LeaseInv
<1>3. ASSUME NEW w \in Loop, LoopStep(w)
      PROVE  FreshLoop(v)'
  BY <1>1, <1>2, <1>3
     DEF LoopStep, FreshLoop, Nudge, QueryCandidates, ClaimNext, NextDueJob, HandlerRead,
     HandlerSettles, Settle, Mark, BetweenJobs, Release, ForgetDrain, Goto, beatVars
<1>4. ASSUME NEW w \in Loop, BeatStep(w)
      PROVE  FreshLoop(v)'
  BY <1>1, <1>2, <1>4
     DEF BeatStep, FreshLoop, Beat, InDrain, Draining, RenewExecutes, RenewReplies, loopVars
<1>5. ASSUME NEW w \in Loop, ErrorStep(w)
      PROVE  FreshLoop(v)'
  BY <1>1, <1>2, <1>5
     DEF ErrorStep, FreshLoop, HandlerFails, Settle, ClaimError, DrainError, ReleaseError,
     RenewError, ForgetDrain, Goto, loopVars, beatVars
<1>6. ASSUME NEW n \in Owner, Close(n) \/ Exit(n) \/ Crash(n) \/ Boot(n)
      PROVE  FreshLoop(v)'
  BY ZenonT(30), <1>1, <1>2, <1>6 DEF Close, Exit, Crash, Boot, FreshLoop, loopVars, beatVars
<1>7. ASSUME Tick
      PROVE  FreshLoop(v)'
  BY <1>1, <1>2, <1>7 DEF Tick, Armed, InDrain, Draining, FreshLoop, loopVars
<1>8. ASSUME NEW c \in Companion, NEW k \in Key, Trigger(c, k) \/ TriggerLost(c, k) \/ Sweep(c, k)
      PROVE  FreshLoop(v)'
  BY <1>2, <1>8 DEF Trigger, TriggerLost, Sweep, FreshLoop, loopVars, beatVars
<1>9. ASSUME UNCHANGED vars
      PROVE  FreshLoop(v)'
  BY <1>2, <1>9 DEF vars, FreshLoop, loopVars, beatVars
<1> QED
  BY <1>3, <1>4, <1>5, <1>6, <1>7, <1>8, <1>9 DEF Next

\* A fresh claim arms the heartbeat on a full lease.
LEMMA ClaimArmsLease ==
  ASSUME OneLoopPerNode, TypeInv, LeaseInv, NEW v \in Loop, NEW w \in Loop, ClaimNext(w)
  PROVE  LeaseGuards(v)'
<1>1. /\ pc \in [Loop -> PC] /\ beatIn \in [Loop -> 0..HeartbeatMs] /\ pc[w] = "trying"
      /\ held \in [Loop -> Claim \cup {NoClaimHeld}] /\ claims \in [Companion -> ClaimRow \cup {NoClaim}]
      /\ UNCHANGED <<aborted, elapsed, renewal>>
  BY DEF TypeInv, TypeOK, QueueTypeOK, LoopTypeOK, BeatTypeOK, ClaimNext
<1>2. PICK p \in candidates[w] :
        \/ /\ TryClaim(p.companion, NodeOf[w])
           /\ held' = [held EXCEPT ![w] = [companion |-> p.companion, generation |-> claims'[p.companion].generation]]
           /\ beatIn' = [beatIn EXCEPT ![w] = HeartbeatMs]
           /\ Goto(w, "next")
        \/ /\ pc' = [pc EXCEPT ![w] = "idle"] \/ UNCHANGED pc
           /\ UNCHANGED <<claims, held, beatIn>>
  BY DEF ClaimNext, Goto
<1>3. p.companion \in Companion
  BY DEF TypeInv, TypeOK, LoopTypeOK
<1>4. CASE UNCHANGED <<claims, held, beatIn>> /\ (pc' = [pc EXCEPT ![w] = "idle"] \/ UNCHANGED pc)
  BY <1>1, <1>4, LeaseFrame DEF InDrain, Draining
<1>5. CASE /\ TryClaim(p.companion, NodeOf[w])
           /\ held' = [held EXCEPT ![w] = [companion |-> p.companion, generation |-> claims'[p.companion].generation]]
           /\ beatIn' = [beatIn EXCEPT ![w] = HeartbeatMs]
           /\ Goto(w, "next")
  <2>1. CASE v # w
    <3>1. pc'[v] = pc[v] /\ held'[v] = held[v] /\ beatIn'[v] = beatIn[v]
      BY <1>1, <1>5, <2>1 DEF Goto
    <3>2. InDrain(v) /\ ~aborted[v] => claims'[held[v].companion] = claims[held[v].companion]
      BY <1>5, <2>1, OthersLeaveLease
    <3> QED
      BY <1>1, <3>1, <3>2, LeaseFrame DEF InDrain
  <2>2. CASE v = w
    <3> DEFINE c == p.companion
    <3>1. ~aborted[w] /\ elapsed[w] = 0 /\ renewal[w] = "none"
      BY <1>1 DEF LeaseInv, FreshLoop
    <3>2. held'[w].companion = c /\ held'[w].generation = claims'[c].generation /\ beatIn'[w] = HeartbeatMs
      BY <1>1, <1>5
    <3>3. claims'[c].owner = NodeOf[w] /\ claims'[c].left = LeaseMs
      BY <1>1, <1>3, <1>5 DEF TryClaim
    <3>4. claims'[c] # NoClaim
      <4>1. claims'[c] \in ClaimRow
        BY <1>3, <1>5, ClaimStatementsTyped, ProcessorConstants DEF TypeInv, TypeOK
      <4> QED
        BY <4>1, QueueConstants DEF ClaimRow
    <3>5. FenceOpen(w)'
      BY <3>2, <3>3, <3>4 DEF FenceOpen, ClaimStillHeld, OwnedBy
    <3>6. elapsed'[w] + beatIn'[w] < LeaseMs /\ claims'[held'[w].companion].left + elapsed'[w] >= LeaseMs
      BY <1>1, <3>1, <3>2, <3>3, LeaseNumbers
    <3>7. renewal'[w] # "held"
      BY <1>1, <3>1
    <3> QED
      BY <2>2, <3>5, <3>6, <3>7 DEF LeaseGuards
  <2> QED
    BY <2>1, <2>2
<1> QED
  BY <1>2, <1>4, <1>5

\* A renewal between jobs, or of the heartbeat, fills the lease.
LEMMA RenewKeepsLease ==
  ASSUME OneLoopPerNode, TypeInv, LeaseInv, NEW v \in Loop, NEW w \in Loop,
         RenewClaim(held[w].companion, NodeOf[w]), UNCHANGED <<held, aborted, beatIn>>,
         InDrain(v)' => InDrain(v),
         elapsed'[v] = elapsed[v] \/ (v = w /\ elapsed'[v] = 0),
         renewal'[v] = "held" => renewal[v] = "held" \/ v = w
  PROVE  LeaseGuards(v)'
<1>1. CASE v # w
  <2>1. InDrain(v) /\ ~aborted[v] => claims'[held[v].companion] = claims[held[v].companion]
    BY <1>1, OthersLeaveLease
  <2> QED
    BY <1>1, <2>1, LeaseFrame
<1>2. CASE v = w /\ InDrain(v)' /\ ~aborted'[v]
  <2>1. InDrain(w) /\ ~aborted[w] /\ held'[w] = held[w] /\ beatIn'[w] = beatIn[w]
    BY <1>2
  <2>2. FenceOpen(w) /\ elapsed[w] + beatIn[w] < LeaseMs /\ claims[held[w].companion].left + elapsed[w] >= LeaseMs
    BY <2>1 DEF LeaseInv, LeaseGuards
  <2>3. claims[held[w].companion].left > 0
    BY <2>1, <2>2, LeaseNumbers, FencedClaim
  <2>4. FenceOpen(w)' /\ claims'[held[w].companion].left = LeaseMs
    BY <2>1, <2>2, <2>3, RenewFills
  <2>5. elapsed'[w] \in Nat /\ elapsed'[w] + beatIn'[w] < LeaseMs /\ LeaseMs + elapsed'[w] >= LeaseMs
    BY <1>2, <2>1, <2>2, LeaseNumbers
  <2> QED
    BY <1>2, <2>1, <2>4, <2>5 DEF LeaseGuards
<1>3. CASE ~(InDrain(v)' /\ ~aborted'[v])
  BY <1>3 DEF LeaseGuards
<1> QED
  BY <1>1, <1>2, <1>3

\* A beat gives up while the lease still has a beat to go, or restarts its
\* timer.
LEMMA BeatKeepsLease ==
  ASSUME TypeInv, LeaseInv, NEW v \in Loop, NEW w \in Loop, Beat(w)
  PROVE  LeaseGuards(v)'
<1>1. /\ aborted \in [Loop -> BOOLEAN] /\ beatIn \in [Loop -> 0..HeartbeatMs]
      /\ renewal \in [Loop -> {"none", "sent", "held", "lost"}]
  BY DEF TypeInv, TypeOK, BeatTypeOK
<1>2. /\ UNCHANGED <<claims, pc, held, elapsed>>
      /\ beatIn' = [beatIn EXCEPT ![w] = HeartbeatMs]
  BY DEF Beat, queueVars, loopVars
<1>3. CASE v # w
  <2>1. aborted'[v] = aborted[v] /\ beatIn'[v] = beatIn[v] /\ renewal'[v] = renewal[v]
    BY <1>1, <1>2, <1>3 DEF Beat
  <2> QED
    BY <1>2, <2>1, LeaseFrame DEF InDrain
<1>4. CASE v = w /\ InDrain(w)' /\ ~aborted'[w]
  <2>1. ~(elapsed[w] >= LeaseMs - HeartbeatMs) /\ ~aborted[w] /\ InDrain(w)
    BY <1>1, <1>2, <1>4 DEF Beat
  <2>2. /\ FenceOpen(w) /\ claims[held[w].companion].left + elapsed[w] >= LeaseMs
        /\ renewal[w] = "held" => claims[held[w].companion].left = LeaseMs
    BY <2>1 DEF LeaseInv, LeaseGuards
  <2>3. elapsed[w] + beatIn'[w] < LeaseMs
    BY <1>1, <1>2, <2>1, LeaseNumbers
  <2>4. renewal'[w] = "held" => renewal[w] = "held"
    BY <1>1, <2>1 DEF Beat
  <2> QED
    BY <1>2, <1>4, <2>2, <2>3, <2>4 DEF LeaseGuards, FenceOpen, ClaimStillHeld, OwnedBy
<1>5. CASE v = w /\ ~(InDrain(w)' /\ ~aborted'[w])
  BY <1>5 DEF LeaseGuards
<1> QED
  BY <1>3, <1>4, <1>5

\* The reply of a renewal that held restarts the clock of a full lease.
LEMMA ReplyKeepsLease ==
  ASSUME TypeInv, LeaseInv, NEW v \in Loop, NEW w \in Loop, RenewReplies(w)
  PROVE  LeaseGuards(v)'
<1>1. /\ aborted \in [Loop -> BOOLEAN] /\ elapsed \in [Loop -> 0..LeaseMs]
      /\ renewal \in [Loop -> {"none", "sent", "held", "lost"}]
  BY DEF TypeInv, TypeOK, BeatTypeOK
<1>2. /\ UNCHANGED <<claims, pc, held, beatIn>>
      /\ renewal' = [renewal EXCEPT ![w] = "none"]
  BY DEF RenewReplies, queueVars, loopVars
<1>3. CASE v # w
  <2>1. aborted'[v] = aborted[v] /\ elapsed'[v] = elapsed[v] /\ renewal'[v] = renewal[v]
    BY <1>1, <1>2, <1>3 DEF RenewReplies
  <2> QED
    BY <1>2, <2>1, LeaseFrame DEF InDrain
<1>4. CASE v = w /\ InDrain(w)' /\ ~aborted'[w]
  <2>1. renewal[w] = "held" /\ elapsed'[w] = 0 /\ ~aborted[w] /\ InDrain(w)
    BY <1>1, <1>2, <1>4 DEF RenewReplies, InDrain
  <2>2. FenceOpen(w) /\ claims[held[w].companion].left = LeaseMs
    BY <2>1 DEF LeaseInv, LeaseGuards
  <2>3. elapsed'[w] + beatIn'[w] < LeaseMs /\ claims'[held'[w].companion].left + elapsed'[w] >= LeaseMs
    BY <1>2, <2>1, <2>2, LeaseNumbers
  <2>4. renewal'[w] # "held"
    BY <1>1, <1>2
  <2> QED
    BY <1>2, <1>4, <2>2, <2>3, <2>4 DEF LeaseGuards, FenceOpen, ClaimStillHeld, OwnedBy
<1>5. CASE v = w /\ ~(InDrain(w)' /\ ~aborted'[w])
  BY <1>5 DEF LeaseGuards
<1> QED
  BY <1>3, <1>4, <1>5

\* A tick takes as much from the lease as it adds to the clock, and no timer
\* that is due and no renewal in flight lets it through.
LEMMA TickKeepsLease ==
  ASSUME PromptTimers, TypeInv, LeaseInv, NEW v \in Loop, Tick
  PROVE  LeaseGuards(v)'
<1> DEFINE c == held[v].companion
<1>1. /\ elapsed \in [Loop -> 0..LeaseMs] /\ beatIn \in [Loop -> 0..HeartbeatMs]
      /\ claims \in [Companion -> ClaimRow \cup {NoClaim}]
  BY DEF TypeInv, TypeOK, QueueTypeOK, BeatTypeOK
<1>2. UNCHANGED <<pc, held, aborted, renewal>> /\ ~Late(v)
  BY DEF Tick, loopVars
<1>3. CASE InDrain(v) /\ ~aborted[v]
  <2>1. FenceOpen(v) /\ elapsed[v] + beatIn[v] < LeaseMs /\ claims[c].left + elapsed[v] >= LeaseMs
    BY <1>3 DEF LeaseInv, LeaseGuards
  <2>2. beatIn[v] # 0 /\ renewal[v] = "none"
    BY <1>2, <1>3 DEF Late, Armed
  <2>3. /\ c \in Companion /\ claims[c] \in ClaimRow /\ claims[c] # NoClaim
        /\ claims[c].owner = NodeOf[v] /\ claims[c].left \in Nat
    BY <1>3, <2>1, FencedClaim
  <2>4. elapsed[v] < LeaseMs /\ beatIn[v] > 0 /\ claims[c].left > 0
    BY <2>1, <2>2, <2>3, LeaseNumbers
  <2>5. elapsed'[v] = elapsed[v] + 1 /\ beatIn'[v] = beatIn[v] - 1
    BY <1>3, <2>4 DEF Tick, Armed
  <2>6. claims'[c] = [claims[c] EXCEPT !.left = claims[c].left - 1]
    BY <2>3, <2>4 DEF Tick, LeaseTick
  <2>7. /\ claims'[c].owner = claims[c].owner /\ claims'[c].generation = claims[c].generation
        /\ claims'[c].left = claims[c].left - 1
    BY <2>3, <2>6 DEF ClaimRow
  <2>8. claims'[c] # NoClaim
    <3>1. [claims[c] EXCEPT !.left = claims[c].left - 1] \in ClaimRow
      <4>1. claims[c].left - 1 \in 0..LeaseMs
        BY <2>3, <2>4, QueueConstants DEF ClaimRow
      <4> QED
        BY <2>3, <4>1 DEF ClaimRow
    <3> QED
      BY <2>6, <3>1, QueueConstants DEF ClaimRow
  <2>9. elapsed'[v] + beatIn'[v] < LeaseMs /\ claims'[c].left + elapsed'[v] >= LeaseMs
    BY <2>1, <2>3, <2>5, <2>7, LeaseNumbers
  <2>10. FenceOpen(v)'
    BY <1>2, <2>1, <2>7, <2>8 DEF FenceOpen, ClaimStillHeld, OwnedBy
  <2> QED
    BY <1>2, <2>2, <2>9, <2>10 DEF LeaseGuards
<1>4. CASE ~(InDrain(v) /\ ~aborted[v])
  BY <1>2, <1>4 DEF LeaseGuards, InDrain
<1> QED
  BY <1>3, <1>4

\* Every step keeps the lease of every live drain.
LEMMA LeaseStep ==
  ASSUME OneLoopPerNode, PromptTimers, TypeInv, LeaseInv, [Next]_vars
  PROVE  LeaseInv'
<1> SUFFICES ASSUME NEW v \in Loop PROVE LeaseGuards(v)'
  BY FreshStep DEF LeaseInv
<1>0. /\ pc \in [Loop -> PC] /\ elapsed \in [Loop -> 0..LeaseMs]
      /\ renewal \in [Loop -> {"none", "sent", "held", "lost"}]
  BY DEF TypeInv, TypeOK, LoopTypeOK, BeatTypeOK
<1>1. ASSUME NEW w \in Loop, ClaimNext(w)
      PROVE  LeaseGuards(v)'
  BY <1>1, ClaimArmsLease
<1>2. ASSUME NEW w \in Loop, BetweenJobs(w)
      PROVE  LeaseGuards(v)'
  <2>1. UNCHANGED <<held, aborted, beatIn, renewal>> /\ (InDrain(v)' => InDrain(v))
    BY <1>0, <1>2 DEF BetweenJobs, Goto, InDrain, Draining
  <2>2. CASE UNCHANGED <<claims, elapsed>>
    BY <2>1, <2>2, LeaseFrame
  <2>3. CASE RenewClaim(held[w].companion, NodeOf[w]) /\ (elapsed' = [elapsed EXCEPT ![w] = 0] \/ UNCHANGED elapsed)
    <3>1. elapsed'[v] = elapsed[v] \/ (v = w /\ elapsed'[v] = 0)
      BY <1>0, <2>3
    <3> QED
      BY <2>1, <2>3, <3>1, RenewKeepsLease
  <2> QED
    BY <1>2, <2>2, <2>3 DEF BetweenJobs
<1>3. ASSUME NEW w \in Loop, RenewExecutes(w)
      PROVE  LeaseGuards(v)'
  <2>1. /\ UNCHANGED <<pc, held, aborted, elapsed, beatIn>> /\ RenewClaim(held[w].companion, NodeOf[w])
        /\ renewal'[v] = "held" => renewal[v] = "held" \/ v = w
    BY <1>0, <1>3 DEF RenewExecutes, loopVars
  <2>2. InDrain(v)' => InDrain(v)
    BY <2>1 DEF InDrain
  <2> QED
    BY <2>1, <2>2, RenewKeepsLease
<1>4. ASSUME NEW w \in Loop, Release(w)
      PROVE  LeaseGuards(v)'
  <2>1. pc' = [pc EXCEPT ![w] = "claiming"] /\ ReleaseClaim(held[w].companion, NodeOf[w])
    BY <1>4 DEF Release, Goto
  <2>2. CASE v = w
    BY <1>0, <2>1, <2>2, LeaseFrame DEF InDrain, Draining
  <2>3. CASE v # w
    <3>1. /\ pc'[v] = pc[v] /\ held'[v] = held[v] /\ aborted'[v] = aborted[v] /\ elapsed'[v] = elapsed[v]
          /\ beatIn'[v] = beatIn[v] /\ renewal'[v] = renewal[v]
      BY <1>0, <1>4, <2>3 DEF Release, ForgetDrain, Goto, TypeInv, TypeOK, LoopTypeOK, BeatTypeOK
    <3>2. InDrain(v) /\ ~aborted[v] => claims'[held[v].companion] = claims[held[v].companion]
      BY <2>1, <2>3, OthersLeaveLease
    <3> QED
      BY <3>1, <3>2, LeaseFrame DEF InDrain
  <2> QED
    BY <2>2, <2>3
<1>5. ASSUME NEW w \in Loop, Beat(w) \/ RenewReplies(w)
      PROVE  LeaseGuards(v)'
  BY <1>5, BeatKeepsLease, ReplyKeepsLease
<1>6. ASSUME Tick
      PROVE  LeaseGuards(v)'
  BY <1>6, TickKeepsLease
<1>7. ASSUME NEW w \in Loop,
             \/ Nudge(w) \/ QueryCandidates(w) \/ NextDueJob(w) \/ HandlerRead(w) \/ Mark(w)
             \/ ClaimError(w) \/ DrainError(w) \/ HandlerFails(w)
             \/ \E o \in Terminal : HandlerSettles(w, o)
      PROVE  LeaseGuards(v)'
  <2>1. UNCHANGED <<claims, held, beatVars>>
    BY <1>7
       DEF Nudge, QueryCandidates, NextDueJob, HandlerRead, Mark, ClaimError, DrainError,
           HandlerFails,
       HandlerSettles, Settle, queueVars
  <2>2. InDrain(v)' => InDrain(v)
    BY <1>0, <1>7 DEF Nudge, QueryCandidates, NextDueJob, HandlerRead, Mark, ClaimError, DrainError,
       HandlerFails, HandlerSettles, Settle, Goto, InDrain, Draining
  <2> QED
    BY <2>1, <2>2, LeaseFrame DEF beatVars
<1>8. ASSUME NEW w \in Loop, ReleaseError(w)
      PROVE  LeaseGuards(v)'
  <2>1. UNCHANGED claims /\ pc' = [pc EXCEPT ![w] = "claiming"]
    BY <1>8 DEF ReleaseError, Goto, queueVars
  <2>2. CASE v = w
    BY <1>0, <2>1, <2>2, LeaseFrame DEF InDrain, Draining
  <2>3. CASE v # w
    <3>1. /\ pc'[v] = pc[v] /\ held'[v] = held[v] /\ aborted'[v] = aborted[v] /\ elapsed'[v] = elapsed[v]
          /\ beatIn'[v] = beatIn[v] /\ renewal'[v] = renewal[v]
      BY <1>0, <1>8, <2>3
         DEF ReleaseError, ForgetDrain, Goto, TypeInv, TypeOK, LoopTypeOK, BeatTypeOK
    <3> QED
      BY <2>1, <3>1, LeaseFrame DEF InDrain
  <2> QED
    BY <2>2, <2>3
<1>9. ASSUME NEW w \in Loop, RenewError(w)
      PROVE  LeaseGuards(v)'
  <2>1. UNCHANGED <<claims, pc, held, aborted, elapsed, beatIn>> /\ renewal' = [renewal EXCEPT ![w] = "none"]
    BY <1>9 DEF RenewError, queueVars, loopVars
  <2>2. renewal'[v] = "held" => renewal[v] = "held"
    BY <1>0, <2>1
  <2> QED
    BY <2>1, <2>2, LeaseFrame DEF InDrain
<1>10. ASSUME NEW n \in Owner, Crash(n)
       PROVE  LeaseGuards(v)'
  <2>1. UNCHANGED claims
    BY <1>10 DEF Crash, queueVars
  <2>2. CASE NodeOf[v] = n
    BY <1>10, <2>2, LeaseFrame DEF Crash, InDrain, Draining
  <2>3. CASE NodeOf[v] # n
    BY <1>10, <2>1, <2>3, LeaseFrame DEF Crash, InDrain
  <2> QED
    BY <2>2, <2>3
<1>11. ASSUME \/ \E c \in Companion, k \in Key : Trigger(c, k) \/ TriggerLost(c, k) \/ Sweep(c, k)
              \/ \E n \in Owner : Close(n) \/ Exit(n) \/ Boot(n)
              \/ UNCHANGED vars
       PROVE  LeaseGuards(v)'
  <2>1. UNCHANGED <<claims, loopVars, beatVars>>
    BY <1>11 DEF Trigger, TriggerLost, Sweep, Close, Exit, Boot, vars, queueVars
  <2> QED
    BY <2>1, LeaseFrame DEF loopVars, beatVars, InDrain
<1> QED
  BY <1>1, <1>2, <1>3, <1>4, <1>5, <1>6, <1>7, <1>8, <1>9, <1>10, <1>11
     DEF Next, LoopStep, BeatStep, ErrorStep

\* Two live drains of a companion would both be its claim's owner.
LEMMA LeaseExcludes ==
  ASSUME OneLoopPerNode, TypeInv, LeaseInv
  PROVE  OneLiveDrain
<1> SUFFICES ASSUME NEW v \in Loop, NEW w \in Loop, NEW c \in Companion, LiveDrain(v, c), LiveDrain(w, c)
             PROVE  v = w
  BY DEF OneLiveDrain
<1>1. claims[c].owner = NodeOf[v] /\ claims[c].owner = NodeOf[w]
  BY FencedClaim DEF LeaseInv, LeaseGuards, LiveDrain
<1> QED
  BY <1>1 DEF OneLoopPerNode

\* With one loop per node and timers that are not late, no two drains of one
\* companion are both live, whatever calls fail, processes die or triggers
\* come: for every lease longer than the heartbeat, as config.ts requires
\* (drainCompanion's heartbeat, tryClaim, renewClaim, releaseClaim).
THEOREM OneLiveDrainHolds == OneLoopPerNode /\ PromptTimers => (Spec => []OneLiveDrain)
<1> SUFFICES ASSUME OneLoopPerNode, PromptTimers
             PROVE  Spec => []OneLiveDrain
  OBVIOUS
<1>1. Init => TypeInv /\ LeaseInv
  BY InitTyped DEF Init, LeaseInv, LeaseGuards, FreshLoop, InDrain, Draining
<1>2. TypeInv /\ LeaseInv /\ [Next]_vars => (TypeInv /\ LeaseInv)'
  BY TypedStep, LeaseStep
<1>3. TypeInv /\ LeaseInv => OneLiveDrain
  BY LeaseExcludes
<1> QED
  BY <1>1, <1>2, <1>3, PTL DEF Spec
=============================================================================
