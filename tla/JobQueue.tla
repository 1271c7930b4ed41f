------------------------------ MODULE JobQueue ------------------------------
(***************************************************************************)
(* The durable job queue of packages/core/src/jobs/job-queue.ts: the rows  *)
(* of `jobs` and of `companion_claims`, and the SQL statement each store   *)
(* method runs.  A method is one statement, hence one atomic operator on   *)
(* the two tables; the drain loops that call them are in JobProcessor.     *)
(*                                                                         *)
(* A claim's `claimed_until` is kept as the time left before it lapses, so *)
(* that the state space is finite without bounding the clock.  Rows of     *)
(* `jobs` form a sequence in creation order: no caller passes a `runAt`,   *)
(* so creation order is the order of (run_at, created_at) the code sorts   *)
(* by, and every pending row is due.                                       *)
(***************************************************************************)
EXTENDS Naturals, Sequences, FiniteSets

CONSTANTS
  Companion,            \* the companions whose work is queued
  Key,                  \* dedupe keys (a bare type, or a type and its event)
  Owner,                \* node ids recorded as claim owners
  LeaseMs,              \* the claim lease, in ticks
  ClaimCandidateBatch,  \* CLAIM_CANDIDATE_BATCH
  MaxJobs,              \* bound on the rows of `jobs`
  MaxGeneration,        \* bound on a claim's generation
  NoClaim               \* the claim table has no row for the companion

ASSUME QueueConstants ==
  /\ LeaseMs \in Nat \ {0}
  /\ ClaimCandidateBatch \in Nat \ {0}
  /\ MaxJobs \in Nat
  /\ MaxGeneration \in Nat \ {0}
  /\ NoClaim \notin [owner : Owner, generation : 1..MaxGeneration, left : 0..LeaseMs]

VARIABLES
  jobs,    \* the `jobs` table
  claims   \* the `companion_claims` table, by companion

queueVars == <<jobs, claims>>

Terminal == {"done", "failed"}

JobRow == [companion : Companion, key : Key, status : {"pending"} \cup Terminal]

ClaimRow == [owner : Owner, generation : 1..MaxGeneration, left : 0..LeaseMs]

QueueTypeOK ==
  /\ jobs \in Seq(JobRow)
  /\ Len(jobs) <= MaxJobs
  /\ claims \in [Companion -> ClaimRow \cup {NoClaim}]

QueueInit ==
  /\ jobs = <<>>
  /\ claims = [c \in Companion |-> NoClaim]

-----------------------------------------------------------------------------
Pending(c) == {j \in DOMAIN jobs : jobs[j].companion = c /\ jobs[j].status = "pending"}

PendingOn(c, k) == {j \in Pending(c) : jobs[j].key = k}

\* nextDueJob: the row a companion's drain runs next is its oldest due one.
IsNextDue(c, j) == j \in Pending(c) /\ \A i \in Pending(c) : j <= i

\* Mutant: only a released companion can be claimed, never a lapsed claim.
ClaimableReleasedOnly(c) == claims[c] = NoClaim

\* `claimed_until < now()`, or no row: the takeover gate of tryClaim.
Claimable(c) == claims[c] # NoClaim => claims[c].left = 0

OwnedBy(c, o) == claims[c] # NoClaim /\ claims[c].owner = o

\* claimStillHeld: the row shows this owner and this generation, live or not.
ClaimStillHeld(c, o, g) == OwnedBy(c, o) /\ claims[c].generation = g

\* Mutant: the unique index forgets its `status = 'pending'` condition.
EnqueueOncePerKey(c, k) ==
  IF \E j \in DOMAIN jobs : jobs[j].companion = c /\ jobs[j].key = k
  THEN UNCHANGED jobs
  ELSE /\ Len(jobs) < MaxJobs
       /\ jobs' = Append(jobs, [companion |-> c, key |-> k, status |-> "pending"])

\* Mutant: the insert has no conflict target, and every trigger adds a row.
EnqueueNeverCollapses(c, k) ==
  /\ Len(jobs) < MaxJobs
  /\ jobs' = Append(jobs, [companion |-> c, key |-> k, status |-> "pending"])

\* INSERT ... ON CONFLICT (companion, dedupe_key) WHERE status = 'pending'
\* DO UPDATE: a trigger either collapses on the pending row or adds one.
Enqueue(c, k) ==
  IF PendingOn(c, k) # {}
  THEN UNCHANGED jobs
  ELSE /\ Len(jobs) < MaxJobs
       /\ jobs' = Append(jobs, [companion |-> c, key |-> k, status |-> "pending"])

\* The candidates of claimNextCompanion: companions with due work and no
\* live claim, the oldest due job first, cut to the batch.
Eligible ==
  {p \in [companion : Companion, oldest : DOMAIN jobs] :
     IsNextDue(p.companion, p.oldest) /\ Claimable(p.companion)}

Candidates ==
  {p \in Eligible : Cardinality({q \in Eligible : q.oldest < p.oldest}) < ClaimCandidateBatch}

\* Mutant: the upsert forgets `setWhere`, and takes over a live claim.
TryClaimUngated(c, o) ==
  LET g == IF claims[c] = NoClaim THEN 1 ELSE claims[c].generation + 1
  IN  /\ g <= MaxGeneration
      /\ claims' = [claims EXCEPT ![c] = [owner |-> o, generation |-> g, left |-> LeaseMs]]

\* tryClaim's conditional upsert.  A row that was released is inserted anew,
\* so its generation starts at 1 again.
TryClaim(c, o) ==
  /\ Claimable(c)
  /\ LET g == IF claims[c] = NoClaim THEN 1 ELSE claims[c].generation + 1
     IN  /\ g <= MaxGeneration
         /\ claims' = [claims EXCEPT ![c] = [owner |-> o, generation |-> g, left |-> LeaseMs]]

\* Mutant: the terminal write is not fenced.
MarkTerminalUnfenced(j, outcome, c, o, g) == jobs' = [jobs EXCEPT ![j].status = outcome]

\* markDone and markFailed: an update fenced on (owner, generation).
MarkTerminal(j, outcome, c, o, g) ==
  IF ClaimStillHeld(c, o, g)
  THEN jobs' = [jobs EXCEPT ![j].status = outcome]
  ELSE UNCHANGED jobs

\* renewClaim matches the owner and a live lease, and no generation.
RenewHeld(c, o) == OwnedBy(c, o) /\ claims[c].left > 0

RenewClaim(c, o) ==
  claims' = IF RenewHeld(c, o) THEN [claims EXCEPT ![c].left = LeaseMs] ELSE claims

\* releaseClaim deletes the row of the owner, whatever its generation.
ReleaseClaim(c, o) ==
  claims' = IF OwnedBy(c, o) THEN [claims EXCEPT ![c] = NoClaim] ELSE claims

\* The database clock advances by one tick for every lease.
LeaseTick ==
  claims' = [c \in Companion |->
               IF claims[c] # NoClaim /\ claims[c].left > 0
               THEN [claims[c] EXCEPT !.left = @ - 1] ELSE claims[c]]
=============================================================================
