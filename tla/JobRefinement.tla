--------------------------- MODULE JobRefinement ---------------------------
(***************************************************************************)
(* The drain loops of JobProcessor implement JobLedger: the claims, the    *)
(* fenced writes and the heartbeat are how rows are settled at most once.  *)
(***************************************************************************)
EXTENDS JobProcessor

\* A loop runs a row from nextDueJob until its outcome is written or dropped.
RunningRow == [w \in Loop |-> IF pc[w] \in {"run", "ran", "mark"} THEN job[w] ELSE 0]

Ledger == INSTANCE JobLedger WITH Worker <- Loop, rows <- jobs, running <- RunningRow

\* Every step of the drain loops is a step of the ledger or none: triggers
\* collapse on the pending row of their key, a drain starts only the oldest
\* pending row of its companion, and an outcome is written to a row that is
\* pending, by a loop that runs it, with one loop per node and whatever is
\* late, lost or taken over (job-queue.ts, job-processor.ts drainCompanion).
LedgerImplemented == Ledger!LedgerSpec
=============================================================================
