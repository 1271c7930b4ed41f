----------------------------- MODULE JobLedger -----------------------------
(***************************************************************************)
(* What the job queue promises its callers, without claims, leases or      *)
(* fences: a ledger of rows, at most one of them pending for a companion   *)
(* and key, run oldest first, each settled at most once and by a worker    *)
(* that ran it.  A run may be abandoned, and a row run again.              *)
(***************************************************************************)
EXTENDS Naturals, Sequences

CONSTANTS
  Companion,   \* the companions whose work is queued
  Key,         \* dedupe keys
  Worker       \* whatever runs rows

VARIABLES
  rows,      \* the rows in creation order: companion, key and status
  running    \* the row each worker runs, or 0

ledgerVars == <<rows, running>>

Open(j) == rows[j].status = "pending"

LedgerInit ==
  /\ rows = <<>>
  /\ running = [w \in Worker |-> 0]

\* A trigger adds a row unless one is pending for its companion and key.
Record(c, k) ==
  /\ \A j \in DOMAIN rows : Open(j) => rows[j].companion # c \/ rows[j].key # k
  /\ rows' = Append(rows, [companion |-> c, key |-> k, status |-> "pending"])
  /\ UNCHANGED running

\* A free worker starts the oldest pending row of some companion.
Begin(w, j) ==
  /\ running[w] = 0
  /\ Open(j)
  /\ \A i \in 1..(j - 1) : Open(i) => rows[i].companion # rows[j].companion
  /\ running' = [running EXCEPT ![w] = j]
  /\ UNCHANGED rows

\* The worker that runs a pending row settles it, and is free.
Close(w, o) ==
  /\ running[w] # 0
  /\ Open(running[w])
  /\ rows' = [rows EXCEPT ![running[w]].status = o]
  /\ running' = [running EXCEPT ![w] = 0]

\* Workers drop their rows unsettled: a lost lease, an error or a crash.
Abandon(ws) ==
  /\ running' = [w \in Worker |-> IF w \in ws THEN 0 ELSE running[w]]
  /\ UNCHANGED rows

LedgerNext ==
  \/ \E c \in Companion, k \in Key : Record(c, k)
  \/ \E w \in Worker : \/ \E j \in DOMAIN rows : Begin(w, j)
                       \/ \E o \in {"done", "failed"} : Close(w, o)
  \/ \E ws \in SUBSET Worker : Abandon(ws)

LedgerSpec == LedgerInit /\ [][LedgerNext]_ledgerVars
=============================================================================
