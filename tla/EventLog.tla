------------------------------ MODULE EventLog ------------------------------
(***************************************************************************)
(* The live-event log of one companion, packages/core/src/events/log.ts    *)
(* and the table `companion_events`.  An append is one INSERT statement in *)
(* a transaction of its own, but its steps interleave with those of other  *)
(* appends: the sequence number is taken, the transaction gets its id, and *)
(* the row becomes visible when it commits.  A row is the position of its  *)
(* sequence number in `log`.                                               *)
(***************************************************************************)
EXTENDS Naturals, Sequences, FiniteSets

CONSTANTS
  MaxEvents,      \* bound on the appends
  StampsInOrder   \* TRUE: no append comes between another's two numbers

ASSUME LogConstants == MaxEvents \in Nat /\ StampsInOrder \in BOOLEAN

VARIABLES
  log,      \* every append, by sequence number
  nextXid   \* the next transaction id

logVars == <<log, nextXid>>

Row == [xid : 0..MaxEvents, state : {"numbered", "running", "committed", "aborted"}]

LogTypeOK == log \in Seq(Row) /\ Len(log) <= MaxEvents /\ nextXid \in 1..(MaxEvents + 1)

LogInit == log = <<>> /\ nextXid = 1

\* nextval of the sequence.
Number ==
  /\ Len(log) < MaxEvents
  /\ StampsInOrder => \A s \in DOMAIN log : log[s].state # "numbered"
  /\ log' = Append(log, [xid |-> 0, state |-> "numbered"])
  /\ UNCHANGED nextXid

\* pg_current_xact_id, the default of the column xid.
Stamp(s) ==
  /\ log[s].state = "numbered"
  /\ log' = [log EXCEPT ![s] = [xid |-> nextXid, state |-> "running"]]
  /\ nextXid' = nextXid + 1

\* The append commits, or fails and is only logged.
Ends(s) ==
  /\ log[s].state = "running"
  /\ \E end \in {"committed", "aborted"} : log' = [log EXCEPT ![s].state = end]
  /\ UNCHANGED nextXid

Committed == {s \in DOMAIN log : log[s].state = "committed"}

\* Mutant: a row is delivered as soon as it is visible.
SettledWhenCommitted == Committed

\* Rows whose transaction is older than every running one (pg_snapshot_xmin).
Settled ==
  {s \in Committed : \A r \in DOMAIN log : log[r].state = "running" => log[s].xid < log[r].xid}

\* Mutant: the limit counts from the start of the log.
ReadSinceStart(after, limit) ==
  {s \in Settled : s > after /\ Cardinality({r \in Settled : r <= s}) <= limit}

\* The first `limit` settled rows after a cursor.
ReadSince(after, limit) ==
  {s \in Settled : s > after /\ Cardinality({r \in Settled : after < r /\ r <= s}) <= limit}

Latest(rows, otherwise) ==
  IF rows = {} THEN otherwise ELSE CHOOSE s \in rows : \A r \in rows : r <= s

LatestSettledSeq == Latest(Settled, 0)

LogStep(s) == Stamp(s) \/ Ends(s)
=============================================================================
