----------------------------- MODULE Embodiment -----------------------------
(***************************************************************************)
(* The connections that embody one companion: the claim they contend for   *)
(* (packages/core/src/embodiment), the life of a connection on its API     *)
(* node (embody in packages/api/src/ws/register.ts), and the delivery of   *)
(* the companion's events by heartbeat.                                    *)
(*                                                                         *)
(* A connection is its ULID: a newer one is a greater number.  Connections *)
(* are minted on nodes whose clocks may differ, so they arrive in any      *)
(* order.  A step is a database statement with its reply, a timer or a     *)
(* socket event; a read of the log executes and replies in two steps.      *)
(***************************************************************************)
EXTENDS EventLog

CONSTANTS
  MaxConn,      \* the connections are 1..MaxConn
  TtlMs,        \* WS_CLAIM_TTL_MS, in ticks
  HeartbeatMs,  \* WS_HEARTBEAT_MS, in ticks
  Batch,        \* EVENT_BATCH
  MaxReads,     \* bound on the reads one connection has in flight
  MaxFaults,    \* bound on failed statements and crashes
  EarlyClose,   \* TRUE: a socket may close before its heartbeat is armed
  NoClaim,      \* the table has no row
  NotRead       \* a read that has not executed

Conn == 1..MaxConn

ClaimRow == [conn : Conn, seq : 1..MaxConn, age : 0..TtlMs]

ASSUME EmbodimentConstants ==
  /\ MaxConn \in Nat \ {0} /\ Batch \in Nat \ {0} /\ MaxReads \in Nat \ {0} /\ MaxFaults \in Nat
  /\ HeartbeatMs \in Nat \ {0} /\ TtlMs \in Nat /\ TtlMs > HeartbeatMs
  /\ EarlyClose \in BOOLEAN
  /\ NoClaim \notin ClaimRow

VARIABLES
  claim,      \* the row of active_embodiment
  pc,         \* where embody() is, per connection
  open,       \* connections whose socket is open
  bound,      \* claimSeq of the connection's binding, or 0
  beatIn,     \* ticks until its heartbeat timer is due
  renewing,   \* connections with a renewal in flight
  releasing,  \* connections with a release in flight
  cursor,     \* the last sequence number pushed
  reads,      \* readSince calls in flight
  given,      \* ghost: rows the client has: committed at connect, or pushed
  faults      \* faults so far

connVars == <<pc, open, bound, beatIn, renewing, releasing, cursor, reads, given>>
vars     == <<logVars, claim, connVars, faults>>

Read == [after : 0..MaxEvents, got : (SUBSET (1..MaxEvents)) \cup {NotRead}]

TypeOK ==
  /\ LogTypeOK
  /\ claim \in ClaimRow \cup {NoClaim}
  /\ pc \in [Conn -> {"new", "claiming", "binding", "live", "off"}]
  /\ bound \in [Conn -> 0..MaxConn]
  /\ beatIn \in [Conn -> 0..HeartbeatMs]
  /\ open \cup renewing \cup releasing \subseteq Conn
  /\ cursor \in [Conn -> 0..MaxEvents]
  /\ reads \in [Conn -> SUBSET Read]
  /\ given \in [Conn -> SUBSET (1..MaxEvents)]
  /\ faults \in 0..MaxFaults

Init ==
  /\ LogInit
  /\ claim = NoClaim
  /\ pc = [c \in Conn |-> "new"]
  /\ bound = [c \in Conn |-> 0]
  /\ beatIn = [c \in Conn |-> 0]
  /\ open = {} /\ renewing = {} /\ releasing = {}
  /\ cursor = [c \in Conn |-> 0]
  /\ reads = [c \in Conn |-> {}]
  /\ given = [c \in Conn |-> {}]
  /\ faults = 0

\* The node is done with a connection but for statements in flight on the claim.
\* Its closure is forgotten: a push to a closed socket has no effect.
Forgets(c) ==
  /\ pc' = [pc EXCEPT ![c] = "off"]
  /\ beatIn' = [beatIn EXCEPT ![c] = 0]
  /\ cursor' = [cursor EXCEPT ![c] = 0]
  /\ reads' = [reads EXCEPT ![c] = {}]
  /\ given' = [given EXCEPT ![c] = {}]

Fault == faults < MaxFaults /\ faults' = faults + 1

-----------------------------------------------------------------------------
(* Statements on the claim; one that fails has no effect *)

Lapsed == claim # NoClaim /\ claim.age = TtlMs

\* claim(): no holder, an older ULID, or a holder without a heartbeat.
Claimable(c) == claim # NoClaim => claim.conn < c \/ Lapsed

\* The fence of renew, holds and release: connection id and claim sequence.
Holds(c) == claim # NoClaim /\ claim.conn = c /\ claim.seq = bound[c]

\* Mutant: the renewal matches the companion only.
RenewMatchesAny(c) == claim # NoClaim

RenewMatches(c) == Holds(c)

\* Mutant: the release matches the companion only.
ReleaseMatchesAny(c) == claim # NoClaim

ReleaseMatches(c) == Holds(c)

\* A live claim is what presence reads.
Present(c) == claim # NoClaim /\ claim.conn = c /\ ~Lapsed

-----------------------------------------------------------------------------
(* embody(): claim, cursor, ready *)

\* The upgrade is accepted and the claim statement sent.
Connect(c) ==
  /\ pc[c] = "new"
  /\ pc' = [pc EXCEPT ![c] = "claiming"]
  /\ open' = open \cup {c}
  /\ UNCHANGED <<logVars, claim, bound, beatIn, renewing, releasing, cursor, reads, given, faults>>

\* The claim is won and bound, or the room is yielded at once.
ClaimReturns(c) ==
  /\ pc[c] = "claiming"
  /\ IF Claimable(c)
     THEN LET q == IF claim = NoClaim THEN 1 ELSE claim.seq + 1
          IN  /\ claim' = [conn |-> c, seq |-> q, age |-> 0]
              /\ bound' = [bound EXCEPT ![c] = q]
              /\ pc' = [pc EXCEPT ![c] = "binding"]
              /\ UNCHANGED open
     ELSE /\ pc' = [pc EXCEPT ![c] = "off"]
          /\ open' = open \ {c}
          /\ UNCHANGED <<claim, bound>>
  /\ UNCHANGED <<logVars, beatIn, renewing, releasing, cursor, reads, given, faults>>

\* The cursor is read: grant the lease, arm the heartbeat and, only now,
\* listen for the socket's close.
CursorReturns(c) ==
  /\ pc[c] = "binding"
  /\ pc' = [pc EXCEPT ![c] = "live"]
  /\ cursor' = [cursor EXCEPT ![c] = LatestSettledSeq]
  /\ given' = [given EXCEPT ![c] = Committed]
  /\ beatIn' = [beatIn EXCEPT ![c] = HeartbeatMs]
  /\ UNCHANGED <<logVars, claim, open, bound, renewing, releasing, reads, faults>>

\* The claim or the cursor statement fails: the socket is closed, and a claim
\* that was won is left to lapse.
EmbodyFails(c) ==
  /\ pc[c] \in {"claiming", "binding"}
  /\ Fault
  /\ pc' = [pc EXCEPT ![c] = "off"]
  /\ open' = open \ {c}
  /\ UNCHANGED <<logVars, claim, bound, beatIn, renewing, releasing, cursor, reads, given>>

-----------------------------------------------------------------------------
(* The heartbeat *)

\* The timer fires: renew.
Beat(c) ==
  /\ pc[c] = "live" /\ beatIn[c] = 0 /\ c \notin renewing
  /\ renewing' = renewing \cup {c}
  /\ beatIn' = [beatIn EXCEPT ![c] = HeartbeatMs]
  /\ UNCHANGED <<logVars, claim, pc, open, bound, releasing, cursor, reads, given, faults>>

\* Held: read the events after the cursor.  Not held: a newer connection took
\* the room; stop the timer, tell the client, close; the close releases.
Renews(c) ==
  /\ c \in renewing
  /\ renewing' = renewing \ {c}
  /\ IF RenewMatches(c)
     THEN /\ Cardinality(reads[c]) < MaxReads
          /\ claim' = [claim EXCEPT !.age = 0]
          /\ reads' = [reads EXCEPT ![c] = IF c \in open THEN @ \cup {[after |-> cursor[c], got |-> NotRead]} ELSE @]
          /\ UNCHANGED <<pc, open, beatIn, cursor, given, releasing>>
     ELSE /\ Forgets(c)
          /\ open' = open \ {c}
          /\ releasing' = releasing \cup ({c} \cap open)
          /\ UNCHANGED claim
  /\ UNCHANGED <<logVars, bound, faults>>

\* The renewal throws: left to the next tick.
RenewFails(c) ==
  /\ c \in renewing
  /\ Fault
  /\ renewing' = renewing \ {c}
  /\ UNCHANGED <<logVars, claim, pc, open, bound, beatIn, releasing, cursor, reads, given>>

\* A read executes.
ReadExecutes(c, r) ==
  /\ r \in reads[c] /\ r.got = NotRead
  /\ reads' = [reads EXCEPT ![c] = (@ \ {r}) \cup {[r EXCEPT !.got = ReadSince(r.after, Batch)]}]
  /\ UNCHANGED <<logVars, claim, pc, open, bound, beatIn, renewing, releasing, cursor, given, faults>>

\* Its rows are pushed in order and the cursor set to the last; a push to a
\* closed socket is dropped.
Pushes(c, r) ==
  /\ r \in reads[c] /\ r.got # NotRead
  /\ reads' = [reads EXCEPT ![c] = @ \ {r}]
  /\ given' = [given EXCEPT ![c] = IF c \in open THEN @ \cup r.got ELSE @]
  /\ cursor' = [cursor EXCEPT ![c] = Latest(r.got, @)]
  /\ UNCHANGED <<logVars, claim, pc, open, bound, beatIn, renewing, releasing, faults>>

\* A read fails: logged.
ReadFails(c, r) ==
  /\ r \in reads[c] /\ r.got = NotRead
  /\ Fault
  /\ reads' = [reads EXCEPT ![c] = @ \ {r}]
  /\ UNCHANGED <<logVars, claim, pc, open, bound, beatIn, renewing, releasing, cursor, given>>

-----------------------------------------------------------------------------
(* The end of a connection *)

\* Mutant: the close handler leaves the timer running.
StopsTimerNot(c) == UNCHANGED <<pc, beatIn, cursor, reads, given>>

StopsTimer(c) == Forgets(c)

\* The client goes away: the close handler stops the timer and releases, if
\* it is there already.
Closes(c) ==
  /\ c \in open
  /\ EarlyClose \/ pc[c] = "live"
  /\ open' = open \ {c}
  /\ IF pc[c] = "live"
     THEN StopsTimer(c) /\ releasing' = releasing \cup {c}
     ELSE UNCHANGED <<pc, beatIn, cursor, reads, given, releasing>>
  /\ UNCHANGED <<logVars, claim, bound, renewing, faults>>

Releases(c) ==
  /\ c \in releasing
  /\ releasing' = releasing \ {c}
  /\ claim' = IF ReleaseMatches(c) THEN NoClaim ELSE claim
  /\ UNCHANGED <<logVars, pc, open, bound, beatIn, renewing, cursor, reads, given, faults>>

ReleaseFails(c) ==
  /\ c \in releasing
  /\ Fault
  /\ releasing' = releasing \ {c}
  /\ UNCHANGED <<logVars, claim, pc, open, bound, beatIn, renewing, cursor, reads, given>>

\* The node of the connection dies.
Crash(c) ==
  /\ pc[c] \notin {"new", "off"}
  /\ Fault
  /\ Forgets(c)
  /\ open' = open \ {c}
  /\ renewing' = renewing \ {c} /\ releasing' = releasing \ {c}
  /\ UNCHANGED <<logVars, claim, bound>>

-----------------------------------------------------------------------------
(* Time *)

\* A connection that waits for a statement on the claim or whose timer is due.
Late(c) == c \in renewing \/ pc[c] = "binding" \/ (pc[c] = "live" /\ beatIn[c] = 0)

\* No event loop and no statement on the claim stalls for a tick.
Tick ==
  /\ \A c \in Conn : ~Late(c)
  /\ claim' = IF claim # NoClaim /\ ~Lapsed THEN [claim EXCEPT !.age = @ + 1] ELSE claim
  /\ beatIn' = [c \in Conn |-> IF pc[c] = "live" THEN beatIn[c] - 1 ELSE beatIn[c]]
  /\ UNCHANGED <<logVars, pc, open, bound, renewing, releasing, cursor, reads, given, faults>>

-----------------------------------------------------------------------------
Appends == Number \/ \E s \in DOMAIN log : LogStep(s)

ConnStep(c) == ClaimReturns(c) \/ CursorReturns(c) \/ Beat(c) \/ Renews(c) \/ Releases(c)

ReadExecutesAny(c) == \E r \in reads[c] : ReadExecutes(c, r)
PushesAny(c)       == \E r \in reads[c] : Pushes(c, r)

ConnFault(c) ==
  EmbodyFails(c) \/ RenewFails(c) \/ ReleaseFails(c) \/ Crash(c) \/ \E r \in reads[c] : ReadFails(c, r)

Next ==
  \/ Appends /\ UNCHANGED <<claim, connVars, faults>>
  \/ \E c \in Conn : Connect(c) \/ Closes(c) \/ ConnStep(c) \/ ConnFault(c)
                   \/ ReadExecutesAny(c) \/ PushesAny(c)
  \/ Tick

Spec == Init /\ [][Next]_vars

(***************************************************************************)
(* Fairness: timers fire, statements reply, transactions end.  Connects,   *)
(* closes, appends and faults are never owed.                              *)
(***************************************************************************)
FairSpec ==
  /\ Spec
  /\ \A c \in Conn : WF_vars(ConnStep(c)) /\ WF_vars(ReadExecutesAny(c)) /\ WF_vars(PushesAny(c))
  /\ \A s \in 1..MaxEvents :
       WF_vars(s \in DOMAIN log /\ LogStep(s) /\ UNCHANGED <<claim, connVars, faults>>)
  /\ WF_vars(Tick)

-----------------------------------------------------------------------------
(* Safety *)

\* No event is lost: every committed row up to a live connection's cursor was
\* visible to its client's snapshot or has been pushed, though appends commit
\* out of order and reads overlap (the visibility horizon of log.ts).
NothingSkipped ==
  \A c \in Conn : (pc[c] = "live" /\ c \in open) =>
    \A s \in Committed : s <= cursor[c] => s \in given[c]

\* A connection that beats loses the claim to a newer connection only: not to
\* an older one, not to the late close of a superseded one, not to one failed
\* renewal (claim, renew, release).
HolderKept ==
  [][\A c \in Conn : (pc[c] = "live" /\ c \in open /\ Holds(c)) =>
       claim' # NoClaim /\ claim'.conn >= c]_vars

-----------------------------------------------------------------------------
(* Liveness *)

\* A superseded connection learns it from its heartbeat and closes.
SupersededTold == \A c \in Conn : (pc[c] = "live" /\ ~Holds(c)) ~> (pc[c] = "off")

\* A connection that is gone is absent once its claim is released or lapses
\* (presence.ts).
AbsentWhenGone == \A c \in Conn : (pc[c] # "new" /\ c \notin open) ~> ~Present(c)

\* An event is delivered to the connection that was live when it committed, or
\* that connection ends.
EventDelivered ==
  \A c \in Conn, s \in 1..MaxEvents :
    (pc[c] = "live" /\ s \in Committed) ~> (s \in given[c] \/ pc[c] = "off")
=============================================================================
