--------------------------- MODULE DiscordBridge ---------------------------
(***************************************************************************)
(* The Discord bridge, packages/discord/src/bridge.ts, for one user: the   *)
(* connection that embodies the companion, the commands and mission wakes  *)
(* that open or reuse it, and the events that end it, as connection.ts and *)
(* shared/ws-transport.ts deliver them.                                    *)
(*                                                                         *)
(* Node runs one task at a time with the promise continuations it causes,  *)
(* so a step is a task: a command, a wake, a database or Discord reply, a  *)
(* frame or a close.  Two frames may come in one task; a close may not.    *)
(***************************************************************************)
EXTENDS Naturals, Sequences, FiniteSets

CONSTANT Caller  \* commands and wakes, one call each

ASSUME FiniteCallers == IsFiniteSet(Caller)

VARIABLES
  active,   \* the embodiment in `active`: a position in conn, or 0
  queue,    \* callers in establishEmbodiment: the first dials, the others wait
  conn,     \* every connection dialled, with its embodiment
  pc,       \* where each caller is
  kind,     \* a command (/summon or /mission), or a mission wake
  via,      \* the connection a wake advances over
  opened,   \* ghost: embodiments a user command opened or was handed
  relied,   \* ghost: embodiments a user command was answered over
  advanced, \* ghost: embodiments a live mission advanced over
  skipped,  \* ghost: embodiments over which a wake was skipped
  failed    \* ghost: embodiments over which an advance threw while they were up

ghosts == <<opened, relied, advanced, skipped, failed>>
vars   == <<active, queue, conn, pc, kind, via, ghosts>>

Connection ==
  [sock       : {"connecting", "open", "ended"},
   gone       : BOOLEAN,   \* the server or the network has ended it
   frame      : BOOLEAN,   \* embodiment.superseded sent, not delivered
   superseded : BOOLEAN,   \* ... delivered
   ours       : BOOLEAN,   \* closed by the bridge
   holders    : 0..Cardinality(Caller),
   justified  : BOOLEAN]

TypeOK ==
  /\ conn \in Seq(Connection) /\ Len(conn) <= Cardinality(Caller)
  /\ active \in 0..Len(conn)
  /\ queue \in Seq(Caller)
  /\ pc \in [Caller -> {"idle", "config", "dm", "waiting", "connecting", "advancing", "done"}]
  /\ kind \in [Caller -> {"command", "wake"}]
  /\ via \in [Caller -> 0..Len(conn)]
  /\ opened \cup relied \cup advanced \cup skipped \cup failed \subseteq DOMAIN conn

Init ==
  /\ active = 0 /\ queue = <<>> /\ conn = <<>>
  /\ pc = [c \in Caller |-> "idle"]
  /\ kind = [c \in Caller |-> "command"]
  /\ via = [c \in Caller |-> 0]
  /\ opened = {} /\ relied = {} /\ advanced = {} /\ skipped = {} /\ failed = {}

Queued == {queue[k] : k \in DOMAIN queue}

-----------------------------------------------------------------------------
(* establishEmbodiment and openEmbodiment *)

Dialled ==
  [sock |-> "connecting", gone |-> FALSE, frame |-> FALSE, superseded |-> FALSE,
   ours |-> FALSE, holders |-> 0, justified |-> FALSE]

\* Mutant: a user command reuses an embodiment without justifying it.
JustifiedByOpening(was, S) == was

\* A user command justifies the embodiment it is given, even one a wake opened.
JustifiedBy(was, S) == was \/ \E c \in S : kind[c] # "wake"

\* The callers S are given embodiment i: a wake advances over it at once, a
\* command is answered.  cs is conn as the step has left it so far.
Give(S, i, cs) ==
  LET wakes == {c \in S : kind[c] = "wake"}
  IN  /\ conn' = [cs EXCEPT ![i].holders = @ + Cardinality(wakes),
                            ![i].justified = JustifiedBy(@, S)]
      /\ pc' = [c \in Caller |-> IF c \in wakes THEN "advancing"
                                 ELSE IF c \in S THEN "done" ELSE pc[c]]
      /\ via' = [c \in Caller |-> IF c \in wakes THEN i ELSE via[c]]
      /\ opened' = IF wakes = S THEN opened ELSE opened \cup {i}
      /\ relied' = IF wakes = S THEN relied ELSE relied \cup {i}

\* Mutant: every caller dials, whoever else is connecting.
EstablishesAtOnce == FALSE

\* Another establish of the user is in flight.
Establishing == queue # <<>>

\* Queue behind the establish in flight; else reuse the embodiment, or dial.
Establish(c) ==
  IF Establishing
  THEN /\ queue' = Append(queue, c) /\ pc' = [pc EXCEPT ![c] = "waiting"]
       /\ UNCHANGED <<conn, via, opened, relied>>
  ELSE IF active # 0
  THEN Give({c}, active, conn) /\ UNCHANGED queue
  ELSE /\ queue' = <<c>> /\ pc' = [pc EXCEPT ![c] = "connecting"]
       /\ conn' = Append(conn, Dialled)
       /\ UNCHANGED <<via, opened, relied>>

\* connect() resolves: register the embodiment; the callers that wait reuse it.
Claimed(i) ==
  /\ conn[i].sock = "connecting"
  /\ active' = i
  /\ Give(Queued, i, [conn EXCEPT ![i].sock = "open"])
  /\ queue' = <<>>
  /\ UNCHANGED <<kind, advanced, skipped, failed>>

\* Mutant: a failed establish fails the ones that queue behind it, silently.
PassesOnNobody(cs) ==
  /\ queue' = <<>>
  /\ pc' = [pc EXCEPT ![Head(queue)] = "done"]
  /\ conn' = cs

\* The first establish fails and its caller is told so; the next one dials.
PassesOn(cs) ==
  /\ queue' = Tail(queue)
  /\ IF Tail(queue) = <<>>
     THEN /\ pc' = [pc EXCEPT ![Head(queue)] = "done"] /\ conn' = cs
     ELSE /\ pc' = [pc EXCEPT ![Head(queue)] = "done", ![Head(Tail(queue))] = "connecting"]
          /\ conn' = Append(cs, Dialled)

\* connect() rejects: no token, an error (its close event is still to come),
\* a close, or a room lost before the grant; or the room is lost in the very
\* task that grants it, before the embodiment is registered.
Refused(i) ==
  /\ conn[i].sock = "connecting"
  /\ \E end \in {[sock |-> "ended", ours |-> FALSE],
                 [sock |-> "open", ours |-> FALSE],
                 [sock |-> "open", ours |-> TRUE]} :
       PassesOn([conn EXCEPT ![i].sock = end.sock, ![i].ours = end.ours, ![i].gone = TRUE])
  /\ UNCHANGED <<active, kind, via, ghosts>>

-----------------------------------------------------------------------------
(* Commands and wakes *)

\* /summon or /mission: over the embodiment that is there, or read the config.
Command(c) ==
  /\ pc[c] = "idle"
  /\ IF active # 0
     THEN pc' = [pc EXCEPT ![c] = "done"] /\ relied' = relied \cup {active}
     ELSE pc' = [pc EXCEPT ![c] = "config"] /\ UNCHANGED relied
  /\ UNCHANGED <<active, queue, conn, kind, via, opened, advanced, skipped, failed>>

\* A mission wake (handleTrigger).
Trigger(c) ==
  /\ pc[c] = "idle"
  /\ kind' = [kind EXCEPT ![c] = "wake"]
  /\ IF active # 0
     THEN /\ conn' = [conn EXCEPT ![active].holders = @ + 1]
          /\ pc' = [pc EXCEPT ![c] = "advancing"]
          /\ via' = [via EXCEPT ![c] = active]
     ELSE pc' = [pc EXCEPT ![c] = "config"] /\ UNCHANGED <<conn, via>>
  /\ UNCHANGED <<active, queue, ghosts>>

\* The configuration or the owner's DM channel is missing: refuse, or drop.
GivesUp(c) ==
  /\ pc[c] \in {"config", "dm"}
  /\ pc' = [pc EXCEPT ![c] = "done"]
  /\ UNCHANGED <<active, queue, conn, kind, via, ghosts>>

\* The configuration is read; a wake then opens the owner's DM channel.
ConfigRead(c) ==
  /\ pc[c] = "config"
  /\ IF kind[c] = "wake"
     THEN pc' = [pc EXCEPT ![c] = "dm"] /\ UNCHANGED <<queue, conn, via, opened, relied>>
     ELSE Establish(c)
  /\ UNCHANGED <<active, kind, advanced, skipped, failed>>

DmOpened(c) ==
  /\ pc[c] = "dm"
  /\ Establish(c)
  /\ UNCHANGED <<active, kind, advanced, skipped, failed>>

-----------------------------------------------------------------------------
(* teardown, and what leads to it *)

IsRegistered(i) == active = i

\* Drop the embodiment of connection i, if it is the registered one, and close
\* its connection.
TearDown(i, cs) ==
  IF IsRegistered(i)
  THEN active' = 0 /\ conn' = [cs EXCEPT ![active].ours = TRUE]
  ELSE active' = active /\ conn' = cs

\* Mutant: the first wake in decides, and the last one out leaves it.
RetractableFirstIn(e) == e.holders > 1 /\ ~e.justified

\* The last wake out, and no reason for the embodiment to stay.
Retractable(e) == e.holders = 1 /\ ~e.justified

\* The advance was live: the embodiment is justified.
AdvanceLive(c) ==
  LET i == via[c] IN
  /\ pc[c] = "advancing" /\ conn[i].sock = "open"
  /\ pc' = [pc EXCEPT ![c] = "done"]
  /\ conn' = [conn EXCEPT ![i].holders = @ - 1, ![i].justified = TRUE]
  /\ advanced' = advanced \cup {i}
  /\ UNCHANGED <<active, queue, kind, via, opened, relied, skipped, failed>>

\* The server skipped the wake, its mission is gone: retract the embodiment if
\* this was the last wake out and nothing justified it.
AdvanceSkipped(c) ==
  LET i == via[c]
      left == [conn EXCEPT ![i].holders = @ - 1]
  IN  /\ pc[c] = "advancing" /\ conn[i].sock = "open"
      /\ pc' = [pc EXCEPT ![c] = "done"]
      /\ skipped' = skipped \cup {i}
      /\ IF Retractable(conn[i]) THEN TearDown(i, left) ELSE conn' = left /\ UNCHANGED active
      /\ UNCHANGED <<queue, kind, via, opened, relied, advanced, failed>>

\* The advance throws over a connection that stays up.
AdvanceFails(c) ==
  /\ pc[c] = "advancing" /\ conn[via[c]].sock = "open"
  /\ pc' = [pc EXCEPT ![c] = "done"]
  /\ conn' = [conn EXCEPT ![via[c]].holders = @ - 1]
  /\ failed' = failed \cup {via[c]}
  /\ UNCHANGED <<active, queue, kind, via, opened, relied, advanced, skipped>>

\* embodiment.superseded is delivered (handleSuperseded).
SupersededEvent(i) ==
  /\ conn[i].sock = "open" /\ conn[i].frame
  /\ TearDown(i, [conn EXCEPT ![i].frame = FALSE, ![i].superseded = TRUE])
  /\ UNCHANGED <<queue, pc, kind, via, ghosts>>

\* Mutant: the close handler is never reached.
UnexpectedNever(e) == FALSE

\* Neither our own close nor one that follows a supersession.
Unexpected(e) == ~e.ours /\ ~e.superseded

\* The close event: what is in flight over the connection throws, and an
\* unexpected close tears the embodiment down (handleClosed).
ClosedEvent(i) ==
  LET cut == {c \in Caller : pc[c] = "advancing" /\ via[c] = i}
      ended == [conn EXCEPT ![i].sock = "ended", ![i].holders = @ - Cardinality(cut)]
  IN  /\ conn[i].sock = "open" /\ (conn[i].gone \/ conn[i].ours) /\ ~conn[i].frame
      /\ pc' = [c \in Caller |-> IF c \in cut THEN "done" ELSE pc[c]]
      /\ IF Unexpected(conn[i]) THEN TearDown(i, ended) ELSE conn' = ended /\ UNCHANGED active
      /\ UNCHANGED <<queue, kind, via, ghosts>>

\* The service stops.
Stop ==
  /\ active # 0
  /\ TearDown(active, conn)
  /\ UNCHANGED <<queue, pc, kind, via, ghosts>>

\* The room is claimed elsewhere: the server pushes the event and closes.
Supersedes(i) ==
  /\ conn[i].sock = "open" /\ ~conn[i].gone
  /\ conn' = [conn EXCEPT ![i].gone = TRUE, ![i].frame = TRUE]
  /\ UNCHANGED <<active, queue, pc, kind, via, ghosts>>

\* The connection is lost.
Drops(i) ==
  /\ conn[i].sock = "open" /\ ~conn[i].gone
  /\ conn' = [conn EXCEPT ![i].gone = TRUE]
  /\ UNCHANGED <<active, queue, pc, kind, via, ghosts>>

-----------------------------------------------------------------------------
Reads(c) == GivesUp(c) \/ ConfigRead(c) \/ DmOpened(c)

Advances(c) == AdvanceLive(c) \/ AdvanceSkipped(c) \/ AdvanceFails(c)

Connects(i) == Claimed(i) \/ Refused(i)

Next ==
  \/ \E c \in Caller : Command(c) \/ Trigger(c) \/ Reads(c) \/ Advances(c)
  \/ \E i \in DOMAIN conn :
       Connects(i) \/ SupersededEvent(i) \/ ClosedEvent(i) \/ Supersedes(i) \/ Drops(i)
  \/ Stop

Spec == Init /\ [][Next]_vars

-----------------------------------------------------------------------------
(* Properties *)

\* However many commands and wakes arrive during a handshake, the bridge holds
\* at most one connection to the room, so that its own connections never
\* supersede one another (establishEmbodiment).
OneConnection ==
  Cardinality({i \in DOMAIN conn : conn[i].sock # "ended" /\ ~conn[i].gone /\ ~conn[i].ours}) <= 1

\* The step retracts the embodiment over a connection that is up.
RetractStep == active # 0 /\ active' = 0 /\ ~conn[active].gone /\ ~Stop

\* The registered embodiment is given up for its own connection's sake, never
\* for an event of one it replaced (teardown's identity guard); or at a stop; or
\* because a wake over it was skipped, and then no other wake is advancing over
\* it, no live mission has advanced over it and no user command was given it by
\* establishEmbodiment (advanceForTrigger).
GivenUpForCause ==
  [][(active # 0 /\ active' # active) =>
       \/ conn[active].gone \/ Stop
       \/ /\ conn'[active].holders < conn[active].holders
          /\ active \notin advanced \cup opened
          /\ \A c \in Caller : pc'[c] = "advancing" => via[c] # active]_vars

\* A skipped wake retracts no embodiment the user is relying on.
ReliedStays == [][RetractStep => active \notin relied]_vars

\* A stray firing does not leave the companion in a room it claimed for
\* nothing: once the wakes over an embodiment are over, one of them was
\* skipped, none was live and none threw over a connection that was up, the
\* embodiment is given up unless the user opened it (handleTrigger).
StaleUndone ==
  (active # 0 /\ conn[active].holders = 0 /\ active \in skipped) =>
    active \in advanced \cup opened \cup failed

\* An embodiment whose connection is gone has an event coming that gives it
\* up, so the next /summon dials instead of finding a phantom (handleClosed,
\* handleSuperseded).
LossReported ==
  (active # 0 /\ conn[active].gone) =>
    conn[active].sock = "open" /\ (conn[active].frame \/ Unexpected(conn[active]))

\* Whoever waits for an establish is in the queue, and the head of the queue
\* dials: a handshake that fails strands nobody (establishEmbodiment).
SomeoneDials ==
  /\ \A c \in Caller : pc[c] \in {"waiting", "connecting"} <=> c \in Queued
  /\ queue # <<>> => /\ active = 0
                     /\ pc[Head(queue)] = "connecting"
                     /\ \E i \in DOMAIN conn : conn[i].sock = "connecting"
=============================================================================
