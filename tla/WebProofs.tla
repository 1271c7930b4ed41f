------------------------------ MODULE WebProofs ------------------------------
(***************************************************************************)
(* Theorems about the browser's transport, WsClient, for every value of    *)
(* its constants, and about the browser as a whole.  The inductive         *)
(* invariant says which socket is the current one, whose open is pending,  *)
(* and whose continuation comes first.                                     *)
(***************************************************************************)
EXTENDS Web, ChatProofs

\* A socket that takes frames, or will.
Active(r) == r.state \in {"connecting", "open"}

\* The client will hear that its lease was granted before it hears that it
\* lost it.
ReadyFirst(box) ==
  \E k \in DOMAIN box : box[k].type = "ready" /\ \A j \in 1..(k - 1) : box[j].type # "superseded"

\* The lease may still be granted, and nothing else was said.
GrantDue(r) == r.server = "claiming" /\ \A k \in DOMAIN r.inbox : r.inbox[k].type # "superseded"

TokenAwaited == opening # NoOpening /\ opening.phase = "token"

SocketAwaited == opening # NoOpening /\ opening.phase = "socket"

\* pendingOpen is the opener's, and its continuation runs before any other.
OpenerFirst ==
  /\ pendingOpen => SocketAwaited
  /\ \A c \in Caller : pc[c] \in {"opened", "failed"} =>
       ~pendingOpen /\ micro # <<>> /\ Head(micro) = c

ClientInv == TypeOK /\ OpenerFirst

\* A socket that names no companion claims none, and is told of no claim.
Agnostic ==
  \A i \in DOMAIN conn : conn[i].comp = NoCompanion =>
    /\ conn[i].server \in {"agnostic", "gone"}
    /\ \A k \in DOMAIN conn[i].inbox : conn[i].inbox[k].type \notin Push

TransportInv == ClientInv /\ Agnostic

\* A socket that connects has the opening handlers and nothing to deliver.
ConnectingOK(r) ==
  r.state = "connecting" =>
    /\ r.handlers = "opening" /\ r.inbox = <<>>
    /\ r.server \in {"claiming", "agnostic", "gone"}
    /\ r.server = "claiming" => r.comp # NoCompanion
    /\ r.server = "agnostic" => r.comp = NoCompanion

\* A socket that closes has nothing left to deliver, and the handlers of a
\* socket that was usable.
ClosingOK(r) ==
  r.state = "closing" =>
    /\ CloseWindow /\ r.inbox = <<>> /\ r.server \in {"lost", "gone"}
    /\ r.handlers = "opening" => EarlyLoss

\* An open socket whose lease the client has not heard of will be granted it,
\* unless it may be lost early.
Ungranted(r) == r.state = "open" /\ r.handlers = "opening"

UngrantedOK(r) ==
  Ungranted(r) => r.server # "agnostic" /\ (~EarlyLoss => GrantDue(r) \/ ReadyFirst(r.inbox))

RowOK(r) == ConnectingOK(r) /\ ClosingOK(r) /\ UngrantedOK(r)

RowsOK == \A i \in DOMAIN conn : RowOK(conn[i])

\* Only the current socket is active, and none before the token is there.
CurrentOnly == \A i \in DOMAIN conn : Active(conn[i]) => i = socket /\ ~TokenAwaited

\* The open of a socket that connects, or is unheard of, is pending.
Pending(r) == r.state = "connecting" \/ (~EarlyLoss /\ Ungranted(r))

PendingKept == \A i \in DOMAIN conn : Pending(conn[i]) => pendingOpen

SocketInv == RowsOK /\ CurrentOnly /\ PendingKept

\* embodied is the current socket's companion; a caller about to send is in the
\* queue, and named no other.
ReadyOK ==
  /\ socket # 0 => embodied = conn[socket].comp
  /\ \A c \in Caller : pc[c] = "ready" =>
       /\ \E k \in DOMAIN micro : micro[k] = c
       /\ Live => want[c] \in {NoCompanion, embodied}

\* A request in flight keeps what its caller named.
RequestsOK ==
  \A i \in DOMAIN conn : \A c \in conn[i].requests :
    c \in Caller /\ pc[c] # "idle" /\ want[c] \in {NoCompanion, conn[i].comp}

RoomInv == ReadyOK /\ RequestsOK

\* An open that is pending is that of the current socket; once it has settled,
\* its opener goes on before anything else.
PendingOK ==
  /\ pendingOpen /\ socket # 0 => conn[socket].handlers = "opening"
  /\ SocketAwaited /\ ~pendingOpen => micro # <<>> /\ pc[Head(micro)] \in {"opened", "failed"}

\* A client that lost a companion opens nothing.
YieldedOK == lost # {} => superseded /\ micro = <<>> /\ ~pendingOpen /\ opening = NoOpening

YieldInv == PendingOK /\ YieldedOK

-----------------------------------------------------------------------------
(* The rows of the sockets *)

LEMMA ConnFacts ==
  ASSUME TypeOK
  PROVE  /\ conn \in Seq(Connection) /\ Len(conn) \in Nat /\ DOMAIN conn = 1..Len(conn)
         /\ \A i \in DOMAIN conn : conn[i] \in Connection /\ i \in Nat /\ i # 0
         /\ socket \in Nat /\ (socket # 0 => socket \in DOMAIN conn)
<1>1. conn \in Seq(Connection) /\ socket \in 0..Len(conn)
  BY DEF TypeOK
<1>2. Len(conn) \in Nat /\ DOMAIN conn = 1..Len(conn)
  BY <1>1, LenProperties
<1>3. \A i \in DOMAIN conn : conn[i] \in Connection
  BY <1>1, <1>2
<1> QED
  BY <1>1, <1>2, <1>3

\* The fields of a row.
LEMMA RowFields ==
  ASSUME TypeOK, NEW i \in DOMAIN conn
  PROVE  /\ conn[i] \in Connection
         /\ conn[i].comp \in Target
         /\ conn[i].state \in {"connecting", "open", "closing", "closed"}
         /\ conn[i].handlers \in {"opening", "steady", "off"}
         /\ conn[i].server \in {"agnostic", "claiming", "held", "lost", "gone"}
         /\ conn[i].requests \subseteq Caller
         /\ conn[i].inbox \in Seq(Message)
         /\ Len(conn[i].inbox) \in Nat /\ DOMAIN conn[i].inbox = 1..Len(conn[i].inbox)
<1>1. conn[i] \in Connection
  BY ConnFacts
<1>2. conn[i].inbox \in Seq(Message)
  BY <1>1 DEF Connection
<1>3. Len(conn[i].inbox) \in Nat /\ DOMAIN conn[i].inbox = 1..Len(conn[i].inbox)
  BY <1>2, LenProperties
<1> QED
  BY <1>1, <1>2, <1>3 DEF Connection

\* One row becomes r.
LEMMA RowChanged ==
  ASSUME TypeOK, NEW i \in DOMAIN conn, NEW r \in Connection, conn' = [conn EXCEPT ![i] = r]
  PROVE  /\ conn' \in Seq(Connection) /\ Len(conn') = Len(conn) /\ DOMAIN conn' = DOMAIN conn
         /\ conn'[i] = r /\ \A j \in DOMAIN conn : j # i => conn'[j] = conn[j]
<1>1. i \in 1..Len(conn) /\ conn \in Seq(Connection) /\ DOMAIN conn = 1..Len(conn)
  BY ConnFacts
<1>2. conn' \in Seq(Connection) /\ Len(conn') = Len(conn)
  BY <1>1, ExceptSeq
<1>3. DOMAIN conn' = DOMAIN conn
  BY <1>1, <1>2, LenProperties
<1> QED
  BY <1>1, <1>2, <1>3

\* A socket is created.
LEMMA RowAdded ==
  ASSUME TypeOK, NEW r \in Connection, conn' = Append(conn, r)
  PROVE  /\ conn' \in Seq(Connection) /\ Len(conn') = Len(conn) + 1
         /\ DOMAIN conn' = DOMAIN conn \cup {Len(conn) + 1}
         /\ conn'[Len(conn) + 1] = r /\ \A j \in DOMAIN conn : conn'[j] = conn[j]
<1>1. conn \in Seq(Connection) /\ Len(conn) \in Nat /\ DOMAIN conn = 1..Len(conn)
  BY ConnFacts
<1>2. conn' \in Seq(Connection) /\ Len(conn') = Len(conn) + 1
  BY <1>1, AppendProperties
<1>3. DOMAIN conn' = 1..(Len(conn) + 1)
  BY <1>2, LenProperties
<1>4. conn'[Len(conn) + 1] = r /\ \A j \in 1..Len(conn) : conn'[j] = conn[j]
  BY <1>1, AppendProperties
<1> QED
  BY <1>1, <1>2, <1>3, <1>4

\* A message is put at the end of a row's inbox.
LEMMA InboxAppended ==
  ASSUME NEW box \in Seq(Message), NEW m \in Message
  PROVE  /\ Append(box, m) \in Seq(Message) /\ Append(box, m) # <<>>
         /\ Len(Append(box, m)) = Len(box) + 1 /\ DOMAIN Append(box, m) = 1..(Len(box) + 1)
         /\ Append(box, m)[Len(box) + 1] = m /\ \A k \in DOMAIN box : Append(box, m)[k] = box[k]
<1>1. Len(box) \in Nat /\ DOMAIN box = 1..Len(box)
  BY LenProperties
<1>2. Append(box, m) \in Seq(Message) /\ Len(Append(box, m)) = Len(box) + 1
  BY AppendProperties
<1>3. DOMAIN Append(box, m) = 1..(Len(box) + 1)
  BY <1>2, LenProperties
<1>4. Append(box, m)[Len(box) + 1] = m /\ \A k \in 1..Len(box) : Append(box, m)[k] = box[k]
  BY AppendProperties
<1>5. Append(box, m) # <<>>
  BY <1>1, <1>2, EmptySeq
<1> QED
  BY <1>1, <1>2, <1>3, <1>4, <1>5

\* Only the current socket can be live.
LEMMA LiveRow ==
  ASSUME TypeOK
  PROVE  Live => socket \in DOMAIN conn /\ conn[socket].state = "open"
BY ConnFacts DEF Live

\* teardown, as a row.
LEMMA TeardownRow ==
  ASSUME TypeOK, Teardown
  PROVE  \/ /\ Live /\ socket' = 0 /\ embodied' = NoCompanion
            /\ \E r \in Connection :
                 /\ conn' = [conn EXCEPT ![socket] = r]
                 /\ r.comp = conn[socket].comp /\ r.state = "closed" /\ r.handlers = "off"
                 /\ r.server = "gone" /\ r.inbox = <<>> /\ r.requests = {}
         \/ ~Live /\ UNCHANGED <<conn, socket, embodied>>
<1>1. CASE Live
  <2> DEFINE r == [conn[socket] EXCEPT !.handlers = "off", !.state = "closed", !.server = "gone",
                                       !.inbox = <<>>, !.requests = {}]
  <2>1. socket \in DOMAIN conn /\ conn[socket] \in Connection
    BY <1>1, LiveRow, ConnFacts
  <2>2. /\ r \in Connection
        /\ r.comp = conn[socket].comp /\ r.state = "closed" /\ r.handlers = "off"
        /\ r.server = "gone" /\ r.inbox = <<>> /\ r.requests = {}
    BY <2>1, EmptySeq DEF Connection
  <2>3. conn' = [conn EXCEPT ![socket] = r] /\ socket' = 0 /\ embodied' = NoCompanion
    BY <1>1, <2>1 DEF Teardown
  <2> QED
    BY <1>1, <2>2, <2>3
<1>2. CASE ~Live
  BY <1>2 DEF Teardown
<1> QED
  BY <1>1, <1>2

\* send, as a row.
LEMMA SendRow ==
  ASSUME TypeOK, NEW c \in Caller, Send(c), conn' # conn
  PROVE  /\ Live /\ kind[c] = "call"
         /\ \E r \in Connection :
              /\ conn' = [conn EXCEPT ![socket] = r]
              /\ r.comp = conn[socket].comp /\ r.state = conn[socket].state
              /\ r.handlers = conn[socket].handlers /\ r.server = conn[socket].server
              /\ r.inbox = conn[socket].inbox /\ r.requests = conn[socket].requests \cup {c}
<1> DEFINE r == [conn[socket] EXCEPT !.requests = conn[socket].requests \cup {c}]
<1>1. Live /\ kind[c] = "call" /\ conn' = [conn EXCEPT ![socket].requests = @ \cup {c}]
  BY DEF Send
<1>2. socket \in DOMAIN conn /\ conn[socket] \in Connection
  BY <1>1, LiveRow, ConnFacts
<1>3. /\ r \in Connection
      /\ r.comp = conn[socket].comp /\ r.state = conn[socket].state
      /\ r.handlers = conn[socket].handlers /\ r.server = conn[socket].server
      /\ r.inbox = conn[socket].inbox /\ r.requests = conn[socket].requests \cup {c}
  BY <1>2 DEF Connection
<1>4. conn' = [conn EXCEPT ![socket] = r]
  BY <1>1
<1> QED
  BY <1>1, <1>3, <1>4

\* The upgrade completes, as a row.
LEMMA OpensRow ==
  ASSUME TypeOK, NEW i \in DOMAIN conn, Opens(i)
  PROVE  \E r \in Connection :
           /\ conn' = [conn EXCEPT ![i] = r]
           /\ r.comp = conn[i].comp /\ r.state = "open" /\ r.server = conn[i].server
           /\ r.inbox = conn[i].inbox /\ r.requests = conn[i].requests
           /\ r.handlers = IF conn[i].comp = NoCompanion /\ pendingOpen THEN "steady" ELSE conn[i].handlers
<1> DEFINE h == IF conn[i].comp = NoCompanion /\ pendingOpen THEN "steady" ELSE conn[i].handlers
           r == [conn[i] EXCEPT !.state = "open", !.handlers = h]
<1>1. conn[i] \in Connection
  BY ConnFacts
<1>2. /\ r \in Connection
      /\ r.comp = conn[i].comp /\ r.state = "open" /\ r.server = conn[i].server
      /\ r.inbox = conn[i].inbox /\ r.requests = conn[i].requests /\ r.handlers = h
  BY <1>1 DEF Connection
<1>3. conn' = [conn EXCEPT ![i] = r]
  <2>1. CASE conn[i].comp = NoCompanion /\ pendingOpen
    BY <2>1 DEF Opens
  <2>2. CASE ~(conn[i].comp = NoCompanion /\ pendingOpen)
    <3>1. conn' = [conn EXCEPT ![i].state = "open"] /\ h = conn[i].handlers
      BY <2>2 DEF Opens
    <3>2. r = [conn[i] EXCEPT !.state = "open"]
      BY <1>1, <3>1 DEF Connection
    <3> QED
      BY <3>1, <3>2
  <2> QED
    BY <2>1, <2>2
<1> QED
  BY <1>2, <1>3

\* A close, as a row.
LEMMA ClosesRow ==
  ASSUME TypeOK, NEW i \in DOMAIN conn, Closes(i)
  PROVE  \E r \in Connection :
           /\ conn' = [conn EXCEPT ![i] = r]
           /\ r.comp = conn[i].comp /\ r.state = "closed" /\ r.handlers = conn[i].handlers
           /\ r.server = conn[i].server /\ r.inbox = conn[i].inbox /\ r.requests = {}
<1> DEFINE r == [conn[i] EXCEPT !.state = "closed", !.requests = {}]
<1>1. conn[i] \in Connection
  BY ConnFacts
<1>2. /\ r \in Connection
      /\ r.comp = conn[i].comp /\ r.state = "closed" /\ r.handlers = conn[i].handlers
      /\ r.server = conn[i].server /\ r.inbox = conn[i].inbox /\ r.requests = {}
  BY <1>1 DEF Connection
<1>3. conn' = [conn EXCEPT ![i] = r]
  BY DEF Closes
<1> QED
  BY <1>2, <1>3

\* A message is taken, as a row.
LEMMA MessageRow ==
  ASSUME TypeOK, NEW i \in DOMAIN conn, OnMessage(i)
  PROVE  /\ conn[i].inbox # <<>> /\ Head(conn[i].inbox) \in Message /\ Head(conn[i].inbox) = conn[i].inbox[1]
         /\ \E r \in Connection :
              /\ conn' = [conn EXCEPT ![i] = r]
              /\ r.comp = conn[i].comp /\ r.state = conn[i].state /\ r.server = conn[i].server
              /\ r.inbox = Tail(conn[i].inbox) /\ r.requests = conn[i].requests
              /\ r.handlers = IF Head(conn[i].inbox).type = "ready" /\ pendingOpen
                              THEN "steady" ELSE conn[i].handlers
<1> DEFINE h == IF Head(conn[i].inbox).type = "ready" /\ pendingOpen THEN "steady" ELSE conn[i].handlers
           q == [conn[i] EXCEPT !.inbox = Tail(conn[i].inbox)]
           r == [q EXCEPT !.handlers = h]
           taken == [conn EXCEPT ![i].inbox = Tail(@)]
<1>1. conn[i] \in Connection /\ conn[i].inbox # <<>> /\ conn[i].inbox \in Seq(Message)
  BY ConnFacts DEF OnMessage, Connection
<1>2. Head(conn[i].inbox) \in Message /\ Tail(conn[i].inbox) \in Seq(Message)
  BY <1>1, HeadTailProperties
<1>3. /\ q \in Connection
      /\ q.comp = conn[i].comp /\ q.state = conn[i].state /\ q.server = conn[i].server
      /\ q.inbox = Tail(conn[i].inbox) /\ q.requests = conn[i].requests /\ q.handlers = conn[i].handlers
  BY <1>1, <1>2 DEF Connection
<1>4. taken = [conn EXCEPT ![i] = q] /\ taken[i] = q
  OBVIOUS
<1> HIDE DEF q, taken
<1>5. /\ r \in Connection
      /\ r.comp = conn[i].comp /\ r.state = conn[i].state /\ r.server = conn[i].server
      /\ r.inbox = Tail(conn[i].inbox) /\ r.requests = conn[i].requests /\ r.handlers = h
  BY <1>1, <1>3 DEF Connection
<1>6. conn' = IF Head(conn[i].inbox).type = "ready" /\ pendingOpen
              THEN [taken EXCEPT ![i].handlers = "steady"] ELSE taken
  BY DEF OnMessage, taken
<1>7. conn' = [conn EXCEPT ![i] = r]
  <2>1. CASE Head(conn[i].inbox).type = "ready" /\ pendingOpen
    <3>1. conn' = [taken EXCEPT ![i] = r]
      BY <1>4, <1>6, <2>1
    <3> QED
      BY <1>4, <3>1
  <2>2. CASE ~(Head(conn[i].inbox).type = "ready" /\ pendingOpen)
    <3>1. r = q
      BY <1>3, <2>2 DEF Connection
    <3> QED
      BY <1>4, <1>6, <2>2, <3>1
  <2> QED
    BY <2>1, <2>2
<1> HIDE DEF r
<1>8. Head(conn[i].inbox) = conn[i].inbox[1]
  BY <1>1
<1> QED
  BY <1>1, <1>2, <1>5, <1>7, <1>8

\* CLOSING is seen, as a row.
LEMMA ClosingRow ==
  ASSUME TypeOK, NEW i \in DOMAIN conn, Closing(i)
  PROVE  \E r \in Connection :
           /\ conn' = [conn EXCEPT ![i] = r]
           /\ r.comp = conn[i].comp /\ r.state = "closing" /\ r.handlers = conn[i].handlers
           /\ r.server = conn[i].server /\ r.inbox = conn[i].inbox /\ r.requests = conn[i].requests
<1> DEFINE r == [conn[i] EXCEPT !.state = "closing"]
<1>1. conn[i] \in Connection
  BY ConnFacts
<1>2. /\ r \in Connection
      /\ r.comp = conn[i].comp /\ r.state = "closing" /\ r.handlers = conn[i].handlers
      /\ r.server = conn[i].server /\ r.inbox = conn[i].inbox /\ r.requests = conn[i].requests
  BY <1>1 DEF Connection
<1>3. conn' = [conn EXCEPT ![i] = r]
  BY DEF Closing
<1> QED
  BY <1>2, <1>3

\* The connection is lost on the server's side, as a row.
LEMMA DropsRow ==
  ASSUME TypeOK, NEW i \in DOMAIN conn, Drops(i)
  PROVE  \E r \in Connection :
           /\ conn' = [conn EXCEPT ![i] = r]
           /\ r.comp = conn[i].comp /\ r.state = conn[i].state /\ r.handlers = conn[i].handlers
           /\ r.server = "gone" /\ r.inbox = conn[i].inbox /\ r.requests = conn[i].requests
<1> DEFINE r == [conn[i] EXCEPT !.server = "gone"]
<1>1. conn[i] \in Connection
  BY ConnFacts
<1>2. /\ r \in Connection
      /\ r.comp = conn[i].comp /\ r.state = conn[i].state /\ r.handlers = conn[i].handlers
      /\ r.server = "gone" /\ r.inbox = conn[i].inbox /\ r.requests = conn[i].requests
  BY <1>1 DEF Connection
<1>3. conn' = [conn EXCEPT ![i] = r]
  BY DEF Drops
<1> QED
  BY <1>2, <1>3

\* The grant and the takeover push a message, as a row.
Pushed(i, t, how) ==
  conn' = [conn EXCEPT ![i].server = how, ![i].inbox = Append(@, [type |-> t])]

LEMMA PushRow ==
  ASSUME TypeOK, NEW i \in DOMAIN conn, NEW t \in Push, NEW how \in {"held", "lost"},
         Pushed(i, t, how)
  PROVE  \E m \in Message, r \in Connection :
           /\ m.type = t
           /\ conn' = [conn EXCEPT ![i] = r]
           /\ r.comp = conn[i].comp /\ r.state = conn[i].state /\ r.handlers = conn[i].handlers
           /\ r.server = how /\ r.inbox = Append(conn[i].inbox, m) /\ r.requests = conn[i].requests
<1> DEFINE m == [type |-> t]
           q == [conn[i] EXCEPT !.server = how]
           r == [q EXCEPT !.inbox = Append(conn[i].inbox, m)]
<1>1. conn[i] \in Connection /\ conn[i].inbox \in Seq(Message)
  BY ConnFacts DEF Connection
<1>2. m \in Message /\ m.type = t
  BY DEF Message
<1> HIDE DEF m
<1>3. Append(conn[i].inbox, m) \in Seq(Message)
  BY <1>1, <1>2, AppendProperties
<1>4. /\ q \in Connection
      /\ q.comp = conn[i].comp /\ q.state = conn[i].state /\ q.handlers = conn[i].handlers
      /\ q.server = how /\ q.inbox = conn[i].inbox /\ q.requests = conn[i].requests
  BY <1>1 DEF Connection
<1>5. /\ r \in Connection
      /\ r.comp = conn[i].comp /\ r.state = conn[i].state /\ r.handlers = conn[i].handlers
      /\ r.server = how /\ r.inbox = Append(conn[i].inbox, m) /\ r.requests = conn[i].requests
  <2> HIDE DEF q
  <2> QED
    BY <1>3, <1>4 DEF Connection
<1>6. conn' = [conn EXCEPT ![i] = r]
  BY <1>4 DEF m, Pushed
<1> HIDE DEF r
<1> QED
  BY <1>2, <1>5, <1>6

LEMMA AnswersRow ==
  ASSUME TypeOK, NEW i \in DOMAIN conn, NEW c \in Caller, Answers(i, c)
  PROVE  \E m \in Message, r \in Connection :
           /\ m.type \in {"ok", "notEmbodied"} /\ c \in conn[i].requests
           /\ conn' = [conn EXCEPT ![i] = r]
           /\ r.comp = conn[i].comp /\ r.state = conn[i].state /\ r.handlers = conn[i].handlers
           /\ r.server = conn[i].server /\ r.inbox = Append(conn[i].inbox, m)
           /\ r.requests = conn[i].requests \ {c}
<1> DEFINE t == IF want[c] = NoCompanion \/ conn[i].server = "held" THEN "ok" ELSE "notEmbodied"
<1>0. PICK type \in {"ok", "notEmbodied"} : type = t
  OBVIOUS
<1> DEFINE m == [type |-> type, to |-> c]
           q == [conn[i] EXCEPT !.requests = conn[i].requests \ {c}]
           r == [q EXCEPT !.inbox = Append(conn[i].inbox, m)]
<1>1. conn[i] \in Connection /\ conn[i].inbox \in Seq(Message)
  BY ConnFacts DEF Connection
<1>2. m \in Message /\ m.type \in {"ok", "notEmbodied"}
  BY DEF Message
<1>3. conn' = [conn EXCEPT ![i].requests = @ \ {c}, ![i].inbox = Append(@, m)] /\ c \in conn[i].requests
  BY <1>0 DEF Answers
<1> HIDE DEF m
<1>4. Append(conn[i].inbox, m) \in Seq(Message)
  BY <1>1, <1>2, AppendProperties
<1>5. /\ q \in Connection
      /\ q.comp = conn[i].comp /\ q.state = conn[i].state /\ q.handlers = conn[i].handlers
      /\ q.server = conn[i].server /\ q.inbox = conn[i].inbox /\ q.requests = conn[i].requests \ {c}
  BY <1>1 DEF Connection
<1>6. /\ r \in Connection
      /\ r.comp = conn[i].comp /\ r.state = conn[i].state /\ r.handlers = conn[i].handlers
      /\ r.server = conn[i].server /\ r.inbox = Append(conn[i].inbox, m)
      /\ r.requests = conn[i].requests \ {c}
  <2> HIDE DEF q
  <2> QED
    BY <1>4, <1>5 DEF Connection
<1>7. conn' = [conn EXCEPT ![i] = r]
  BY <1>3, <1>5
<1> HIDE DEF r
<1> QED
  BY <1>2, <1>3, <1>6, <1>7

\* A socket that connects, as a row.
LEMMA TokenRow ==
  ASSUME TypeOK, TokenArrives
  PROVE  \E r \in Connection :
           /\ conn' = Append(conn, r)
           /\ r.comp = opening.target /\ r.state = "connecting" /\ r.handlers = "opening"
           /\ r.server = (IF opening.target = NoCompanion THEN "agnostic" ELSE "claiming")
           /\ r.inbox = <<>> /\ r.requests = {}
<1> DEFINE s == IF opening.target = NoCompanion THEN "agnostic" ELSE "claiming"
           r == [comp |-> opening.target, state |-> "connecting", handlers |-> "opening",
                 server |-> s, requests |-> {}, inbox |-> <<>>]
<1>1. opening.target \in Target
  BY DEF TokenArrives, TypeOK
<1>2. r \in Connection
  BY <1>1, EmptySeq DEF Connection
<1>3. conn' = Append(conn, r)
  BY DEF TokenArrives
<1> QED
  BY <1>2, <1>3

-----------------------------------------------------------------------------
(* Types, and whose continuation is first *)

Opening == [by : Caller, target : Target, phase : {"token", "socket"}]

Place == {"idle", "opener", "opened", "failed", "awaiting", "resume", "ready", "pending", "listening", "settled"}

\* What ensure() leaves behind, in the terms of its caller.
Ensured(c, o, m) ==
  /\ UNCHANGED <<pendingOpen, superseded>>
  /\ \/ /\ pc' = [pc EXCEPT ![c] = "ready"] /\ micro' = Append(m, c)
        /\ opening' = o /\ waiters' = waiters
     \/ /\ pc' = [pc EXCEPT ![c] = "awaiting"] /\ micro' = m
        /\ opening' = o /\ o # NoOpening /\ waiters' = Append(waiters, c)
     \/ /\ pc' = [pc EXCEPT ![c] = "opener"] /\ micro' = m
        /\ o = NoOpening /\ waiters' = waiters
        /\ opening' \in Opening /\ opening'.by = c /\ opening'.phase = "token"

LEMMA EnsureTyped ==
  ASSUME TypeOK, NEW c \in Caller, NEW w \in Target, NEW o \in Opening \cup {NoOpening}, NEW m \in Seq(Caller),
         Ensure(c, w, o, m)
  PROVE  /\ Ensured(c, o, m)
         /\ conn' \in Seq(Connection) /\ Len(conn') = Len(conn)
         /\ socket' \in 0..Len(conn') /\ embodied' \in Target
<1>0. /\ conn \in Seq(Connection) /\ socket \in 0..Len(conn) /\ embodied \in Target /\ Len(conn) \in Nat
      /\ NoCompanion \in Target
  BY ConnFacts DEF TypeOK, Target
<1>1. CASE Usable(w)
  <2>1. UNCHANGED <<conn, socket, embodied>> /\ Ensured(c, o, m)
    BY <1>1 DEF Ensure, Ensured
  <2> QED
    BY <1>0, <2>1
<1>2. CASE ~Usable(w)
  <2>1. Teardown
    BY <1>2 DEF Ensure
  <2>2. /\ conn' \in Seq(Connection) /\ Len(conn') = Len(conn)
        /\ socket' \in 0..Len(conn') /\ embodied' \in Target
    <3>1. CASE UNCHANGED <<conn, socket, embodied>>
      BY <1>0, <3>1
    <3>2. CASE ~UNCHANGED <<conn, socket, embodied>>
      <4>1. Live /\ socket' = 0 /\ embodied' = NoCompanion
        BY <2>1, <3>2, TeardownRow
      <4>2. PICK r \in Connection : conn' = [conn EXCEPT ![socket] = r]
        BY <2>1, <3>2, TeardownRow
      <4>3. socket \in DOMAIN conn
        BY <4>1, LiveRow
      <4>4. conn' \in Seq(Connection) /\ Len(conn') = Len(conn)
        BY <4>2, <4>3, RowChanged
      <4> QED
        BY <1>0, <4>1, <4>4
    <3> QED
      BY <3>1, <3>2
  <2>3. Ensured(c, o, m)
    <3>1. CASE Awaited(o)
      <4>1. o # NoOpening
        BY <3>1 DEF Awaited
      <4> QED
        BY <1>2, <3>1, <4>1 DEF Ensure, Ensured
    <3>2. CASE ~Awaited(o)
      <4>1. o = NoOpening
        BY <3>2 DEF Awaited
      <4>2. PICK t : t = IF w # NoCompanion THEN w ELSE embodied'
        OBVIOUS
      <4>3. t \in Target
        BY <2>2, <4>2
      <4>4. opening' = [by |-> c, target |-> t, phase |-> "token"]
        BY <1>2, <3>2, <4>2 DEF Ensure
      <4>5. opening' \in Opening /\ opening'.by = c /\ opening'.phase = "token"
        BY <4>3, <4>4 DEF Opening
      <4>6. /\ pc' = [pc EXCEPT ![c] = "opener"] /\ micro' = m /\ waiters' = waiters
            /\ UNCHANGED <<pendingOpen, superseded>>
        BY <1>2, <3>2 DEF Ensure
      <4> QED
        BY <4>1, <4>5, <4>6 DEF Ensured
    <3> QED
      BY <3>1, <3>2
  <2> QED
    BY <2>2, <2>3
<1> QED
  BY <1>1, <1>2

\* The first of the continuations.
LEMMA MicroFacts ==
  ASSUME TypeOK
  PROVE  /\ micro \in Seq(Caller) /\ waiters \in Seq(Caller)
         /\ micro # <<>> => Head(micro) \in Caller /\ Tail(micro) \in Seq(Caller)
<1>1. micro \in Seq(Caller) /\ waiters \in Seq(Caller)
  BY DEF TypeOK
<1> QED
  BY <1>1, HeadTailProperties

\* A continuation put at the end leaves the first one first.
LEMMA HeadKept ==
  ASSUME NEW m \in Seq(Caller), NEW c \in Caller
  PROVE  /\ Append(m, c) \in Seq(Caller) /\ Append(m, c) # <<>>
         /\ m # <<>> => Head(Append(m, c)) = Head(m)
<1>1. Len(m) \in Nat /\ Append(m, c) \in Seq(Caller) /\ Len(Append(m, c)) = Len(m) + 1
  BY AppendProperties, LenProperties
<1>2. Append(m, c) # <<>>
  BY <1>1, EmptySeq
<1>3. m # <<>> => Append(m, c)[1] = m[1]
  <2>1. m # <<>> => 1 \in 1..Len(m)
    BY <1>1, EmptySeq
  <2> QED
    BY <2>1, AppendProperties
<1> QED
  BY <1>1, <1>2, <1>3

\* The settling of an open.
LEMMA OpeningSettled ==
  ASSUME TypeOK, OpenerFirst, NEW how \in {"opened", "failed"}, opening # NoOpening, micro = <<>>, SettleOpening(how)
  PROVE  /\ pc' \in [Caller -> Place] /\ micro' \in Seq(Caller) /\ waiters' \in Seq(Caller)
         /\ opening.by \in Caller /\ micro' # <<>> /\ Head(micro') = opening.by
         /\ pc'[opening.by] = how
         /\ \A c \in Caller : pc'[c] \in {"opened", "failed"} => c = opening.by
         /\ \A c \in Caller : c # opening.by => pc'[c] = pc[c] \/ (pc[c] = "awaiting" /\ pc'[c] = "resume")
<1>1. opening.by \in Caller /\ pc \in [Caller -> Place] /\ waiters \in Seq(Caller)
  BY DEF TypeOK, Place
<1>2. pc' = [c \in Caller |-> IF c = opening.by THEN how
                              ELSE IF pc[c] = "awaiting" THEN "resume" ELSE pc[c]]
  BY DEF SettleOpening
<1>3. pc'[opening.by] = how
  BY <1>1, <1>2
<1>4. \A c \in Caller : c # opening.by => pc'[c] = IF pc[c] = "awaiting" THEN "resume" ELSE pc[c]
  BY <1>2
<1>5. pc' \in [Caller -> Place]
  BY <1>1, <1>2, <1>3, <1>4 DEF Place
<1>6. \A c \in Caller : pc[c] \notin {"opened", "failed"}
  BY DEF OpenerFirst
<1>7. micro' = <<opening.by>> \o waiters /\ waiters' = <<>>
  BY DEF SettleOpening
<1>8. <<opening.by>> \in Seq(Caller) /\ Len(<<opening.by>>) = 1 /\ <<opening.by>>[1] = opening.by
  BY <1>1
<1>9. micro' \in Seq(Caller) /\ Len(micro') = 1 + Len(waiters) /\ micro'[1] = opening.by
  BY <1>1, <1>7, <1>8, ConcatProperties, LenProperties
<1>10. micro' # <<>>
  BY <1>1, <1>9, EmptySeq, LenProperties
<1>11. Head(micro') = opening.by
  BY <1>9, <1>10
<1>12. waiters' \in Seq(Caller)
  BY <1>7, EmptySeq
<1>13. \A c \in Caller : c # opening.by => pc'[c] = pc[c] \/ (pc[c] = "awaiting" /\ pc'[c] = "resume")
  BY <1>4
<1>14. \A c \in Caller : pc'[c] \in {"opened", "failed"} => c = opening.by
  BY <1>4, <1>6
<1> QED
  BY <1>1, <1>3, <1>5, <1>9, <1>10, <1>11, <1>12, <1>13, <1>14

\* No continuation of an opener is waiting, unless it is this caller's.
OnlyOpener(c) == \A d \in Caller : d # c => pc[d] \notin {"opened", "failed"}

\* The types of the calls, apart from where they are.
CallsTyped ==
  /\ want \in [Caller -> Target] /\ kind \in [Caller -> {"call", "events"}]
  /\ ended \subseteq Caller /\ result \in [Caller -> {"none", "ok", "notEmbodied", "error"}]
  /\ lost \subseteq Companion /\ superseded \in BOOLEAN

\* The types of the client and of its callers' places.
ClientTyped ==
  /\ embodied \in Target /\ opening \in Opening \cup {NoOpening} /\ pendingOpen \in BOOLEAN
  /\ pc \in [Caller -> Place] /\ waiters \in Seq(Caller) /\ micro \in Seq(Caller)

SocketsTyped == conn \in Seq(Connection) /\ Len(conn) <= MaxSockets /\ socket \in 0..Len(conn)

LEMMA TypeParts == TypeOK <=> CallsTyped /\ ClientTyped /\ SocketsTyped
BY DEF TypeOK, CallsTyped, ClientTyped, SocketsTyped, Opening, Place

LEMMA TypePartsNext == TypeOK' <=> CallsTyped' /\ ClientTyped' /\ SocketsTyped'
BY DEF TypeOK, CallsTyped, ClientTyped, SocketsTyped, Opening, Place

\* A row that changes leaves the sockets typed.
LEMMA RowTyped ==
  ASSUME TypeOK, NEW i \in DOMAIN conn, NEW r \in Connection, conn' = [conn EXCEPT ![i] = r],
         socket' \in {socket, 0}
  PROVE  SocketsTyped'
<1>1. conn' \in Seq(Connection) /\ Len(conn') = Len(conn)
  BY RowChanged
<1>2. Len(conn) \in Nat /\ Len(conn) <= MaxSockets /\ socket \in 0..Len(conn)
  BY ConnFacts DEF TypeOK
<1> QED
  BY <1>1, <1>2 DEF SocketsTyped

\* A pass of ensure()'s loop keeps the types, and leaves no opener's
\* continuation waiting.
LEMMA EnsureKeeps ==
  ASSUME ClientInv, NEW c \in Caller, NEW w \in Target, NEW o \in Opening \cup {NoOpening}, NEW m \in Seq(Caller),
         Ensure(c, w, o, m), OnlyOpener(c), pendingOpen => o = opening
  PROVE  ClientTyped' /\ SocketsTyped' /\ OpenerFirst'
<1>0. TypeOK /\ pc \in [Caller -> Place] /\ waiters \in Seq(Caller) /\ pendingOpen \in BOOLEAN /\ Len(conn) <= MaxSockets
  BY DEF ClientInv, TypeOK, Place
<1>1. Ensured(c, o, m)
  BY <1>0, EnsureTyped
<1>2. conn' \in Seq(Connection) /\ Len(conn') = Len(conn) /\ socket' \in 0..Len(conn') /\ embodied' \in Target
  BY <1>0, EnsureTyped
<1>3. SocketsTyped'
  BY <1>0, <1>2 DEF SocketsTyped
<1>4. Append(m, c) \in Seq(Caller) /\ Append(waiters, c) \in Seq(Caller)
  BY <1>0, AppendProperties
<1>5. pendingOpen' = pendingOpen /\ (pendingOpen => opening # NoOpening /\ opening.phase = "socket")
  BY <1>1 DEF Ensured, ClientInv, OpenerFirst, SocketAwaited
<1>6. PICK how \in {"ready", "awaiting", "opener"} : pc' = [pc EXCEPT ![c] = how]
  BY <1>1 DEF Ensured
<1>7. pc' \in [Caller -> Place] /\ \A d \in Caller : pc'[d] \notin {"opened", "failed"}
  BY <1>0, <1>6 DEF Place, OnlyOpener
<1>8. opening' \in Opening \cup {NoOpening} /\ waiters' \in Seq(Caller) /\ micro' \in Seq(Caller)
  BY <1>0, <1>1, <1>4 DEF Ensured
<1>9. pendingOpen => opening' = opening
  BY <1>1, <1>5 DEF Ensured
<1>10. ClientTyped'
  BY <1>0, <1>2, <1>5, <1>7, <1>8 DEF ClientTyped
<1>11. OpenerFirst'
  BY <1>5, <1>7, <1>9 DEF OpenerFirst, SocketAwaited
<1> QED
  BY <1>3, <1>10, <1>11

\* The settling of an open keeps the types, and its opener comes first.
LEMMA SettlingKeeps ==
  ASSUME ClientInv, NEW how \in {"opened", "failed"}, opening # NoOpening, micro = <<>>, SettleOpening(how),
         pendingOpen' = FALSE, opening' = opening, embodied' \in Target
  PROVE  ClientTyped' /\ OpenerFirst'
<1>0. TypeOK /\ OpenerFirst /\ opening \in Opening \cup {NoOpening}
  BY DEF ClientInv, TypeOK, Opening
<1>1. pc' \in [Caller -> Place] /\ micro' \in Seq(Caller) /\ waiters' \in Seq(Caller)
  BY <1>0, OpeningSettled
<1>2. /\ micro' # <<>> /\ Head(micro') = opening.by
      /\ \A c \in Caller : pc'[c] \in {"opened", "failed"} => c = opening.by
  BY <1>0, OpeningSettled
<1>3. ClientTyped'
  BY <1>0, <1>1 DEF ClientTyped
<1>4. OpenerFirst'
  BY <1>2 DEF OpenerFirst, SocketAwaited
<1> QED
  BY <1>3, <1>4

\* A step that leaves the open alone and runs no opener's continuation.
LEMMA OpenerKept ==
  ASSUME OpenerFirst, UNCHANGED <<opening, pendingOpen>>,
         \A c \in Caller : pc'[c] \in {"opened", "failed"} => pc[c] = pc'[c] /\ micro' = micro
  PROVE  OpenerFirst'
BY DEF OpenerFirst, SocketAwaited

LEMMA StartKeeps ==
  ASSUME ClientInv, NEW c \in Caller, NEW k \in {"call", "events"}, NEW w \in Named, Start(c, k, w)
  PROVE  ClientInv'
<1>0. /\ TypeOK /\ OpenerFirst /\ CallsTyped /\ ClientTyped /\ SocketsTyped
      /\ w \in Target
  BY TypeParts, ClientConstants DEF ClientInv, Target
<1>1. \A d \in Caller : pc[d] \notin {"opened", "failed"}
  BY <1>0 DEF Start, NoOpenerReady, OpenerFirst
<1>2. want' \in [Caller -> Target] /\ kind' \in [Caller -> {"call", "events"}] /\ UNCHANGED <<ended, lost>>
  BY <1>0 DEF Start, CallsTyped
<1>3. CASE superseded
  <2>1. /\ pc' = [pc EXCEPT ![c] = "settled"] /\ result' = [result EXCEPT ![c] = "error"]
        /\ UNCHANGED <<clientVars, conn, waiters, micro>>
    BY <1>3 DEF Start
  <2>2. CallsTyped' /\ ClientTyped' /\ SocketsTyped'
    BY <1>0, <1>2, <2>1 DEF CallsTyped, ClientTyped, SocketsTyped, Place, clientVars
  <2>3. OpenerFirst'
    BY <1>0, <1>1, <2>1 DEF OpenerFirst, SocketAwaited, ClientTyped, clientVars
  <2> QED
    BY <2>2, <2>3, TypePartsNext DEF ClientInv
<1>4. CASE ~superseded
  <2>1. Ensure(c, w, opening, micro) /\ UNCHANGED result
    BY <1>4 DEF Start
  <2>2. ClientTyped' /\ SocketsTyped' /\ OpenerFirst'
    BY <1>0, <1>1, <2>1, EnsureKeeps DEF ClientTyped, OnlyOpener
  <2>3. CallsTyped'
    BY <1>0, <1>2, <2>1 DEF CallsTyped, Ensure
  <2> QED
    BY <2>2, <2>3, TypePartsNext DEF ClientInv
<1> QED
  BY <1>3, <1>4

LEMMA ResumeKeeps ==
  ASSUME ClientInv, NEW c \in Caller, Resume(c)
  PROVE  ClientInv'
<1>0. /\ TypeOK /\ OpenerFirst /\ CallsTyped /\ ClientTyped /\ SocketsTyped
      /\ want[c] \in Target /\ Tail(micro) \in Seq(Caller)
  BY TypeParts, MicroFacts DEF ClientInv, CallsTyped, Resume
<1>1. OnlyOpener(c) /\ c = Head(micro)
  BY <1>0 DEF Resume, OnlyOpener, OpenerFirst
<1>2. UNCHANGED <<want, kind, ended, lost>>
  BY DEF Resume
<1>3. CASE pc[c] \in {"opened", "resume"}
  <2>1. PICK o \in Opening \cup {NoOpening} : o = IF pc[c] = "opened" THEN NoOpening ELSE opening
    BY <1>0 DEF ClientTyped
  <2>2. Ensure(c, want[c], o, Tail(micro)) /\ UNCHANGED result
    BY <1>3, <2>1 DEF Resume
  <2>3. pendingOpen => o = opening
    BY <1>0, <2>1 DEF OpenerFirst
  <2>4. ClientTyped' /\ SocketsTyped' /\ OpenerFirst'
    BY <1>0, <1>1, <2>2, <2>3, EnsureKeeps
  <2>5. CallsTyped'
    BY <1>0, <1>2, <2>2 DEF CallsTyped, Ensure
  <2> QED
    BY <2>4, <2>5, TypePartsNext DEF ClientInv
<1>4. CASE pc[c] = "failed"
  <2>1. /\ opening' = NoOpening /\ pc' = [pc EXCEPT ![c] = "settled"]
        /\ result' = [result EXCEPT ![c] = "error"] /\ micro' = Tail(micro)
        /\ UNCHANGED <<socket, embodied, pendingOpen, superseded, conn, waiters>>
    BY <1>4 DEF Resume
  <2>2. CallsTyped' /\ ClientTyped' /\ SocketsTyped'
    BY <1>0, <1>2, <2>1 DEF CallsTyped, ClientTyped, SocketsTyped, Place
  <2>3. ~pendingOpen' /\ \A d \in Caller : pc'[d] \notin {"opened", "failed"}
    BY <1>0, <1>1, <1>4, <2>1 DEF OpenerFirst, OnlyOpener, ClientTyped
  <2>4. OpenerFirst'
    BY <2>3 DEF OpenerFirst
  <2> QED
    BY <2>2, <2>4, TypePartsNext DEF ClientInv
<1> QED
  BY <1>3, <1>4 DEF Resume

LEMMA SendKeeps ==
  ASSUME ClientInv, NEW c \in Caller, Send(c)
  PROVE  ClientInv'
<1>0. /\ TypeOK /\ OpenerFirst /\ CallsTyped /\ ClientTyped /\ SocketsTyped
      /\ Tail(micro) \in Seq(Caller)
  BY TypeParts, MicroFacts DEF ClientInv, Send
<1>1. \A d \in Caller : pc[d] \notin {"opened", "failed"}
  BY <1>0 DEF Send, OpenerFirst
<1>2. UNCHANGED <<clientVars, want, kind, ended, result, waiters, lost>> /\ micro' = Tail(micro)
  BY DEF Send
<1>3. PICK how \in {"pending", "settled", "listening"} : pc' = [pc EXCEPT ![c] = how]
  BY DEF Send
<1>4. CallsTyped' /\ ClientTyped'
  BY <1>0, <1>2, <1>3 DEF CallsTyped, ClientTyped, Place, clientVars
<1>5. OpenerFirst'
  BY <1>0, <1>1, <1>2, <1>3 DEF OpenerFirst, SocketAwaited, ClientTyped, clientVars
<1>6. SocketsTyped'
  <2>1. CASE conn' = conn
    BY <1>0, <1>2, <2>1 DEF SocketsTyped, clientVars
  <2>2. CASE conn' # conn
    <3>1. PICK r \in Connection : conn' = [conn EXCEPT ![socket] = r]
      BY <1>0, <2>2, SendRow
    <3>2. socket \in DOMAIN conn /\ socket' = socket
      BY <1>0, <1>2, <2>2, SendRow, LiveRow DEF clientVars
    <3> QED
      BY <1>0, <3>1, <3>2, RowTyped
  <2> QED
    BY <2>1, <2>2
<1> QED
  BY <1>4, <1>5, <1>6, TypePartsNext DEF ClientInv

\* A step of a socket's row alone.
LEMMA RowKeeps ==
  ASSUME ClientInv, NEW i \in DOMAIN conn, NEW r \in Connection, conn' = [conn EXCEPT ![i] = r],
         UNCHANGED <<clientVars, callVars, lost>>
  PROVE  ClientInv'
<1>0. TypeOK /\ OpenerFirst /\ CallsTyped /\ ClientTyped
  BY TypeParts DEF ClientInv
<1>1. SocketsTyped'
  BY <1>0, RowTyped DEF clientVars
<1>2. CallsTyped' /\ ClientTyped'
  BY <1>0 DEF CallsTyped, ClientTyped, clientVars, callVars
<1>3. OpenerFirst'
  BY <1>0, OpenerKept DEF clientVars, callVars
<1> QED
  BY <1>1, <1>2, <1>3, TypePartsNext DEF ClientInv

LEMMA TokenKeeps ==
  ASSUME ClientInv, TokenArrives
  PROVE  ClientInv'
<1>0. TypeOK /\ OpenerFirst /\ CallsTyped /\ ClientTyped /\ SocketsTyped
  BY TypeParts DEF ClientInv
<1>1. PICK r \in Connection : conn' = Append(conn, r)
  BY <1>0, TokenRow
<1>2. conn' \in Seq(Connection) /\ Len(conn') = Len(conn) + 1 /\ Len(conn) \in Nat
  BY <1>0, <1>1, RowAdded, ConnFacts
<1>3. Len(conn) < MaxSockets /\ socket' = Len(conn) + 1 /\ MaxSockets \in Nat
  BY ClientConstants DEF TokenArrives
<1>4. SocketsTyped'
  BY <1>2, <1>3 DEF SocketsTyped
<1>5. opening \in Opening /\ opening' = [opening EXCEPT !.phase = "socket"] /\ embodied' = opening.target
  BY <1>0 DEF TokenArrives, ClientTyped
<1>6. opening' \in Opening /\ opening'.phase = "socket" /\ embodied' \in Target /\ opening' # NoOpening
  BY <1>5, ClientConstants DEF Opening, Target
<1>7. pendingOpen' = TRUE /\ UNCHANGED <<superseded, callVars, lost>> /\ micro = <<>>
  BY DEF TokenArrives
<1>8. CallsTyped' /\ ClientTyped'
  BY <1>0, <1>6, <1>7 DEF CallsTyped, ClientTyped, callVars
<1>9. OpenerFirst'
  BY <1>0, <1>6, <1>7 DEF OpenerFirst, SocketAwaited, callVars
<1> QED
  BY <1>4, <1>8, <1>9, TypePartsNext DEF ClientInv

LEMMA NoTokenKeeps ==
  ASSUME ClientInv, NoToken
  PROVE  ClientInv'
<1>0. TypeOK /\ OpenerFirst /\ CallsTyped /\ ClientTyped /\ SocketsTyped
  BY TypeParts DEF ClientInv
<1>1. opening # NoOpening /\ micro = <<>> /\ SettleOpening("failed") /\ UNCHANGED clientVars
  BY DEF NoToken
<1>2. pendingOpen' = FALSE
  BY <1>0, <1>1 DEF NoToken, OpenerFirst, SocketAwaited, ClientTyped, clientVars
<1>3. embodied' \in Target /\ opening' = opening
  BY <1>0, <1>1 DEF ClientTyped, clientVars
<1>4. ClientTyped' /\ OpenerFirst'
  BY <1>1, <1>2, <1>3, SettlingKeeps
<1>5. CallsTyped' /\ SocketsTyped'
  BY <1>0 DEF NoToken, CallsTyped, SocketsTyped, clientVars
<1> QED
  BY <1>4, <1>5, TypePartsNext DEF ClientInv

\* What settles a pending open, or leaves it.
LEMMA PendingSettled ==
  ASSUME ClientInv, NEW how \in {"opened", "failed"}, micro = <<>>, SettlePending(how),
         opening' = opening, embodied' \in Target
  PROVE  ClientTyped' /\ OpenerFirst'
<1>0. TypeOK /\ OpenerFirst /\ ClientTyped
  BY TypeParts DEF ClientInv
<1>1. CASE pendingOpen
  <2>1. opening # NoOpening /\ pendingOpen' = FALSE /\ SettleOpening(how)
    BY <1>0, <1>1 DEF OpenerFirst, SocketAwaited, SettlePending
  <2> QED
    BY <2>1, SettlingKeeps
<1>2. CASE ~pendingOpen
  <2>1. UNCHANGED <<pendingOpen, pc, waiters, micro>>
    BY <1>2 DEF SettlePending
  <2>2. ClientTyped'
    BY <1>0, <2>1 DEF ClientTyped
  <2>3. OpenerFirst'
    BY <1>0, <2>1, OpenerKept
  <2> QED
    BY <2>2, <2>3
<1> QED
  BY <1>1, <1>2

LEMMA OpensKeeps ==
  ASSUME ClientInv, NEW i \in DOMAIN conn, Opens(i)
  PROVE  ClientInv'
<1>0. TypeOK /\ OpenerFirst /\ CallsTyped /\ ClientTyped
  BY TypeParts DEF ClientInv
<1>1. PICK r \in Connection : conn' = [conn EXCEPT ![i] = r]
  BY <1>0, OpensRow
<1>2. micro = <<>> /\ UNCHANGED <<socket, embodied, opening, superseded, want, kind, ended, result, lost>>
  BY DEF Opens
<1>3. SocketsTyped'
  BY <1>0, <1>1, <1>2, RowTyped
<1>4. CallsTyped'
  BY <1>0, <1>2 DEF CallsTyped
<1>5. embodied' \in Target
  BY <1>0, <1>2 DEF ClientTyped
<1>6. ClientTyped' /\ OpenerFirst'
  <2>1. CASE conn[i].comp = NoCompanion /\ pendingOpen
    <3>1. SettlePending("opened")
      BY <2>1 DEF Opens, SettlePending
    <3> QED
      BY <1>2, <1>5, <3>1, PendingSettled
  <2>2. CASE ~(conn[i].comp = NoCompanion /\ pendingOpen)
    <3>1. UNCHANGED <<pendingOpen, pc, waiters, micro>>
      BY <2>2 DEF Opens
    <3>2. ClientTyped'
      BY <1>0, <1>2, <3>1 DEF ClientTyped
    <3>3. OpenerFirst'
      BY <1>0, <1>2, <3>1, OpenerKept
    <3> QED
      BY <3>2, <3>3
  <2> QED
    BY <2>1, <2>2
<1> QED
  BY <1>3, <1>4, <1>6, TypePartsNext DEF ClientInv

\* The three ends of a close.
ClosePending(i) ==
  /\ conn[i].handlers = "opening" /\ pendingOpen /\ pendingOpen' = FALSE /\ SettleOpening("failed")
  /\ UNCHANGED <<socket, embodied, result, ended>>

CloseCurrent(i) ==
  /\ conn[i].handlers = "steady" /\ socket = i /\ socket' = 0 /\ embodied' = NoCompanion
  /\ pc' = [c \in Caller |-> IF pc[c] \in {"pending", "listening"} THEN "settled" ELSE pc[c]]
  /\ result' = [c \in Caller |-> IF pc[c] = "pending" THEN "error" ELSE result[c]]
  /\ ended' = ended \cup {c \in Caller : kind[c] = "events" /\ pc[c] # "idle"}
  /\ UNCHANGED <<pendingOpen, waiters, micro>>

CloseOther(i) ==
  /\ ~(conn[i].handlers = "opening" /\ pendingOpen) /\ ~(conn[i].handlers = "steady" /\ socket = i)
  /\ UNCHANGED <<socket, embodied, pendingOpen, pc, result, ended, waiters, micro>>

LEMMA CloseEnds ==
  ASSUME NEW i, Closes(i)
  PROVE  /\ ClosePending(i) \/ CloseCurrent(i) \/ CloseOther(i)
         /\ UNCHANGED <<opening, superseded, want, kind, lost>> /\ micro = <<>>
<1>1. UNCHANGED <<opening, superseded, want, kind, lost>> /\ micro = <<>>
  BY DEF Closes
<1>2. CASE conn[i].handlers = "opening" /\ pendingOpen
  BY <1>2 DEF Closes, ClosePending
<1>3. CASE conn[i].handlers = "steady" /\ socket = i
  BY <1>3 DEF Closes, CloseCurrent
<1>4. CASE ~(conn[i].handlers = "opening" /\ pendingOpen) /\ ~(conn[i].handlers = "steady" /\ socket = i)
  BY <1>4 DEF Closes, CloseOther
<1> QED
  BY <1>1, <1>2, <1>3, <1>4

LEMMA ClosesKeeps ==
  ASSUME ClientInv, NEW i \in DOMAIN conn, Closes(i)
  PROVE  ClientInv'
<1>0. TypeOK /\ OpenerFirst /\ CallsTyped /\ ClientTyped
  BY TypeParts DEF ClientInv
<1>1. PICK r \in Connection : conn' = [conn EXCEPT ![i] = r]
  BY <1>0, ClosesRow
<1>2. UNCHANGED <<opening, superseded, want, kind, lost>> /\ micro = <<>>
  BY CloseEnds
<1>3. CASE ClosePending(i)
  <2>1. SettlePending("failed") /\ embodied' \in Target /\ UNCHANGED <<result, ended, socket>>
    BY <1>0, <1>3 DEF ClosePending, SettlePending, ClientTyped
  <2>2. ClientTyped' /\ OpenerFirst'
    BY <1>2, <2>1, PendingSettled
  <2>3. CallsTyped'
    BY <1>0, <1>2, <2>1 DEF CallsTyped
  <2>4. SocketsTyped'
    BY <1>0, <1>1, <2>1, RowTyped
  <2> QED
    BY <2>2, <2>3, <2>4, TypePartsNext DEF ClientInv
<1>4. CASE CloseCurrent(i)
  <2>1. /\ socket' = 0 /\ embodied' = NoCompanion
        /\ pc' = [c \in Caller |-> IF pc[c] \in {"pending", "listening"} THEN "settled" ELSE pc[c]]
        /\ result' = [c \in Caller |-> IF pc[c] = "pending" THEN "error" ELSE result[c]]
        /\ ended' = ended \cup {c \in Caller : kind[c] = "events" /\ pc[c] # "idle"}
        /\ UNCHANGED <<pendingOpen, waiters, micro>>
    BY <1>4 DEF CloseCurrent
  <2>2. pc' \in [Caller -> Place]
    BY <1>0, <2>1 DEF ClientTyped, Place
  <2>3. ClientTyped'
    BY <1>0, <1>2, <2>1, <2>2 DEF ClientTyped, Target
  <2>4. CallsTyped'
    BY <1>0, <1>2, <2>1 DEF CallsTyped
  <2>5. SocketsTyped'
    BY <1>0, <1>1, <2>1, RowTyped
  <2>6. \A c \in Caller : pc'[c] \in {"opened", "failed"} => pc[c] = pc'[c] /\ micro' = micro
    BY <2>1
  <2>7. OpenerFirst'
    BY <1>0, <1>2, <2>1, <2>6, OpenerKept
  <2> QED
    BY <2>3, <2>4, <2>5, <2>7, TypePartsNext DEF ClientInv
<1>5. CASE CloseOther(i)
  <2>1. UNCHANGED <<socket, embodied, pendingOpen, pc, result, ended, waiters, micro>>
    BY <1>5 DEF CloseOther
  <2>2. ClientTyped' /\ CallsTyped'
    BY <1>0, <1>2, <2>1 DEF ClientTyped, CallsTyped
  <2>3. SocketsTyped'
    BY <1>0, <1>1, <2>1, RowTyped
  <2>4. OpenerFirst'
    BY <1>0, <1>2, <2>1, OpenerKept
  <2> QED
    BY <2>2, <2>3, <2>4, TypePartsNext DEF ClientInv
<1> QED
  BY <1>3, <1>4, <1>5, CloseEnds

LEMMA MessageKeeps ==
  ASSUME ClientInv, Agnostic, NEW i \in DOMAIN conn, OnMessage(i)
  PROVE  ClientInv'
<1>0. TypeOK /\ OpenerFirst /\ CallsTyped /\ ClientTyped
  BY TypeParts DEF ClientInv
<1>1. PICK r \in Connection : conn' = [conn EXCEPT ![i] = r]
  BY <1>0, MessageRow
<1>2. micro = <<>> /\ UNCHANGED <<socket, embodied, opening, want, kind, ended>>
  BY DEF OnMessage
<1>3. PICK m \in Message : m = Head(conn[i].inbox)
  BY <1>0, MessageRow
<1>4. SocketsTyped'
  BY <1>0, <1>1, <1>2, RowTyped
<1>5. embodied' \in Target /\ conn[i].comp \in Target
  BY <1>0, <1>2, RowFields DEF ClientTyped
<1>6. CASE m.type = "ready"
  <2>1. SettlePending("opened") /\ UNCHANGED <<superseded, result, lost>>
    BY <1>3, <1>6 DEF OnMessage
  <2>2. ClientTyped' /\ OpenerFirst'
    BY <1>2, <1>5, <2>1, PendingSettled
  <2>3. CallsTyped'
    BY <1>0, <1>2, <2>1 DEF CallsTyped
  <2> QED
    BY <1>4, <2>2, <2>3, TypePartsNext DEF ClientInv
<1>7. CASE m.type \in {"ok", "notEmbodied"}
  <2>1. /\ pc' = [pc EXCEPT ![m.to] = IF @ = "pending" THEN "settled" ELSE @]
        /\ result' = [result EXCEPT ![m.to] = IF pc[m.to] = "pending" THEN m.type ELSE @]
        /\ UNCHANGED <<pendingOpen, superseded, waiters, micro, lost>>
    BY <1>3, <1>7 DEF OnMessage, Reply
  <2>2. m.to \in Caller
    BY <1>7 DEF Message, Push
  <2>3. pc' \in [Caller -> Place] /\ \A c \in Caller : pc'[c] \in {"opened", "failed"} => pc[c] = pc'[c]
    BY <1>0, <2>1, <2>2 DEF ClientTyped, Place
  <2>4. result' \in [Caller -> {"none", "ok", "notEmbodied", "error"}]
    BY <1>0, <1>7, <2>1, <2>2 DEF CallsTyped
  <2>5. ClientTyped' /\ CallsTyped'
    BY <1>0, <1>2, <2>1, <2>3, <2>4 DEF ClientTyped, CallsTyped
  <2>6. OpenerFirst'
    BY <1>0, <1>2, <2>1, <2>3, OpenerKept
  <2> QED
    BY <1>4, <2>5, <2>6, TypePartsNext DEF ClientInv
<1>8. CASE m.type = "superseded"
  <2>1. TakenOver(i) /\ UNCHANGED result
    BY <1>3, <1>8 DEF OnMessage
  <2>2. ClientTyped' /\ OpenerFirst'
    BY <1>2, <1>5, <2>1, PendingSettled DEF TakenOver
  <2>3. lost' \subseteq Companion
    <3>1. conn[i].inbox \in Seq(Message) /\ conn[i].inbox # <<>> /\ m = conn[i].inbox[1]
      BY <1>0, <1>3, MessageRow, RowFields
    <3>2. 1 \in DOMAIN conn[i].inbox
      BY <3>1, EmptySeq, LenProperties
    <3>3. conn[i].comp # NoCompanion
      BY <1>8, <3>1, <3>2 DEF Agnostic, Push
    <3>4. lost' = lost \cup {conn[i].comp}
      BY <2>1 DEF TakenOver
    <3> QED
      BY <1>0, <1>5, <3>3, <3>4 DEF CallsTyped, Target
  <2>4. CallsTyped'
    BY <1>0, <1>2, <2>1, <2>3 DEF CallsTyped, TakenOver, Yield
  <2> QED
    BY <1>4, <2>2, <2>4, TypePartsNext DEF ClientInv
<1> QED
  BY <1>3, <1>6, <1>7, <1>8 DEF Message, Push

-----------------------------------------------------------------------------
(* How a step changes the sockets *)

\* A socket that may be granted its companion, or has it.
Claims(i) == conn[i].server \in {"claiming", "held"}

\* What the row of socket i may become.
RowMoves(i, r) ==
  /\ r.comp = conn[i].comp
  /\ Active(r) => Active(conn[i])
  /\ Pending(r) => Pending(conn[i])
  /\ r.handlers = conn[i].handlers \/ ~pendingOpen' \/ socket' = 0
  /\ \/ r.server \in {conn[i].server, "gone"}
     \/ Claims(i)
  /\ \/ r.inbox \in {conn[i].inbox, <<>>}
     \/ conn[i].inbox # <<>> /\ r.inbox = Tail(conn[i].inbox)
     \/ \E m \in Message : r.inbox = Append(conn[i].inbox, m) /\ (m.type \in Push => Claims(i))
  /\ \A c \in r.requests : c \in conn[i].requests \/ (Send(c) /\ Live /\ i = socket)

RowStep == \E i \in DOMAIN conn : \E r \in Connection : conn' = [conn EXCEPT ![i] = r] /\ RowMoves(i, r)

SocketsMove == conn' = conn \/ TokenArrives \/ RowStep

LEMMA EnsureMoves ==
  ASSUME TypeOK, NEW c, NEW w, NEW o, NEW m, Ensure(c, w, o, m)
  PROVE  conn' = conn \/ RowStep
<1>1. CASE conn' = conn
  BY <1>1
<1>2. CASE conn' # conn
  <2>1. Teardown
    BY <1>2 DEF Ensure
  <2>2. Live /\ socket \in DOMAIN conn
    BY <1>2, <2>1, TeardownRow, LiveRow
  <2>3. PICK r \in Connection :
          /\ conn' = [conn EXCEPT ![socket] = r]
          /\ r.comp = conn[socket].comp /\ r.state = "closed" /\ r.handlers = "off"
          /\ r.server = "gone" /\ r.inbox = <<>> /\ r.requests = {} /\ socket' = 0
    BY <1>2, <2>1, TeardownRow
  <2>4. RowMoves(socket, r)
    BY <2>3 DEF RowMoves, Active, Pending, Ungranted
  <2> QED
    BY <2>2, <2>3, <2>4 DEF RowStep
<1> QED
  BY <1>1, <1>2

LEMMA SendMoves ==
  ASSUME TypeOK, NEW c \in Caller, Send(c)
  PROVE  conn' = conn \/ RowStep
<1>1. CASE conn' = conn
  BY <1>1
<1>2. CASE conn' # conn
  <2>1. Live /\ socket \in DOMAIN conn
    BY <1>2, SendRow, LiveRow
  <2>2. PICK r \in Connection :
          /\ conn' = [conn EXCEPT ![socket] = r]
          /\ r.comp = conn[socket].comp /\ r.state = conn[socket].state
          /\ r.handlers = conn[socket].handlers /\ r.server = conn[socket].server
          /\ r.inbox = conn[socket].inbox /\ r.requests = conn[socket].requests \cup {c}
    BY <1>2, SendRow
  <2>3. RowMoves(socket, r)
    BY <2>1, <2>2 DEF RowMoves, Active, Pending, Ungranted
  <2> QED
    BY <2>1, <2>2, <2>3 DEF RowStep
<1> QED
  BY <1>1, <1>2

\* The push of a grant or of a takeover.
LEMMA PushMoves ==
  ASSUME TypeOK, NEW i \in DOMAIN conn, NEW t \in Push, NEW how \in {"held", "lost"}, Claims(i),
         Pushed(i, t, how)
  PROVE  RowStep
<1>1. PICK m \in Message, r \in Connection :
        /\ m.type = t
        /\ conn' = [conn EXCEPT ![i] = r]
        /\ r.comp = conn[i].comp /\ r.state = conn[i].state /\ r.handlers = conn[i].handlers
        /\ r.server = how /\ r.inbox = Append(conn[i].inbox, m) /\ r.requests = conn[i].requests
  BY PushRow
<1>2. RowMoves(i, r)
  BY <1>1 DEF RowMoves, Active, Pending, Ungranted
<1> QED
  BY <1>1, <1>2 DEF RowStep

LEMMA AnswersMoves ==
  ASSUME TypeOK, NEW i \in DOMAIN conn, NEW c \in Caller, Answers(i, c)
  PROVE  RowStep
<1>1. PICK m \in Message, r \in Connection :
        /\ m.type \in {"ok", "notEmbodied"} /\ c \in conn[i].requests
        /\ conn' = [conn EXCEPT ![i] = r]
        /\ r.comp = conn[i].comp /\ r.state = conn[i].state /\ r.handlers = conn[i].handlers
        /\ r.server = conn[i].server /\ r.inbox = Append(conn[i].inbox, m)
        /\ r.requests = conn[i].requests \ {c}
  BY AnswersRow
<1>2. m.type \notin Push
  BY <1>1 DEF Push
<1>3. RowMoves(i, r)
  BY <1>1, <1>2 DEF RowMoves, Active, Pending, Ungranted
<1> QED
  BY <1>1, <1>3 DEF RowStep

LEMMA SocketStepMoves ==
  ASSUME TypeOK, NEW i \in DOMAIN conn, SocketStep(i) \/ Closing(i) \/ Drops(i)
  PROVE  RowStep
<1>1. CASE Opens(i)
  <2>1. PICK r \in Connection :
          /\ conn' = [conn EXCEPT ![i] = r]
          /\ r.comp = conn[i].comp /\ r.state = "open" /\ r.server = conn[i].server
          /\ r.inbox = conn[i].inbox /\ r.requests = conn[i].requests
          /\ conn[i].state = "connecting" /\ (r.handlers = conn[i].handlers \/ ~pendingOpen')
    BY <1>1, OpensRow DEF Opens
  <2>2. RowMoves(i, r)
    BY <1>1, <2>1 DEF Opens, RowMoves, Active, Pending, Ungranted
  <2> QED
    BY <2>1, <2>2 DEF RowStep
<1>2. CASE Closes(i)
  <2>1. PICK r \in Connection :
          /\ conn' = [conn EXCEPT ![i] = r]
          /\ r.comp = conn[i].comp /\ r.state = "closed" /\ r.handlers = conn[i].handlers
          /\ r.server = conn[i].server /\ r.inbox = conn[i].inbox /\ r.requests = {}
    BY <1>2, ClosesRow
  <2>2. RowMoves(i, r)
    BY <2>1 DEF RowMoves, Active, Pending, Ungranted
  <2> QED
    BY <2>1, <2>2 DEF RowStep
<1>3. CASE OnMessage(i)
  <2>1. PICK r \in Connection :
          /\ conn' = [conn EXCEPT ![i] = r]
          /\ r.comp = conn[i].comp /\ r.state = conn[i].state /\ r.server = conn[i].server
          /\ r.inbox = Tail(conn[i].inbox) /\ r.requests = conn[i].requests
          /\ r.handlers = IF Head(conn[i].inbox).type = "ready" /\ pendingOpen
                          THEN "steady" ELSE conn[i].handlers
    BY <1>3, MessageRow
  <2>2. conn[i].inbox # <<>> /\ (r.handlers = conn[i].handlers \/ ~pendingOpen')
    BY <1>3, <2>1, MessageRow DEF OnMessage, SettlePending
  <2>3. RowMoves(i, r)
    BY <2>1, <2>2 DEF RowMoves, Active, Pending, Ungranted
  <2> QED
    BY <2>1, <2>3 DEF RowStep
<1>4. CASE Closing(i)
  <2>1. PICK r \in Connection :
          /\ conn' = [conn EXCEPT ![i] = r]
          /\ r.comp = conn[i].comp /\ r.state = "closing" /\ r.handlers = conn[i].handlers
          /\ r.server = conn[i].server /\ r.inbox = conn[i].inbox /\ r.requests = conn[i].requests
    BY <1>4, ClosingRow
  <2>2. RowMoves(i, r)
    BY <2>1 DEF RowMoves, Active, Pending, Ungranted
  <2> QED
    BY <2>1, <2>2 DEF RowStep
<1>5. CASE Drops(i)
  <2>1. PICK r \in Connection :
          /\ conn' = [conn EXCEPT ![i] = r]
          /\ r.comp = conn[i].comp /\ r.state = conn[i].state /\ r.handlers = conn[i].handlers
          /\ r.server = "gone" /\ r.inbox = conn[i].inbox /\ r.requests = conn[i].requests
    BY <1>5, DropsRow
  <2>2. RowMoves(i, r)
    BY <2>1 DEF RowMoves, Active, Pending, Ungranted
  <2> QED
    BY <2>1, <2>2 DEF RowStep
<1> QED
  BY <1>1, <1>2, <1>3, <1>4, <1>5 DEF SocketStep

\* Every step moves one socket at most, so.
LEMMA SocketsMoves ==
  ASSUME TypeOK, [Next]_vars
  PROVE  SocketsMove
<1>1. ASSUME NEW c \in Caller, NEW k \in {"call", "events"}, NEW w \in Named, Start(c, k, w)
      PROVE  SocketsMove
  <2>1. CASE superseded
    BY <1>1, <2>1 DEF Start, SocketsMove
  <2>2. CASE ~superseded
    <3>1. Ensure(c, w, opening, micro)
      BY <1>1, <2>2 DEF Start
    <3> QED
      BY <3>1, EnsureMoves DEF SocketsMove
  <2> QED
    BY <2>1, <2>2
<1>2. ASSUME NEW c \in Caller, Resume(c)
      PROVE  SocketsMove
  <2>1. CASE pc[c] \in {"opened", "resume"}
    <3>1. Ensure(c, want[c], IF pc[c] = "opened" THEN NoOpening ELSE opening, Tail(micro))
      BY <1>2, <2>1 DEF Resume
    <3> QED
      BY <3>1, EnsureMoves DEF SocketsMove
  <2>2. CASE pc[c] = "failed"
    BY <1>2, <2>2 DEF Resume, SocketsMove
  <2> QED
    BY <1>2, <2>1, <2>2 DEF Resume
<1>3. ASSUME NEW c \in Caller, Send(c)
      PROVE  SocketsMove
  BY <1>3, SendMoves DEF SocketsMove
<1>4. ASSUME NEW c \in Caller, Abort(c)
      PROVE  SocketsMove
  BY <1>4 DEF Abort, SocketsMove
<1>5. CASE OpenStep
  BY <1>5 DEF OpenStep, NoToken, SocketsMove
<1>6. CASE Reclaim
  BY <1>6 DEF Reclaim, SocketsMove
<1>7. ASSUME NEW i \in DOMAIN conn, SocketStep(i) \/ Closing(i) \/ Drops(i)
      PROVE  SocketsMove
  BY <1>7, SocketStepMoves DEF SocketsMove
<1>8. ASSUME NEW i \in DOMAIN conn, Grants(i)
      PROVE  SocketsMove
  <2>1. RowStep
    BY <1>8, PushMoves DEF Grants, Claims, Push, Pushed
  <2> QED
    BY <2>1 DEF SocketsMove
<1>9. ASSUME NEW i \in DOMAIN conn, Supersedes(i)
      PROVE  SocketsMove
  <2>1. RowStep
    BY <1>9, PushMoves DEF Supersedes, Claims, Push, Pushed
  <2> QED
    BY <2>1 DEF SocketsMove
<1>10. ASSUME NEW i \in DOMAIN conn, NEW c \in Caller, Answers(i, c)
       PROVE  SocketsMove
  BY <1>10, AnswersMoves DEF SocketsMove
<1>11. CASE UNCHANGED vars
  BY <1>11 DEF vars, SocketsMove
<1> QED
  BY <1>1, <1>2, <1>3, <1>4, <1>5, <1>6, <1>7, <1>8, <1>9, <1>10, <1>11
     DEF Next, CallerStep, ServerStep

LEMMA AgnosticStep ==
  ASSUME TypeOK, Agnostic, [Next]_vars
  PROVE  Agnostic'
<1>0. SocketsMove
  BY SocketsMoves
<1>1. CASE conn' = conn
  BY <1>1 DEF Agnostic
<1>2. CASE TokenArrives
  <2>1. PICK r \in Connection :
          /\ conn' = Append(conn, r)
          /\ r.comp = opening.target
          /\ r.server = (IF opening.target = NoCompanion THEN "agnostic" ELSE "claiming")
          /\ r.inbox = <<>>
    BY <1>2, TokenRow
  <2>2. /\ DOMAIN conn' = DOMAIN conn \cup {Len(conn) + 1}
        /\ conn'[Len(conn) + 1] = r /\ \A j \in DOMAIN conn : conn'[j] = conn[j]
    BY <2>1, RowAdded
  <2>3. r.comp = NoCompanion => r.server = "agnostic" /\ DOMAIN r.inbox = {}
    BY <2>1
  <2> QED
    BY <2>2, <2>3 DEF Agnostic
<1>3. CASE RowStep
  <2>1. PICK i \in DOMAIN conn : \E r \in Connection : conn' = [conn EXCEPT ![i] = r] /\ RowMoves(i, r)
    BY <1>3 DEF RowStep
  <2>2. PICK r \in Connection : conn' = [conn EXCEPT ![i] = r] /\ RowMoves(i, r)
    BY <2>1
  <2>3. DOMAIN conn' = DOMAIN conn /\ conn'[i] = r /\ \A j \in DOMAIN conn : j # i => conn'[j] = conn[j]
    BY <2>2, RowChanged
  <2>4. ASSUME r.comp = NoCompanion
        PROVE  r.server \in {"agnostic", "gone"} /\ \A k \in DOMAIN r.inbox : r.inbox[k].type \notin Push
    <3>1. ~Claims(i) /\ conn[i].server \in {"agnostic", "gone"}
      BY <2>2, <2>4 DEF Agnostic, RowMoves, Claims
    <3>2. \A k \in DOMAIN conn[i].inbox : conn[i].inbox[k].type \notin Push
      BY <2>2, <2>4 DEF Agnostic, RowMoves
    <3>3. r.server \in {"agnostic", "gone"}
      BY <2>2, <3>1 DEF RowMoves
    <3>4. conn[i].inbox \in Seq(Message)
      BY RowFields
    <3>5. CASE r.inbox \in {conn[i].inbox, <<>>}
      BY <3>2, <3>3, <3>5
    <3>6. CASE conn[i].inbox # <<>> /\ r.inbox = Tail(conn[i].inbox)
      <4>1. \A k \in DOMAIN r.inbox : k + 1 \in DOMAIN conn[i].inbox /\ r.inbox[k] = conn[i].inbox[k + 1]
        BY <3>4, <3>6, HeadTailProperties, LenProperties
      <4> QED
        BY <3>2, <3>3, <4>1
    <3>7. CASE \E m \in Message : r.inbox = Append(conn[i].inbox, m) /\ (m.type \in Push => Claims(i))
      <4>1. PICK m \in Message : r.inbox = Append(conn[i].inbox, m) /\ (m.type \in Push => Claims(i))
        BY <3>7
      <4>2. m.type \notin Push
        BY <3>1, <4>1
      <4>3. \A k \in DOMAIN r.inbox : r.inbox[k] = m \/ (k \in DOMAIN conn[i].inbox /\ r.inbox[k] = conn[i].inbox[k])
        BY <3>4, <4>1, InboxAppended, LenProperties
      <4> QED
        BY <3>2, <3>3, <4>2, <4>3
    <3> QED
      BY <2>2, <3>5, <3>6, <3>7 DEF RowMoves
  <2> QED
    BY <2>3, <2>4 DEF Agnostic
<1> QED
  BY <1>0, <1>1, <1>2, <1>3 DEF SocketsMove

\* The transport's types, and whose continuation is first, whatever step is taken.
LEMMA TransportStep == TransportInv /\ [Next]_vars => TransportInv'
<1> SUFFICES ASSUME TransportInv, [Next]_vars PROVE TransportInv'
  OBVIOUS
<1>0. ClientInv /\ Agnostic /\ TypeOK /\ OpenerFirst
  BY DEF TransportInv, ClientInv
<1>1. ASSUME NEW c \in Caller, NEW k \in {"call", "events"}, NEW w \in Named, Start(c, k, w)
      PROVE  ClientInv'
  BY <1>0, <1>1, StartKeeps
<1>2. ASSUME NEW c \in Caller, CallerStep(c)
      PROVE  ClientInv'
  BY <1>0, <1>2, ResumeKeeps, SendKeeps DEF CallerStep
<1>3. ASSUME NEW c \in Caller, Abort(c)
      PROVE  ClientInv'
  <2>1. CallsTyped /\ ClientTyped /\ SocketsTyped
    BY <1>0, TypeParts
  <2>2. /\ ended' = ended \cup {c} /\ pc' = [pc EXCEPT ![c] = IF @ = "listening" THEN "settled" ELSE @]
        /\ UNCHANGED <<clientVars, conn, want, kind, result, waiters, micro, lost>>
    BY <1>3 DEF Abort
  <2>3. CallsTyped' /\ ClientTyped' /\ SocketsTyped'
    BY <2>1, <2>2 DEF CallsTyped, ClientTyped, SocketsTyped, Place, clientVars
  <2>4. \A d \in Caller : pc'[d] \in {"opened", "failed"} => pc[d] = pc'[d]
    BY <2>1, <2>2 DEF ClientTyped
  <2>5. OpenerFirst'
    BY <1>0, <2>2, <2>4, OpenerKept DEF clientVars
  <2> QED
    BY <2>3, <2>5, TypePartsNext DEF ClientInv
<1>4. ASSUME OpenStep
      PROVE  ClientInv'
  BY <1>0, <1>4, TokenKeeps, NoTokenKeeps DEF OpenStep
<1>5. ASSUME Reclaim
      PROVE  ClientInv'
  <2>1. CallsTyped /\ ClientTyped /\ SocketsTyped
    BY <1>0, TypeParts
  <2>2. superseded' = FALSE /\ lost' = {} /\ UNCHANGED <<socket, embodied, opening, pendingOpen, conn, callVars>>
    BY <1>5 DEF Reclaim
  <2>3. CallsTyped' /\ ClientTyped' /\ SocketsTyped'
    BY <2>1, <2>2 DEF CallsTyped, ClientTyped, SocketsTyped, callVars
  <2>4. OpenerFirst'
    BY <1>0, <2>2, OpenerKept DEF callVars
  <2> QED
    BY <2>3, <2>4, TypePartsNext DEF ClientInv
<1>6. ASSUME NEW i \in DOMAIN conn, SocketStep(i)
      PROVE  ClientInv'
  BY <1>0, <1>6, OpensKeeps, ClosesKeeps, MessageKeeps DEF SocketStep
<1>7. ASSUME NEW i \in DOMAIN conn, ServerStep(i) \/ Closing(i) \/ Supersedes(i) \/ Drops(i)
      PROVE  ClientInv'
  <2>1. UNCHANGED <<clientVars, callVars, lost>>
    BY <1>7 DEF ServerStep, Grants, Answers, Closing, Supersedes, Drops
  <2>2. RowStep
    <3>1. ASSUME NEW c \in Caller, Answers(i, c) PROVE RowStep
      BY <1>0, <3>1, AnswersMoves
    <3>2. CASE Grants(i)
      BY <1>0, <3>2, PushMoves DEF Grants, Claims, Push, Pushed
    <3>3. CASE Supersedes(i)
      BY <1>0, <3>3, PushMoves DEF Supersedes, Claims, Push, Pushed
    <3>4. CASE Closing(i) \/ Drops(i)
      BY <1>0, <3>4, SocketStepMoves
    <3> QED
      BY <1>7, <3>1, <3>2, <3>3, <3>4 DEF ServerStep
  <2>3. PICK j \in DOMAIN conn : \E r \in Connection : conn' = [conn EXCEPT ![j] = r]
    BY <2>2 DEF RowStep
  <2> QED
    BY <1>0, <2>1, <2>3, RowKeeps
<1>8. ASSUME UNCHANGED vars
      PROVE  ClientInv'
  <2>1. CallsTyped /\ ClientTyped /\ SocketsTyped
    BY <1>0, TypeParts
  <2>2. CallsTyped' /\ ClientTyped' /\ SocketsTyped'
    BY <1>8, <2>1 DEF CallsTyped, ClientTyped, SocketsTyped, vars, callVars, clientVars
  <2>3. OpenerFirst'
    BY <1>0, <1>8, OpenerKept DEF vars, callVars, clientVars
  <2> QED
    BY <2>2, <2>3, TypePartsNext DEF ClientInv
<1>9. ClientInv'
  BY <1>1, <1>2, <1>3, <1>4, <1>5, <1>6, <1>7, <1>8 DEF Next
<1>10. Agnostic'
  BY <1>0, AgnosticStep
<1> QED
  BY <1>9, <1>10 DEF TransportInv

LEMMA TransportStarts == Init => TransportInv
<1> SUFFICES ASSUME Init PROVE TransportInv
  OBVIOUS
<1>1. conn = <<>> /\ conn \in Seq(Connection) /\ Len(conn) = 0 /\ DOMAIN conn = {}
  BY EmptySeq DEF Init
<1>2. <<>> \in Seq(Caller)
  BY EmptySeq
<1>3. SocketsTyped
  BY <1>1, ClientConstants DEF Init, SocketsTyped
<1>4. ClientTyped
  BY <1>2 DEF Init, ClientTyped, Target, Place
<1>5. CallsTyped
  BY DEF Init, CallsTyped, Target
<1>6. TypeOK
  BY <1>3, <1>4, <1>5, TypeParts
<1>7. OpenerFirst /\ Agnostic
  BY <1>1 DEF Init, OpenerFirst, Agnostic
<1> QED
  BY <1>6, <1>7 DEF TransportInv, ClientInv

\* The transport's variables keep their types (ws.ts): in particular a socket
\* that claims no companion is never told that it lost one.
THEOREM ClientTypeCorrect == Spec => []TypeOK
<1>1. TransportInv => TypeOK
  BY DEF TransportInv, ClientInv
<1> QED
  BY <1>1, TransportStarts, TransportStep, PTL DEF Spec

-----------------------------------------------------------------------------
(* Every request is sent to the companion it names *)

\* A caller that has started keeps what it named.
LEMMA CallsKept ==
  ASSUME TypeOK, [Next]_vars, NEW c \in Caller, pc[c] # "idle"
  PROVE  pc'[c] # "idle" /\ want'[c] = want[c]
<1>0. pc \in [Caller -> Place] /\ want \in [Caller -> Target] /\ waiters \in Seq(Caller)
  BY DEF TypeOK, Place
<1>1. ASSUME NEW d \in Caller, NEW w, NEW o, NEW m, Ensure(d, w, o, m)
      PROVE  \E how \in {"ready", "awaiting", "opener"} : pc' = [pc EXCEPT ![d] = how]
  BY <1>1 DEF Ensure
<1>2. ASSUME NEW how \in {"opened", "failed"}, SettleOpening(how)
      PROVE  pc'[c] # "idle"
  BY <1>0, <1>2 DEF SettleOpening
<1>3. ASSUME NEW d \in Caller, NEW k \in {"call", "events"}, NEW w \in Named, Start(d, k, w)
      PROVE  pc'[c] # "idle" /\ want'[c] = want[c]
  <2>1. d # c /\ want' = [want EXCEPT ![d] = w]
    BY <1>3 DEF Start
  <2>2. want'[c] = want[c]
    BY <1>0, <2>1
  <2>3. \E how \in {"ready", "awaiting", "opener", "settled"} : pc' = [pc EXCEPT ![d] = how]
    BY <1>1, <1>3 DEF Start
  <2> QED
    BY <1>0, <2>1, <2>2, <2>3
<1>4. ASSUME NEW d \in Caller, Resume(d)
      PROVE  pc'[c] # "idle" /\ want'[c] = want[c]
  <2>1. \E how \in {"ready", "awaiting", "opener", "settled"} : pc' = [pc EXCEPT ![d] = how]
    BY <1>1, <1>4 DEF Resume
  <2> QED
    BY <1>0, <1>4, <2>1 DEF Resume
<1>5. ASSUME NEW d \in Caller, Send(d)
      PROVE  pc'[c] # "idle" /\ want'[c] = want[c]
  <2>1. \E how \in {"pending", "listening", "settled"} : pc' = [pc EXCEPT ![d] = how]
    BY <1>5 DEF Send
  <2> QED
    BY <1>0, <1>5, <2>1 DEF Send
<1>6. ASSUME NEW d \in Caller, Abort(d)
      PROVE  pc'[c] # "idle" /\ want'[c] = want[c]
  <2>1. pc' = [pc EXCEPT ![d] = IF @ = "listening" THEN "settled" ELSE @] /\ want' = want
    BY <1>6 DEF Abort
  <2> QED
    BY <1>0, <2>1
<1>7. ASSUME OpenStep
      PROVE  pc'[c] # "idle" /\ want'[c] = want[c]
  BY <1>2, <1>7 DEF OpenStep, TokenArrives, NoToken, callVars
<1>8. ASSUME NEW i \in DOMAIN conn, Opens(i)
      PROVE  pc'[c] # "idle" /\ want'[c] = want[c]
  <2>1. pc' = pc \/ SettleOpening("opened")
    BY <1>8 DEF Opens
  <2> QED
    BY <1>2, <1>8, <2>1 DEF Opens
<1>9. ASSUME NEW i \in DOMAIN conn, Closes(i)
      PROVE  pc'[c] # "idle" /\ want'[c] = want[c]
  <2>1. CASE ClosePending(i)
    BY <1>2, <1>9, <2>1, CloseEnds DEF ClosePending
  <2>2. CASE CloseCurrent(i)
    <3>1. pc'[c] = IF pc[c] \in {"pending", "listening"} THEN "settled" ELSE pc[c]
      BY <2>2 DEF CloseCurrent
    <3> QED
      BY <1>9, <3>1, CloseEnds
  <2>3. CASE CloseOther(i)
    BY <1>9, <2>3, CloseEnds DEF CloseOther
  <2> QED
    BY <1>9, <2>1, <2>2, <2>3, CloseEnds
<1>10. ASSUME NEW i \in DOMAIN conn, OnMessage(i)
       PROVE  pc'[c] # "idle" /\ want'[c] = want[c]
  <2>1. CASE pc' = pc \/ SettleOpening("opened") \/ SettleOpening("failed")
    BY <1>2, <1>10, <2>1 DEF OnMessage
  <2>2. CASE Reply(Head(conn[i].inbox))
    <3>1. PICK d : d = Head(conn[i].inbox).to
      OBVIOUS
    <3>2. pc' = [pc EXCEPT ![d] = IF @ = "pending" THEN "settled" ELSE @]
      BY <2>2, <3>1 DEF Reply
    <3> QED
      BY <1>0, <1>10, <3>2 DEF OnMessage
  <2>3. Reply(Head(conn[i].inbox)) \/ pc' = pc \/ SettleOpening("opened") \/ SettleOpening("failed")
    BY <1>10 DEF OnMessage, TakenOver, SettlePending
  <2> QED
    BY <2>1, <2>2, <2>3
<1>11. ASSUME Reclaim \/ UNCHANGED vars
       PROVE  pc'[c] # "idle" /\ want'[c] = want[c]
  BY <1>11 DEF Reclaim, vars, callVars
<1>12. ASSUME NEW i \in DOMAIN conn, ServerStep(i) \/ Closing(i) \/ Supersedes(i) \/ Drops(i)
       PROVE  pc'[c] # "idle" /\ want'[c] = want[c]
  BY <1>12 DEF ServerStep, Grants, Answers, Closing, Supersedes, Drops, callVars
<1> QED
  BY <1>3, <1>4, <1>5, <1>6, <1>7, <1>8, <1>9, <1>10, <1>11, <1>12 DEF Next, CallerStep, SocketStep

\* A request in flight is on a socket of the companion its caller names.
LEMMA RequestsStep ==
  ASSUME TypeOK, RoomInv, [Next]_vars
  PROVE  RequestsOK'
<1>0. SocketsMove /\ RequestsOK /\ ReadyOK
  BY SocketsMoves DEF RoomInv
<1>1. \A c \in Caller : pc[c] # "idle" => pc'[c] # "idle" /\ want'[c] = want[c]
  BY CallsKept
<1>2. CASE conn' = conn
  BY <1>0, <1>1, <1>2 DEF RequestsOK
<1>3. CASE TokenArrives
  <2>1. PICK r \in Connection : conn' = Append(conn, r) /\ r.requests = {}
    BY <1>3, TokenRow
  <2>2. /\ DOMAIN conn' = DOMAIN conn \cup {Len(conn) + 1}
        /\ conn'[Len(conn) + 1] = r /\ \A j \in DOMAIN conn : conn'[j] = conn[j]
    BY <2>1, RowAdded
  <2> QED
    BY <1>0, <1>1, <2>1, <2>2 DEF RequestsOK
<1>4. CASE RowStep
  <2>1. PICK i \in DOMAIN conn : \E r \in Connection : conn' = [conn EXCEPT ![i] = r] /\ RowMoves(i, r)
    BY <1>4 DEF RowStep
  <2>2. PICK r \in Connection : conn' = [conn EXCEPT ![i] = r] /\ RowMoves(i, r)
    BY <2>1
  <2>3. DOMAIN conn' = DOMAIN conn /\ conn'[i] = r /\ \A j \in DOMAIN conn : j # i => conn'[j] = conn[j]
    BY <2>2, RowChanged
  <2>4. ASSUME NEW c \in r.requests
        PROVE  c \in Caller /\ pc'[c] # "idle" /\ want'[c] \in {NoCompanion, r.comp}
    <3>1. c \in Caller /\ r.comp = conn[i].comp
      BY <2>2, <2>4 DEF Connection, RowMoves
    <3>2. CASE c \in conn[i].requests
      BY <1>0, <1>1, <3>1, <3>2 DEF RequestsOK
    <3>3. CASE Send(c) /\ Live /\ i = socket
      <4>1. pc[c] = "ready" /\ want[c] \in {NoCompanion, embodied} /\ embodied = conn[i].comp
        BY <1>0, <3>1, <3>3 DEF Send, ReadyOK, Live
      <4> QED
        BY <1>1, <3>1, <4>1
    <3> QED
      BY <2>2, <3>2, <3>3 DEF RowMoves
  <2>5. ASSUME NEW j \in DOMAIN conn', NEW c \in conn'[j].requests
        PROVE  c \in Caller /\ pc'[c] # "idle" /\ want'[c] \in {NoCompanion, conn'[j].comp}
    <3>1. CASE j = i
      BY <2>3, <2>4, <2>5, <3>1
    <3>2. CASE j # i
      BY <1>0, <1>1, <2>3, <2>5, <3>2 DEF RequestsOK
    <3> QED
      BY <3>1, <3>2
  <2> QED
    BY <2>5 DEF RequestsOK
<1> QED
  BY <1>0, <1>2, <1>3, <1>4 DEF SocketsMove

\* What the callers about to send rely on survives a step that makes no
\* socket live and takes none of them out of the queue.
LEMMA ReadyKept ==
  ASSUME ReadyOK, UNCHANGED <<socket, embodied>>, socket # 0 => conn'[socket].comp = conn[socket].comp,
         socket # 0 /\ conn'[socket].state = "open" => conn[socket].state = "open",
         \A c \in Caller : pc'[c] = "ready" =>
           pc[c] = "ready" /\ want'[c] = want[c] /\ \E k \in DOMAIN micro' : micro'[k] = c
  PROVE  ReadyOK'
<1>1. Live' => Live
  BY DEF Live
<1> QED
  BY <1>1 DEF ReadyOK

\* Nobody is about to send when no continuation is left.
LEMMA ReadyQueued ==
  ASSUME ReadyOK, micro = <<>>
  PROVE  \A c \in Caller : pc[c] # "ready"
BY DEF ReadyOK

\* The caller at the head of the queue is taken out of it.
LEMMA QueueTail ==
  ASSUME NEW m \in Seq(Caller), m # <<>>, NEW d \in Caller, d # Head(m), \E k \in DOMAIN m : m[k] = d
  PROVE  \E k \in DOMAIN Tail(m) : Tail(m)[k] = d
<1>1. PICK k \in DOMAIN m : m[k] = d
  OBVIOUS
<1>2. k \in 1..Len(m) /\ Len(m) \in Nat /\ k # 1
  BY <1>1, LenProperties
<1>3. /\ Tail(m) \in Seq(Caller) /\ Len(Tail(m)) = Len(m) - 1
      /\ \A j \in 1..Len(Tail(m)) : Tail(m)[j] = m[j + 1]
  BY HeadTailProperties
<1>4. k - 1 \in 1..Len(Tail(m)) /\ Tail(m)[k - 1] = d
  BY <1>1, <1>2, <1>3
<1>5. k - 1 \in DOMAIN Tail(m)
  BY <1>3, <1>4, LenProperties
<1> QED
  BY <1>4, <1>5

\* A caller put at the end of the queue is in it, with those before it.
LEMMA QueueEnd ==
  ASSUME NEW m \in Seq(Caller), NEW c \in Caller
  PROVE  /\ \E k \in DOMAIN Append(m, c) : Append(m, c)[k] = c
         /\ \A d \in Caller : (\E k \in DOMAIN m : m[k] = d) => \E k \in DOMAIN Append(m, c) : Append(m, c)[k] = d
<1>1. /\ Len(m) \in Nat /\ DOMAIN m = 1..Len(m)
      /\ Append(m, c) \in Seq(Caller) /\ Len(Append(m, c)) = Len(m) + 1
      /\ Append(m, c)[Len(m) + 1] = c /\ \A k \in 1..Len(m) : Append(m, c)[k] = m[k]
  BY AppendProperties, LenProperties
<1>2. DOMAIN Append(m, c) = 1..(Len(m) + 1)
  BY <1>1, LenProperties
<1> QED
  BY <1>1, <1>2

\* A pass of ensure()'s loop: the caller it makes ready named the companion of
\* the live socket, and the socket it drops leaves nobody's send live.
LEMMA EnsureReady ==
  ASSUME TypeOK, ReadyOK, NEW c \in Caller, NEW w, NEW o, NEW m \in Seq(Caller), Ensure(c, w, o, m),
         want'[c] = w, \A d \in Caller : d # c => want'[d] = want[d],
         \A d \in Caller : d # c /\ pc[d] = "ready" => \E k \in DOMAIN m : m[k] = d
  PROVE  ReadyOK'
<1>0. pc \in [Caller -> Place]
  BY DEF TypeOK, Place
<1>1. CASE Usable(w)
  <2>1. /\ pc' = [pc EXCEPT ![c] = "ready"] /\ micro' = Append(m, c) /\ UNCHANGED <<conn, socket, embodied>>
        /\ w \in {NoCompanion, embodied}
    BY <1>1 DEF Ensure, Usable
  <2>2. Live' => Live
    BY <2>1 DEF Live
  <2>3. /\ \E k \in DOMAIN micro' : micro'[k] = c
        /\ \A d \in Caller : (\E k \in DOMAIN m : m[k] = d) => \E k \in DOMAIN micro' : micro'[k] = d
    <3>1. PICK q : q = Append(m, c)
      OBVIOUS
    <3>2. /\ \E k \in DOMAIN q : q[k] = c
          /\ \A d \in Caller : (\E k \in DOMAIN m : m[k] = d) => \E k \in DOMAIN q : q[k] = d
      BY SMTT(30), <3>1, QueueEnd
    <3>3. micro' = q
      BY <2>1, <3>1
    <3> QED
      BY <3>2, <3>3
  <2>4. ASSUME NEW d \in Caller, pc'[d] = "ready"
        PROVE  /\ \E k \in DOMAIN micro' : micro'[k] = d
               /\ Live' => want'[d] \in {NoCompanion, embodied'}
    <3>1. CASE d = c
      BY <2>1, <2>3, <3>1
    <3>2. CASE d # c
      <4>1. pc[d] = "ready"
        BY <1>0, <2>1, <2>4, <3>2
      <4> QED
        BY <2>1, <2>2, <2>3, <3>2, <4>1 DEF ReadyOK
    <3> QED
      BY <3>1, <3>2
  <2> QED
    BY <2>1, <2>4 DEF ReadyOK
<1>2. CASE ~Usable(w)
  <2>1. Teardown /\ micro' = m
    BY <1>2 DEF Ensure
  <2>2. PICK how \in {"awaiting", "opener"} : pc' = [pc EXCEPT ![c] = how]
    BY <1>2 DEF Ensure
  <2>3. \A d \in Caller : pc'[d] = "ready" => d # c /\ pc[d] = "ready" /\ want'[d] = want[d] /\ \E k \in DOMAIN micro' : micro'[k] = d
    BY <1>0, <2>1, <2>2
  <2>4. CASE Live
    <3>1. socket' = 0
      BY <2>1, <2>4 DEF Teardown
    <3>2. ~Live'
      BY <3>1 DEF Live
    <3> QED
      BY <2>3, <3>1, <3>2 DEF ReadyOK
  <2>5. CASE ~Live
    <3>1. UNCHANGED <<conn, socket, embodied>>
      BY <2>1, <2>5 DEF Teardown
    <3> QED
      BY <2>3, <3>1, ReadyKept
  <2> QED
    BY <2>4, <2>5
<1> QED
  BY <1>1, <1>2

\* A step of one socket after which nobody is about to send.
LEMMA NobodyReady ==
  ASSUME TypeOK, ReadyOK, micro = <<>>, \A c \in Caller : pc'[c] = "ready" => pc[c] = "ready",
         socket' # 0 => embodied' = conn'[socket'].comp
  PROVE  ReadyOK'
BY ReadyQueued DEF ReadyOK

\* The places a settling leaves are not about to send, if none was.
LEMMA SettlingReady ==
  ASSUME NEW how \in {"opened", "failed"}, SettleOpening(how), NEW c \in Caller, pc'[c] = "ready"
  PROVE  pc[c] = "ready"
BY DEF SettleOpening

LEMMA ReadyCaller ==
  ASSUME TypeOK, RoomInv, NEW c \in Caller,
         \/ \E k \in {"call", "events"}, w \in Named : Start(c, k, w)
         \/ Resume(c) \/ Send(c) \/ Abort(c)
  PROVE  ReadyOK'
<1>0. ReadyOK /\ pc \in [Caller -> Place] /\ want \in [Caller -> Target] /\ micro \in Seq(Caller)
  BY DEF RoomInv, TypeOK, Place
<1>1. ASSUME NEW k \in {"call", "events"}, NEW w \in Named, Start(c, k, w)
      PROVE  ReadyOK'
  <2>1. pc[c] = "idle" /\ want' = [want EXCEPT ![c] = w]
    BY <1>1 DEF Start
  <2>2. want'[c] = w /\ \A d \in Caller : d # c => want'[d] = want[d]
    BY <1>0, <2>1
  <2>3. CASE superseded
    <3>1. pc' = [pc EXCEPT ![c] = "settled"] /\ UNCHANGED <<clientVars, conn, micro>>
      BY <1>1, <2>3 DEF Start
    <3>2. \A d \in Caller : pc'[d] = "ready" => d # c /\ pc[d] = "ready"
      BY <1>0, <3>1
    <3>3. UNCHANGED <<socket, embodied, conn, micro>>
      BY <3>1 DEF clientVars
    <3> QED
      BY <1>0, <2>2, <3>2, <3>3, ReadyKept DEF ReadyOK
  <2>4. CASE ~superseded
    <3>1. Ensure(c, w, opening, micro)
      BY <1>1, <2>4 DEF Start
    <3>2. \A d \in Caller : d # c /\ pc[d] = "ready" => \E j \in DOMAIN micro : micro[j] = d
      BY <1>0 DEF ReadyOK
    <3> QED
      BY <1>0, <2>2, <3>1, <3>2, EnsureReady
  <2> QED
    BY <2>3, <2>4
<1>2. ASSUME micro # <<>>, c = Head(micro), NEW d \in Caller, d # c, pc[d] = "ready"
      PROVE  \E k \in DOMAIN Tail(micro) : Tail(micro)[k] = d
  <2>1. \E k \in DOMAIN micro : micro[k] = d
    BY <1>0, <1>2 DEF ReadyOK
  <2> QED
    BY <1>0, <1>2, <2>1, QueueTail
<1>3. CASE Resume(c)
  <2>1. micro # <<>> /\ c = Head(micro) /\ want' = want /\ Tail(micro) \in Seq(Caller)
    BY <1>3, MicroFacts DEF Resume
  <2>2. CASE pc[c] \in {"opened", "resume"}
    <3>1. PICK o : o = IF pc[c] = "opened" THEN NoOpening ELSE opening
      OBVIOUS
    <3>2. Ensure(c, want[c], o, Tail(micro))
      BY <1>3, <2>2, <3>1 DEF Resume
    <3>3. want'[c] = want[c] /\ \A d \in Caller : d # c => want'[d] = want[d]
      BY <2>1
    <3>4. \A d \in Caller : d # c /\ pc[d] = "ready" => \E k \in DOMAIN Tail(micro) : Tail(micro)[k] = d
      BY <1>2, <2>1
    <3> QED
      BY <1>0, <2>1, <3>2, <3>3, <3>4, EnsureReady
  <2>3. CASE pc[c] = "failed"
    <3>1. pc' = [pc EXCEPT ![c] = "settled"] /\ micro' = Tail(micro) /\ UNCHANGED <<socket, embodied, conn>>
      BY <1>3, <2>3 DEF Resume
    <3>2. \A d \in Caller : pc'[d] = "ready" => d # c /\ pc[d] = "ready"
      BY <1>0, <3>1
    <3>3. \A d \in Caller : pc'[d] = "ready" =>
             pc[d] = "ready" /\ want'[d] = want[d] /\ \E k \in DOMAIN micro' : micro'[k] = d
      BY <1>2, <2>1, <3>1, <3>2
    <3> QED
      BY <1>0, <3>1, <3>3, ReadyKept
  <2> QED
    BY <1>3, <2>2, <2>3 DEF Resume
<1>4. CASE Send(c)
  <2>1. /\ micro # <<>> /\ c = Head(micro) /\ micro' = Tail(micro) /\ want' = want
        /\ UNCHANGED <<socket, embodied>>
    BY <1>4 DEF Send, clientVars
  <2>2. PICK how \in {"pending", "settled", "listening"} : pc' = [pc EXCEPT ![c] = how]
    BY <1>4 DEF Send
  <2>3. \A d \in Caller : pc'[d] = "ready" => d # c /\ pc[d] = "ready"
    BY <1>0, <2>2
  <2>4. \A d \in Caller : pc'[d] = "ready" =>
           pc[d] = "ready" /\ want'[d] = want[d] /\ \E k \in DOMAIN micro' : micro'[k] = d
    BY <1>2, <2>1, <2>3
  <2>5. socket # 0 => conn'[socket].comp = conn[socket].comp /\ conn'[socket].state = conn[socket].state
    <3>1. CASE conn' = conn
      BY <3>1
    <3>2. CASE conn' # conn
      <4>1. PICK r \in Connection :
              conn' = [conn EXCEPT ![socket] = r] /\ r.comp = conn[socket].comp /\ r.state = conn[socket].state
        BY <1>4, <3>2, SendRow
      <4>2. socket \in DOMAIN conn
        BY <1>4, <3>2, SendRow, LiveRow
      <4> QED
        BY <4>1, <4>2
    <3> QED
      BY <3>1, <3>2
  <2> QED
    BY <1>0, <2>1, <2>4, <2>5, ReadyKept
<1>5. CASE Abort(c)
  <2>1. pc' = [pc EXCEPT ![c] = IF @ = "listening" THEN "settled" ELSE @] /\ UNCHANGED <<clientVars, conn, want, micro>>
    BY <1>5 DEF Abort
  <2>2. \A d \in Caller : pc'[d] = "ready" => pc[d] = "ready"
    BY <1>0, <2>1
  <2>3. UNCHANGED <<socket, embodied, conn, want, micro>>
    BY <2>1 DEF clientVars
  <2> QED
    BY <1>0, <2>2, <2>3, ReadyKept DEF ReadyOK
<1> QED
  BY <1>1, <1>3, <1>4, <1>5

LEMMA ReadySocket ==
  ASSUME TypeOK, RoomInv, NEW i \in DOMAIN conn, SocketStep(i)
  PROVE  ReadyOK'
<1>0. ReadyOK /\ pc \in [Caller -> Place] /\ micro = <<>>
  BY DEF RoomInv, TypeOK, Place, SocketStep, Opens, Closes, OnMessage
<1>1. PICK j \in DOMAIN conn : \E r \in Connection : conn' = [conn EXCEPT ![j] = r] /\ RowMoves(j, r)
  BY SocketStepMoves DEF RowStep
<1>2. PICK r \in Connection : conn' = [conn EXCEPT ![j] = r] /\ RowMoves(j, r)
  BY <1>1
<1>3. \A k \in DOMAIN conn : conn'[k].comp = conn[k].comp
  BY <1>2, RowChanged DEF RowMoves
<1>4. socket' # 0 => socket' = socket /\ embodied' = embodied
  <2>1. CASE Opens(i) \/ OnMessage(i)
    BY <2>1 DEF Opens, OnMessage
  <2>2. CASE Closes(i)
    BY <2>2, CloseEnds DEF ClosePending, CloseCurrent, CloseOther
  <2> QED
    BY <2>1, <2>2 DEF SocketStep
<1>5. socket' # 0 => embodied' = conn'[socket'].comp
  BY <1>0, <1>3, <1>4, ConnFacts DEF ReadyOK
<1>6. ASSUME NEW c \in Caller, pc'[c] = "ready"
      PROVE  pc[c] = "ready"
  <2>1. CASE Opens(i)
    BY <1>6, <2>1, SettlingReady DEF Opens
  <2>2. CASE ClosePending(i) \/ CloseOther(i)
    BY <1>6, <2>2, SettlingReady DEF ClosePending, CloseOther
  <2>3. CASE CloseCurrent(i)
    BY <1>6, <2>3 DEF CloseCurrent
  <2>4. CASE OnMessage(i)
    <3>1. CASE Reply(Head(conn[i].inbox))
      <4>1. PICK d : d = Head(conn[i].inbox).to
        OBVIOUS
      <4>2. pc' = [pc EXCEPT ![d] = IF @ = "pending" THEN "settled" ELSE @]
        BY <3>1, <4>1 DEF Reply
      <4> QED
        BY <1>0, <1>6, <4>2
    <3>2. CASE pc' = pc \/ SettleOpening("opened") \/ SettleOpening("failed")
      BY <1>6, <3>2, SettlingReady
    <3> QED
      BY <2>4, <3>1, <3>2 DEF OnMessage, TakenOver, SettlePending
  <2> QED
    BY <2>1, <2>2, <2>3, <2>4, CloseEnds DEF SocketStep
<1> QED
  BY <1>0, <1>5, <1>6, NobodyReady

\* A step of the server, or the sight of CLOSING, opens no socket.
LEMMA ServerRows ==
  ASSUME TypeOK, NEW i \in DOMAIN conn, ServerStep(i) \/ Closing(i) \/ Supersedes(i) \/ Drops(i)
  PROVE  \A j \in DOMAIN conn : /\ conn'[j].comp = conn[j].comp
                                /\ conn'[j].state = "open" => conn[j].state = "open"
<1>1. ASSUME NEW r \in Connection, conn' = [conn EXCEPT ![i] = r], r.comp = conn[i].comp,
             r.state \in {conn[i].state, "closing"}
      PROVE  \A j \in DOMAIN conn : /\ conn'[j].comp = conn[j].comp
                                    /\ conn'[j].state = "open" => conn[j].state = "open"
  BY <1>1, RowChanged
<1>2. CASE Closing(i)
  <2>1. PICK r \in Connection : conn' = [conn EXCEPT ![i] = r] /\ r.comp = conn[i].comp /\ r.state = "closing"
    BY <1>2, ClosingRow
  <2> QED
    BY <1>1, <2>1
<1>3. CASE Drops(i)
  <2>1. PICK r \in Connection : conn' = [conn EXCEPT ![i] = r] /\ r.comp = conn[i].comp /\ r.state = conn[i].state
    BY <1>3, DropsRow
  <2> QED
    BY <1>1, <2>1
<1>4. ASSUME NEW t \in Push, NEW how \in {"held", "lost"}, Pushed(i, t, how)
      PROVE  \A j \in DOMAIN conn : /\ conn'[j].comp = conn[j].comp
                                    /\ conn'[j].state = "open" => conn[j].state = "open"
  <2>1. PICK m \in Message, r \in Connection :
          /\ m.type = t
          /\ conn' = [conn EXCEPT ![i] = r]
          /\ r.comp = conn[i].comp /\ r.state = conn[i].state /\ r.handlers = conn[i].handlers
          /\ r.server = how /\ r.inbox = Append(conn[i].inbox, m) /\ r.requests = conn[i].requests
    BY <1>4, PushRow
  <2> QED
    BY <1>1, <2>1
<1>5. CASE Grants(i) \/ Supersedes(i)
  <2>1. Pushed(i, "ready", "held") \/ Pushed(i, "superseded", "lost")
    BY <1>5 DEF Grants, Supersedes, Pushed
  <2> QED
    BY <1>4, <2>1 DEF Push
<1>6. ASSUME NEW c \in Caller, Answers(i, c)
      PROVE  \A j \in DOMAIN conn : /\ conn'[j].comp = conn[j].comp
                                    /\ conn'[j].state = "open" => conn[j].state = "open"
  <2>1. PICK m \in Message, r \in Connection :
          /\ m.type \in {"ok", "notEmbodied"} /\ c \in conn[i].requests
          /\ conn' = [conn EXCEPT ![i] = r]
          /\ r.comp = conn[i].comp /\ r.state = conn[i].state /\ r.handlers = conn[i].handlers
          /\ r.server = conn[i].server /\ r.inbox = Append(conn[i].inbox, m)
          /\ r.requests = conn[i].requests \ {c}
    BY <1>6, AnswersRow
  <2> QED
    BY <1>1, <2>1
<1> QED
  BY <1>2, <1>3, <1>5, <1>6 DEF ServerStep

LEMMA RoomStep ==
  ASSUME TypeOK, RoomInv, [Next]_vars
  PROVE  RoomInv'
<1>0. ReadyOK /\ pc \in [Caller -> Place]
  BY DEF RoomInv, TypeOK, Place
<1>1. ASSUME TokenArrives
      PROVE  ReadyOK'
  <2>1. PICK r \in Connection : conn' = Append(conn, r) /\ r.comp = opening.target
    BY <1>1, TokenRow
  <2>2. conn'[Len(conn) + 1] = r
    BY <2>1, RowAdded
  <2>3. socket' = Len(conn) + 1 /\ embodied' = opening.target /\ micro = <<>> /\ pc' = pc
    BY <1>1 DEF TokenArrives, callVars
  <2>4. embodied' = conn'[socket'].comp
    BY <2>1, <2>2, <2>3
  <2> QED
    BY <1>0, <2>3, <2>4, NobodyReady
<1>2. ASSUME NoToken
      PROVE  ReadyOK'
  <2>1. micro = <<>> /\ SettleOpening("failed") /\ UNCHANGED <<socket, embodied, conn>>
    BY <1>2 DEF NoToken, clientVars
  <2>2. socket' # 0 => embodied' = conn'[socket'].comp
    BY <1>0, <2>1 DEF ReadyOK
  <2> QED
    BY <1>0, <2>1, <2>2, NobodyReady, SettlingReady
<1>3. ASSUME Reclaim \/ UNCHANGED vars
      PROVE  ReadyOK'
  <2>1. UNCHANGED <<socket, embodied, conn, pc, want, micro>>
    BY <1>3 DEF Reclaim, vars, clientVars, callVars
  <2> QED
    BY <1>0, <2>1 DEF ReadyOK, Live
<1>4. ASSUME NEW i \in DOMAIN conn, ServerStep(i) \/ Closing(i) \/ Supersedes(i) \/ Drops(i)
      PROVE  ReadyOK'
  <2>1. UNCHANGED <<socket, embodied, pc, want, micro>>
    BY <1>4 DEF ServerStep, Grants, Answers, Closing, Supersedes, Drops, callVars, clientVars
  <2>2. \A j \in DOMAIN conn : /\ conn'[j].comp = conn[j].comp
                               /\ conn'[j].state = "open" => conn[j].state = "open"
    BY <1>4, ServerRows
  <2>3. \A c \in Caller : pc'[c] = "ready" =>
           pc[c] = "ready" /\ want'[c] = want[c] /\ \E k \in DOMAIN micro' : micro'[k] = c
    BY <1>0, <2>1 DEF ReadyOK
  <2>4. socket # 0 => socket \in DOMAIN conn
    BY ConnFacts
  <2> QED
    BY <1>0, <2>1, <2>2, <2>3, <2>4, ReadyKept
<1>5. ReadyOK'
  BY <1>1, <1>2, <1>3, <1>4, ReadyCaller, ReadySocket DEF Next, CallerStep, OpenStep
<1>6. RequestsOK'
  BY RequestsStep
<1> QED
  BY <1>5, <1>6 DEF RoomInv

\* A request that names a companion is only ever sent down that companion's
\* socket, whatever other calls did to the socket between ensure() and send()
\* (ws.ts, call and callStream).
THEOREM RightRoomHolds == Spec => []RightRoom
<1>1. Init => TransportInv /\ RoomInv
  <2>1. Init => RoomInv
    BY EmptySeq DEF Init, RoomInv, ReadyOK, RequestsOK
  <2> QED
    BY <2>1, TransportStarts
<1>2. TransportInv /\ RoomInv /\ [Next]_vars => TransportInv' /\ RoomInv'
  BY TransportStep, RoomStep DEF TransportInv, ClientInv
<1>3. RoomInv => RightRoom
  BY DEF RoomInv, RequestsOK, RightRoom
<1> QED
  BY <1>1, <1>2, <1>3, PTL DEF Spec

-----------------------------------------------------------------------------
(* One socket *)

LEMMA RowsKept ==
  ASSUME TypeOK, RowsOK, NEW i \in DOMAIN conn, NEW r \in Connection, conn' = [conn EXCEPT ![i] = r], RowOK(r)
  PROVE  RowsOK'
<1>1. DOMAIN conn' = DOMAIN conn /\ conn'[i] = r /\ \A j \in DOMAIN conn : j # i => conn'[j] = conn[j]
  BY RowChanged
<1>2. \A j \in DOMAIN conn' : RowOK(conn'[j])
  BY <1>1 DEF RowsOK
<1> QED
  BY <1>2 DEF RowsOK

\* What is appended leaves the first messages first.
LEMMA ReadyStays ==
  ASSUME NEW box \in Seq(Message), NEW m \in Message
  PROVE  /\ ReadyFirst(box) => ReadyFirst(Append(box, m))
         /\ m.type = "ready" /\ (\A k \in DOMAIN box : box[k].type # "superseded") => ReadyFirst(Append(box, m))
<1>0. PICK q : q = Append(box, m)
  OBVIOUS
<1>1. /\ Len(box) \in Nat /\ DOMAIN box = 1..Len(box) /\ DOMAIN q = 1..(Len(box) + 1)
      /\ q[Len(box) + 1] = m /\ \A k \in DOMAIN box : q[k] = box[k]
  BY <1>0, InboxAppended, LenProperties
<1>2. ASSUME ReadyFirst(box)
      PROVE  ReadyFirst(q)
  <2>1. PICK k \in DOMAIN box : box[k].type = "ready" /\ \A j \in 1..(k - 1) : box[j].type # "superseded"
    BY <1>2 DEF ReadyFirst
  <2>2. k \in DOMAIN q /\ q[k].type = "ready"
    BY <1>1, <2>1
  <2>3. \A j \in 1..(k - 1) : q[j].type # "superseded"
    BY <1>1, <2>1
  <2> QED
    BY <2>2, <2>3 DEF ReadyFirst
<1>3. ASSUME m.type = "ready", \A k \in DOMAIN box : box[k].type # "superseded"
      PROVE  ReadyFirst(q)
  <2>1. PICK n : n = Len(box) + 1
    OBVIOUS
  <2>2. n \in DOMAIN q /\ q[n].type = "ready"
    BY <1>1, <1>3, <2>1
  <2>3. \A j \in 1..(n - 1) : q[j].type # "superseded"
    BY <1>1, <1>3, <2>1
  <2> QED
    BY <2>2, <2>3 DEF ReadyFirst
<1> QED
  BY <1>0, <1>2, <1>3

\* A message that is not the one awaited leaves it first.
LEMMA ReadyNext ==
  ASSUME NEW box \in Seq(Message), box # <<>>
  PROVE  /\ ReadyFirst(box) => Head(box).type # "superseded"
         /\ ReadyFirst(box) /\ Head(box).type # "ready" => ReadyFirst(Tail(box))
         /\ (\A k \in DOMAIN box : box[k].type # "superseded") =>
              /\ Head(box).type # "superseded"
              /\ \A k \in DOMAIN Tail(box) : Tail(box)[k].type # "superseded"
<1>1. /\ Len(box) \in Nat /\ DOMAIN box = 1..Len(box) /\ Len(box) >= 1 /\ Head(box) = box[1]
  BY EmptySeq, LenProperties
<1>2. PICK t : t = Tail(box)
  OBVIOUS
<1>3. DOMAIN t = 1..(Len(box) - 1) /\ \A j \in DOMAIN t : t[j] = box[j + 1]
  BY <1>1, <1>2, HeadTailProperties, LenProperties
<1>4. ASSUME ReadyFirst(box)
      PROVE  Head(box).type # "superseded" /\ (Head(box).type # "ready" => ReadyFirst(t))
  <2>1. PICK k \in DOMAIN box : box[k].type = "ready" /\ \A j \in 1..(k - 1) : box[j].type # "superseded"
    BY <1>4 DEF ReadyFirst
  <2>2. Head(box).type # "superseded"
    BY <1>1, <2>1
  <2>3. ASSUME Head(box).type # "ready"
        PROVE  ReadyFirst(t)
    <3>1. PICK n : n = k - 1
      OBVIOUS
    <3>2. n \in DOMAIN t /\ t[n].type = "ready"
      BY <1>1, <1>3, <2>1, <2>3, <3>1
    <3>3. ASSUME NEW j \in 1..(n - 1)
          PROVE  t[j].type # "superseded"
      <4>1. j + 1 \in 1..(k - 1) /\ j \in 1..(Len(box) - 1)
        BY <1>1, <2>1, <3>1
      <4>2. t[j] = box[j + 1]
        BY <1>3, <4>1
      <4> QED
        BY <2>1, <4>1, <4>2
    <3> QED
      BY <3>2, <3>3 DEF ReadyFirst
  <2> QED
    BY <2>2, <2>3
<1>5. ASSUME \A k \in DOMAIN box : box[k].type # "superseded"
      PROVE  Head(box).type # "superseded" /\ \A k \in DOMAIN t : t[k].type # "superseded"
  BY <1>1, <1>3, <1>5
<1> QED
  BY <1>2, <1>4, <1>5

\* A message put in a socket that serves leaves its row in order.
LEMMA PushOK ==
  ASSUME NEW s \in Connection, NEW r \in Connection, NEW m \in Message, RowOK(s), s.state \in {"open", "closing"},
         s.server \notin {"lost", "gone"}, r.state = s.state, r.handlers = s.handlers,
         r.inbox = Append(s.inbox, m), r.server = "agnostic" => s.server = "agnostic",
         \/ r.server = s.server /\ m.type # "superseded"
         \/ r.server = "held" /\ m.type = "ready" /\ s.server = "claiming"
         \/ s.server = "held" \/ EarlyLoss
  PROVE  RowOK(r)
<1>0. s.inbox \in Seq(Message)
  BY DEF Connection
<1>1. s.state = "open"
  BY DEF RowOK, ClosingOK
<1>2. ASSUME Ungranted(r), ~EarlyLoss
      PROVE  GrantDue(r) \/ ReadyFirst(r.inbox)
  <2>1. GrantDue(s) \/ ReadyFirst(s.inbox)
    BY <1>1, <1>2 DEF RowOK, UngrantedOK, Ungranted
  <2>2. CASE ReadyFirst(s.inbox)
    BY <1>0, <2>2, ReadyStays
  <2>3. CASE GrantDue(s) /\ r.server = "held" /\ m.type = "ready"
    BY <1>0, <2>3, ReadyStays DEF GrantDue
  <2>4. CASE GrantDue(s) /\ r.server = s.server /\ m.type # "superseded"
    <3>1. PICK q : q = Append(s.inbox, m)
      OBVIOUS
    <3>2. DOMAIN q = 1..(Len(s.inbox) + 1) /\ q[Len(s.inbox) + 1] = m /\ \A k \in DOMAIN s.inbox : q[k] = s.inbox[k]
      BY <1>0, <3>1, InboxAppended
    <3>3. \A k \in DOMAIN q : q[k].type # "superseded"
      BY <1>0, <2>4, <3>2, LenProperties DEF GrantDue
    <3> QED
      BY <2>4, <3>1, <3>3 DEF GrantDue
  <2> QED
    BY <1>2, <2>1, <2>2, <2>3, <2>4 DEF GrantDue
<1> QED
  BY <1>1, <1>2 DEF RowOK, ConnectingOK, ClosingOK, UngrantedOK, Ungranted

\* A socket that has closed is in order.
LEMMA ClosedOK ==
  ASSUME NEW r, r.state = "closed"
  PROVE  RowOK(r)
BY DEF RowOK, ConnectingOK, ClosingOK, UngrantedOK, Ungranted

LEMMA RowsEnsure ==
  ASSUME TypeOK, RowsOK, NEW c, NEW w, NEW o, NEW m, Ensure(c, w, o, m)
  PROVE  RowsOK'
<1>1. CASE conn' = conn
  BY <1>1 DEF RowsOK
<1>2. CASE conn' # conn
  <2>1. Teardown
    BY <1>2 DEF Ensure
  <2>2. Live /\ socket \in DOMAIN conn
    BY <1>2, <2>1, TeardownRow, LiveRow
  <2>3. PICK r \in Connection : conn' = [conn EXCEPT ![socket] = r] /\ r.state = "closed"
    BY <1>2, <2>1, TeardownRow
  <2> QED
    BY <2>2, <2>3, ClosedOK, RowsKept
<1> QED
  BY <1>1, <1>2

LEMMA RowsSocket ==
  ASSUME TypeOK, SocketInv, NEW i \in DOMAIN conn, SocketStep(i) \/ Closing(i) \/ Drops(i)
  PROVE  RowsOK'
<1>0. RowsOK /\ RowOK(conn[i]) /\ conn[i] \in Connection /\ conn[i].inbox \in Seq(Message)
  BY RowFields DEF SocketInv, RowsOK
<1>1. CASE Opens(i)
  <2>1. PICK r \in Connection :
          /\ conn' = [conn EXCEPT ![i] = r]
          /\ r.comp = conn[i].comp /\ r.state = "open" /\ r.server = conn[i].server
          /\ r.inbox = conn[i].inbox /\ r.requests = conn[i].requests
          /\ r.handlers = IF conn[i].comp = NoCompanion /\ pendingOpen THEN "steady" ELSE conn[i].handlers
    BY <1>1, OpensRow
  <2>2. conn[i].state = "connecting" /\ conn[i].server # "gone" /\ pendingOpen
    BY <1>1 DEF Opens, SocketInv, PendingKept, Pending
  <2>3. r.handlers = "opening" => r.server = "claiming" /\ r.inbox = <<>>
    BY <1>0, <2>1, <2>2 DEF RowOK, ConnectingOK
  <2>4. r.inbox = <<>> => DOMAIN r.inbox = {}
    OBVIOUS
  <2>5. RowOK(r)
    BY <2>1, <2>3, <2>4 DEF RowOK, ConnectingOK, ClosingOK, UngrantedOK, Ungranted, GrantDue
  <2> QED
    BY <1>0, <2>1, <2>5, RowsKept
<1>2. CASE Closes(i)
  <2>1. PICK r \in Connection : conn' = [conn EXCEPT ![i] = r] /\ r.state = "closed"
    BY <1>2, ClosesRow
  <2> QED
    BY <1>0, <2>1, ClosedOK, RowsKept
<1>3. CASE OnMessage(i)
  <2>1. PICK r \in Connection :
          /\ conn' = [conn EXCEPT ![i] = r]
          /\ r.comp = conn[i].comp /\ r.state = conn[i].state /\ r.server = conn[i].server
          /\ r.inbox = Tail(conn[i].inbox) /\ r.requests = conn[i].requests
          /\ r.handlers = IF Head(conn[i].inbox).type = "ready" /\ pendingOpen
                          THEN "steady" ELSE conn[i].handlers
    BY <1>3, MessageRow
  <2>2. conn[i].inbox # <<>> /\ conn[i].state = "open"
    BY <1>0, <1>3 DEF OnMessage, RowOK, ClosingOK
  <2>3. ASSUME Ungranted(r), ~EarlyLoss
        PROVE  GrantDue(r) \/ ReadyFirst(r.inbox)
    <3>1. Ungranted(conn[i])
      BY <2>1, <2>2, <2>3 DEF Ungranted
    <3>2. pendingOpen /\ (GrantDue(conn[i]) \/ ReadyFirst(conn[i].inbox))
      BY <1>0, <2>3, <3>1 DEF SocketInv, PendingKept, Pending, RowOK, UngrantedOK
    <3>3. Head(conn[i].inbox).type # "ready"
      BY <2>1, <2>3, <3>2 DEF Ungranted
    <3>4. CASE ReadyFirst(conn[i].inbox)
      BY <1>0, <2>1, <2>2, <3>3, <3>4, ReadyNext
    <3>5. CASE GrantDue(conn[i])
      <4>1. \A k \in DOMAIN r.inbox : r.inbox[k].type # "superseded"
        BY <1>0, <2>1, <2>2, <3>5, ReadyNext DEF GrantDue
      <4> QED
        BY <2>1, <3>5, <4>1 DEF GrantDue
    <3> QED
      BY <3>2, <3>4, <3>5
  <2>4. RowOK(r)
    BY <1>0, <2>1, <2>2, <2>3 DEF RowOK, ConnectingOK, ClosingOK, UngrantedOK, Ungranted
  <2> QED
    BY <1>0, <2>1, <2>4, RowsKept
<1>4. CASE Closing(i)
  <2>1. PICK r \in Connection :
          /\ conn' = [conn EXCEPT ![i] = r]
          /\ r.comp = conn[i].comp /\ r.state = "closing" /\ r.handlers = conn[i].handlers
          /\ r.server = conn[i].server /\ r.inbox = conn[i].inbox /\ r.requests = conn[i].requests
    BY <1>4, ClosingRow
  <2>2. /\ CloseWindow /\ conn[i].inbox = <<>> /\ conn[i].state = "open"
        /\ conn[i].server \in {"lost", "gone"}
    BY <1>4 DEF Closing
  <2>3. ~GrantDue(conn[i]) /\ ~ReadyFirst(conn[i].inbox)
    BY <2>2 DEF GrantDue, ReadyFirst
  <2>4. conn[i].handlers = "opening" => EarlyLoss
    BY <1>0, <2>2, <2>3 DEF RowOK, UngrantedOK, Ungranted
  <2>5. RowOK(r)
    BY <2>1, <2>2, <2>4 DEF RowOK, ConnectingOK, ClosingOK, UngrantedOK, Ungranted
  <2> QED
    BY <1>0, <2>1, <2>5, RowsKept
<1>5. CASE Drops(i)
  <2>1. PICK r \in Connection :
          /\ conn' = [conn EXCEPT ![i] = r]
          /\ r.comp = conn[i].comp /\ r.state = conn[i].state /\ r.handlers = conn[i].handlers
          /\ r.server = "gone" /\ r.inbox = conn[i].inbox /\ r.requests = conn[i].requests
    BY <1>5, DropsRow
  <2>2. /\ conn[i].state \in {"connecting", "open"}
        /\ EarlyLoss \/ conn[i].state = "connecting" \/ conn[i].server \in {"agnostic", "held"}
    BY <1>5 DEF Drops
  <2>3. Ungranted(r) /\ ~EarlyLoss => ReadyFirst(r.inbox)
    BY <1>0, <2>1, <2>2 DEF RowOK, UngrantedOK, Ungranted, GrantDue
  <2>4. RowOK(r)
    BY <1>0, <2>1, <2>2, <2>3 DEF RowOK, ConnectingOK, ClosingOK, UngrantedOK, Ungranted
  <2> QED
    BY <1>0, <2>1, <2>4, RowsKept
<1> QED
  BY <1>1, <1>2, <1>3, <1>4, <1>5 DEF SocketStep

\* The grant, the takeover and an answer leave the rows in order.
LEMMA RowsServer ==
  ASSUME TypeOK, SocketInv, NEW i \in DOMAIN conn, ServerStep(i) \/ Supersedes(i)
  PROVE  RowsOK'
<1>0. RowsOK /\ RowOK(conn[i]) /\ conn[i] \in Connection
  BY RowFields DEF SocketInv, RowsOK
<1>1. ASSUME NEW t \in Push, NEW how \in {"held", "lost"}, Pushed(i, t, how), Serves(i),
             \/ t = "ready" /\ how = "held" /\ conn[i].server = "claiming"
             \/ conn[i].server = "held" \/ EarlyLoss
      PROVE  RowsOK'
  <2>1. PICK m \in Message, r \in Connection :
          /\ m.type = t
          /\ conn' = [conn EXCEPT ![i] = r]
          /\ r.comp = conn[i].comp /\ r.state = conn[i].state /\ r.handlers = conn[i].handlers
          /\ r.server = how /\ r.inbox = Append(conn[i].inbox, m) /\ r.requests = conn[i].requests
    BY <1>1, PushRow
  <2>2. PICK s \in Connection : s = conn[i]
    BY <1>0
  <2>3. /\ RowOK(s) /\ s.state \in {"open", "closing"} /\ s.server \notin {"lost", "gone"}
        /\ r.state = s.state /\ r.handlers = s.handlers /\ r.inbox = Append(s.inbox, m)
        /\ r.server # "agnostic"
    BY <1>0, <1>1, <2>1, <2>2 DEF Serves
  <2>4. \/ r.server = "held" /\ m.type = "ready" /\ s.server = "claiming"
        \/ s.server = "held" \/ EarlyLoss
    BY <1>1, <2>1, <2>2
  <2>5. RowOK(r)
    BY <2>3, <2>4, PushOK
  <2> QED
    BY <1>0, <2>1, <2>5, RowsKept
<1>2. CASE Grants(i)
  <2>1. Pushed(i, "ready", "held") /\ Serves(i) /\ conn[i].server = "claiming"
    BY <1>2 DEF Grants, Pushed
  <2> QED
    BY <1>1, <2>1 DEF Push
<1>3. CASE Supersedes(i)
  <2>1. Pushed(i, "superseded", "lost") /\ Serves(i) /\ (conn[i].server = "held" \/ EarlyLoss)
    BY <1>3 DEF Supersedes, Pushed
  <2> QED
    BY <1>1, <2>1 DEF Push
<1>4. ASSUME NEW c \in Caller, Answers(i, c)
      PROVE  RowsOK'
  <2>1. PICK m \in Message, r \in Connection :
          /\ m.type \in {"ok", "notEmbodied"} /\ c \in conn[i].requests
          /\ conn' = [conn EXCEPT ![i] = r]
          /\ r.comp = conn[i].comp /\ r.state = conn[i].state /\ r.handlers = conn[i].handlers
          /\ r.server = conn[i].server /\ r.inbox = Append(conn[i].inbox, m)
          /\ r.requests = conn[i].requests \ {c}
    BY <1>4, AnswersRow
  <2>2. PICK s \in Connection : s = conn[i]
    BY <1>0
  <2>3. /\ RowOK(s) /\ s.state \in {"open", "closing"} /\ s.server \notin {"lost", "gone"}
        /\ r.state = s.state /\ r.handlers = s.handlers /\ r.inbox = Append(s.inbox, m)
        /\ r.server = s.server /\ m.type # "superseded"
    BY <1>0, <1>4, <2>1, <2>2 DEF Serves, Answers
  <2>4. RowOK(r)
    BY <2>3, PushOK
  <2> QED
    BY <1>0, <2>1, <2>4, RowsKept
<1> QED
  BY <1>2, <1>3, <1>4 DEF ServerStep

LEMMA RowsStep ==
  ASSUME TypeOK, SocketInv, [Next]_vars
  PROVE  RowsOK'
<1>0. RowsOK
  BY DEF SocketInv
<1>1. ASSUME conn' = conn
      PROVE  RowsOK'
  BY <1>0, <1>1 DEF RowsOK
<1>2. ASSUME NEW c \in Caller, NEW k \in {"call", "events"}, NEW w \in Named, Start(c, k, w)
      PROVE  RowsOK'
  <2>1. conn' = conn \/ Ensure(c, w, opening, micro)
    BY <1>2 DEF Start
  <2> QED
    BY <1>0, <1>1, <2>1, RowsEnsure
<1>3. ASSUME NEW c \in Caller, Resume(c)
      PROVE  RowsOK'
  <2>1. PICK o : o = IF pc[c] = "opened" THEN NoOpening ELSE opening
    OBVIOUS
  <2>2. conn' = conn \/ Ensure(c, want[c], o, Tail(micro))
    BY <1>3, <2>1 DEF Resume
  <2> QED
    BY <1>0, <1>1, <2>2, RowsEnsure
<1>4. ASSUME NEW c \in Caller, Send(c)
      PROVE  RowsOK'
  <2>1. CASE conn' = conn
    BY <1>1, <2>1
  <2>2. CASE conn' # conn
    <3>1. PICK r \in Connection :
            /\ conn' = [conn EXCEPT ![socket] = r]
            /\ r.comp = conn[socket].comp /\ r.state = conn[socket].state
            /\ r.handlers = conn[socket].handlers /\ r.server = conn[socket].server
            /\ r.inbox = conn[socket].inbox
      BY <1>4, <2>2, SendRow
    <3>2. socket \in DOMAIN conn /\ RowOK(conn[socket])
      BY <1>0, <1>4, <2>2, SendRow, LiveRow DEF RowsOK
    <3>3. RowOK(r)
      BY <3>1, <3>2 DEF RowOK, ConnectingOK, ClosingOK, UngrantedOK, Ungranted, GrantDue
    <3> QED
      BY <1>0, <3>1, <3>2, <3>3, RowsKept
  <2> QED
    BY <2>1, <2>2
<1>5. ASSUME TokenArrives
      PROVE  RowsOK'
  <2>1. PICK r \in Connection :
          /\ conn' = Append(conn, r)
          /\ r.comp = opening.target /\ r.state = "connecting" /\ r.handlers = "opening"
          /\ r.server = (IF opening.target = NoCompanion THEN "agnostic" ELSE "claiming")
          /\ r.inbox = <<>> /\ r.requests = {}
    BY <1>5, TokenRow
  <2>2. /\ DOMAIN conn' = DOMAIN conn \cup {Len(conn) + 1}
        /\ conn'[Len(conn) + 1] = r /\ \A j \in DOMAIN conn : conn'[j] = conn[j]
    BY <2>1, RowAdded
  <2>3. RowOK(r)
    BY <2>1 DEF RowOK, ConnectingOK, ClosingOK, UngrantedOK, Ungranted
  <2>4. \A j \in DOMAIN conn' : RowOK(conn'[j])
    BY <1>0, <2>2, <2>3 DEF RowsOK
  <2> QED
    BY <2>4 DEF RowsOK
<1>6. ASSUME NEW c \in Caller, Abort(c)
      PROVE  RowsOK'
  BY <1>1, <1>6 DEF Abort
<1>7. ASSUME NoToken \/ Reclaim \/ UNCHANGED vars
      PROVE  RowsOK'
  BY <1>1, <1>7 DEF NoToken, Reclaim, vars
<1> QED
  BY <1>2, <1>3, <1>4, <1>5, <1>6, <1>7, RowsSocket, RowsServer DEF Next, CallerStep, OpenStep

\* No step but the arrival of a token makes a socket active.
Dims ==
  /\ DOMAIN conn' = DOMAIN conn
  /\ \A j \in DOMAIN conn : Active(conn'[j]) => Active(conn[j])
  /\ \A j \in DOMAIN conn : Pending(conn'[j]) => Pending(conn[j])

LEMMA SocketsDim ==
  ASSUME TypeOK, [Next]_vars, ~TokenArrives
  PROVE  Dims
<1>1. CASE conn' = conn
  BY <1>1 DEF Dims
<1>2. CASE RowStep
  <2>1. PICK i \in DOMAIN conn : \E r \in Connection : conn' = [conn EXCEPT ![i] = r] /\ RowMoves(i, r)
    BY <1>2 DEF RowStep
  <2>2. PICK r \in Connection : conn' = [conn EXCEPT ![i] = r] /\ RowMoves(i, r)
    BY <2>1
  <2>3. DOMAIN conn' = DOMAIN conn /\ conn'[i] = r /\ \A j \in DOMAIN conn : j # i => conn'[j] = conn[j]
    BY <2>2, RowChanged
  <2>4. (Active(r) => Active(conn[i])) /\ (Pending(r) => Pending(conn[i]))
    BY <2>2 DEF RowMoves
  <2> QED
    BY <2>3, <2>4 DEF Dims
<1> QED
  BY <1>1, <1>2, SocketsMoves DEF SocketsMove

\* Only the current socket is active, so only its open is pending.
LEMMA ActiveOnly ==
  ASSUME SocketInv
  PROVE  /\ \A i \in DOMAIN conn : Active(conn[i]) => i = socket /\ ~TokenAwaited
         /\ \A i \in DOMAIN conn : Pending(conn[i]) => pendingOpen /\ i = socket
BY DEF SocketInv, CurrentOnly, PendingKept, Pending, Active, Ungranted

\* A step that leaves the current socket and awaits no new token.
LEMMA CurrentKept ==
  ASSUME SocketInv, Dims, socket' = socket, TokenAwaited' => TokenAwaited
  PROVE  CurrentOnly'
<1>1. \A i \in DOMAIN conn' : Active(conn'[i]) => i = socket' /\ ~TokenAwaited'
  BY ActiveOnly DEF Dims
<1> QED
  BY <1>1 DEF CurrentOnly

\* The current socket has closed.
LEMMA CurrentGone ==
  ASSUME SocketInv, Dims, socket # 0 => ~Active(conn'[socket]), 0 \notin DOMAIN conn
  PROVE  CurrentOnly' /\ PendingKept'
<1>1. \A i \in DOMAIN conn' : ~Active(conn'[i])
  BY ActiveOnly DEF Dims
<1>2. \A i \in DOMAIN conn' : ~Pending(conn'[i])
  BY <1>1 DEF Pending, Active, Ungranted
<1> QED
  BY <1>1, <1>2 DEF CurrentOnly, PendingKept

LEMMA PendingFrame ==
  ASSUME SocketInv, Dims, pendingOpen' = pendingOpen
  PROVE  PendingKept'
<1>1. \A i \in DOMAIN conn' : Pending(conn'[i]) => pendingOpen'
  BY ActiveOnly DEF Dims
<1> QED
  BY <1>1 DEF PendingKept

LEMMA CurrentEnsure ==
  ASSUME TypeOK, SocketInv, OpenerFirst, Dims, NEW c \in Caller, NEW w, NEW o, NEW m, Ensure(c, w, o, m),
         o \in {opening, NoOpening}, pendingOpen => o = opening
  PROVE  CurrentOnly' /\ PendingKept'
<1>0. pendingOpen' = pendingOpen /\ PendingKept'
  BY PendingFrame DEF Ensure
<1>1. CASE Usable(w)
  <2>1. socket' = socket /\ opening' = o
    BY <1>1 DEF Ensure
  <2>2. TokenAwaited' => TokenAwaited
    BY <2>1 DEF TokenAwaited
  <2> QED
    BY <1>0, <2>1, <2>2, CurrentKept
<1>2. CASE ~Usable(w) /\ Live
  <2>1. Teardown
    BY <1>2 DEF Ensure
  <2>2. PICK r \in Connection : conn' = [conn EXCEPT ![socket] = r] /\ r.state = "closed"
    BY <1>2, <2>1, TeardownRow
  <2>3. socket \in DOMAIN conn
    BY <1>2, LiveRow
  <2>4. ~Active(conn'[socket])
    BY <2>2, <2>3 DEF Active
  <2> QED
    BY <2>4, CurrentGone, ConnFacts
<1>3. CASE ~Usable(w) /\ ~Live
  <2>1. UNCHANGED <<conn, socket, embodied>>
    BY <1>3 DEF Ensure, Teardown
  <2>2. CASE Awaited(o)
    <3>1. opening' = o
      BY <1>3, <2>2 DEF Ensure
    <3>2. TokenAwaited' => TokenAwaited
      BY <3>1 DEF TokenAwaited
    <3> QED
      BY <1>0, <2>1, <3>2, CurrentKept
  <2>3. CASE ~Awaited(o)
    <3>1. ~pendingOpen
      BY <2>3 DEF Awaited, OpenerFirst, SocketAwaited
    <3>2. ASSUME socket # 0, Active(conn[socket])
          PROVE  FALSE
      <4>1. conn[socket].state = "connecting" /\ socket \in DOMAIN conn
        BY <1>3, <3>2, ConnFacts DEF Live, Active
      <4> QED
        BY <3>1, <4>1, ActiveOnly DEF Pending
    <3> QED
      BY <2>1, <3>2, CurrentGone, ConnFacts
  <2> QED
    BY <2>2, <2>3
<1> QED
  BY <1>1, <1>2, <1>3

\* A late close event finds no open to fail but its own.
LossSeen == ~EarlyLoss \/ ~CloseWindow

\* No socket but i is active, and i no longer is: nothing is pending.
LEMMA NonePending ==
  ASSUME SocketInv, Dims, NEW i \in DOMAIN conn, ~Pending(conn'[i]), Active(conn[i]) \/ ~Active(conn[socket])
  PROVE  PendingKept'
<1>1. \A j \in DOMAIN conn : Pending(conn[j]) => Active(conn[j])
  BY DEF Pending, Active, Ungranted
<1>2. ASSUME NEW j \in DOMAIN conn', Pending(conn'[j])
      PROVE  FALSE
  <2>1. j \in DOMAIN conn /\ Pending(conn[j]) /\ Active(conn[j]) /\ j = socket
    BY <1>1, <1>2, ActiveOnly DEF Dims
  <2>2. i = j
    BY <2>1, ActiveOnly
  <2> QED
    BY <1>2, <2>2
<1> QED
  BY <1>2 DEF PendingKept

LEMMA CurrentSocket ==
  ASSUME TypeOK, SocketInv, LossSeen, Dims, NEW i \in DOMAIN conn, SocketStep(i)
  PROVE  CurrentOnly' /\ PendingKept'
<1>0. /\ opening' = opening /\ conn[i] \in Connection /\ RowOK(conn[i])
      /\ conn[i].inbox \in Seq(Message)
  BY RowFields DEF SocketStep, Opens, Closes, OnMessage, SocketInv, RowsOK
<1>1. CASE Opens(i)
  <2>1. PICK r \in Connection :
          /\ conn' = [conn EXCEPT ![i] = r]
          /\ r.state = "open"
          /\ r.handlers = IF conn[i].comp = NoCompanion /\ pendingOpen THEN "steady" ELSE conn[i].handlers
    BY <1>1, OpensRow
  <2>2. socket' = socket /\ Active(conn[i]) /\ conn'[i] = r
    BY <1>1, <2>1, RowChanged DEF Opens, Active
  <2>3. CurrentOnly'
    BY <1>0, <2>2, CurrentKept DEF TokenAwaited
  <2>4. CASE conn[i].comp = NoCompanion /\ pendingOpen
    <3>1. ~Pending(conn'[i])
      BY <2>1, <2>2, <2>4 DEF Pending, Ungranted
    <3> QED
      BY <2>2, <2>3, <3>1, NonePending
  <2>5. CASE ~(conn[i].comp = NoCompanion /\ pendingOpen)
    BY <1>1, <2>3, <2>5, PendingFrame DEF Opens
  <2> QED
    BY <2>4, <2>5
<1>2. CASE Closes(i)
  <2>1. PICK r \in Connection : conn' = [conn EXCEPT ![i] = r] /\ r.state = "closed"
    BY <1>2, ClosesRow
  <2>2. ~Active(conn'[i]) /\ ~Pending(conn'[i])
    BY <2>1 DEF Active, Pending, Ungranted
  <2>3. CASE ClosePending(i)
    <3>1. socket' = socket /\ conn[i].handlers = "opening"
      BY <2>3 DEF ClosePending
    <3>2. CurrentOnly'
      BY <1>0, <3>1, CurrentKept DEF TokenAwaited
    <3>3. Active(conn[i])
      <4>1. conn[i].state # "closed" /\ conn[i].state # "closing"
        BY <1>0, <1>2, <3>1 DEF Closes, RowOK, ClosingOK, LossSeen
      <4> QED
        BY <1>0, <4>1 DEF Connection, Active
    <3> QED
      BY <2>2, <3>2, <3>3, NonePending
  <2>4. CASE CloseCurrent(i)
    <3>1. socket = i
      BY <2>4 DEF CloseCurrent
    <3> QED
      BY <2>2, <3>1, CurrentGone, ConnFacts
  <2>5. CASE CloseOther(i)
    <3>1. socket' = socket /\ pendingOpen' = pendingOpen
      BY <2>5 DEF CloseOther
    <3> QED
      BY <1>0, <3>1, CurrentKept, PendingFrame DEF TokenAwaited
  <2> QED
    BY <1>2, <2>3, <2>4, <2>5, CloseEnds
<1>3. CASE OnMessage(i)
  <2>1. PICK r \in Connection :
          /\ conn' = [conn EXCEPT ![i] = r]
          /\ r.state = conn[i].state
          /\ r.handlers = IF Head(conn[i].inbox).type = "ready" /\ pendingOpen
                          THEN "steady" ELSE conn[i].handlers
    BY <1>3, MessageRow
  <2>2. socket' = socket /\ conn[i].inbox # <<>> /\ conn[i].state = "open" /\ conn'[i] = r
    BY <1>0, <1>3, <2>1, RowChanged DEF OnMessage, RowOK, ClosingOK
  <2>3. CurrentOnly' /\ Active(conn[i])
    BY <1>0, <2>2, CurrentKept DEF TokenAwaited, Active
  <2>4. CASE pendingOpen' = pendingOpen
    BY <2>3, <2>4, PendingFrame
  <2>5. CASE Head(conn[i].inbox).type = "ready" /\ pendingOpen
    <3>1. ~Pending(conn'[i])
      BY <2>1, <2>2, <2>5 DEF Pending, Ungranted
    <3> QED
      BY <2>3, <3>1, NonePending
  <2>6. CASE Head(conn[i].inbox).type = "superseded"
    <3>1. ~Pending(conn'[i])
      <4>1. ASSUME Ungranted(r), ~EarlyLoss
            PROVE  FALSE
        <5>1. Ungranted(conn[i])
          BY <2>1, <2>2, <2>6, <4>1 DEF Ungranted
        <5>2. GrantDue(conn[i]) \/ ReadyFirst(conn[i].inbox)
          BY <1>0, <4>1, <5>1 DEF RowOK, UngrantedOK
        <5>3. Head(conn[i].inbox).type # "superseded"
          BY <1>0, <2>2, <5>2, ReadyNext DEF GrantDue
        <5> QED
          BY <2>6, <5>3
      <4> QED
        BY <2>1, <2>2, <4>1 DEF Pending
    <3> QED
      BY <2>3, <3>1, NonePending
  <2>7. pendingOpen' = pendingOpen \/ (Head(conn[i].inbox).type = "ready" /\ pendingOpen)
          \/ Head(conn[i].inbox).type = "superseded"
    BY <1>3 DEF OnMessage, SettlePending
  <2> QED
    BY <2>4, <2>5, <2>6, <2>7
<1> QED
  BY <1>1, <1>2, <1>3 DEF SocketStep

LEMMA SocketInvStep ==
  ASSUME TypeOK, OpenerFirst, SocketInv, LossSeen, [Next]_vars
  PROVE  SocketInv'
<1>1. ASSUME TokenArrives
      PROVE  CurrentOnly' /\ PendingKept'
  <2>1. PICK r \in Connection : conn' = Append(conn, r)
    BY <1>1, TokenRow
  <2>2. /\ DOMAIN conn' = DOMAIN conn \cup {Len(conn) + 1} /\ \A j \in DOMAIN conn : conn'[j] = conn[j]
    BY <2>1, RowAdded
  <2>3. /\ opening # NoOpening /\ opening.phase = "token" /\ pendingOpen' = TRUE
        /\ socket' = Len(conn) + 1 /\ opening' = [opening EXCEPT !.phase = "socket"]
    BY <1>1 DEF TokenArrives
  <2>4. TokenAwaited /\ ~TokenAwaited'
    <3>1. opening \in Opening
      BY <2>3 DEF TypeOK, Opening
    <3>2. opening'.phase = "socket"
      BY <2>3, <3>1 DEF Opening
    <3> QED
      BY <2>3, <3>2 DEF TokenAwaited
  <2>5. \A j \in DOMAIN conn' : Active(conn'[j]) => j = socket' /\ ~TokenAwaited'
    BY <2>2, <2>3, <2>4, ActiveOnly
  <2> QED
    BY <2>3, <2>5 DEF CurrentOnly, PendingKept
<1>2. ASSUME Dims, UNCHANGED <<socket, opening, pendingOpen>>
      PROVE  CurrentOnly' /\ PendingKept'
  BY <1>2, CurrentKept, PendingFrame DEF TokenAwaited
<1>3. CASE TokenArrives
  BY <1>1, <1>3, RowsStep DEF SocketInv
<1>4. CASE ~TokenArrives
  <2>0. Dims
    BY <1>4, SocketsDim
  <2>1. ASSUME NEW c \in Caller, NEW k \in {"call", "events"}, NEW w \in Named, Start(c, k, w)
        PROVE  CurrentOnly' /\ PendingKept'
    <3>1. CASE superseded
      <4>1. UNCHANGED clientVars
        BY <2>1, <3>1 DEF Start
      <4> QED
        BY <1>2, <2>0, <4>1 DEF clientVars
    <3>2. CASE ~superseded
      <4>1. Ensure(c, w, opening, micro)
        BY <2>1, <3>2 DEF Start
      <4> QED
        BY <2>0, <4>1, CurrentEnsure
    <3> QED
      BY <3>1, <3>2
  <2>2. ASSUME NEW c \in Caller, Resume(c)
        PROVE  CurrentOnly' /\ PendingKept'
    <3>1. CASE pc[c] \in {"opened", "resume"}
      <4>1. PICK o : o = IF pc[c] = "opened" THEN NoOpening ELSE opening
        OBVIOUS
      <4>2. Ensure(c, want[c], o, Tail(micro))
        BY <2>2, <3>1, <4>1 DEF Resume
      <4>3. o \in {opening, NoOpening} /\ (pendingOpen => o = opening)
        BY <4>1 DEF OpenerFirst
      <4> QED
        BY <2>0, <4>2, <4>3, CurrentEnsure
    <3>2. CASE pc[c] = "failed"
      <4>1. opening' = NoOpening /\ UNCHANGED <<socket, pendingOpen>>
        BY <2>2, <3>2 DEF Resume
      <4>2. ~TokenAwaited'
        BY <4>1 DEF TokenAwaited
      <4> QED
        BY <2>0, <4>1, <4>2, CurrentKept, PendingFrame
    <3> QED
      BY <2>2, <3>1, <3>2 DEF Resume
  <2>3. ASSUME NEW c \in Caller, Send(c) \/ Abort(c)
        PROVE  CurrentOnly' /\ PendingKept'
    BY <1>2, <2>0, <2>3 DEF Send, Abort, clientVars
  <2>4. ASSUME NoToken \/ Reclaim \/ UNCHANGED vars
        PROVE  CurrentOnly' /\ PendingKept'
    BY <1>2, <2>0, <2>4 DEF NoToken, Reclaim, vars, clientVars
  <2>5. ASSUME NEW i \in DOMAIN conn, ServerStep(i) \/ Closing(i) \/ Supersedes(i) \/ Drops(i)
        PROVE  CurrentOnly' /\ PendingKept'
    BY <1>2, <2>0, <2>5 DEF ServerStep, Grants, Answers, Closing, Supersedes, Drops, clientVars
  <2>6. ASSUME NEW i \in DOMAIN conn, SocketStep(i)
        PROVE  CurrentOnly' /\ PendingKept'
    BY <2>0, <2>6, CurrentSocket
  <2>7. CurrentOnly' /\ PendingKept'
    BY <1>4, <2>1, <2>2, <2>3, <2>4, <2>5, <2>6 DEF Next, CallerStep, OpenStep
  <2> QED
    BY <2>7, RowsStep DEF SocketInv
<1> QED
  BY <1>3, <1>4

LEMMA SocketInvStarts == Init => SocketInv
<1> SUFFICES ASSUME Init PROVE SocketInv
  OBVIOUS
<1>1. DOMAIN conn = {}
  BY DEF Init
<1> QED
  BY <1>1 DEF SocketInv, RowsOK, CurrentOnly, PendingKept

\* One active socket, whatever the calls that race to open it.
LEMMA OneActive ==
  ASSUME SocketInv
  PROVE  OneSocket
<1>1. PICK S : S = {i \in DOMAIN conn : conn[i].state \in {"connecting", "open"}}
  OBVIOUS
<1>2. S \subseteq {socket}
  BY <1>1, ActiveOnly DEF Active
<1>3. Cardinality({socket}) = 1 /\ IsFiniteSet({socket})
  BY FS_Singleton
<1>4. Cardinality(S) <= Cardinality({socket}) /\ Cardinality(S) \in Nat
  BY <1>2, <1>3, FS_Subset, FS_CardinalityType
<1> QED
  BY <1>1, <1>3, <1>4 DEF OneSocket

\* "One companion, one room, one socket" (ws.ts): whoever calls while an open
\* is in progress, at most one socket is not closing.  It takes that a socket
\* never lies in CLOSING with the handlers of an open that its takeover
\* failed: either no socket is lost before its grant, or CLOSING goes unseen.
THEOREM OneSocketHolds == LossSeen => (Spec => []OneSocket)
<1> SUFFICES ASSUME LossSeen PROVE Spec => []OneSocket
  BY DEF LossSeen
<1>1. Init => TransportInv /\ SocketInv
  BY TransportStarts, SocketInvStarts
<1>2. TransportInv /\ SocketInv /\ [Next]_vars => TransportInv' /\ SocketInv'
  BY TransportStep, SocketInvStep DEF TransportInv, ClientInv
<1>3. SocketInv => OneSocket
  BY OneActive
<1> QED
  BY <1>1, <1>2, <1>3, PTL DEF Spec

-----------------------------------------------------------------------------
(* No war over a companion *)

\* With nothing left to run, no open has settled.
LEMMA NothingSettled ==
  ASSUME TypeOK, PendingOK, micro = <<>>, opening # NoOpening, ~pendingOpen
  PROVE  TokenAwaited
BY DEF PendingOK, TokenAwaited, SocketAwaited, TypeOK

\* The current socket keeps its handlers while an open is pending.
LEMMA HandlersKept ==
  ASSUME TypeOK, [Next]_vars, ~TokenArrives, pendingOpen', socket' # 0, socket' = socket
  PROVE  conn'[socket].handlers = conn[socket].handlers
<1>0. socket \in DOMAIN conn
  BY ConnFacts
<1>1. CASE conn' = conn
  BY <1>1
<1>2. CASE RowStep
  <2>1. PICK i \in DOMAIN conn : \E r \in Connection : conn' = [conn EXCEPT ![i] = r] /\ RowMoves(i, r)
    BY <1>2 DEF RowStep
  <2>2. PICK r \in Connection : conn' = [conn EXCEPT ![i] = r] /\ RowMoves(i, r)
    BY <2>1
  <2>3. conn'[i] = r /\ \A j \in DOMAIN conn : j # i => conn'[j] = conn[j]
    BY <2>2, RowChanged
  <2>4. r.handlers = conn[i].handlers
    BY <2>2 DEF RowMoves
  <2> QED
    BY <1>0, <2>3, <2>4
<1> QED
  BY <1>1, <1>2, SocketsMoves DEF SocketsMove

\* The first part of PendingOK.
PendingCurrent == pendingOpen /\ socket # 0 => conn[socket].handlers = "opening"

\* The second.
SettledFirst == SocketAwaited /\ ~pendingOpen => micro # <<>> /\ pc[Head(micro)] \in {"opened", "failed"}

LEMMA PendingParts == (PendingOK <=> PendingCurrent /\ SettledFirst) /\ (PendingOK' <=> PendingCurrent' /\ SettledFirst')
BY DEF PendingOK, PendingCurrent, SettledFirst

\* Only the arrival of a token starts to wait for a socket, and only a
\* teardown or a close changes the current socket.
LEMMA SocketsStay ==
  ASSUME [Next]_vars, ~TokenArrives
  PROVE  socket' \in {socket, 0} /\ (pendingOpen' => pendingOpen)
<1>1. ASSUME NEW c, NEW w, NEW o, NEW m, Ensure(c, w, o, m)
      PROVE  socket' \in {socket, 0} /\ (pendingOpen' => pendingOpen)
  BY <1>1 DEF Ensure, Teardown
<1>2. ASSUME NEW c \in Caller, NEW k \in {"call", "events"}, NEW w \in Named, Start(c, k, w)
      PROVE  socket' \in {socket, 0} /\ (pendingOpen' => pendingOpen)
  BY <1>1, <1>2 DEF Start, clientVars
<1>3. ASSUME NEW c \in Caller, Resume(c)
      PROVE  socket' \in {socket, 0} /\ (pendingOpen' => pendingOpen)
  BY <1>1, <1>3 DEF Resume
<1>4. ASSUME NEW c \in Caller, Send(c) \/ Abort(c)
      PROVE  socket' \in {socket, 0} /\ (pendingOpen' => pendingOpen)
  BY <1>4 DEF Send, Abort, clientVars
<1>5. ASSUME NoToken \/ Reclaim \/ UNCHANGED vars
      PROVE  socket' \in {socket, 0} /\ (pendingOpen' => pendingOpen)
  BY <1>5 DEF NoToken, Reclaim, vars, clientVars
<1>6. ASSUME NEW i \in DOMAIN conn, ServerStep(i) \/ Closing(i) \/ Supersedes(i) \/ Drops(i)
      PROVE  socket' \in {socket, 0} /\ (pendingOpen' => pendingOpen)
  <2>1. UNCHANGED <<socket, pendingOpen>>
    BY <1>6 DEF ServerStep, Grants, Answers, Closing, Supersedes, Drops, clientVars
  <2> QED
    BY <2>1
<1>7. ASSUME NEW i \in DOMAIN conn, Opens(i)
      PROVE  socket' \in {socket, 0} /\ (pendingOpen' => pendingOpen)
  BY <1>7 DEF Opens
<1>8. ASSUME NEW i \in DOMAIN conn, Closes(i)
      PROVE  socket' \in {socket, 0} /\ (pendingOpen' => pendingOpen)
  BY <1>8, CloseEnds DEF ClosePending, CloseCurrent, CloseOther
<1>9. ASSUME NEW i \in DOMAIN conn, OnMessage(i)
      PROVE  socket' \in {socket, 0} /\ (pendingOpen' => pendingOpen)
  BY <1>9 DEF OnMessage, SettlePending, TakenOver
<1> QED
  BY <1>2, <1>3, <1>4, <1>5, <1>6, <1>7, <1>8, <1>9 DEF Next, CallerStep, OpenStep, SocketStep

LEMMA PendingCurrentStep ==
  ASSUME TypeOK, PendingOK, [Next]_vars
  PROVE  PendingCurrent'
<1>1. CASE TokenArrives
  <2>1. PICK r \in Connection : conn' = Append(conn, r) /\ r.handlers = "opening"
    BY <1>1, TokenRow
  <2>2. conn'[Len(conn) + 1] = r
    BY <2>1, RowAdded
  <2> QED
    BY <1>1, <2>1, <2>2 DEF TokenArrives, PendingCurrent
<1>2. CASE ~TokenArrives
  BY <1>2, SocketsStay, HandlersKept, PendingParts DEF PendingCurrent
<1> QED
  BY <1>1, <1>2

\* A settling that is pending puts its opener first.
LEMMA SettledPending ==
  ASSUME TypeOK, OpenerFirst, PendingOK, micro = <<>>, NEW how \in {"opened", "failed"}, SettlePending(how), opening' = opening
  PROVE  SettledFirst'
<1>1. CASE pendingOpen
  <2>1. SettleOpening(how) /\ opening # NoOpening
    BY <1>1 DEF SettlePending, OpenerFirst, SocketAwaited
  <2>2. micro' # <<>> /\ Head(micro') = opening.by /\ pc'[opening.by] = how
    BY <2>1, OpeningSettled
  <2>3. pc'[Head(micro')] = how
    BY <2>2
  <2> QED
    BY <2>2, <2>3 DEF SettledFirst
<1>2. CASE ~pendingOpen
  <2>1. UNCHANGED <<pendingOpen, pc, waiters, micro>>
    BY <1>2 DEF SettlePending
  <2> QED
    BY <2>1, PendingParts DEF SettledFirst, SocketAwaited
<1> QED
  BY <1>1, <1>2

LEMMA SettledEnsure ==
  ASSUME PendingOK, NEW c, NEW w, NEW o, NEW m, Ensure(c, w, o, m), o = NoOpening \/ (o = opening /\ ~(SocketAwaited /\ ~pendingOpen))
  PROVE  SettledFirst'
<1>1. pendingOpen' = pendingOpen
  BY DEF Ensure
<1>2. opening' = o \/ (opening'.phase = "token")
  BY DEF Ensure
<1>3. SocketAwaited' => opening' = opening /\ o = opening
  BY <1>2 DEF SocketAwaited
<1>4. SocketAwaited' => SocketAwaited
  BY <1>3 DEF SocketAwaited
<1> QED
  BY <1>1, <1>3, <1>4 DEF SettledFirst, SocketAwaited

LEMMA SettledStep ==
  ASSUME TypeOK, OpenerFirst, PendingOK, [Next]_vars
  PROVE  SettledFirst'
<1>0. SettledFirst /\ pc \in [Caller -> Place]
  BY PendingParts DEF TypeOK, Place
<1>1. ASSUME UNCHANGED <<opening, pendingOpen, micro>>, micro = <<>> \/ pc'[Head(micro)] = pc[Head(micro)]
      PROVE  SettledFirst'
  BY <1>0, <1>1 DEF SettledFirst, SocketAwaited
<1>2. ASSUME NEW c \in Caller, NEW k \in {"call", "events"}, NEW w \in Named, Start(c, k, w)
      PROVE  SettledFirst'
  <2>1. ~(SocketAwaited /\ ~pendingOpen)
    BY <1>0, <1>2 DEF Start, NoOpenerReady, SettledFirst
  <2>2. CASE superseded
    BY <1>2, <2>1, <2>2 DEF Start, SettledFirst, SocketAwaited, clientVars
  <2>3. CASE ~superseded
    <3>1. Ensure(c, w, opening, micro)
      BY <1>2, <2>3 DEF Start
    <3> QED
      BY <2>1, <3>1, SettledEnsure
  <2> QED
    BY <2>2, <2>3
<1>3. ASSUME NEW c \in Caller, Resume(c)
      PROVE  SettledFirst'
  <2>1. CASE pc[c] = "opened"
    <3>1. Ensure(c, want[c], NoOpening, Tail(micro))
      BY <1>3, <2>1 DEF Resume
    <3> QED
      BY <3>1, SettledEnsure
  <2>2. CASE pc[c] = "resume"
    <3>1. Ensure(c, want[c], opening, Tail(micro)) /\ micro # <<>> /\ c = Head(micro)
      BY <1>3, <2>2 DEF Resume
    <3>2. ~(SocketAwaited /\ ~pendingOpen)
      BY <1>0, <2>2, <3>1 DEF SettledFirst
    <3> QED
      BY <3>1, <3>2, SettledEnsure
  <2>3. CASE pc[c] = "failed"
    BY <1>3, <2>3 DEF Resume, SettledFirst, SocketAwaited
  <2> QED
    BY <1>3, <2>1, <2>2, <2>3 DEF Resume
<1>4. ASSUME NEW c \in Caller, Send(c)
      PROVE  SettledFirst'
  <2>1. ~(SocketAwaited /\ ~pendingOpen)
    BY <1>0, <1>4 DEF Send, SettledFirst
  <2> QED
    BY <1>4, <2>1 DEF Send, SettledFirst, SocketAwaited, clientVars
<1>5. ASSUME NEW c \in Caller, Abort(c)
      PROVE  SettledFirst'
  <2>1. /\ pc' = [pc EXCEPT ![c] = IF @ = "listening" THEN "settled" ELSE @]
        /\ UNCHANGED <<opening, pendingOpen, micro>>
    BY <1>5 DEF Abort, clientVars
  <2>2. \A d \in Caller : pc[d] \in {"opened", "failed"} => pc'[d] = pc[d]
    BY <1>0, <2>1
  <2>3. micro # <<>> => Head(micro) \in Caller
    BY MicroFacts
  <2> QED
    BY <1>0, <2>1, <2>2, <2>3 DEF SettledFirst, SocketAwaited
<1>6. ASSUME TokenArrives
      PROVE  SettledFirst'
  BY <1>6 DEF TokenArrives, SettledFirst
<1>7. ASSUME NoToken
      PROVE  SettledFirst'
  BY <1>7 DEF NoToken, SettledFirst, SocketAwaited, clientVars
<1>8. ASSUME NEW i \in DOMAIN conn, Opens(i)
      PROVE  SettledFirst'
  <2>1. micro = <<>> /\ opening' = opening /\ (SettlePending("opened") \/ UNCHANGED <<pendingOpen, pc, micro>>)
    BY <1>8 DEF Opens, SettlePending
  <2> QED
    BY <1>1, <2>1, SettledPending
<1>9. ASSUME NEW i \in DOMAIN conn, Closes(i)
      PROVE  SettledFirst'
  <2>1. micro = <<>> /\ opening' = opening
    BY <1>9, CloseEnds
  <2>2. CASE ClosePending(i)
    BY <2>1, <2>2, SettledPending DEF ClosePending, SettlePending
  <2>3. CASE CloseCurrent(i) \/ CloseOther(i)
    BY <1>1, <2>1, <2>3 DEF CloseCurrent, CloseOther
  <2> QED
    BY <1>9, <2>2, <2>3, CloseEnds
<1>10. ASSUME NEW i \in DOMAIN conn, OnMessage(i)
       PROVE  SettledFirst'
  <2>1. micro = <<>> /\ opening' = opening
    BY <1>10 DEF OnMessage
  <2>2. SettlePending("opened") \/ SettlePending("failed") \/ UNCHANGED <<pendingOpen, micro>>
    BY <1>10 DEF OnMessage, TakenOver
  <2> QED
    BY <1>1, <2>1, <2>2, SettledPending
<1>11. ASSUME Reclaim \/ UNCHANGED vars
       PROVE  SettledFirst'
  BY <1>1, <1>11 DEF Reclaim, vars, clientVars, callVars
<1>12. ASSUME NEW i \in DOMAIN conn, ServerStep(i) \/ Closing(i) \/ Supersedes(i) \/ Drops(i)
       PROVE  SettledFirst'
  BY <1>1, <1>12 DEF ServerStep, Grants, Answers, Closing, Supersedes, Drops, clientVars, callVars
<1> QED
  BY <1>2, <1>3, <1>4, <1>5, <1>6, <1>7, <1>8, <1>9, <1>10, <1>11, <1>12
     DEF Next, CallerStep, OpenStep, SocketStep

\* A client that loses its companion was using it, and opens nothing.
LEMMA LosesQuietly ==
  ASSUME TypeOK, SocketInv, PendingOK, ~EarlyLoss, NEW i \in DOMAIN conn, OnMessage(i),
         Head(conn[i].inbox).type = "superseded"
  PROVE  ~pendingOpen /\ opening = NoOpening
<1>0. /\ conn[i] \in Connection /\ RowOK(conn[i]) /\ conn[i].inbox \in Seq(Message)
      /\ conn[i].inbox # <<>> /\ conn[i].handlers # "off" /\ conn[i].state \in {"open", "closing"} /\ micro = <<>>
  BY RowFields DEF OnMessage, SocketInv, RowsOK
<1>1. conn[i].state = "open"
  BY <1>0 DEF RowOK, ClosingOK
<1>2. i = socket /\ ~TokenAwaited
  BY <1>1, ActiveOnly DEF Active
<1>3. conn[i].handlers # "opening"
  <2>1. ASSUME conn[i].handlers = "opening"
        PROVE  FALSE
    <3>1. GrantDue(conn[i]) \/ ReadyFirst(conn[i].inbox)
      BY <1>0, <1>1, <2>1 DEF RowOK, UngrantedOK, Ungranted
    <3> QED
      BY <1>0, <3>1, ReadyNext DEF GrantDue
  <2> QED
    BY <2>1
<1>4. ~pendingOpen
  BY <1>2, <1>3, ConnFacts DEF PendingOK
<1>5. opening = NoOpening
  BY <1>0, <1>2, <1>4, NothingSettled
<1> QED
  BY <1>4, <1>5

LEMMA YieldedStep ==
  ASSUME TypeOK, OpenerFirst, SocketInv, YieldInv, ~EarlyLoss, [Next]_vars
  PROVE  YieldedOK'
<1>0. PendingOK /\ YieldedOK
  BY DEF YieldInv
<1>1. ASSUME UNCHANGED <<lost, superseded, micro, pendingOpen, opening>>
      PROVE  YieldedOK'
  BY <1>0, <1>1 DEF YieldedOK
<1>2. ASSUME lost = {}, lost' = lost
      PROVE  YieldedOK'
  BY <1>2 DEF YieldedOK
<1>3. CASE lost = {}
  <2>1. ASSUME NEW i \in DOMAIN conn, OnMessage(i), Head(conn[i].inbox).type = "superseded"
        PROVE  YieldedOK'
    <3>1. ~pendingOpen /\ opening = NoOpening /\ micro = <<>>
      BY <1>0, <2>1, LosesQuietly DEF OnMessage
    <3>2. TakenOver(i) /\ opening' = opening
      BY <2>1 DEF OnMessage
    <3>3. superseded' = TRUE /\ UNCHANGED <<pendingOpen, micro>>
      BY <3>1, <3>2 DEF TakenOver, Yield, SettlePending
    <3> QED
      BY <3>1, <3>2, <3>3 DEF YieldedOK
  <2>2. ASSUME NEW i \in DOMAIN conn, OnMessage(i), Head(conn[i].inbox).type # "superseded"
        PROVE  lost' = lost
    BY <2>2 DEF OnMessage
  <2>3. ASSUME NEW i \in DOMAIN conn, Closes(i)
        PROVE  lost' = lost
    BY <2>3, CloseEnds
  <2>4. ASSUME NEW i \in DOMAIN conn, Opens(i) \/ ServerStep(i) \/ Closing(i) \/ Supersedes(i) \/ Drops(i)
        PROVE  lost' = lost
    BY <2>4 DEF Opens, ServerStep, Grants, Answers, Closing, Supersedes, Drops
  <2>5. ASSUME NEW c \in Caller,
               \/ \E k \in {"call", "events"}, w \in Named : Start(c, k, w)
               \/ CallerStep(c) \/ Abort(c)
        PROVE  lost' = lost
    BY <2>5 DEF Start, CallerStep, Resume, Send, Abort
  <2>6. ASSUME OpenStep \/ UNCHANGED vars
        PROVE  lost' = lost
    BY <2>6 DEF OpenStep, TokenArrives, NoToken, vars
  <2>7. ASSUME Reclaim
        PROVE  lost' = lost
    BY <1>3, <2>7 DEF Reclaim
  <2> QED
    BY <1>2, <1>3, <2>1, <2>2, <2>3, <2>4, <2>5, <2>6, <2>7 DEF Next, SocketStep
<1>4. CASE lost # {}
  <2>0. superseded /\ micro = <<>> /\ ~pendingOpen /\ opening = NoOpening
    BY <1>0, <1>4 DEF YieldedOK
  <2>1. ASSUME NEW c \in Caller, NEW k \in {"call", "events"}, NEW w \in Named, Start(c, k, w)
        PROVE  YieldedOK'
    BY <1>1, <2>0, <2>1 DEF Start, clientVars
  <2>2. ASSUME NEW c \in Caller, CallerStep(c)
        PROVE  FALSE
    BY <2>0, <2>2 DEF CallerStep, Resume, Send
  <2>3. ASSUME NEW c \in Caller, Abort(c)
        PROVE  YieldedOK'
    BY <1>1, <2>3 DEF Abort, clientVars
  <2>4. ASSUME OpenStep
        PROVE  FALSE
    BY <2>0, <2>4 DEF OpenStep, TokenArrives, NoToken
  <2>5. ASSUME Reclaim
        PROVE  YieldedOK'
    BY <2>5 DEF Reclaim, YieldedOK
  <2>6. ASSUME NEW i \in DOMAIN conn, Opens(i)
        PROVE  YieldedOK'
    BY <1>1, <2>0, <2>6 DEF Opens
  <2>7. ASSUME NEW i \in DOMAIN conn, Closes(i)
        PROVE  YieldedOK'
    BY <1>1, <2>0, <2>7, CloseEnds DEF ClosePending, CloseCurrent, CloseOther
  <2>8. ASSUME NEW i \in DOMAIN conn, OnMessage(i)
        PROVE  YieldedOK'
    <3>1. UNCHANGED <<pendingOpen, micro, opening>>
      BY <2>0, <2>8 DEF OnMessage, TakenOver, SettlePending
    <3>2. superseded'
      BY <2>0, <2>8 DEF OnMessage, TakenOver, Yield
    <3> QED
      BY <2>0, <3>1, <3>2 DEF YieldedOK
  <2>9. ASSUME NEW i \in DOMAIN conn, ServerStep(i) \/ Closing(i) \/ Supersedes(i) \/ Drops(i)
        PROVE  YieldedOK'
    BY <1>1, <2>9 DEF ServerStep, Grants, Answers, Closing, Supersedes, Drops, clientVars, callVars
  <2>10. ASSUME UNCHANGED vars
         PROVE  YieldedOK'
    BY <1>1, <2>10 DEF vars, clientVars, callVars
  <2> QED
    BY <2>1, <2>2, <2>3, <2>4, <2>5, <2>6, <2>7, <2>8, <2>9, <2>10 DEF Next, SocketStep, OpenStep
<1> QED
  BY <1>3, <1>4

LEMMA YieldStep ==
  ASSUME TypeOK, OpenerFirst, SocketInv, YieldInv, ~EarlyLoss, [Next]_vars
  PROVE  YieldInv'
<1>1. PendingOK
  BY DEF YieldInv
<1>2. PendingOK'
  BY <1>1, PendingCurrentStep, SettledStep, PendingParts
<1>3. YieldedOK'
  BY YieldedStep
<1> QED
  BY <1>2, <1>3 DEF YieldInv

\* A socket is only created when a token arrives, for the companion being opened.
LEMMA OnlyTokenCreates ==
  ASSUME TypeOK, [Next]_vars, Len(conn') > Len(conn)
  PROVE  TokenArrives
<1>1. Len(conn) \in Nat
  BY ConnFacts
<1>2. CASE conn' = conn
  BY <1>1, <1>2
<1>3. CASE RowStep
  <2>1. PICK i \in DOMAIN conn : \E r \in Connection : conn' = [conn EXCEPT ![i] = r] /\ RowMoves(i, r)
    BY <1>3 DEF RowStep
  <2>2. PICK r \in Connection : conn' = [conn EXCEPT ![i] = r]
    BY <2>1
  <2>3. Len(conn') = Len(conn)
    BY <2>2, RowChanged
  <2> QED
    BY <1>1, <2>3
<1> QED
  BY <1>2, <1>3, SocketsMoves DEF SocketsMove

\* "The owner must NOT auto-reconnect": a client that was superseded opens no
\* socket for the companion it lost until the user takes it back, whatever
\* calls, continuations and tokens were on their way (ws.ts).  It takes that no
\* socket is lost before its grant.
THEOREM NoClaimWarHolds == ~EarlyLoss => (Spec => NoClaimWar)
<1> SUFFICES ASSUME ~EarlyLoss PROVE Spec => NoClaimWar
  OBVIOUS
<1> DEFINE Peace == Len(conn') > Len(conn) => conn'[Len(conn')].comp \notin lost
<1>1. Init => TransportInv /\ SocketInv /\ YieldInv
  <2>1. Init => YieldInv
    BY DEF Init, YieldInv, PendingOK, YieldedOK, SocketAwaited
  <2> QED
    BY <2>1, TransportStarts, SocketInvStarts
<1>2. TransportInv /\ SocketInv /\ YieldInv /\ [Next]_vars => TransportInv' /\ SocketInv' /\ YieldInv'
  BY TransportStep, SocketInvStep, YieldStep DEF TransportInv, ClientInv, LossSeen
<1>3. TransportInv /\ YieldInv /\ [Next]_vars => [Peace]_vars
  <2> SUFFICES ASSUME TransportInv, YieldInv, [Next]_vars, Len(conn') > Len(conn)
               PROVE  conn'[Len(conn')].comp \notin lost
    OBVIOUS
  <2>1. TokenArrives
    BY OnlyTokenCreates DEF TransportInv, ClientInv
  <2>2. opening # NoOpening
    BY <2>1 DEF TokenArrives
  <2>3. lost = {}
    BY <2>2 DEF YieldInv, YieldedOK
  <2> QED
    BY <2>3
<1>4. Spec => [][Peace]_vars
  BY <1>1, <1>2, <1>3, PTL DEF Spec
<1> QED
  BY <1>4 DEF NoClaimWar

-----------------------------------------------------------------------------
(* The browser as a whole *)

\* The page never touches the transport: a behaviour of the browser is one of
\* the transport, and one of the page (Web).
THEOREM WebComposes == WebSpec => Spec /\ ChatInit /\ [][ChatNext]_chatVars
<1>1. WebInit => Init /\ ChatInit
  BY DEF WebInit
<1>2. [WebNext]_webVars => [Next]_vars
  BY DEF WebNext, TransportMoves, PageMoves, webVars
<1>3. [WebNext]_webVars => [ChatNext]_chatVars
  BY DEF WebNext, TransportMoves, PageMoves, webVars
<1> QED
  BY <1>1, <1>2, <1>3, PTL DEF WebSpec, Spec

\* What the browser's runs check of its transport and of its chat page, but for
\* the settling of calls, holds for any number of companions, calls, sockets,
\* turns and rows.
THEOREM WebCorrect ==
  WebSpec => /\ []RightRoom /\ []ViewConverges
             /\ LossSeen => []OneSocket
             /\ ~EarlyLoss => NoClaimWar
<1>1. WebSpec => Spec
  BY WebComposes
<1>2. WebSpec => []ViewConverges
  BY WebComposes, ViewConvergesHolds
<1> QED
  BY <1>1, <1>2, RightRoomHolds, OneSocketHolds, NoClaimWarHolds
=============================================================================
