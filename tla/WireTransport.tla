--------------------------- MODULE WireTransport ---------------------------
(***************************************************************************)
(* The requests of one connection, from end to end: the client transport   *)
(* (shared/src/ws-transport.ts, WsTransport and its StreamQueue) with the  *)
(* readers of its streams, and the server end (api/ws/register.ts,         *)
(* dispatch.ts, connection.ts) with its slots, the handlers it runs side   *)
(* by side, the chain its turns take, and the backlog it sheds.            *)
(*                                                                         *)
(* Frames keep their order both ways.  Several may be delivered in one     *)
(* task of the client, so a reader's continuation may come after the next  *)
(* frame, but never after a close.                                         *)
(***************************************************************************)
EXTENDS Naturals, Sequences, FiniteSets

CONSTANTS
  Request,      \* the calls and streams the client may make
  NoRequest,
  MaxInFlight,  \* the largest wsMaxInFlight considered
  MaxBuffered,  \* wsMaxBufferedBytes, in frames
  MaxChunks     \* bound on what a turn says

ASSUME WireConstants ==
  /\ NoRequest \notin Request
  /\ MaxInFlight \in Nat \ {0} /\ MaxBuffered \in Nat /\ MaxChunks \in Nat

VARIABLES
  lease,     \* the promise of connect
  near,      \* the client's readyState
  far,       \* the server's
  uplink,    \* requests under way
  downlink,  \* frames under way to the client
  ask,       \* each request, as the client has it
  streamed,  \* those that stream a turn; the others are plain calls
  cap,       \* wsMaxInFlight
  slots,     \* inFlight
  served,    \* each request, as the server has it
  tail,      \* serialTail: the turn that entered the chain last
  shed,      \* ghost: requests refused for want of a slot
  late       \* ghost: requests made after the socket had closed

clientVars == <<lease, near, ask, streamed, late>>
serverVars == <<far, cap, slots, served, tail, shed>>
wireVars   == <<clientVars, serverVars, uplink, downlink>>

\* The queue of a stream is `buffer`, `hand` (a chunk given to the waiter) and
\* `end`; a plain call is settled by `end` alone.
Unasked == [at |-> "new", buffer |-> <<>>, hand |-> 0, end |-> "none", read |-> <<>>]

Unserved == [at |-> "none", after |-> NoRequest, said |-> 0]

WireInit ==
  /\ lease = "pending" /\ near = "open" /\ far = "open"
  /\ uplink = <<>> /\ downlink = <<>>
  /\ ask = [r \in Request |-> Unasked] /\ streamed = {}
  /\ cap \in 1..MaxInFlight
  /\ slots = 0 /\ served = [r \in Request |-> Unserved] /\ tail = NoRequest
  /\ shed = {} /\ late = {}

-----------------------------------------------------------------------------
(* The client. *)

\* call and callStream: the request is registered, and sent if the socket is up.
Calls(r) ==
  /\ lease = "granted" /\ ask[r].at = "new"
  /\ \/ ask' = [ask EXCEPT ![r].at = "reading"] /\ streamed' = streamed \union {r}
     \/ ask' = [ask EXCEPT ![r].at = "waiting"] /\ UNCHANGED streamed
  /\ uplink' = IF near = "open" THEN Append(uplink, r) ELSE uplink
  /\ late' = IF near = "closed" THEN late \union {r} ELSE late
  /\ UNCHANGED <<lease, near, downlink, serverVars>>

\* close(), by the caller.
Closes ==
  /\ near = "open"
  /\ near' = "closing"
  /\ UNCHANGED <<lease, ask, streamed, late, uplink, downlink, serverVars>>

\* Wakes the waiter, if the reader waits.
Woken(at) == IF at = "waiting" THEN "woken" ELSE at

\* StreamQueue.push.
Pushed(s, chunk) ==
  IF s.at \notin {"reading", "waiting", "woken"} \/ s.end # "none" THEN s
  ELSE IF s.at = "waiting" THEN [s EXCEPT !.at = "woken", !.hand = chunk]
  ELSE [s EXCEPT !.buffer = Append(@, chunk)]

\* The end or failure of a stream; a plain call resolves or rejects at once.
Ended(r, s, how) ==
  IF s.at \notin {"reading", "waiting", "woken"} \/ s.end # "none" THEN s
  ELSE [s EXCEPT !.end = how, !.at = IF r \in streamed THEN Woken(@) ELSE "settled"]

\* onMessage: a frame for the empty id, or for a stream that was left, finds
\* nobody.
Receives ==
  LET frame == Head(downlink)
  IN  /\ near # "closed" /\ downlink # <<>>
      /\ downlink' = Tail(downlink)
      /\ lease' = IF lease # "pending" THEN lease
                   ELSE CASE frame.is = "ready"      -> "granted"
                          [] frame.is = "superseded" -> "refused"
                          [] OTHER                   -> lease
      /\ ask' = IF frame.to = NoRequest THEN ask
                ELSE [ask EXCEPT ![frame.to] =
                        CASE frame.is = "chunk"  -> Pushed(@, frame.chunk)
                          [] frame.is = "result" -> Ended(frame.to, @, "finished")
                          [] frame.is = "error"  -> Ended(frame.to, @, "failed")]
      /\ UNCHANGED <<near, streamed, late, uplink, serverVars>>

\* handleClose fails everything registered; a connect in progress is rejected.
\* The other end sees the same close.
SocketEnds ==
  /\ near # "closed"
  /\ \A r \in Request : ask[r].at # "woken"
  /\ near' = "closed" /\ far' = "closed"
  /\ lease' = IF lease = "pending" THEN "refused" ELSE lease
  /\ ask' = [r \in Request |-> Ended(r, ask[r], "failed")]
  /\ uplink' = <<>> /\ downlink' = <<>>
  /\ UNCHANGED <<streamed, cap, late, slots, served, tail, shed>>

\* iterate, when its consumer asks for the next chunk: what is buffered comes
\* first, then the failure or the end, and else it waits.
Iterates(r) ==
  /\ r \in streamed /\ ask[r].at = "reading"
  /\ LET s == ask[r]
     IN  ask' = [ask EXCEPT ![r] =
           IF s.buffer # <<>> THEN [s EXCEPT !.read = Append(@, Head(s.buffer)), !.buffer = Tail(@)]
           ELSE [s EXCEPT !.at = IF s.end = "none" THEN "waiting" ELSE "settled"]]
  /\ UNCHANGED <<lease, near, streamed, late, uplink, downlink, serverVars>>

\* iterate, after its wait: a failure that came meanwhile goes before the chunk.
Resumes(r) ==
  /\ ask[r].at = "woken"
  /\ LET s == ask[r]
     IN  ask' = [ask EXCEPT ![r] =
           IF s.end = "failed" \/ s.hand = 0 THEN [s EXCEPT !.at = "settled", !.hand = 0]
           ELSE [s EXCEPT !.at = "reading", !.read = Append(@, s.hand), !.hand = 0]]
  /\ UNCHANGED <<lease, near, streamed, late, uplink, downlink, serverVars>>

\* The consumer of a stream gives it up between two chunks.
Leaves(r) ==
  /\ r \in streamed /\ ask[r].at = "reading"
  /\ ask' = [ask EXCEPT ![r] = [@ EXCEPT !.at = "left", !.buffer = <<>>, !.read = <<>>]]
  /\ UNCHANGED <<lease, near, streamed, late, uplink, downlink, serverVars>>

-----------------------------------------------------------------------------
(* The server. *)

\* WsConnection.send: nothing goes to a closed socket, and a backlog past the
\* ceiling closes it.
SendsFrame(frame) ==
  IF far # "open" THEN UNCHANGED <<downlink, far>>
  ELSE IF Len(downlink) > MaxBuffered THEN far' = "closed" /\ UNCHANGED downlink
  ELSE downlink' = Append(downlink, frame) /\ UNCHANGED far

Frame(is, to) == [is |-> is, to |-> to, chunk |-> 0]

\* embody grants the lease once the claim and the cursor are in.
Grants ==
  /\ lease = "pending" /\ far = "open" /\ downlink = <<>>
  /\ SendsFrame(Frame("ready", NoRequest))
  /\ UNCHANGED <<clientVars, uplink, cap, slots, served, tail, shed>>

\* The claim is refused, or a heartbeat or a turn finds that it is lost: the
\* client is told and the socket closed (4002).
Superseded ==
  /\ far = "open"
  /\ downlink' = IF Len(downlink) > MaxBuffered THEN downlink
                 ELSE Append(downlink, Frame("superseded", NoRequest))
  /\ far' = "closed"
  /\ UNCHANGED <<clientVars, uplink, cap, slots, served, tail, shed>>

\* The message handler: beginRequest, or a refusal that names no request.
Admits(r) ==
  /\ near # "closed" /\ uplink # <<>> /\ Head(uplink) = r
  /\ uplink' = Tail(uplink)
  /\ \/ /\ slots < cap
        /\ slots' = slots + 1
        /\ served' = [served EXCEPT ![r].at = "handling"]
        /\ UNCHANGED <<far, downlink, shed>>
     \/ /\ slots >= cap
        /\ SendsFrame(Frame("error", NoRequest))
        /\ shed' = shed \union {r}
        /\ UNCHANGED <<slots, served>>
  /\ UNCHANGED <<clientVars, cap, tail>>

\* dispatchMessage answers by the request's id, and its slot is given back.
AnswersById(r, is) ==
  /\ served' = [served EXCEPT ![r].at = "over"]
  /\ slots' = slots - 1
  /\ SendsFrame(Frame(is, r))
  /\ UNCHANGED <<clientVars, uplink, cap, tail, shed>>

\* A handler returns or throws outside the chain: a plain call, a turn refused by
\* its fences, a wake that is skipped.
Handles(r) ==
  /\ served[r].at = "handling"
  /\ \E is \in {"result", "error"} : AnswersById(r, is)

\* runSerial: behind the tail, and the tail from now on.
Enters(r) ==
  /\ r \in streamed /\ served[r].at = "handling"
  /\ served' = [served EXCEPT ![r] = [@ EXCEPT !.at = "queued", !.after = tail]]
  /\ tail' = r
  /\ UNCHANGED <<clientVars, uplink, downlink, far, cap, slots, shed>>

\* Mutant: the turn in front has begun.
ChainFreeAtOnce(r) == served[r].after # NoRequest => served[served[r].after].at # "queued"

\* The turn in front has ended, well or not.
ChainFree(r) == served[r].after # NoRequest => served[served[r].after].at = "over"

Begins(r) ==
  /\ served[r].at = "queued" /\ ChainFree(r)
  /\ served' = [served EXCEPT ![r].at = "turning"]
  /\ UNCHANGED <<clientVars, uplink, downlink, far, cap, slots, tail, shed>>

\* emitAll, chunk by chunk; a turn whose socket is gone goes on unheard.
Emits(r) ==
  /\ far = "open" /\ served[r].at = "turning" /\ served[r].said < MaxChunks
  /\ served' = [served EXCEPT ![r].said = @ + 1]
  /\ SendsFrame([is |-> "chunk", to |-> r, chunk |-> served'[r].said])
  /\ UNCHANGED <<clientVars, uplink, cap, slots, tail, shed>>

TurnEnds(r) ==
  /\ served[r].at = "turning"
  /\ \E is \in {"result", "error"} : AnswersById(r, is)

WireNext ==
  \/ Closes \/ Receives \/ SocketEnds \/ Grants \/ Superseded
  \/ \E r \in Request :
       \/ Calls(r) \/ Iterates(r) \/ Resumes(r) \/ Leaves(r)
       \/ Admits(r) \/ Handles(r) \/ Enters(r) \/ Begins(r) \/ Emits(r) \/ TurnEnds(r)

WireSpec == WireInit /\ [][WireNext]_wireVars

-----------------------------------------------------------------------------
WireTypeOK ==
  /\ lease \in {"pending", "granted", "refused"}
  /\ near \in {"open", "closing", "closed"} /\ far \in {"open", "closed"}
  /\ uplink \in Seq(Request)
  /\ downlink \in Seq([is : {"ready", "superseded", "chunk", "result", "error"},
                       to : Request \union {NoRequest}, chunk : 0..MaxChunks])
  /\ ask \in [Request ->
       [at : {"new", "waiting", "reading", "woken", "settled", "left"},
        buffer : Seq(1..MaxChunks), hand : 0..MaxChunks,
        end : {"none", "finished", "failed"}, read : Seq(1..MaxChunks)]]
  /\ cap \in 1..MaxInFlight /\ slots \in 0..cap /\ streamed \subseteq Request
  /\ served \in [Request ->
       [at : {"none", "handling", "queued", "turning", "over"},
        after : Request \union {NoRequest}, said : 0..MaxChunks]]
  /\ tail \in Request \union {NoRequest}
  /\ shed \subseteq Request /\ late \subseteq Request

\* A request the client still waits for.
Awaited(r) == ask[r].at \in {"waiting", "reading", "woken"} /\ ask[r].end = "none"

Occurrences(s, Test(_)) == Cardinality({i \in DOMAIN s : Test(s[i])})

\* While the socket is up an awaited request is in one place: under way, being
\* served, answered by a frame under way, or shed.
InOnePlace(r) ==
  LET count == Occurrences(uplink, LAMBDA q : q = r)
             + Occurrences(downlink, LAMBDA f : f.to = r /\ f.is \in {"result", "error"})
             + (IF served[r].at \notin {"none", "over"} THEN 1 ELSE 0)
             + (IF r \in shed THEN 1 ELSE 0)
  IN  near = "open" /\ far = "open" /\ Awaited(r) => count = 1

\* Once it has closed nothing is awaited that was asked before.
NoneStranded(r) == near = "closed" /\ Awaited(r) => r \in late

\* What a stream yields is what was said, in order and from the start, and all
\* of it if the stream returns.
YieldedWhole(r) ==
  /\ ask[r].read = [i \in 1..Len(ask[r].read) |-> i]
  /\ r \in streamed /\ ask[r].at = "settled" /\ ask[r].end = "finished" =>
       Len(ask[r].read) = served[r].said

\* Requests that multiplex over one socket are neither lost nor answered twice,
\* though handlers throw, slots run out, consumers leave and the socket closes;
\* their slots come back, their turns run one at a time, and a stream that
\* returns has yielded the whole turn (register.ts, dispatch.ts, runSerial,
\* StreamQueue).
RequestsAccounted ==
  /\ \A r \in Request : InOnePlace(r) /\ NoneStranded(r) /\ YieldedWhole(r)
  /\ slots = Cardinality({r \in Request : served[r].at \notin {"none", "over"}})
  /\ Cardinality({r \in streamed : served[r].at = "turning"}) <= 1
=============================================================================
