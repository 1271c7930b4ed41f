------------------------------ MODULE WsClient ------------------------------
(***************************************************************************)
(* The browser's transport singleton, packages/web/src/api/ws.ts: one      *)
(* socket that may embody a companion, the calls and event subscriptions   *)
(* that ride it, and the server end of each socket (api/ws/register.ts) as *)
(* far as the client can observe it.                                       *)
(*                                                                         *)
(* JavaScript is single threaded: an incoming frame, a close, a token or a *)
(* user action is one task, and the promise continuations it triggers run  *)
(* before the next frame.  `micro` is that queue of continuations, so a    *)
(* socket event can only happen once it is empty; new calls may be made    *)
(* at any time, by other tasks or by other continuations.                  *)
(***************************************************************************)
EXTENDS Naturals, Sequences, FiniteSets

CONSTANTS
  Companion,    \* the companions of the signed-in user
  Caller,       \* callers of call(), callStream() and events(), one call each
  Named,        \* what the callers name: companions, or NoCompanion
  NoCompanion,  \* a call that names no companion; a transport-only socket
  NoOpening,    \* no open() is in progress
  MaxSockets,   \* bound on the sockets ever created
  EarlyLoss,    \* TRUE: a socket may be lost before its lease is granted
  CloseWindow   \* TRUE: CLOSING may be seen before the close event

ASSUME ClientConstants ==
  /\ MaxSockets \in Nat /\ EarlyLoss \in BOOLEAN /\ CloseWindow \in BOOLEAN
  /\ NoCompanion \notin Companion /\ Named \subseteq Companion \cup {NoCompanion}
  /\ NoOpening \notin [by : Caller, target : Companion \cup {NoCompanion}, phase : {"token", "socket"}]

VARIABLES
  socket,      \* this.socket: a position in conn, or 0
  embodied,    \* this.embodied
  opening,     \* this.opening: who runs open(), for which companion, how far
  pendingOpen, \* this.pendingOpen is set
  superseded,  \* this.superseded
  conn,        \* every socket created, with its server end
  pc,          \* where each caller is
  want,        \* the companion it named
  kind,        \* a call (or stream), or an event subscription
  ended,       \* subscriptions whose queue has ended
  result,      \* how each call settled
  waiters,     \* callers awaiting `opening`, in order
  micro,       \* continuations to run, in order
  lost         \* ghost: the companions this client lost and did not reclaim

clientVars == <<socket, embodied, opening, pendingOpen, superseded>>
callVars   == <<pc, want, kind, ended, result, waiters, micro>>
vars       == <<clientVars, conn, callVars, lost>>

Target == Companion \cup {NoCompanion}

\* What a server sends; a reply names the call it answers.
Push == {"ready", "superseded"}
Message == [type : Push] \cup [type : {"ok", "notEmbodied"}, to : Caller]

Connection ==
  [comp     : Target,
   state    : {"connecting", "open", "closing", "closed"},   \* readyState
   handlers : {"opening", "steady", "off"},
   server   : {"agnostic", "claiming", "held", "lost", "gone"},
   requests : SUBSET Caller,                                 \* not answered yet
   inbox    : Seq(Message)]                                  \* sent, not delivered

TypeOK ==
  /\ conn \in Seq(Connection) /\ Len(conn) <= MaxSockets
  /\ socket \in 0..Len(conn)
  /\ embodied \in Target
  /\ opening \in [by : Caller, target : Target, phase : {"token", "socket"}] \cup {NoOpening}
  /\ pendingOpen \in BOOLEAN /\ superseded \in BOOLEAN
  /\ pc \in [Caller -> {"idle", "opener", "opened", "failed", "awaiting", "resume",
                        "ready", "pending", "listening", "settled"}]
  /\ want \in [Caller -> Target]
  /\ kind \in [Caller -> {"call", "events"}]
  /\ ended \subseteq Caller
  /\ result \in [Caller -> {"none", "ok", "notEmbodied", "error"}]
  /\ waiters \in Seq(Caller) /\ micro \in Seq(Caller)
  /\ lost \subseteq Companion

Init ==
  /\ socket = 0 /\ embodied = NoCompanion /\ opening = NoOpening
  /\ pendingOpen = FALSE /\ superseded = FALSE
  /\ conn = <<>>
  /\ pc = [c \in Caller |-> "idle"]
  /\ want = [c \in Caller |-> NoCompanion]
  /\ kind = [c \in Caller |-> "call"]
  /\ ended = {}
  /\ result = [c \in Caller |-> "none"]
  /\ waiters = <<>> /\ micro = <<>>
  /\ lost = {}

-----------------------------------------------------------------------------
(* ensure() *)

Live == socket # 0 /\ conn[socket].state = "open"

\* Drop a socket of another companion; its handlers go with it.
Teardown ==
  IF Live
  THEN /\ conn' = [conn EXCEPT ![socket].handlers = "off", ![socket].state = "closed",
                               ![socket].server = "gone", ![socket].inbox = <<>>,
                               ![socket].requests = {}]
       /\ socket' = 0 /\ embodied' = NoCompanion
  ELSE UNCHANGED <<conn, socket, embodied>>

\* Mutant: a live socket does for any companion.
UsableForAll(w) == Live

\* The live socket embodies the companion the caller names, if any.
Usable(w) == Live /\ w \in {NoCompanion, embodied}

\* Mutant: every caller opens a socket of its own, whoever is opening one.
NeverAwaited(o) == FALSE

\* An open in progress is awaited rather than started again.
Awaited(o) == o # NoOpening

\* One pass of ensure()'s loop for caller c, when `this.opening` is o and the
\* continuations left to run are m: use the live socket, await the open in
\* progress, or start one.
Ensure(c, w, o, m) ==
  /\ UNCHANGED <<pendingOpen, superseded>>
  /\ IF Usable(w)
     THEN /\ pc' = [pc EXCEPT ![c] = "ready"] /\ micro' = Append(m, c)
          /\ opening' = o
          /\ UNCHANGED <<conn, socket, embodied, waiters>>
     ELSE /\ Teardown
          /\ micro' = m
          /\ IF Awaited(o)
             THEN /\ pc' = [pc EXCEPT ![c] = "awaiting"] /\ waiters' = Append(waiters, c)
                  /\ opening' = o
             ELSE /\ pc' = [pc EXCEPT ![c] = "opener"]
                  /\ opening' = [by |-> c, target |-> IF w # NoCompanion THEN w ELSE embodied',
                                 phase |-> "token"]
                  /\ UNCHANGED waiters

\* The opener's own continuation runs before anything else can.
NoOpenerReady == micro # <<>> => pc[Head(micro)] \notin {"opened", "failed"}

\* call(), callStream() or events(); a superseded client refuses.
Start(c, k, w) ==
  /\ pc[c] = "idle"
  /\ NoOpenerReady
  /\ k = "events" => w # NoCompanion
  /\ want' = [want EXCEPT ![c] = w]
  /\ kind' = [kind EXCEPT ![c] = k]
  /\ IF superseded
     THEN /\ pc' = [pc EXCEPT ![c] = "settled"]
          /\ result' = [result EXCEPT ![c] = "error"]
          /\ UNCHANGED <<clientVars, conn, waiters, micro>>
     ELSE Ensure(c, w, opening, micro) /\ UNCHANGED result
  /\ UNCHANGED <<ended, lost>>

\* A continuation of ensure(): the caller's open() settled, or the one it was
\* waiting for did.
Resume(c) ==
  /\ micro # <<>> /\ c = Head(micro)
  /\ \/ /\ pc[c] \in {"opened", "resume"}
        /\ Ensure(c, want[c], IF pc[c] = "opened" THEN NoOpening ELSE opening, Tail(micro))
        /\ UNCHANGED result
     \/ /\ pc[c] = "failed"
        /\ opening' = NoOpening
        /\ pc' = [pc EXCEPT ![c] = "settled"]
        /\ result' = [result EXCEPT ![c] = "error"]
        /\ micro' = Tail(micro)
        /\ UNCHANGED <<socket, embodied, pendingOpen, superseded, conn, waiters>>
  /\ UNCHANGED <<want, kind, ended, lost>>

\* ensure() has returned: send the request, or go on to read the event queue.
\* A write to a socket that is not open is dropped.
Send(c) ==
  /\ micro # <<>> /\ c = Head(micro) /\ pc[c] = "ready"
  /\ micro' = Tail(micro)
  /\ \/ /\ kind[c] = "call"
        /\ pc' = [pc EXCEPT ![c] = "pending"]
        /\ conn' = IF Live THEN [conn EXCEPT ![socket].requests = @ \cup {c}] ELSE conn
     \/ /\ kind[c] = "events"
        /\ pc' = [pc EXCEPT ![c] = IF c \in ended THEN "settled" ELSE "listening"]
        /\ UNCHANGED conn
  /\ UNCHANGED <<clientVars, want, kind, ended, result, waiters, lost>>

\* The subscriber's signal aborts: its queue ends.
Abort(c) ==
  /\ kind[c] = "events" /\ pc[c] \notin {"idle", "settled"} /\ c \notin ended
  /\ ended' = ended \cup {c}
  /\ pc' = [pc EXCEPT ![c] = IF @ = "listening" THEN "settled" ELSE @]
  /\ UNCHANGED <<clientVars, conn, want, kind, result, waiters, micro, lost>>

\* "Use here": the user takes the room back.
Reclaim ==
  /\ superseded /\ NoOpenerReady
  /\ superseded' = FALSE
  /\ lost' = {}
  /\ UNCHANGED <<socket, embodied, opening, pendingOpen, conn, callVars>>

-----------------------------------------------------------------------------
(* open() *)

\* settleOpen, and the settling of `opening`: the opener's continuation runs
\* first, then those of the callers that await it.
SettleOpening(how) ==
  /\ pc' = [c \in Caller |-> IF c = opening.by THEN how
                             ELSE IF pc[c] = "awaiting" THEN "resume" ELSE pc[c]]
  /\ micro' = <<opening.by>> \o waiters
  /\ waiters' = <<>>

\* getAccessToken resolves with a token: create the socket.
TokenArrives ==
  /\ micro = <<>> /\ opening # NoOpening /\ opening.phase = "token"
  /\ Len(conn) < MaxSockets
  /\ conn' = Append(conn, [comp |-> opening.target, state |-> "connecting", handlers |-> "opening",
                           server |-> IF opening.target = NoCompanion THEN "agnostic" ELSE "claiming",
                           requests |-> {}, inbox |-> <<>>])
  /\ socket' = Len(conn) + 1
  /\ embodied' = opening.target
  /\ opening' = [opening EXCEPT !.phase = "socket"]
  /\ pendingOpen' = TRUE
  /\ UNCHANGED <<superseded, callVars, lost>>

\* There is no token: open() throws.
NoToken ==
  /\ micro = <<>> /\ opening # NoOpening /\ opening.phase = "token"
  /\ SettleOpening("failed")
  /\ UNCHANGED <<clientVars, conn, want, kind, ended, result, lost>>

\* The upgrade completes; a transport-only socket is usable at once.
Opens(i) ==
  /\ micro = <<>> /\ conn[i].state = "connecting" /\ conn[i].server # "gone"
  /\ IF conn[i].comp = NoCompanion /\ pendingOpen
     THEN /\ conn' = [conn EXCEPT ![i].state = "open", ![i].handlers = "steady"]
          /\ pendingOpen' = FALSE
          /\ SettleOpening("opened")
     ELSE conn' = [conn EXCEPT ![i].state = "open"] /\ UNCHANGED <<pendingOpen, pc, waiters, micro>>
  /\ UNCHANGED <<socket, embodied, opening, superseded, want, kind, ended, result, lost>>

\* The close event, after every frame that arrived before it.  The steady
\* handler fails what is in flight if the socket is still the current one;
\* the handler of open() only settles a pending open.
Closes(i) ==
  /\ micro = <<>> /\ conn[i].inbox = <<>> /\ conn[i].handlers # "off"
  /\ conn[i].server \in {"lost", "gone"} /\ conn[i].state # "closed"
  /\ conn' = [conn EXCEPT ![i].state = "closed", ![i].requests = {}]
  /\ CASE conn[i].handlers = "opening" /\ pendingOpen ->
            /\ pendingOpen' = FALSE
            /\ SettleOpening("failed")
            /\ UNCHANGED <<socket, embodied, result, ended>>
       [] conn[i].handlers = "steady" /\ socket = i ->
            /\ socket' = 0 /\ embodied' = NoCompanion
            /\ pc' = [c \in Caller |-> IF pc[c] \in {"pending", "listening"} THEN "settled" ELSE pc[c]]
            /\ result' = [c \in Caller |-> IF pc[c] = "pending" THEN "error" ELSE result[c]]
            /\ ended' = ended \cup {c \in Caller : kind[c] = "events" /\ pc[c] # "idle"}
            /\ UNCHANGED <<pendingOpen, waiters, micro>>
       [] OTHER -> UNCHANGED <<socket, embodied, pendingOpen, pc, result, ended, waiters, micro>>
  /\ UNCHANGED <<opening, superseded, want, kind, lost>>

\* readyState turns to CLOSING before the close event.
Closing(i) ==
  /\ CloseWindow
  /\ micro = <<>> /\ conn[i].inbox = <<>> /\ conn[i].state = "open"
  /\ conn[i].server \in {"lost", "gone"}
  /\ conn' = [conn EXCEPT ![i].state = "closing"]
  /\ UNCHANGED <<clientVars, callVars, lost>>

-----------------------------------------------------------------------------
(* onMessage *)

\* settleOpen is a no-op once the open has settled.
SettlePending(how) ==
  IF pendingOpen
  THEN pendingOpen' = FALSE /\ SettleOpening(how)
  ELSE UNCHANGED <<pendingOpen, pc, waiters, micro>>

\* Mutant: the client does not note that it was superseded.
YieldForgotten == UNCHANGED superseded

\* The flag that makes later calls throw SupersededError.
Yield == superseded' = TRUE

\* embodiment.superseded: yield, and fail an open in progress.
TakenOver(i) ==
  /\ Yield
  /\ lost' = lost \cup {conn[i].comp}
  /\ SettlePending("failed")

\* Mutant: a result frame ends streams only, and resolves no pending call.
ReplyLost(m) == UNCHANGED <<pc, result>>

\* A reply settles the call it names, whichever socket carries it.
Reply(m) ==
  /\ pc' = [pc EXCEPT ![m.to] = IF @ = "pending" THEN "settled" ELSE @]
  /\ result' = [result EXCEPT ![m.to] = IF pc[m.to] = "pending" THEN m.type ELSE @]

OnMessage(i) ==
  LET m == Head(conn[i].inbox)
      taken == [conn EXCEPT ![i].inbox = Tail(@)]
  IN  /\ micro = <<>> /\ conn[i].inbox # <<>> /\ conn[i].handlers # "off"
      /\ conn[i].state \in {"open", "closing"}
      /\ \/ /\ m.type = "ready"
            /\ conn' = IF pendingOpen THEN [taken EXCEPT ![i].handlers = "steady"] ELSE taken
            /\ SettlePending("opened")
            /\ UNCHANGED <<superseded, result, lost>>
         \/ /\ m.type = "superseded"
            /\ conn' = taken
            /\ TakenOver(i)
            /\ UNCHANGED <<result>>
         \/ /\ m.type \in {"ok", "notEmbodied"}
            /\ conn' = taken
            /\ Reply(m)
            /\ UNCHANGED <<pendingOpen, superseded, waiters, micro, lost>>
      /\ UNCHANGED <<socket, embodied, opening, want, kind, ended>>

-----------------------------------------------------------------------------
(* The server end of a socket *)

Serves(i) == conn[i].state \in {"open", "closing"} /\ conn[i].server \notin {"lost", "gone"}

\* The claim and its cursor are in place: the lease is granted.
Grants(i) ==
  /\ Serves(i) /\ conn[i].server = "claiming"
  /\ conn' = [conn EXCEPT ![i].server = "held", ![i].inbox = Append(@, [type |-> "ready"])]
  /\ UNCHANGED <<clientVars, callVars, lost>>

\* A newer connection has the companion: push the event and close.
Supersedes(i) ==
  /\ Serves(i)
  /\ conn[i].server = "held" \/ (EarlyLoss /\ conn[i].server = "claiming")
  /\ conn' = [conn EXCEPT ![i].server = "lost", ![i].inbox = Append(@, [type |-> "superseded"])]
  /\ UNCHANGED <<clientVars, callVars, lost>>

\* A request is answered; one that names a companion needs the claim.
Answers(i, c) ==
  /\ Serves(i) /\ c \in conn[i].requests
  /\ LET t == IF want[c] = NoCompanion \/ conn[i].server = "held" THEN "ok" ELSE "notEmbodied"
     IN  conn' = [conn EXCEPT ![i].requests = @ \ {c},
                              ![i].inbox = Append(@, [type |-> t, to |-> c])]
  /\ UNCHANGED <<clientVars, callVars, lost>>

\* The connection is lost, or refused.
Drops(i) ==
  /\ conn[i].state \in {"connecting", "open"} /\ conn[i].server \notin {"lost", "gone"}
  /\ EarlyLoss \/ conn[i].state = "connecting" \/ conn[i].server \in {"agnostic", "held"}
  /\ conn' = [conn EXCEPT ![i].server = "gone"]
  /\ UNCHANGED <<clientVars, callVars, lost>>

-----------------------------------------------------------------------------
CallerStep(c) == Resume(c) \/ Send(c)

OpenStep == TokenArrives \/ NoToken

SocketStep(i) == Opens(i) \/ Closes(i) \/ OnMessage(i)

ServerStep(i) == Grants(i) \/ \E c \in Caller : Answers(i, c)

Next ==
  \/ \E c \in Caller, k \in {"call", "events"}, w \in Named : Start(c, k, w)
  \/ \E c \in Caller : CallerStep(c) \/ Abort(c)
  \/ OpenStep \/ Reclaim
  \/ \E i \in DOMAIN conn :
       SocketStep(i) \/ ServerStep(i) \/ Closing(i) \/ Supersedes(i) \/ Drops(i)

Spec == Init /\ [][Next]_vars

(***************************************************************************)
(* Fairness: continuations run, tokens and upgrades settle, a server that  *)
(* is up grants and answers, and frames and closes are delivered.  Calls,  *)
(* losses, takeovers, aborts and reclaims are never owed.                  *)
(***************************************************************************)
FairSpec ==
  /\ Spec
  /\ \A c \in Caller : WF_vars(CallerStep(c))
  /\ WF_vars(OpenStep)
  /\ \A i \in 1..MaxSockets :
       /\ WF_vars(i \in DOMAIN conn /\ SocketStep(i))
       /\ WF_vars(i \in DOMAIN conn /\ ServerStep(i))

-----------------------------------------------------------------------------
(* Safety *)

\* The client holds at most one socket that is not closing, whoever calls it
\* while an open is in progress (ensure).
OneSocket == Cardinality({i \in DOMAIN conn : conn[i].state \in {"connecting", "open"}}) <= 1

\* A request that names a companion is only ever sent down a socket of that
\* companion, although the socket may be replaced between ensure() and send().
RightRoom ==
  \A i \in DOMAIN conn : \A c \in conn[i].requests : want[c] \in {NoCompanion, conn[i].comp}

\* A client that was superseded opens no socket for the companion it lost
\* until the user reclaims it ("the owner must NOT auto-reconnect").
NoClaimWar == [][Len(conn') > Len(conn) => conn'[Len(conn')].comp \notin lost]_vars

-----------------------------------------------------------------------------
(* Liveness *)

\* Every call settles: it is answered, or failed when its socket drops
\* ("fail every in-flight call/stream so nothing hangs").
CallSettles ==
  \A c \in Caller : (kind[c] = "call" /\ pc[c] # "idle") ~> (pc[c] = "settled")

\* An open settles, so that the calls that await it go on: the socket becomes
\* usable, or the failure is reported (settleOpen).
OpeningSettles == (opening # NoOpening) ~> (opening = NoOpening)
=============================================================================
