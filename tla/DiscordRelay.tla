---------------------------- MODULE DiscordRelay ----------------------------
(***************************************************************************)
(* What the owner of a companion sees in a Discord chat while one          *)
(* connection embodies it: the replies of turns, rendered from their       *)
(* streams (discord/src/turn-render.ts, chat.ts, proposals.ts), the        *)
(* greeting and the autonomous messages (proactive.ts), and the filter     *)
(* that keeps a reply, which comes by stream and by event, from being      *)
(* posted twice (connection.ts, over shared/src/ws-transport.ts).  A row   *)
(* stands for its position in the transcript, in which events come.        *)
(***************************************************************************)
EXTENDS Integers, Sequences, FiniteSets

CONSTANTS
  RelayTurn,       \* the streams the service may read: messages, approvals, wakes
  Arrival,         \* the stream of the greeting
  MaxRelayRows,    \* bound on the rows the companion writes
  MaxRelayFaults   \* bound on posts that Discord refuses

ASSUME RelayConstants ==
  Arrival \in RelayTurn /\ MaxRelayRows \in Nat /\ MaxRelayFaults \in Nat

VARIABLES
  socket,       \* up, given up by the bridge, or down
  written,      \* the rows the companion has written
  pushed,       \* the rows whose event has been pushed
  serving,      \* the turn the server runs: its words, its last card, if it is said
  stream,       \* each stream: where its reader is and what it has buffered
  produced,     \* producedIds
  relay,        \* where runBackground is, and the row it posts
  inbox,        \* the queue of events()
  posted,       \* ghost: how often each row was posted as a message
  relayFaults   \* how much of the bound is used

relayVars == <<socket, written, pushed, serving, stream, produced, relay, inbox, posted, relayFaults>>

Row == 1..MaxRelayRows

\* The server runs no turn.
Nothing == [said |-> FALSE]

\* A stream nobody has opened.
Unread == [at |-> "idle", chunks |-> <<>>, final |-> 0, cards |-> {}, note |-> FALSE]

RelayInit ==
  /\ socket = "up" /\ written = 0 /\ pushed = 0 /\ serving = Nothing
  /\ stream = [t \in RelayTurn |-> Unread]
  /\ produced = {} /\ relay = [at |-> "arriving", row |-> 0] /\ inbox = <<>>
  /\ posted = [r \in Row |-> 0] /\ relayFaults = 0

\* turnDepth: recordingStream is entered by its reader and left at its end.
TurnDepth == Cardinality({t \in RelayTurn : stream[t].at \in {"open", "unsent"}})

Fails == relayFaults < MaxRelayFaults /\ relayFaults' = relayFaults + 1

-----------------------------------------------------------------------------
(* The owner, who is heard while the embodiment is registered. *)

\* A message, or a wake of a mission: handleChat, handleAdvance.
Asks(t) ==
  /\ t # Arrival /\ socket = "up" /\ stream[t].at = "idle"
  /\ stream' = [stream EXCEPT ![t].at = "open"]
  /\ UNCHANGED <<socket, written, pushed, serving, produced, relay, inbox, posted, relayFaults>>

\* handleProposalAction marks the card, and then calls.
Clicks(t) ==
  /\ t # Arrival /\ socket = "up" /\ stream[t].at = "idle"
  /\ stream' = [stream EXCEPT ![t].at = "marking"]
  /\ UNCHANGED <<socket, written, pushed, serving, produced, relay, inbox, posted, relayFaults>>

\* send drops what a closing socket is given; what is registered once it has
\* closed waits for ever.
Marked(t) ==
  /\ stream[t].at = "marking"
  /\ \/ stream' = [stream EXCEPT ![t].at = IF socket = "up" THEN "open" ELSE "unsent"] /\ UNCHANGED relayFaults
     \/ Fails /\ stream' = [stream EXCEPT ![t].at = "failed"]
  /\ UNCHANGED <<socket, written, pushed, serving, produced, relay, inbox, posted>>

-----------------------------------------------------------------------------
(* The server and the socket. *)

Writes == written < MaxRelayRows /\ written' = written + 1

\* Frames of a stream; none finds a stream that is left.
Sends(t, kinds, row) ==
  stream' = IF stream[t].at = "open"
            THEN [stream EXCEPT ![t].chunks =
                    @ \o [i \in 1..Len(kinds) |-> [is |-> kinds[i], row |-> IF kinds[i] = "end" THEN 0 ELSE row]]]
            ELSE stream

\* Streams whose terminal frame is in their queue.
Served == {t \in RelayTurn : \E i \in DOMAIN stream[t].chunks : stream[t].chunks[i].is \in {"end", "rejected"}}

\* runSerial takes up a turn that was sent.
Serves(t) ==
  /\ socket # "down" /\ serving = Nothing
  /\ stream[t].at = "open" /\ t \notin Served
  /\ serving' = [turn |-> t, said |-> FALSE, words |-> 0, held |-> 0]
  /\ UNCHANGED <<socket, written, pushed, stream, produced, relay, inbox, posted, relayFaults>>

Taken(t) == serving # Nothing /\ serving.turn = t

Speaking(t) == socket # "down" /\ Taken(t) /\ ~serving.said

\* finish writes its words, or finishBlocked what was said before the held action.
Words(t) ==
  /\ Speaking(t) /\ serving.words = 0 /\ serving.held = 0
  /\ Writes
  /\ serving' = [serving EXCEPT !.words = written']
  /\ UNCHANGED <<socket, pushed, stream, produced, relay, inbox, posted, relayFaults>>

\* A held action's row, and then its card.
Holds(t) ==
  /\ Speaking(t) /\ t # Arrival
  /\ Writes
  /\ serving' = [serving EXCEPT !.held = written']
  /\ Sends(t, <<"card">>, written')
  /\ UNCHANGED <<socket, pushed, produced, relay, inbox, posted, relayFaults>>

\* done carries the words, or without any the last card's row.
Replies(t) ==
  LET message == IF serving.words # 0 THEN serving.words ELSE serving.held
  IN  /\ Speaking(t) /\ message # 0
      /\ Sends(t, <<"done">>, message)
      /\ serving' = [serving EXCEPT !.said = TRUE]
      /\ UNCHANGED <<socket, written, pushed, produced, relay, inbox, posted, relayFaults>>

\* The turn fails.
Errs(t) ==
  /\ Speaking(t)
  /\ Sends(t, <<"error">>, 0)
  /\ serving' = [serving EXCEPT !.said = TRUE]
  /\ UNCHANGED <<socket, written, pushed, produced, relay, inbox, posted, relayFaults>>

\* The method answers, after the turn's reflections; a greeting or a skipped
\* wake says nothing before that.
Finishes(t) ==
  /\ socket # "down" /\ Taken(t)
  /\ Sends(t, <<"end">>, 0)
  /\ serving' = Nothing
  /\ UNCHANGED <<socket, written, pushed, produced, relay, inbox, posted, relayFaults>>

\* Sent, and not taken up by runSerial.
Waits(t) == socket # "down" /\ t # Arrival /\ stream[t].at = "open" /\ ~Taken(t) /\ t \notin Served

\* Refused: an empty wallet, a proposal already resolved.
Rejected(t) ==
  /\ Waits(t)
  /\ Sends(t, <<"rejected">>, 0)
  /\ UNCHANGED <<socket, written, pushed, serving, produced, relay, inbox, posted, relayFaults>>

\* An autonomous proposal is confirmed: its outcome is the reply, beside any turn.
Confirmed(t) ==
  /\ Waits(t)
  /\ Writes
  /\ Sends(t, <<"done", "end">>, written')
  /\ UNCHANGED <<socket, pushed, serving, produced, relay, inbox, posted, relayFaults>>

\* The companion says something of its own accord; or a turn writes a row that
\* the renderer passes over: a step, a reflection, an outcome.
Speaks ==
  /\ Writes
  /\ UNCHANGED <<socket, pushed, serving, stream, produced, relay, inbox, posted, relayFaults>>

\* A heartbeat pushes the next row; only a subscribed loop keeps it.
Pushes ==
  /\ socket # "down" /\ pushed < written
  /\ pushed' = pushed + 1
  /\ inbox' = IF socket = "up" /\ relay.at \in {"waiting", "posting"} THEN Append(inbox, pushed + 1) ELSE inbox
  /\ UNCHANGED <<socket, written, serving, stream, produced, relay, posted, relayFaults>>

\* teardown, at a supersession or by the bridge's own choice: the loop ends, now
\* or when the post it awaits is through, and no message finds the embodiment.
GivenUp ==
  /\ socket = "up"
  /\ socket' = "givenUp"
  /\ relay' = IF relay.at = "waiting" THEN [relay EXCEPT !.at = "ended"] ELSE relay
  /\ inbox' = <<>>
  /\ UNCHANGED <<written, pushed, serving, stream, produced, posted, relayFaults>>

\* handleClose fails the open streams, behind what they have buffered; a close
\* nobody asked for gives the embodiment up too.
SocketCloses ==
  /\ socket # "down"
  /\ socket' = "down"
  /\ stream' = [t \in RelayTurn |->
       IF stream[t].at = "open" /\ t \notin Served
       THEN [stream[t] EXCEPT !.chunks = Append(@, [is |-> "rejected", row |-> 0])]
       ELSE IF stream[t].at = "unsent" THEN [stream[t] EXCEPT !.at = "closing", !.note = TRUE]
       ELSE stream[t]]
  /\ relay' = IF relay.at = "waiting" THEN [relay EXCEPT !.at = "ended"] ELSE relay
  /\ inbox' = <<>>
  /\ UNCHANGED <<written, pushed, serving, produced, posted, relayFaults>>

-----------------------------------------------------------------------------
(* The service: renderTurnStream, streamGreeting and runProactiveLoop. *)

\* recordProduced, of done chunks.
RecordProduced(row) == produced' = produced \union {row}

\* Each chunk is read as a turn of the loop; a card is posted within it, and one
\* that cannot be posted gives the stream up.
ReadsCard(t) ==
  LET chunk == Head(stream[t].chunks)
      read  == [stream[t] EXCEPT !.chunks = Tail(@), !.cards = @ \union {chunk.row}]
  IN  /\ stream[t].at = "open" /\ stream[t].chunks # <<>> /\ chunk.is = "card"
      /\ \/ stream' = [stream EXCEPT ![t] = read] /\ UNCHANGED relayFaults
         \/ Fails /\ stream' = [stream EXCEPT ![t] = [read EXCEPT !.at = "closing", !.note = TRUE]]
      /\ UNCHANGED <<socket, written, pushed, serving, produced, relay, inbox, posted>>

\* The words are buffered.
ReadsDone(t) ==
  LET chunk == Head(stream[t].chunks)
  IN  /\ t # Arrival
      /\ stream[t].at = "open" /\ stream[t].chunks # <<>> /\ chunk.is = "done"
      /\ stream' = [stream EXCEPT ![t].chunks = Tail(@), ![t].final = chunk.row]
      /\ RecordProduced(chunk.row)
      /\ UNCHANGED <<socket, written, pushed, serving, relay, inbox, posted, relayFaults>>

ReadsError(t) ==
  /\ stream[t].at = "open" /\ stream[t].chunks # <<>> /\ Head(stream[t].chunks).is = "error"
  /\ stream' = [stream EXCEPT ![t].chunks = Tail(@), ![t].note = TRUE]
  /\ UNCHANGED <<socket, written, pushed, serving, produced, relay, inbox, posted, relayFaults>>

\* The stream is over, or throws: a nudge, a notice or a generic error follows.
ReadsEnd(t) ==
  LET chunk == Head(stream[t].chunks)
  IN  /\ t # Arrival
      /\ stream[t].at = "open" /\ stream[t].chunks # <<>> /\ chunk.is \in {"end", "rejected"}
      /\ stream' = [stream EXCEPT ![t].chunks = <<>>, ![t].at = "closing",
                                  ![t].note = @ \/ chunk.is = "rejected"]
      /\ UNCHANGED <<socket, written, pushed, serving, produced, relay, inbox, posted, relayFaults>>

\* What is posted once the stream is over: a notice, the words unless they are a
\* card's, or that there is nothing to add.
RendersWords(t) == ~stream[t].note /\ stream[t].final # 0 /\ stream[t].final \notin stream[t].cards

Answers(t) ==
  /\ stream[t].at = "closing"
  /\ \/ /\ stream' = [stream EXCEPT ![t].at = "answered"]
        /\ posted' = IF RendersWords(t) THEN [posted EXCEPT ![stream[t].final] = @ + 1] ELSE posted
        /\ UNCHANGED relayFaults
     \/ /\ Fails /\ UNCHANGED posted
        /\ stream' = [stream EXCEPT ![t].at = "failed"]
  /\ UNCHANGED <<socket, written, pushed, serving, produced, relay, inbox>>

\* runBackground: a /summon greets first; a wake or /mission subscribes at once.
Arrives ==
  /\ relay.at = "arriving"
  /\ \/ /\ relay' = [relay EXCEPT !.at = "greeting"]
        /\ stream' = [stream EXCEPT ![Arrival].at = "open"]
     \/ /\ relay' = [relay EXCEPT !.at = "waiting"]
        /\ UNCHANGED stream
  /\ UNCHANGED <<socket, written, pushed, serving, produced, inbox, posted, relayFaults>>

\* streamGreeting posts the words as it reads them; a post that fails gives the
\* stream up.
GreetingReads ==
  LET chunk == Head(stream[Arrival].chunks)
  IN  /\ stream[Arrival].at = "open" /\ stream[Arrival].chunks # <<>> /\ chunk.is = "done"
      /\ RecordProduced(chunk.row)
      /\ \/ /\ posted' = [posted EXCEPT ![chunk.row] = @ + 1]
            /\ stream' = [stream EXCEPT ![Arrival].chunks = Tail(@), ![Arrival].final = chunk.row]
            /\ UNCHANGED relayFaults
         \/ /\ Fails /\ UNCHANGED posted
            /\ stream' = [stream EXCEPT ![Arrival].chunks = <<[is |-> "rejected", row |-> 0]>>]
      /\ UNCHANGED <<socket, written, pushed, serving, relay, inbox>>

\* The greeting is over however it ended, and the loop subscribes, or finds its
\* embodiment given up.
GreetingEnds ==
  /\ stream[Arrival].at = "open" /\ stream[Arrival].chunks # <<>>
  /\ Head(stream[Arrival].chunks).is \in {"end", "rejected"}
  /\ stream' = [stream EXCEPT ![Arrival].chunks = <<>>, ![Arrival].at = "answered"]
  /\ relay' = [relay EXCEPT !.at = IF socket = "up" THEN "waiting" ELSE "ended"]
  /\ UNCHANGED <<socket, written, pushed, serving, produced, inbox, posted, relayFaults>>

\* Mutant: a message is held back for as long as a turn runs only.
SuppressedMidTurn(row) == TurnDepth > 0

\* The filter of events(), applied as a message leaves the queue.
Suppressed(row) == TurnDepth > 0 \/ row \in produced

Takes ==
  /\ relay.at = "waiting" /\ inbox # <<>>
  /\ inbox' = Tail(inbox)
  /\ relay' = IF Suppressed(Head(inbox)) THEN relay ELSE [at |-> "posting", row |-> Head(inbox)]
  /\ UNCHANGED <<socket, written, pushed, serving, stream, produced, posted, relayFaults>>

\* A post that fails ends the loop for the life of the embodiment.
Forwards ==
  /\ relay.at = "posting"
  /\ \/ /\ posted' = [posted EXCEPT ![relay.row] = @ + 1]
        /\ relay' = [relay EXCEPT !.at = IF socket = "up" THEN "waiting" ELSE "ended"]
        /\ UNCHANGED <<inbox, relayFaults>>
     \/ /\ Fails /\ UNCHANGED posted
        /\ relay' = [relay EXCEPT !.at = "ended"] /\ inbox' = <<>>
  /\ UNCHANGED <<socket, written, pushed, serving, stream, produced>>

\* runBackground starts as its embodiment is registered, before anything else.
RelayNext ==
  \/ Arrives
  \/ /\ relay.at # "arriving"
     /\ \/ Speaks \/ Pushes \/ GivenUp \/ SocketCloses
        \/ GreetingReads \/ GreetingEnds \/ Takes \/ Forwards
        \/ \E t \in RelayTurn :
             \/ Asks(t) \/ Clicks(t) \/ Marked(t) \/ Serves(t) \/ Holds(t)
             \/ Words(t) \/ Replies(t) \/ Errs(t) \/ Finishes(t) \/ Rejected(t) \/ Confirmed(t)
             \/ ReadsCard(t) \/ ReadsDone(t) \/ ReadsError(t) \/ ReadsEnd(t) \/ Answers(t)

RelaySpec == RelayInit /\ [][RelayNext]_relayVars

-----------------------------------------------------------------------------
RelayTypeOK ==
  /\ socket \in {"up", "givenUp", "down"}
  /\ written \in 0..MaxRelayRows /\ pushed \in 0..written
  /\ serving \in [turn : RelayTurn, said : BOOLEAN, words : 0..MaxRelayRows, held : 0..MaxRelayRows]
                  \union {Nothing}
  /\ stream \in [RelayTurn ->
       [at : {"idle", "marking", "unsent", "open", "closing", "answered", "failed"},
        chunks : Seq([is : {"card", "done", "error", "end", "rejected"}, row : 0..MaxRelayRows]),
        final : 0..MaxRelayRows, cards : SUBSET Row, note : BOOLEAN]]
  /\ produced \subseteq Row
  /\ relay \in [at : {"arriving", "greeting", "waiting", "posting", "ended"}, row : 0..MaxRelayRows]
  /\ inbox \in Seq(Row)
  /\ posted \in [Row -> Nat]
  /\ relayFaults \in 0..MaxRelayFaults

\* Nothing the companion says is posted twice, though every reply comes by its
\* stream and by an event, in either order and long after the other, and a turn
\* that ended in words has posted them, whatever ran beside it (connection.ts
\* recordingStream and events, turn-render.ts, proactive.ts).
RelayOnce ==
  /\ \A r \in Row : posted[r] <= 1
  /\ \A t \in RelayTurn :
       stream[t].at = "answered" /\ RendersWords(t) => posted[stream[t].final] = 1
=============================================================================
