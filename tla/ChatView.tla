------------------------------ MODULE ChatView ------------------------------
(***************************************************************************)
(* The chat page of the browser: the lines it shows (pages/chat/           *)
(* chat-lines.ts), the hook that keeps them in step with the transcript    *)
(* (useEmbodimentSync.ts) and the turns, greetings and uploads that write  *)
(* lines of their own (pages/Chat.tsx); with the server as far as the page *)
(* can observe it: the transcript, the event log, the socket.              *)
(*                                                                         *)
(* A frame, a timer, a click or a focus is one task.  Rows are numbered in *)
(* the order they are persisted; the order of the events is left out, and  *)
(* with it the order of the lines that events add.  The user repeats       *)
(* himself: every message he sends has the same text, and so has every     *)
(* file the same name.  A chunk is handled before its stream goes on.      *)
(***************************************************************************)
EXTENDS Naturals, Sequences, SequencesExt

CONSTANTS
  Stream,         \* the turns, greetings and uploads that are made
  NoStream,       \* none of them
  MaxRows,        \* bound on the rows of the transcript
  MaxHappenings   \* bound on what happens to the page: turns and uploads, rows
                  \* of others, returns, drops, failures

ASSUME ChatConstants ==
  /\ MaxRows \in Nat /\ MaxHappenings \in Nat
  /\ NoStream \notin Stream
  /\ (Stream \cup {NoStream}) \cap {"first", "resync", "refresh", "reload"} = {}   \* Fails names both

VARIABLES
  rows,         \* the transcript: what each row is
  coming,       \* rows whose event is not in the log yet, or past the cursor
  up,           \* the socket is open and embodies the companion
  streams,      \* every turn, greeting and upload on the server
  lines,        \* what is shown
  ready,        \* the first snapshot has landed
  moved,        \* the room was taken over
  channel,      \* the loop of the standing subscription
  buffered,     \* bufferedRef
  fetch,        \* transcript fetches under way, by what asked for them
  turn,         \* the turn being streamed (busy), or NoStream
  rich,         \* it brought tool steps or proposals
  upload,       \* the upload under way (attaching), or NoStream
  greeting,     \* the greeting under way (greetingRef), or NoStream
  missed,       \* ghost: rows that passed by the page
  clean,        \* ghost: nothing has left lines that stand for no row
  happened      \* what happened so far

serverVars == <<rows, coming, up, streams>>
viewVars   == <<lines, ready, moved, channel, buffered, fetch>>
turnVars   == <<turn, rich, upload, greeting>>
ghostVars  == <<missed, clean>>
chatVars   == <<serverVars, viewVars, turnVars, ghostVars, happened>>

RowKind == {"typed", "file", "companion"}

Purpose == {"first", "resync", "refresh", "reload"}

\* A stage in Told: the row held is persisted, and its chunk is on its way.
Told == {"step", "proposal", "done", "reflection", "added"}

StreamState ==
  [kind  : {"none", "send", "confirm", "greet", "upload", "used"},
   stage : Told \cup {"putting", "unsent", "queued", "approved", "running", "chip", "finishing", "over"},
   ours  : BOOLEAN,          \* its connection is the one the page has
   row   : 0..MaxRows,       \* the row it last persisted
   chip  : 0..MaxRows]       \* the chip of an upload

\* Read: the answer is on its way, with the rows up to `upto`.
Fetch == [state : {"none", "asked", "read", "refused"}, upto : 0..MaxRows]

\* id 0: the line is optimistic.
Line == [id : 0..MaxRows, user : BOOLEAN, file : BOOLEAN, blank : BOOLEAN]

ChatTypeOK ==
  /\ rows \in Seq(RowKind) /\ Len(rows) <= MaxRows
  /\ coming \cup buffered \cup missed \subseteq DOMAIN rows
  /\ streams \in [Stream -> StreamState]
  /\ lines \in Seq(Line)
  /\ {up, ready, moved, rich, clean} \subseteq BOOLEAN
  /\ channel \in {"listening", "backoff", "resync", "stopped"}
  /\ fetch \in [Purpose -> Fetch]
  /\ {turn, upload, greeting} \subseteq Stream \cup {NoStream}
  /\ happened \in 0..MaxHappenings

NotFetched == [state |-> "none", upto |-> 0]
Asked      == [state |-> "asked", upto |-> 0]

Unused == [kind |-> "none", stage |-> "over", ours |-> FALSE, row |-> 0, chip |-> 0]
Used   == [Unused EXCEPT !.kind = "used"]

ChatInit ==
  /\ rows = <<>> /\ coming = {} /\ up = FALSE
  /\ streams = [s \in Stream |-> Unused]
  /\ lines = <<>> /\ ready = FALSE /\ moved = FALSE
  /\ channel = "listening" /\ buffered = {}
  /\ fetch = [p \in Purpose |-> IF p = "first" THEN Asked ELSE NotFetched]
  /\ turn = NoStream /\ rich = FALSE /\ upload = NoStream /\ greeting = NoStream
  /\ missed = {} /\ clean = TRUE
  /\ happened = 0

Happens == happened < MaxHappenings /\ happened' = happened + 1

-----------------------------------------------------------------------------
(* chat-lines.ts *)

MessageToLine(r) ==
  [id |-> r, user |-> rows[r] # "companion", file |-> rows[r] = "file", blank |-> FALSE]

Optimistic(user, file) == [id |-> 0, user |-> user, file |-> file, blank |-> ~user]

ShownIn(ls) == {ls[i].id : i \in DOMAIN ls} \ {0}

\* The id-less lines a row may be the echo of: a user line of its content.
Echoes(ls, r) ==
  {i \in DOMAIN ls : ls[i].id = 0 /\ ls[i].user /\ rows[r] # "companion" /\ ls[i].file = (rows[r] = "file")}

\* Merge a row by its id: known, the echo of an optimistic line, or new.
MergeMessage(ls, r) ==
  IF r \in ShownIn(ls) THEN ls
  ELSE IF Echoes(ls, r) # {} THEN [ls EXCEPT ![Min(Echoes(ls, r))] = MessageToLine(r)]
  ELSE Append(ls, MessageToLine(r))

\* The rows of S, merged in the order they were persisted.
MergeAll(ls, S) ==
  LET merged[r \in 0..Len(rows)] ==
        IF r = 0 THEN ls ELSE IF r \in S THEN MergeMessage(merged[r - 1], r) ELSE merged[r - 1]
  IN  merged[Len(rows)]

OnLast(ls, Change(_)) == IF ls = <<>> THEN ls ELSE Append(Front(ls), Change(Last(ls)))

AppendToLast(ls) == OnLast(ls, LAMBDA l : [l EXCEPT !.blank = FALSE])

FinalizeLast(ls, r) == OnLast(ls, LAMBDA l : [l EXCEPT !.id = r, !.user = FALSE, !.blank = FALSE])

\* A tool step goes above the bubble of the reply.
InsertStep(ls, r) == IF ls = <<>> THEN <<MessageToLine(r)>> ELSE InsertAt(ls, Len(ls), MessageToLine(r))

DropTail(ls, Drop(_)) == IF ls # <<>> /\ Drop(Last(ls)) THEN Front(ls) ELSE ls

DropEmptyAssistantTail(ls) == DropTail(ls, LAMBDA l : ~l.user /\ l.blank)

DropAttachmentTail(ls) == DropTail(ls, LAMBDA l : l.file)

-----------------------------------------------------------------------------
(* What the page still has to learn *)

\* Row r is on its way to the page, after this step: buffered, in an event to
\* come, or in a snapshot to come that the page will merge.
Underway(r) ==
  \/ r \in coming' \cup buffered'
  \/ channel' \in {"backoff", "stopped"}
  \/ \E p \in {"first", "resync"} :
       fetch'[p].state = "asked" \/ (fetch'[p].state = "read" /\ r <= fetch'[p].upto)

\* The rows of S that pass by the page in this step.
PassBy(S) == missed' = missed \cup {r \in S : r \notin ShownIn(lines') /\ ~Underway(r)}

\* Show other lines; the ones they replace may be of rows that do not come again.
Shows(ls) == lines' = ls /\ PassBy(ShownIn(lines) \ ShownIn(ls))

Locked == turn # NoStream \/ upload # NoStream

\* Merge rows, whatever the page is doing: below an open bubble or chip they
\* take the place the turn or the upload is to write to.
Merges(ls) ==
  /\ Shows(ls)
  /\ clean' = (clean /\ (Locked => Len(ls) = Len(lines)))

-----------------------------------------------------------------------------
(* The server *)

\* A row is persisted; its append to the event log is not awaited.
Persist(kind) ==
  /\ Len(rows) < MaxRows
  /\ rows' = Append(rows, kind)
  /\ coming' = coming \cup {Len(rows) + 1}

\* A row of no turn of this page: the companion speaks up, or another client
\* has the room.
OthersSpeak ==
  /\ Happens
  /\ \E kind \in {"companion", "typed"} : (kind = "typed" => ~up) /\ Persist(kind)
  /\ UNCHANGED <<up, streams, viewVars, turnVars, ghostVars>>

\* The append reaches the log while no connection is there to read on, or it
\* fails and is only logged.
LosesEvent(r) ==
  /\ IF up THEN Happens ELSE UNCHANGED happened
  /\ coming' = coming \ {r}
  /\ UNCHANGED <<rows, up, streams, viewVars, turnVars, clean>>
  /\ PassBy({r})

\* messages.list reads the transcript, or fails.
ListsMessages(p) ==
  /\ up /\ fetch[p].state = "asked"
  /\ \/ /\ fetch' = [fetch EXCEPT ![p] = [state |-> "read", upto |-> Len(rows)]]
        /\ UNCHANGED happened
     \/ /\ fetch' = [fetch EXCEPT ![p].state = "refused"]
        /\ Happens
  /\ UNCHANGED <<serverVars, lines, ready, moved, channel, buffered, turnVars, ghostVars>>

At(s, stage) == streams' = [streams EXCEPT ![s].stage = stage, ![s].row = 0]

HoldsRow(s, stage) == streams' = [streams EXCEPT ![s].stage = stage, ![s].row = Len(rows) + 1]

\* In the serial chain of its connection, ahead of those that come (runSerial).
InChain(s) ==
  /\ streams[s].kind \in {"send", "confirm", "greet"}
  /\ streams[s].stage \in Told \cup {"running", "finishing"}

Alone(s) == \A t \in Stream \ {s} : InChain(t) => streams[t].ours # streams[s].ours

\* A turn records what was typed, an approval its outcome before it waits its
\* turn, an upload its chip.
Begins(s) ==
  /\ \/ /\ streams[s].stage = "queued" /\ streams[s].kind = "send" /\ Alone(s)
        /\ Persist("typed") /\ At(s, "running")
     \/ /\ streams[s].stage = "queued" /\ streams[s].kind = "confirm"
        /\ Persist("companion") /\ At(s, "approved")
     \/ /\ streams[s].stage = "queued" /\ streams[s].kind = "upload"
        /\ Persist("file")
        /\ streams' = [streams EXCEPT ![s].stage = "chip", ![s].chip = Len(rows) + 1]
     \/ /\ \/ streams[s].stage = "approved"
           \/ streams[s].stage = "queued" /\ streams[s].kind = "greet"
        /\ Alone(s) /\ At(s, "running")
        /\ UNCHANGED <<rows, coming>>
  /\ UNCHANGED happened

\* The rows of a stream: a step, a proposal, the reply, a reflection, the
\* acknowledgement of a file.
Persists(s) ==
  /\ \E stage \in Told :
       /\ stage \in {"step", "proposal"} =>
            streams[s].stage = "running" /\ streams[s].kind \in {"send", "confirm"}
       /\ stage = "done" => streams[s].stage = "running"
       /\ stage = "reflection" => streams[s].stage = "finishing" /\ streams[s].kind = "send"
       /\ stage = "added" => streams[s].stage = "chip"
       /\ HoldsRow(s, stage)
  /\ Persist("companion")
  /\ UNCHANGED happened

\* The transcript turns of an upload are not written: the upload succeeds.
SkipsTranscript(s) ==
  /\ Happens
  /\ streams[s].kind = "upload" /\ streams[s].stage \in {"queued", "chip"}
  /\ At(s, "added")
  /\ UNCHANGED <<rows, coming>>

\* The chunks a stream may emit next: that of the row it holds; what the model
\* says before the reply, or its failure; the end; or the refusal (over the cap,
\* no longer pending, not embodied, not a file).
Chunks(s) ==
  CASE streams[s].stage \in Told        -> {streams[s].stage}
    [] streams[s].stage = "running"     -> {"error"} \cup (IF streams[s].kind = "greet" THEN {} ELSE {"token"})
    [] streams[s].stage = "finishing"   -> {"end"}
    [] streams[s].stage = "queued"      -> {"fail"}
    [] OTHER                            -> {}

\* The stream goes on from a chunk.
GoesOn(s, type) ==
  streams' = CASE type \in {"token", "step"} -> [streams EXCEPT ![s].stage = "running", ![s].row = 0]
               [] type \in {"end", "fail", "added"} -> [streams EXCEPT ![s] = Used]
               [] OTHER -> [streams EXCEPT ![s].stage = "finishing", ![s].row = 0]

\* A chunk for a connection that is gone is dropped; a stream of it may as well
\* stand down or die with its node.
Unheard(s) ==
  /\ ~streams[s].ours
  /\ \/ \E type \in Chunks(s) : GoesOn(s, type)
     \/ streams[s].stage \notin {"unsent", "putting", "over"} /\ streams' = [streams EXCEPT ![s] = Used]
  /\ UNCHANGED <<rows, coming, happened>>

Runs(s) ==
  /\ Begins(s) \/ Persists(s) \/ SkipsTranscript(s) \/ Unheard(s)
  /\ UNCHANGED <<up, viewVars, turnVars, ghostVars>>

-----------------------------------------------------------------------------
(* The user *)

\* A call is sent, or waits for the connection it opens; a file goes to its
\* slot first.
Asks(s, kind) ==
  /\ streams[s].kind = "none"
  /\ streams' = [streams EXCEPT ![s].kind = kind, ![s].ours = up,
                                ![s].stage = CASE kind = "upload" -> "putting"
                                               [] kind # "upload" /\ up -> "queued"
                                               [] OTHER -> "unsent"]

SendCurrentInput(s) ==
  /\ ready /\ ~Locked /\ ~moved /\ Happens
  /\ Asks(s, "send")
  /\ turn' = s /\ rich' = FALSE
  /\ lines' = lines \o <<Optimistic(TRUE, FALSE), Optimistic(FALSE, FALSE)>>
  /\ UNCHANGED <<rows, coming, up, ready, moved, channel, buffered, fetch, upload, greeting, ghostVars>>

OnAttach(s) ==
  /\ ready /\ ~Locked /\ ~moved /\ Happens
  /\ Asks(s, "upload")
  /\ upload' = s
  /\ lines' = Append(lines, Optimistic(TRUE, TRUE))
  /\ UNCHANGED <<rows, coming, up, ready, moved, channel, buffered, fetch, turn, rich, greeting, ghostVars>>

\* The Approve card of an earlier proposal; it only minds `busy`.
OnConfirmProposal(s) ==
  /\ turn = NoStream /\ ~moved /\ Happens
  /\ Asks(s, "confirm")
  /\ turn' = s /\ rich' = TRUE
  /\ lines' = Append(lines, Optimistic(FALSE, FALSE))
  /\ clean' = (clean /\ upload = NoStream)
  /\ UNCHANGED <<rows, coming, up, ready, moved, channel, buffered, fetch, upload, greeting, missed>>

\* A greeting that stays quiet is as if it had not been asked for.
RunGreeting ==
  \/ UNCHANGED <<streams, greeting>>
  \/ greeting = NoStream /\ \E s \in Stream : Asks(s, "greet") /\ greeting' = s

\* The tab is visible again.
OnReturn ==
  /\ ~moved /\ fetch["refresh"] = NotFetched /\ Happens
  /\ fetch' = [fetch EXCEPT !["refresh"] = Asked]
  /\ RunGreeting
  /\ UNCHANGED <<rows, coming, up, lines, ready, moved, channel, buffered, turn, rich, upload, ghostVars>>

\* "Move here": reclaim the room and establish the view again.
OnMoveHere ==
  /\ moved
  /\ moved' = FALSE /\ ready' = FALSE
  /\ channel' = "listening"
  /\ fetch' = [fetch EXCEPT !["first"] = Asked]
  /\ UNCHANGED <<serverVars, lines, buffered, turnVars, ghostVars, happened>>

UserStep ==
  \/ \E s \in Stream : SendCurrentInput(s) \/ OnAttach(s) \/ OnConfirmProposal(s)
  \/ OnReturn \/ OnMoveHere

-----------------------------------------------------------------------------
(* The socket *)

\* The first call that needs it opens the socket; the others follow.
Waiting ==
  /\ ~up /\ ~moved
  /\ \/ channel = "listening"
     \/ \E p \in Purpose : fetch[p] = Asked
     \/ \E s \in Stream : streams[s].stage = "unsent"

\* The lease is granted: the events of rows published from here on are pushed.
Connects ==
  /\ Waiting
  /\ up' = TRUE
  /\ streams' = [s \in Stream |-> IF streams[s].stage = "unsent"
                                  THEN [streams[s] EXCEPT !.stage = "queued", !.ours = TRUE]
                                  ELSE streams[s]]
  /\ UNCHANGED <<rows, coming, viewVars, turnVars, clean, happened>>
  /\ PassBy(DOMAIN rows)

\* What the failure of calls and streams F leaves on the page.
Failed(F) ==
  LET chipless == IF upload \in F THEN DropAttachmentTail(lines) ELSE lines
  IN  IF turn \in F \/ "reload" \in F THEN DropEmptyAssistantTail(chipless) ELSE chipless

\* Calls and streams F fail, and the channel goes on as c.  The first snapshot
\* is tried again; after a failed re-snapshot the channel listens all the same.
Fails(F, c) ==
  /\ turn' = IF turn \in F \/ "reload" \in F THEN NoStream ELSE turn
  /\ upload' = IF upload \in F THEN NoStream ELSE upload
  /\ greeting' = IF greeting \in F THEN NoStream ELSE greeting
  /\ fetch' = [p \in Purpose |-> IF p \notin F THEN fetch[p]
                                 ELSE IF p = "first" /\ ~moved' THEN Asked ELSE NotFetched]
  /\ channel' = IF moved' THEN "stopped" ELSE IF "resync" \in F THEN "listening" ELSE c
  /\ clean' = (clean /\ turn \notin F /\ "reload" \notin F)
  /\ lines' = Failed(F)
  /\ rich' = (rich /\ turn' # NoStream)
  /\ UNCHANGED <<ready, buffered>>
  /\ PassBy(IF "resync" \in F THEN DOMAIN rows ELSE ShownIn(lines) \ ShownIn(lines'))

\* The opener's call fails; the others open again.
ConnectFails ==
  /\ Waiting /\ Happens
  /\ UNCHANGED <<rows, coming, up, moved>>
  /\ \/ /\ channel = "listening"
        /\ UNCHANGED streams
        /\ Fails({}, "backoff")
     \/ \E p \in Purpose :
          /\ fetch[p] = Asked
          /\ UNCHANGED streams
          /\ Fails({p}, channel)
     \/ \E s \in Stream :
          /\ streams[s].stage = "unsent"
          /\ streams' = [streams EXCEPT ![s] = Used]
          /\ Fails({s}, channel)

\* The socket drops, or the room is taken over: what is in flight fails.
LosesSocket(taken) ==
  /\ up /\ Happens
  /\ up' = FALSE
  /\ moved' = taken
  /\ streams' = [s \in Stream |-> [streams[s] EXCEPT !.ours = FALSE]]
  /\ UNCHANGED <<rows, coming>>
  /\ Fails({p \in Purpose : fetch[p] # NotFetched} \cup
             {s \in {turn, upload, greeting} \ {NoStream} : streams[s].stage # "putting"},
           IF channel = "listening" THEN "backoff" ELSE channel)

\* The file is in its slot: the call that makes it a source follows.
Put(s) ==
  /\ streams[s].stage = "putting"
  /\ UNCHANGED <<rows, coming, up, moved>>
  /\ \/ /\ ~moved
        /\ streams' = [streams EXCEPT ![s].stage = IF up THEN "queued" ELSE "unsent", ![s].ours = up]
        /\ UNCHANGED <<lines, ready, channel, buffered, fetch, turnVars, ghostVars, happened>>
     \/ /\ IF moved THEN UNCHANGED happened ELSE Happens
        /\ streams' = [streams EXCEPT ![s] = Used]
        /\ Fails({s}, channel)

-----------------------------------------------------------------------------
(* The hook *)

BackoffEnds ==
  /\ channel = "backoff"
  /\ channel' = "resync"
  /\ fetch' = [fetch EXCEPT !["resync"] = Asked]
  /\ UNCHANGED <<serverVars, lines, ready, moved, buffered, turnVars, ghostVars, happened>>

\* The flush of the buffer, an effect that runs after the render.
Flush ==
  /\ ready /\ ~Locked /\ buffered # {}
  /\ buffered' = {}
  /\ UNCHANGED <<serverVars, ready, moved, channel, fetch, turnVars, happened>>
  /\ Merges(MergeAll(lines, buffered))

\* Mutant: an event that comes while the lines may not be touched is dropped.
ApplyOrDrop(r) ==
  IF ~ready \/ Locked
  THEN UNCHANGED <<lines, buffered, ghostVars>>
  ELSE buffered' = {} /\ Merges(MergeAll(MergeAll(lines, buffered), {r}))

\* applyOrBuffer: what is buffered goes ahead of the event.
ApplyOrBuffer(r) ==
  IF ~ready \/ Locked
  THEN buffered' = buffered \cup {r} /\ UNCHANGED <<lines, ghostVars>>
  ELSE buffered' = {} /\ Merges(MergeAll(MergeAll(lines, buffered), {r}))

\* An event is pushed: it is for the subscription, if there is one.
OnEvent(r) ==
  /\ up
  /\ coming' = coming \ {r}
  /\ UNCHANGED <<rows, up, streams, ready, moved, channel, fetch, turnVars, happened>>
  /\ IF channel = "listening"
     THEN ApplyOrBuffer(r)
     ELSE UNCHANGED <<lines, buffered, clean>> /\ PassBy({r})

\* The transcript as it was read: merged, or, after a rich turn, shown as it is.
OnSnapshot(p) ==
  /\ fetch[p].state = "read"
  /\ fetch' = [fetch EXCEPT ![p] = NotFetched]
  /\ channel' = IF p = "resync" THEN "listening" ELSE channel
  /\ ready' = (ready \/ p = "first")
  /\ UNCHANGED <<rows, coming, up, moved, buffered, upload, happened>>
  /\ IF p = "first" THEN RunGreeting ELSE UNCHANGED <<streams, greeting>>
  /\ \/ /\ p = "reload"
        /\ turn' = NoStream /\ rich' = FALSE
        /\ clean' = (upload = NoStream)
        /\ Shows([r \in 1..fetch[p].upto |-> MessageToLine(r)])
     \/ /\ p # "reload"
        /\ UNCHANGED <<turn, rich>>
        /\ Merges(MergeAll(lines, 1..fetch[p].upto))

OnRefused(p) ==
  /\ fetch[p].state = "refused"
  /\ UNCHANGED <<serverVars, moved, happened>>
  /\ Fails({p}, channel)

-----------------------------------------------------------------------------
(* Chat.tsx: the chunks of a stream *)

\* consumeTurn.
OnTurn(s, type, r) ==
  /\ s = turn /\ type \in {"token", "step", "proposal", "done", "reflection", "error"}
  /\ rich' = (rich \/ type \in {"step", "proposal"})
  /\ clean' = (clean /\ type # "error")
  /\ UNCHANGED <<channel, fetch, turn, upload, greeting>>
  /\ Shows(CASE type \in {"token", "error"} -> AppendToLast(lines)
             [] type = "step"               -> InsertStep(lines, r)
             [] type = "proposal"           -> lines
             [] type = "done"               -> FinalizeLast(lines, r)
             [] type = "reflection"         -> MergeMessage(lines, r))

\* The turn is over; one with steps or proposals is replaced by the transcript.
OnTurnEnd(s, type) ==
  /\ s = turn /\ type = "end"
  /\ IF rich THEN fetch' = [fetch EXCEPT !["reload"] = Asked] /\ UNCHANGED turn
             ELSE turn' = NoStream /\ UNCHANGED fetch
  /\ UNCHANGED <<channel, lines, rich, upload, greeting, ghostVars>>

\* The greeting lands, wherever the page is.
OnGreeting(s, type, r) ==
  /\ s = greeting /\ type \in {"done", "error", "end"}
  /\ greeting' = IF type = "end" THEN NoStream ELSE greeting
  /\ UNCHANGED <<channel, fetch, turn, rich, upload>>
  /\ IF type = "done" THEN Merges(MergeMessage(lines, r)) ELSE UNCHANGED <<lines, ghostVars>>

\* The chip gives way to the rows of the upload, or to lines without a row.
OnAdded(s, type, r) ==
  /\ s = upload /\ type = "added"
  /\ upload' = NoStream
  /\ clean' = (clean /\ r # 0)
  /\ UNCHANGED <<channel, fetch, turn, rich, greeting>>
  /\ Shows(DropAttachmentTail(lines) \o
             IF r = 0 THEN <<Optimistic(TRUE, TRUE), [Optimistic(FALSE, FALSE) EXCEPT !.blank = FALSE]>>
             ELSE <<MessageToLine(streams[s].chip), MessageToLine(r)>>)

OnStream(s) ==
  /\ streams[s].ours
  /\ UNCHANGED <<rows, coming, up, ready, moved, buffered, happened>>
  /\ \E type \in Chunks(s) :
       /\ GoesOn(s, type)
       /\ LET r == streams[s].row
          IN  \/ OnTurn(s, type, r) \/ OnTurnEnd(s, type) \/ OnGreeting(s, type, r) \/ OnAdded(s, type, r)
              \/ type = "fail" /\ Fails({s}, channel)

-----------------------------------------------------------------------------
ChatNext ==
  \/ OthersSpeak
  \/ \E r \in coming : OnEvent(r) \/ LosesEvent(r)
  \/ \E p \in Purpose : ListsMessages(p) \/ OnSnapshot(p) \/ OnRefused(p)
  \/ \E s \in Stream : Runs(s) \/ Put(s) \/ OnStream(s)
  \/ UserStep \/ Connects \/ ConnectFails
  \/ \E taken \in BOOLEAN : LosesSocket(taken)
  \/ BackoffEnds \/ Flush

-----------------------------------------------------------------------------
\* Nothing is on its way, to the page or from it.
Quiet ==
  /\ up /\ ready /\ channel = "listening"
  /\ coming = {} /\ buffered = {}
  /\ ~Locked /\ greeting = NoStream
  /\ \A p \in Purpose : fetch[p] = NotFetched

(***************************************************************************)
(* "Subscribe-FIRST ..., then snapshot, then merge by id - so a row that   *)
(* persists after the snapshot still arrives over the live channel, and    *)
(* the two never drop or duplicate" (useEmbodimentSync.ts).  Once nothing  *)
(* is on its way, every row is shown, except those that passed by the page *)
(* (`missed`); and where no row did, and no failure, approval or merge     *)
(* left a line without its row (`clean`), every line is of a row and no    *)
(* row has two.                                                            *)
(***************************************************************************)
ViewConverges ==
  Quiet =>
    /\ DOMAIN rows \ missed \subseteq ShownIn(lines)
    /\ clean /\ missed = {} =>
         \A i, j \in DOMAIN lines : lines[i].id # 0 /\ (lines[i].id = lines[j].id => i = j)
=============================================================================
