--------------------------- MODULE Consolidation ---------------------------
(***************************************************************************)
(* The background reflection of one companion: the consolidate job of      *)
(* core/src/memory/consolidation-service.ts and the three passes it drives *)
(* (episodic-store.ts, personality/evolve.ts, user-model/reflector.ts and  *)
(* user-model/synthesize.ts), each with a cursor into the transcript.  The *)
(* runner is serial per companion but for the overlap of a lost lease, and *)
(* it can die between any two statements.                                  *)
(***************************************************************************)
EXTENDS Integers, Sequences, FiniteSetsExt

CONSTANTS
  Reflector,           \* nodes that may run the companion's consolidate job
  MinTurns,            \* minTurns: the shortest tail worth reflecting on
  MaxWindow,           \* maxWindow: the most turns of one run
  MaxMessages,         \* bound on the transcript
  MaxReflectFaults,    \* bound on failed passes and on processes that die
  MaxReflectOverlaps   \* bound on claims taken from a live runner

ASSUME ConsolidationConstants ==
  /\ MinTurns \in Nat \ {0} /\ MaxWindow \in Nat /\ MinTurns <= MaxWindow
  /\ MaxMessages \in Nat /\ MaxReflectFaults \in Nat /\ MaxReflectOverlaps \in Nat

VARIABLES
  messages,        \* turns in the transcript, numbered 1..messages
  cursors,         \* the companion row's four cursor columns
  stamina,         \* whether the stamina wallet has tokens left
  due,             \* whether a consolidate job is pending
  reflector,       \* each node: where its run is and the span it holds
  spans,           \* ghost: the spans episodes were appended for, in order
  believed,        \* ghost: turns whose beliefs were applied
  reflectFaults, reflectOverlaps   \* how much of each bound is used

consolidationVars ==
  <<messages, cursors, stamina, due, reflector, spans, believed, reflectFaults, reflectOverlaps>>

Cursor == {"episodes", "persona", "facts", "model"}

Dozing == [at |-> "idle", from |-> 0, to |-> 0]

ConsolidationInit ==
  /\ messages = 0
  /\ cursors = [c \in Cursor |-> 0]
  /\ stamina = TRUE
  /\ due = FALSE
  /\ reflector = [r \in Reflector |-> Dozing]
  /\ spans = <<>> /\ believed = {}
  /\ reflectFaults = 0 /\ reflectOverlaps = 0

\* The run of node r moves on: what it reads is kept until the next pass.
PassTo(r, at) == reflector' = [reflector EXCEPT ![r] = [Dozing EXCEPT !.at = at]]

Keeps(r, at, from, to) == reflector' = [reflector EXCEPT ![r] = [at |-> at, from |-> from, to |-> to]]

Reading == <<messages, cursors, stamina, due, spans, believed, reflectFaults, reflectOverlaps>>

\* A turn ends; the request for a consolidate job that follows it may be lost.
TurnEnds ==
  /\ messages < MaxMessages
  /\ messages' = messages + 1
  /\ due' \in {due, TRUE}
  /\ UNCHANGED <<cursors, stamina, reflector, spans, believed, reflectFaults, reflectOverlaps>>

\* The wallet runs empty or is fed.
StaminaChanges ==
  /\ stamina' = ~stamina
  /\ UNCHANGED <<messages, cursors, due, reflector, spans, believed, reflectFaults, reflectOverlaps>>

\* companionsNeedingConsolidation looks at the episode cursor alone.
Backlog == messages - cursors["episodes"] >= MinTurns

\* sweepConsolidation, on a timer: a request that coalesces on the pending job.
SweepRequests ==
  /\ Backlog
  /\ due' = TRUE
  /\ UNCHANGED <<messages, cursors, stamina, reflector, spans, believed, reflectFaults, reflectOverlaps>>

Running(r) == reflector[r].at # "idle"

\* A node claims the pending job, rarely while an outrun holder still runs it.
RunClaimed(r) ==
  /\ due /\ ~Running(r)
  /\ IF \E o \in Reflector : Running(o)
     THEN reflectOverlaps < MaxReflectOverlaps /\ reflectOverlaps' = reflectOverlaps + 1
     ELSE UNCHANGED reflectOverlaps
  /\ PassTo(r, "cursor")
  /\ UNCHANGED <<messages, cursors, stamina, due, spans, believed, reflectFaults>>

\* consolidateEpisodes and reflect read their cursor before their window.
ReadsCursor(r, c) ==
  /\ reflector[r].at = IF c = "episodes" THEN "cursor" ELSE "beliefs"
  /\ Keeps(r, IF c = "episodes" THEN "window" ELSE "tail", cursors[c], 0)
  /\ UNCHANGED Reading

\* The last turn of getMessagesSince(cursor, maxWindow).
WindowEnd(from) == Min({messages, from + MaxWindow})

\* Mutant: the threshold the sweep counts to is not enough for the run.
WorthReflectingPast(from) == WindowEnd(from) - from > MinTurns /\ stamina

WorthReflecting(from) == WindowEnd(from) - from >= MinTurns /\ stamina

\* Too short a tail or no stamina skips the pass without advancing.
ReadsWindow(r, c) ==
  LET from == reflector[r].from
  IN  /\ reflector[r].at = IF c = "episodes" THEN "window" ELSE "tail"
      /\ IF ~WorthReflecting(from)
         THEN PassTo(r, IF c = "episodes" THEN "beliefs" ELSE "understand")
         ELSE Keeps(r, IF c = "episodes" THEN "append" ELSE "believe", from, WindowEnd(from))
      /\ UNCHANGED Reading

\* Mutant: the stored cursor is not read again under the lock.
OverrunNever(to) == FALSE

\* Another run has consolidated this span, or a longer one.
Overrun(to) == cursors["episodes"] >= to

\* appendEpisodes, one transaction: the episodes and the cursor, or neither.
\* A span of filler forms none; only new episodes make the character evolve.
AppendsEpisodes(r, formed) ==
  LET run == reflector[r]
  IN  /\ run.at = "append"
      /\ IF Overrun(run.to)
         THEN UNCHANGED <<cursors, spans>>
         ELSE /\ cursors' = [cursors EXCEPT !["episodes"] = run.to]
              /\ spans' = Append(spans, <<run.from + 1, run.to>>)
      /\ PassTo(r, IF formed THEN "evolve" ELSE "beliefs")
      /\ UNCHANGED <<messages, stamina, due, believed, reflectFaults, reflectOverlaps>>

\* evolve and synthesize read what they would be current through.  A user of
\* whom nothing is known yet has the cursor written, stamina or not.
Derives(r, at, c, through, next, otherwise) ==
  /\ reflector[r].at = at
  /\ \/ /\ through <= cursors[c] \/ ~stamina
        /\ PassTo(r, otherwise)
     \/ /\ through > cursors[c] /\ (stamina \/ c = "model")
        /\ Keeps(r, next, cursors[c], through)
  /\ UNCHANGED Reading

ReadsCharacter(r) == Derives(r, "evolve", "persona", cursors["episodes"], "persona", "beliefs")

ReadsUnderstanding(r) ==
  Derives(r, "understand", "model", Max({cursors["facts"], cursors["episodes"]}), "model", "finish")

\* advanceCursor: written only when it is not behind the stored cursor.
Advanced(c, to) == IF cursors[c] <= to THEN [cursors EXCEPT ![c] = to] ELSE cursors

\* updateEvolvedPersona, updateUserPersona; an unusable text is not written.
WritesDerived(r, c, usable) ==
  /\ reflector[r].at = c /\ c \in {"persona", "model"}
  /\ cursors' = IF usable THEN Advanced(c, reflector[r].to) ELSE cursors
  /\ PassTo(r, IF c = "persona" THEN "beliefs" ELSE "finish")
  /\ UNCHANGED <<messages, stamina, due, spans, believed, reflectFaults, reflectOverlaps>>

\* reflect infers the window's beliefs and applies them to the user model.
AppliesBeliefs(r) ==
  LET run == reflector[r]
  IN  /\ run.at = "believe"
      /\ believed' = believed \union (run.from + 1)..run.to
      /\ Keeps(r, "advance", run.from, run.to)
      /\ UNCHANGED <<messages, cursors, stamina, due, spans, reflectFaults, reflectOverlaps>>

\* advanceUserFactsThroughSeq, after the beliefs are in.
AdvancesFacts(r) ==
  /\ reflector[r].at = "advance"
  /\ cursors' = Advanced("facts", reflector[r].to)
  /\ PassTo(r, "understand")
  /\ UNCHANGED <<messages, stamina, due, spans, believed, reflectFaults, reflectOverlaps>>

\* The pass a failed one falls through to: no pass throws.
AfterFailure(at) ==
  CASE at \in {"cursor", "window", "append", "evolve", "persona"} -> "beliefs"
    [] at \in {"beliefs", "tail", "believe", "advance"} -> "understand"
    [] OTHER -> "finish"

\* A query or a model call throws, and the pass ends there.
PassFails(r) ==
  /\ Running(r) /\ reflector[r].at # "finish"
  /\ reflectFaults < MaxReflectFaults
  /\ reflectFaults' = reflectFaults + 1
  /\ PassTo(r, AfterFailure(reflector[r].at))
  /\ UNCHANGED <<messages, cursors, stamina, due, spans, believed, reflectOverlaps>>

\* The process dies: the job is still pending and will be claimed again.
ReflectorDies(r) ==
  /\ Running(r)
  /\ reflectFaults < MaxReflectFaults
  /\ reflectFaults' = reflectFaults + 1
  /\ PassTo(r, "idle")
  /\ UNCHANGED <<messages, cursors, stamina, due, spans, believed, reflectOverlaps>>

\* The run returned and its job is marked done.
RunFinishes(r) ==
  /\ reflector[r].at = "finish"
  /\ due' = FALSE
  /\ PassTo(r, "idle")
  /\ UNCHANGED <<messages, cursors, stamina, spans, believed, reflectFaults, reflectOverlaps>>

Reflects(r) ==
  \/ \E c \in {"episodes", "facts"} : ReadsCursor(r, c) \/ ReadsWindow(r, c)
  \/ \E formed \in BOOLEAN : AppendsEpisodes(r, formed)
  \/ ReadsCharacter(r)
  \/ \E c \in {"persona", "model"}, usable \in BOOLEAN : WritesDerived(r, c, usable)
  \/ AppliesBeliefs(r)
  \/ AdvancesFacts(r)
  \/ ReadsUnderstanding(r)
  \/ RunFinishes(r)

ConsolidationNext ==
  \/ TurnEnds \/ StaminaChanges \/ SweepRequests
  \/ \E r \in Reflector : RunClaimed(r) \/ Reflects(r) \/ PassFails(r) \/ ReflectorDies(r)

ConsolidationSpec == ConsolidationInit /\ [][ConsolidationNext]_consolidationVars

-----------------------------------------------------------------------------
RunAt == {"idle", "cursor", "window", "append", "evolve", "persona",
          "beliefs", "tail", "believe", "advance", "understand", "model", "finish"}

ConsolidationTypeOK ==
  /\ messages \in 0..MaxMessages
  /\ cursors \in [Cursor -> 0..MaxMessages]
  /\ stamina \in BOOLEAN /\ due \in BOOLEAN
  /\ reflector \in [Reflector -> [at : RunAt, from : 0..MaxMessages, to : 0..MaxMessages]]
  /\ spans \in Seq((1..MaxMessages) \X (1..MaxMessages))
  /\ believed \in SUBSET (1..MaxMessages)
  /\ reflectFaults \in 0..MaxReflectFaults /\ reflectOverlaps \in 0..MaxReflectOverlaps

\* The spans remembered as episodes leave no gap before the cursor and none is
\* appended twice, though a run may append over a shorter one it was outrun by.
SpansMeet ==
  /\ \A i \in DOMAIN spans :
       LET before == IF i = 1 THEN 0 ELSE spans[i - 1][2]
       IN  spans[i][1] <= before + 1 /\ spans[i][2] > before
  /\ cursors["episodes"] = IF spans = <<>> THEN 0 ELSE spans[Len(spans)][2]

\* No turn is passed over: whatever overlaps, fails or dies, every turn behind
\* the episode cursor was in a span given to the episodic store, every turn
\* behind the facts cursor had its beliefs applied, and no derived persona
\* claims a turn that neither of them reached (consolidation-service.ts,
\* episodic-store.ts appendEpisodes, identity/store.ts advanceCursor).
NothingForgotten ==
  /\ SpansMeet
  /\ 1..cursors["facts"] \subseteq believed
  /\ cursors["persona"] <= cursors["episodes"]
  /\ cursors["model"] <= Max({cursors["facts"], cursors["episodes"]})

\* Progress: once the companion keeps stamina, a tail long enough to be worth a
\* memory is consolidated, although a run's requests, passes and process may be
\* lost (sweepConsolidation; the job stays pending until a run returns).
BacklogConsolidated == <>[]stamina => (Backlog ~> ~Backlog)
=============================================================================
