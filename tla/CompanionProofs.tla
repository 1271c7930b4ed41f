-------------------------- MODULE CompanionProofs --------------------------
(***************************************************************************)
(* Theorems about the companion's components, for every value of their     *)
(* constants, each with the inductive invariant it needs: the memory       *)
(* (Consolidation, whose runs may overlap and die between any two          *)
(* statements, Ingestion, whose announcements are counted against the runs *)
(* that may still make one, and Segmentation, which cuts a source), then   *)
(* Turns, Growth, Rewards, Feeding, Mood and UserFacts.  And the           *)
(* composition: a behaviour of Companion is one of each component, so that *)
(* what is proved of each holds of all of them together.                   *)
(***************************************************************************)
EXTENDS Companion, NumberLemmas, FiniteSetTheorems, SequenceTheorems, TLAPS

-----------------------------------------------------------------------------
(* Consolidation: no turn is passed over *)

\* What a run holds is still true of the rows, whatever other runs wrote since
\* it read them: its span starts at or behind the cursor and ends at a turn
\* that exists, and what it is about to be current through was reached.
RunOK(run) ==
  /\ run.at \in {"window", "append"} => run.from <= cursors["episodes"]
  /\ run.at \in {"tail", "believe", "advance"} => run.from <= cursors["facts"]
  /\ run.at \in {"append", "believe", "advance"} => run.from < run.to /\ run.to <= messages
  /\ run.at = "advance" => (run.from + 1)..run.to \subseteq believed
  /\ run.at = "persona" => run.to <= cursors["episodes"]
  /\ run.at = "model" => run.to <= cursors["facts"] \/ run.to <= cursors["episodes"]

DerivedOK ==
  /\ cursors["persona"] <= cursors["episodes"]
  /\ cursors["model"] <= cursors["facts"] \/ cursors["model"] <= cursors["episodes"]

CursorsOK ==
  /\ \A c \in Cursor : cursors[c] <= messages
  /\ 1..cursors["facts"] \subseteq believed

ConsolidationInv ==
  ConsolidationTypeOK /\ SpansMeet /\ CursorsOK /\ DerivedOK /\ \A r \in Reflector : RunOK(reflector[r])

LEMMA CursorsTyped ==
  ASSUME ConsolidationTypeOK
  PROVE  /\ messages \in Nat /\ messages <= MaxMessages
         /\ \A c \in Cursor : cursors[c] \in Nat
         /\ \A c \in {"episodes", "persona", "facts", "model"} : c \in Cursor
         /\ Max({cursors["facts"], cursors["episodes"]}) =
              IF cursors["facts"] >= cursors["episodes"] THEN cursors["facts"] ELSE cursors["episodes"]
<1>1. /\ messages \in Nat /\ messages <= MaxMessages
      /\ \A c \in Cursor : cursors[c] \in Nat
      /\ \A c \in {"episodes", "persona", "facts", "model"} : c \in Cursor
  BY ConsolidationConstants DEF ConsolidationTypeOK, Cursor
<1> QED
  BY <1>1, MaxOfTwo

LEMMA ConsolidationInitOK == ConsolidationInit => ConsolidationInv
<1> SUFFICES ASSUME ConsolidationInit PROVE ConsolidationInv
  OBVIOUS
<1>1. ConsolidationTypeOK
  <2>1. Dozing \in [at : RunAt, from : 0..MaxMessages, to : 0..MaxMessages]
    BY ConsolidationConstants DEF RunAt, Dozing
  <2>2. << >> \in Seq((1..MaxMessages) \X (1..MaxMessages))
    OBVIOUS
  <2> QED
    <3>1. messages \in 0..MaxMessages /\ cursors \in [Cursor -> 0..MaxMessages]
      BY ConsolidationConstants DEF ConsolidationInit
    <3>4. stamina \in BOOLEAN /\ due \in BOOLEAN
      BY DEF ConsolidationInit
    <3>5. believed \in SUBSET (1..MaxMessages)
      BY DEF ConsolidationInit
    <3>2. /\ reflector \in [Reflector -> [at : RunAt, from : 0..MaxMessages, to : 0..MaxMessages]]
          /\ spans \in Seq((1..MaxMessages) \X (1..MaxMessages))
      BY <2>1, <2>2 DEF ConsolidationInit
    <3>3. reflectFaults \in 0..MaxReflectFaults /\ reflectOverlaps \in 0..MaxReflectOverlaps
      BY ConsolidationConstants DEF ConsolidationInit
    <3> QED
      BY <3>1, <3>2, <3>3, <3>4, <3>5 DEF ConsolidationTypeOK
<1>2. SpansMeet /\ CursorsOK /\ DerivedOK
  BY DEF ConsolidationInit, SpansMeet, CursorsOK, DerivedOK, Cursor
<1>3. \A r \in Reflector : RunOK(reflector[r])
  BY DEF ConsolidationInit, RunOK, Dozing
<1> QED
  BY <1>1, <1>2, <1>3 DEF ConsolidationInv

RunRow(at, from, to) == [at |-> at, from |-> from, to |-> to]

\* A run moves on and the rows stay.
LEMMA RunMoves ==
  ASSUME ConsolidationInv, NEW r \in Reflector,
         NEW at \in RunAt, NEW from \in 0..MaxMessages, NEW to \in 0..MaxMessages,
         reflector' = [reflector EXCEPT ![r] = RunRow(at, from, to)], RunOK(RunRow(at, from, to)),
         UNCHANGED <<messages, cursors, stamina, spans, believed>>, due' \in BOOLEAN,
         reflectFaults' \in 0..MaxReflectFaults, reflectOverlaps' \in 0..MaxReflectOverlaps
  PROVE  ConsolidationInv'
<1>1. RunRow(at, from, to) \in [at : RunAt, from : 0..MaxMessages, to : 0..MaxMessages]
  BY DEF RunRow
<1>2. \A o \in Reflector : reflector'[o] = IF o = r THEN RunRow(at, from, to) ELSE reflector[o]
  BY DEF ConsolidationInv, ConsolidationTypeOK
<1>3. ConsolidationTypeOK'
  BY <1>1 DEF ConsolidationInv, ConsolidationTypeOK
<1>4. SpansMeet' /\ CursorsOK' /\ DerivedOK'
  BY DEF ConsolidationInv, SpansMeet, CursorsOK, DerivedOK
<1>5. ASSUME NEW o \in Reflector PROVE RunOK(reflector[o])'
  <2>1. RunOK(reflector'[o])
    BY <1>2 DEF ConsolidationInv
  <2> QED
    BY <2>1 DEF RunOK
<1> QED
  BY <1>3, <1>4, <1>5 DEF ConsolidationInv

\* Between two passes a run holds nothing.
LEMMA PassToOK ==
  ASSUME NEW at \in {"idle", "cursor", "evolve", "beliefs", "understand", "finish"}
  PROVE  at \in RunAt /\ RunOK(RunRow(at, 0, 0)) /\ [Dozing EXCEPT !.at = at] = RunRow(at, 0, 0)
BY DEF RunAt, RunOK, RunRow, Dozing

\* The rows move forward, and what the other runs hold stays true.
LEMMA RowsGrow ==
  ASSUME ConsolidationInv, messages' \in Nat, cursors' \in [Cursor -> Nat],
         messages <= messages', \A c \in Cursor : cursors[c] <= cursors'[c], believed \subseteq believed'
  PROVE  \A r \in Reflector : reflector'[r] = reflector[r] => RunOK(reflector[r])'
<1>1. /\ messages \in Nat /\ \A c \in Cursor : cursors[c] \in Nat
      /\ \A c \in {"episodes", "persona", "facts", "model"} : c \in Cursor
      /\ \A r \in Reflector : reflector[r].from \in Nat /\ reflector[r].to \in Nat
  <2>1. ConsolidationTypeOK
    BY DEF ConsolidationInv
  <2>2. \A r \in Reflector : reflector[r].from \in Nat /\ reflector[r].to \in Nat
    BY <2>1, ConsolidationConstants DEF ConsolidationTypeOK
  <2> QED
    BY <2>1, <2>2, CursorsTyped
<1>2. /\ cursors["episodes"] <= cursors'["episodes"] /\ cursors["facts"] <= cursors'["facts"]
      /\ cursors'["episodes"] \in Nat /\ cursors'["facts"] \in Nat
      /\ cursors["episodes"] \in Nat /\ cursors["facts"] \in Nat
  BY <1>1
<1>3. SUFFICES ASSUME NEW r \in Reflector, reflector'[r] = reflector[r] PROVE RunOK(reflector[r])'
  OBVIOUS
<1>4. RunOK(reflector[r]) /\ reflector[r].from \in Nat /\ reflector[r].to \in Nat
  BY <1>1 DEF ConsolidationInv
<1> QED
  BY <1>1, <1>2, <1>3, <1>4 DEF RunOK

LEMMA ConsolidationStep ==
  ASSUME ConsolidationInv, [ConsolidationNext]_consolidationVars PROVE ConsolidationInv'
<1> USE ConsolidationConstants
<1>c. /\ messages \in Nat /\ messages <= MaxMessages
      /\ cursors \in [Cursor -> Nat] /\ \A c \in Cursor : cursors[c] <= messages
      /\ \A c \in {"episodes", "persona", "facts", "model"} : c \in Cursor
      /\ Max({cursors["facts"], cursors["episodes"]}) =
              IF cursors["facts"] >= cursors["episodes"] THEN cursors["facts"] ELSE cursors["episodes"]
  BY CursorsTyped DEF ConsolidationInv, CursorsOK, ConsolidationTypeOK
<1>r. /\ reflector \in [Reflector -> [at : RunAt, from : 0..MaxMessages, to : 0..MaxMessages]]
      /\ \A r \in Reflector : RunOK(reflector[r])
      /\ stamina \in BOOLEAN /\ due \in BOOLEAN
      /\ reflectFaults \in 0..MaxReflectFaults /\ reflectOverlaps \in 0..MaxReflectOverlaps
  BY DEF ConsolidationInv, ConsolidationTypeOK
<1>1. CASE TurnEnds
  <2>1. /\ messages' = messages + 1 /\ messages < MaxMessages /\ due' \in BOOLEAN
        /\ UNCHANGED <<cursors, stamina, reflector, spans, believed, reflectFaults, reflectOverlaps>>
    BY <1>1, <1>r DEF TurnEnds
  <2>2. ConsolidationTypeOK'
    BY <1>c, <2>1 DEF ConsolidationInv, ConsolidationTypeOK
  <2>3. SpansMeet' /\ CursorsOK' /\ DerivedOK'
    BY <1>c, <2>1 DEF ConsolidationInv, SpansMeet, CursorsOK, DerivedOK
  <2>4. \A r \in Reflector : RunOK(reflector[r])'
    BY <1>c, <2>1, RowsGrow
  <2> QED
    BY <2>2, <2>3, <2>4 DEF ConsolidationInv
<1>2. CASE StaminaChanges \/ SweepRequests
  <2>1. /\ stamina' \in BOOLEAN /\ due' \in BOOLEAN
        /\ UNCHANGED <<messages, cursors, reflector, spans, believed, reflectFaults, reflectOverlaps>>
    BY <1>2, <1>r DEF StaminaChanges, SweepRequests
  <2>2. ConsolidationTypeOK'
    BY <2>1 DEF ConsolidationInv, ConsolidationTypeOK
  <2>3. SpansMeet' /\ CursorsOK' /\ DerivedOK'
    BY <2>1 DEF ConsolidationInv, SpansMeet, CursorsOK, DerivedOK
  <2>4. \A r \in Reflector : RunOK(reflector[r])'
    BY <1>c, <2>1, RowsGrow
  <2> QED
    BY <2>2, <2>3, <2>4 DEF ConsolidationInv
<1>3. ASSUME NEW r \in Reflector, NEW at \in {"idle", "cursor", "evolve", "beliefs", "understand", "finish"},
             PassTo(r, at), UNCHANGED <<messages, cursors, stamina, spans, believed>>, due' \in BOOLEAN,
             reflectFaults' \in 0..MaxReflectFaults, reflectOverlaps' \in 0..MaxReflectOverlaps
      PROVE  ConsolidationInv'
  <2>1. reflector' = [reflector EXCEPT ![r] = RunRow(at, 0, 0)]
    BY <1>3, PassToOK DEF PassTo
  <2>2. 0 \in 0..MaxMessages
    OBVIOUS
  <2> QED
    BY <1>3, <2>1, <2>2, PassToOK, RunMoves
<1>4. ASSUME NEW r \in Reflector, NEW at \in RunAt, NEW from \in 0..MaxMessages, NEW to \in 0..MaxMessages,
             Keeps(r, at, from, to), RunOK(RunRow(at, from, to)), UNCHANGED Reading
      PROVE  ConsolidationInv'
  <2>1. reflector' = [reflector EXCEPT ![r] = RunRow(at, from, to)]
    BY <1>4 DEF Keeps, RunRow
  <2> QED
    BY <1>4, <1>r, <2>1, RunMoves DEF Reading
<1>5. ASSUME NEW r \in Reflector, RunClaimed(r) PROVE ConsolidationInv'
  <2>1. /\ PassTo(r, "cursor") /\ UNCHANGED <<messages, cursors, stamina, due, spans, believed, reflectFaults>>
        /\ reflectOverlaps' \in 0..MaxReflectOverlaps
    BY <1>5, <1>r DEF RunClaimed
  <2> QED
    BY <1>3, <1>r, <2>1
<1>6. ASSUME NEW r \in Reflector, NEW c \in {"episodes", "facts"}, ReadsCursor(r, c) PROVE ConsolidationInv'
  <2>1. Keeps(r, IF c = "episodes" THEN "window" ELSE "tail", cursors[c], 0) /\ UNCHANGED Reading
    BY <1>6 DEF ReadsCursor
  <2>2. cursors[c] \in 0..MaxMessages /\ 0 \in 0..MaxMessages
    BY <1>c
  <2>3. CASE c = "episodes"
    <3>1. RunOK(RunRow("window", cursors[c], 0)) /\ "window" \in RunAt
      BY <1>c, <2>3 DEF RunOK, RunRow, RunAt
    <3> QED
      BY <1>4, <2>1, <2>2, <2>3, <3>1
  <2>4. CASE c = "facts"
    <3>1. RunOK(RunRow("tail", cursors[c], 0)) /\ "tail" \in RunAt
      BY <1>c, <2>4 DEF RunOK, RunRow, RunAt
    <3> QED
      BY <1>4, <2>1, <2>2, <2>4, <3>1
  <2> QED
    BY <2>3, <2>4
<1>7. ASSUME NEW r \in Reflector, NEW c \in {"episodes", "facts"}, ReadsWindow(r, c) PROVE ConsolidationInv'
  <2>a. PICK from \in 0..MaxMessages : from = reflector[r].from
    BY <1>r
  <2>1. /\ reflector[r].at = IF c = "episodes" THEN "window" ELSE "tail"
        /\ from <= cursors[c] /\ from <= messages
    BY <1>7, <1>c, <1>r, <2>a DEF ReadsWindow, RunOK
  <2>2. CASE ~WorthReflecting(from)
    <3>1. PassTo(r, IF c = "episodes" THEN "beliefs" ELSE "understand") /\ UNCHANGED Reading
      BY <1>7, <2>a, <2>2 DEF ReadsWindow
    <3> QED
      BY <1>3, <1>r, <3>1 DEF Reading
  <2>3. CASE WorthReflecting(from)
    <3>1. Keeps(r, IF c = "episodes" THEN "append" ELSE "believe", from, WindowEnd(from)) /\ UNCHANGED Reading
      BY <1>7, <2>a, <2>3 DEF ReadsWindow
    <3>2. WindowEnd(from) = IF messages <= from + MaxWindow THEN messages ELSE from + MaxWindow
      BY <1>c, MinOfTwo DEF WindowEnd
    <3>3. WindowEnd(from) \in 0..MaxMessages /\ from < WindowEnd(from) /\ WindowEnd(from) <= messages
      BY <1>c, <2>3, <3>2 DEF WorthReflecting
    <3>4. CASE c = "episodes"
      <4>1. RunOK(RunRow("append", from, WindowEnd(from))) /\ "append" \in RunAt
        BY <2>1, <3>3, <3>4 DEF RunOK, RunRow, RunAt
      <4> QED
        BY <1>4, <3>1, <3>3, <3>4, <4>1
    <3>5. CASE c = "facts"
      <4>1. RunOK(RunRow("believe", from, WindowEnd(from))) /\ "believe" \in RunAt
        BY <2>1, <3>3, <3>5 DEF RunOK, RunRow, RunAt
      <4> QED
        BY <1>4, <3>1, <3>3, <3>5, <4>1
    <3> QED
      BY <3>4, <3>5
  <2> QED
    BY <2>2, <2>3
\* A run that writes rows moves to a place where it holds nothing.
<1>8. ASSUME NEW r \in Reflector, NEW at \in {"idle", "cursor", "evolve", "beliefs", "understand", "finish"},
             PassTo(r, at), cursors' \in [Cursor -> 0..MaxMessages], \A c \in Cursor : cursors[c] <= cursors'[c],
             \A c \in Cursor : cursors'[c] <= messages, SpansMeet', DerivedOK',
             spans' \in Seq((1..MaxMessages) \X (1..MaxMessages)), 1..cursors'["facts"] \subseteq believed,
             UNCHANGED <<messages, stamina, due, believed, reflectFaults, reflectOverlaps>>
      PROVE  ConsolidationInv'
  <2>1. reflector' = [reflector EXCEPT ![r] = RunRow(at, 0, 0)]
    BY <1>8, PassToOK DEF PassTo
  <2>2. RunRow(at, 0, 0) \in [at : RunAt, from : 0..MaxMessages, to : 0..MaxMessages]
    BY PassToOK DEF RunRow
  <2>3. reflector'[r] = RunRow(at, 0, 0) /\ \A o \in Reflector \ {r} : reflector'[o] = reflector[o]
    BY <1>r, <2>1
  <2>4. ConsolidationTypeOK'
    BY <1>8, <1>r, <2>1, <2>2 DEF ConsolidationInv, ConsolidationTypeOK
  <2>5. \A o \in Reflector \ {r} : RunOK(reflector[o])'
    <3>1. cursors' \in [Cursor -> Nat] /\ messages' \in Nat /\ messages <= messages'
      BY <1>8, <1>c
    <3> QED
      BY <1>8, <2>3, <3>1, RowsGrow
  <2>6. RunOK(reflector[r])'
    BY <2>3 DEF RunOK, RunRow
  <2> QED
    BY <1>8, <2>4, <2>5, <2>6 DEF ConsolidationInv, CursorsOK
<1>9. ASSUME NEW r \in Reflector, NEW formed \in BOOLEAN, AppendsEpisodes(r, formed) PROVE ConsolidationInv'
  <2>a. PICK from \in 0..MaxMessages, to \in 0..MaxMessages : from = reflector[r].from /\ to = reflector[r].to
    BY <1>r
  <2>1. /\ from <= cursors["episodes"] /\ from < to /\ to <= messages
        /\ PassTo(r, IF formed THEN "evolve" ELSE "beliefs")
        /\ UNCHANGED <<messages, stamina, due, believed, reflectFaults, reflectOverlaps>>
    BY <1>9, <1>r, <2>a DEF AppendsEpisodes, RunOK
  <2>2. CASE Overrun(to)
    <3>1. UNCHANGED <<cursors, spans>>
      BY <1>9, <2>a, <2>2 DEF AppendsEpisodes
    <3> QED
      BY <1>3, <1>r, <2>1, <3>1
  <2>3. CASE ~Overrun(to)
    <3>1. /\ cursors' = [cursors EXCEPT !["episodes"] = to] /\ spans' = Append(spans, <<from + 1, to>>)
          /\ cursors["episodes"] < to
      BY SMTT(30), <1>9, <1>c, <2>a, <2>3 DEF AppendsEpisodes, Overrun
    <3>2. \A c \in Cursor : cursors'[c] = IF c = "episodes" THEN to ELSE cursors[c]
      BY <1>c, <3>1
    <3>3. /\ cursors' \in [Cursor -> 0..MaxMessages] /\ \A c \in Cursor : cursors[c] <= cursors'[c]
          /\ \A c \in Cursor : cursors'[c] <= messages
      BY <1>c, <2>1, <3>1, <3>2
    <3>4. spans \in Seq((1..MaxMessages) \X (1..MaxMessages)) /\ <<from + 1, to>> \in (1..MaxMessages) \X (1..MaxMessages)
      BY <2>1 DEF ConsolidationInv, ConsolidationTypeOK
    <3>5. /\ spans' \in Seq((1..MaxMessages) \X (1..MaxMessages)) /\ spans' # << >>
          /\ Len(spans') = Len(spans) + 1 /\ Len(spans) \in Nat /\ spans'[Len(spans) + 1] = <<from + 1, to>>
          /\ \A i \in 1..Len(spans) : spans'[i] = spans[i]
          /\ DOMAIN spans = 1..Len(spans) /\ DOMAIN spans' = 1..(Len(spans) + 1)
      BY <3>1, <3>4
    <3>6. SpansMeet'
      <4>1. cursors'["episodes"] = to /\ spans'[Len(spans')][2] = to
        BY SMTT(30), <1>c, <3>2, <3>5
      <4>2. ASSUME NEW i \in DOMAIN spans'
            PROVE  LET before == IF i = 1 THEN 0 ELSE spans'[i - 1][2]
                   IN  spans'[i][1] <= before + 1 /\ spans'[i][2] > before
        <5>1. CASE i \in 1..Len(spans)
          <6>1. spans'[i] = spans[i] /\ i \in DOMAIN spans /\ (i # 1 => spans'[i - 1] = spans[i - 1])
            <7>1. spans'[i] = spans[i] /\ i \in DOMAIN spans
              BY <3>5, <5>1
            <7>2. Len(spans) \in Nat /\ (i # 1 => i - 1 \in 1..Len(spans))
              BY SMTT(30), <3>5, <5>1
            <7> QED
              BY <3>5, <7>1, <7>2
          <6> QED
            BY <6>1 DEF ConsolidationInv, SpansMeet
        <5>2. CASE i = Len(spans) + 1
          <6>1. (IF i = 1 THEN 0 ELSE spans'[i - 1][2]) = cursors["episodes"]
            <7>1. CASE Len(spans) = 0
              <8>1. spans = << >>
                BY <3>4, <7>1
              <8> QED
                BY <5>2, <7>1, <8>1 DEF ConsolidationInv, SpansMeet
            <7>2. CASE Len(spans) # 0
              <8>1. spans # << >> /\ spans'[Len(spans)] = spans[Len(spans)] /\ i - 1 = Len(spans) /\ i # 1
                BY SMTT(30), <3>4, <3>5, <5>2, <7>2
              <8> QED
                BY <8>1 DEF ConsolidationInv, SpansMeet
            <7> QED
              BY <7>1, <7>2
          <6>2. spans'[i][1] = from + 1 /\ spans'[i][2] = to
            BY <3>5, <5>2
          <6> QED
            <7>1. from + 1 <= cursors["episodes"] + 1 /\ to > cursors["episodes"]
              BY <1>c, <2>1, <3>1
            <7> QED
              BY <6>1, <6>2, <7>1
        <5> QED
          BY <3>5, <5>1, <5>2
      <4> QED
        BY <3>5, <4>1, <4>2 DEF SpansMeet
    <3>7. DerivedOK'
      BY <1>c, <3>1, <3>2 DEF ConsolidationInv, DerivedOK
    <3>8. 1..cursors'["facts"] \subseteq believed
      BY <1>c, <3>2 DEF ConsolidationInv, CursorsOK
    <3> QED
      BY <1>8, <2>1, <3>3, <3>5, <3>6, <3>7, <3>8
  <2> QED
    BY <2>2, <2>3
<1>10. ASSUME NEW r \in Reflector, ReadsCharacter(r) PROVE ConsolidationInv'
  <2>1. UNCHANGED Reading
    BY <1>10 DEF ReadsCharacter, Derives
  <2>2. CASE PassTo(r, "beliefs")
    BY <1>3, <1>r, <2>1, <2>2 DEF Reading
  <2>3. CASE Keeps(r, "persona", cursors["persona"], cursors["episodes"])
    <3>1. /\ cursors["persona"] \in 0..MaxMessages /\ cursors["episodes"] \in 0..MaxMessages
          /\ RunOK(RunRow("persona", cursors["persona"], cursors["episodes"])) /\ "persona" \in RunAt
      BY <1>c DEF RunOK, RunRow, RunAt
    <3> QED
      BY <1>4, <2>1, <2>3, <3>1
  <2> QED
    BY <1>10, <2>2, <2>3 DEF ReadsCharacter, Derives
<1>11. ASSUME NEW r \in Reflector, ReadsUnderstanding(r) PROVE ConsolidationInv'
  <2> DEFINE through == Max({cursors["facts"], cursors["episodes"]})
  <2>1. UNCHANGED Reading
    BY <1>11 DEF ReadsUnderstanding, Derives
  <2>2. CASE PassTo(r, "finish")
    BY <1>3, <1>r, <2>1, <2>2 DEF Reading
  <2>3. CASE Keeps(r, "model", cursors["model"], through)
    <3>1. /\ cursors["model"] \in 0..MaxMessages /\ through \in 0..MaxMessages
          /\ RunOK(RunRow("model", cursors["model"], through)) /\ "model" \in RunAt
      BY <1>c DEF RunOK, RunRow, RunAt
    <3> QED
      BY <1>4, <2>1, <2>3, <3>1
  <2> QED
    BY <1>11, <2>2, <2>3 DEF ReadsUnderstanding, Derives
<1>12. ASSUME NEW r \in Reflector, NEW c \in {"persona", "model"}, NEW usable \in BOOLEAN, WritesDerived(r, c, usable)
       PROVE  ConsolidationInv'
  <2>a. PICK to \in 0..MaxMessages : to = reflector[r].to
    BY <1>r
  <2>1. /\ reflector[r].at = c /\ cursors' = (IF usable THEN Advanced(c, to) ELSE cursors)
        /\ PassTo(r, IF c = "persona" THEN "beliefs" ELSE "finish")
        /\ UNCHANGED <<messages, stamina, due, spans, believed, reflectFaults, reflectOverlaps>>
    BY <1>12, <2>a DEF WritesDerived
  <2>2. CASE ~usable \/ ~(cursors[c] <= to)
    <3>1. UNCHANGED cursors
      BY <2>1, <2>2 DEF Advanced
    <3> QED
      BY <1>3, <1>r, <2>1, <3>1
  <2>3. CASE usable /\ cursors[c] <= to
    <3>1. \A d \in Cursor : cursors'[d] = IF d = c THEN to ELSE cursors[d]
      BY <1>c, <2>1, <2>3 DEF Advanced
    <3>2. /\ c = "persona" => to <= cursors["episodes"]
          /\ c = "model" => to <= cursors["facts"] \/ to <= cursors["episodes"]
          /\ to <= messages
      BY <1>c, <1>r, <2>a, <2>1 DEF RunOK
    <3>3. /\ cursors' \in [Cursor -> 0..MaxMessages] /\ \A d \in Cursor : cursors[d] <= cursors'[d]
          /\ \A d \in Cursor : cursors'[d] <= messages
      BY <1>c, <2>1, <2>3, <3>1, <3>2 DEF Advanced
    <3>4. cursors'["episodes"] = cursors["episodes"] /\ cursors'["facts"] = cursors["facts"]
      BY <1>c, <3>1
    <3>5. SpansMeet'
      BY <2>1, <3>4 DEF ConsolidationInv, SpansMeet
    <3>6. DerivedOK'
      BY <1>c, <3>1, <3>2, <3>4 DEF ConsolidationInv, DerivedOK
    <3>7. 1..cursors'["facts"] \subseteq believed
      BY <3>4 DEF ConsolidationInv, CursorsOK
    <3>8. spans' \in Seq((1..MaxMessages) \X (1..MaxMessages))
      BY <2>1 DEF ConsolidationInv, ConsolidationTypeOK
    <3> QED
      BY <1>8, <2>1, <3>3, <3>5, <3>6, <3>7, <3>8
  <2> QED
    BY <2>2, <2>3
<1>13. ASSUME NEW r \in Reflector, AppliesBeliefs(r) PROVE ConsolidationInv'
  <2>a. PICK from \in 0..MaxMessages, to \in 0..MaxMessages : from = reflector[r].from /\ to = reflector[r].to
    BY <1>r
  <2>1. /\ from <= cursors["facts"] /\ from < to /\ to <= messages
        /\ believed' = believed \union (from + 1)..to /\ reflector' = [reflector EXCEPT ![r] = RunRow("advance", from, to)]
        /\ UNCHANGED <<messages, cursors, stamina, due, spans, reflectFaults, reflectOverlaps>>
    BY <1>13, <1>r, <2>a DEF AppliesBeliefs, RunOK, Keeps, RunRow
  <2>2. /\ RunRow("advance", from, to) \in [at : RunAt, from : 0..MaxMessages, to : 0..MaxMessages]
        /\ RunRow("advance", from, to).at = "advance" /\ RunRow("advance", from, to).from = from
        /\ RunRow("advance", from, to).to = to
    BY DEF RunRow, RunAt
  <2>3. reflector'[r] = RunRow("advance", from, to) /\ \A o \in Reflector \ {r} : reflector'[o] = reflector[o]
    BY <1>r, <2>1
  <2>4. (from + 1)..to \subseteq 1..MaxMessages
    BY <1>c, <2>1
  <2>5. ConsolidationTypeOK'
    BY <2>1, <2>2, <2>4 DEF ConsolidationInv, ConsolidationTypeOK
  <2>6. SpansMeet' /\ CursorsOK' /\ DerivedOK'
    BY <2>1 DEF ConsolidationInv, SpansMeet, CursorsOK, DerivedOK
  <2>7. \A o \in Reflector \ {r} : RunOK(reflector[o])'
    BY <1>c, <2>1, <2>3, RowsGrow
  <2>8. RunOK(reflector[r])'
    BY <2>1, <2>2, <2>3 DEF RunOK
  <2> QED
    BY <2>5, <2>6, <2>7, <2>8 DEF ConsolidationInv
<1>14. ASSUME NEW r \in Reflector, AdvancesFacts(r) PROVE ConsolidationInv'
  <2>a. PICK from \in 0..MaxMessages, to \in 0..MaxMessages : from = reflector[r].from /\ to = reflector[r].to
    BY <1>r
  <2>1. /\ cursors' = Advanced("facts", to) /\ PassTo(r, "understand")
        /\ from <= cursors["facts"] /\ from < to /\ to <= messages /\ (from + 1)..to \subseteq believed
        /\ UNCHANGED <<messages, stamina, due, spans, believed, reflectFaults, reflectOverlaps>>
    BY <1>14, <1>r, <2>a DEF AdvancesFacts, RunOK
  <2>2. CASE ~(cursors["facts"] <= to)
    <3>1. UNCHANGED cursors
      BY <2>1, <2>2 DEF Advanced
    <3> QED
      BY <1>3, <1>r, <2>1, <3>1
  <2>3. CASE cursors["facts"] <= to
    <3>1. \A d \in Cursor : cursors'[d] = IF d = "facts" THEN to ELSE cursors[d]
      BY <1>c, <2>1, <2>3 DEF Advanced
    <3>2. /\ cursors' \in [Cursor -> 0..MaxMessages] /\ \A d \in Cursor : cursors[d] <= cursors'[d]
          /\ \A d \in Cursor : cursors'[d] <= messages
      BY <1>c, <2>1, <2>3, <3>1 DEF Advanced
    <3>3. /\ cursors'["episodes"] = cursors["episodes"] /\ cursors'["facts"] = to
          /\ cursors'["persona"] = cursors["persona"] /\ cursors'["model"] = cursors["model"]
      BY <1>c, <3>1
    <3>4. SpansMeet'
      BY <2>1, <3>3 DEF ConsolidationInv, SpansMeet
    <3>5. DerivedOK'
      BY <1>c, <2>3, <3>3 DEF ConsolidationInv, DerivedOK
    <3>6. 1..cursors'["facts"] \subseteq believed
      <4>1. 1..cursors["facts"] \subseteq believed
        BY DEF ConsolidationInv, CursorsOK
      <4>2. ASSUME NEW i \in 1..to PROVE i \in believed
        <5>1. i \in 1..cursors["facts"] \/ i \in (from + 1)..to
          BY <1>c, <2>1
        <5> QED
          BY <2>1, <4>1, <5>1
      <4> QED
        BY <3>3, <4>2
    <3>7. spans' \in Seq((1..MaxMessages) \X (1..MaxMessages))
      BY <2>1 DEF ConsolidationInv, ConsolidationTypeOK
    <3> QED
      BY <1>8, <2>1, <3>2, <3>4, <3>5, <3>6, <3>7
  <2> QED
    BY <2>2, <2>3
<1>15. ASSUME NEW r \in Reflector, RunFinishes(r) PROVE ConsolidationInv'
  BY <1>3, <1>15, <1>r DEF RunFinishes
<1>16. ASSUME NEW r \in Reflector, PassFails(r) PROVE ConsolidationInv'
  <2>1. AfterFailure(reflector[r].at) \in {"beliefs", "understand", "finish"}
    BY DEF AfterFailure
  <2>2. /\ PassTo(r, AfterFailure(reflector[r].at)) /\ reflectFaults' \in 0..MaxReflectFaults
        /\ UNCHANGED <<messages, cursors, stamina, due, spans, believed, reflectOverlaps>>
    BY <1>16, <1>r DEF PassFails
  <2> QED
    BY <1>3, <1>r, <2>1, <2>2
<1>17. ASSUME NEW r \in Reflector, ReflectorDies(r) PROVE ConsolidationInv'
  <2>1. /\ PassTo(r, "idle") /\ reflectFaults' \in 0..MaxReflectFaults
        /\ UNCHANGED <<messages, cursors, stamina, due, spans, believed, reflectOverlaps>>
    BY <1>17, <1>r DEF ReflectorDies
  <2> QED
    BY <1>3, <1>r, <2>1
<1>18. CASE UNCHANGED consolidationVars
  BY <1>18
     DEF consolidationVars, ConsolidationInv, ConsolidationTypeOK, SpansMeet, CursorsOK, DerivedOK,
         RunOK
<1> QED
  BY <1>1, <1>2, <1>5, <1>6, <1>7, <1>9, <1>10, <1>11, <1>12, <1>13, <1>14, <1>15, <1>16, <1>17,
     <1>18
  DEF ConsolidationNext, Reflects

\* The transcript, the cursors and the runs keep their types.
THEOREM ConsolidationTypeCorrect == ConsolidationSpec => []ConsolidationTypeOK
<1>1. ConsolidationInv => ConsolidationTypeOK
  BY DEF ConsolidationInv
<1> QED
  BY <1>1, ConsolidationInitOK, ConsolidationStep, PTL DEF ConsolidationSpec

\* No turn is passed over, whatever overlaps, fails or dies
\* (consolidation-service.ts, episodic-store.ts appendEpisodes).
THEOREM NothingForgottenHolds == ConsolidationSpec => []NothingForgotten
<1>1. ConsolidationInv => NothingForgotten
  BY CursorsTyped DEF ConsolidationInv, CursorsOK, DerivedOK, NothingForgotten
<1> QED
  BY <1>1, ConsolidationInitOK, ConsolidationStep, PTL DEF ConsolidationSpec

-----------------------------------------------------------------------------
(* Ingestion: a read is announced once *)

\* The runs of source s at one of the places given.
IngestRuns(s, places) == {r \in Ingester : ingester[r].source = s /\ ingester[r].at \in places}

RunCount(s, places) == Cardinality(IngestRuns(s, places))

\* Where a run may still announce an outcome.
Announcers == {"bytes", "begin", "wallet", "announce", "sorry"} \cup Stage

\* Where it will, and writes nothing to the row before that would stop the
\* next run from announcing another.
Committed == {"announce", "sorry"} \cup Stage

Told(s) == notices[s]["done"] + notices[s]["failed"]

Excused(s) == ingestOverlaps + missed[s]

\* A run that reads this row will work on it.
StillOpen(s) == row[s] \in {"none", "accepted", "queued", "deferred"}

\* The row will send off whoever reads it, and no run can change that.
Closed(s) == ~StillOpen(s) /\ RunCount(s, Announcers) = 0 /\ RunCount(s, {"done"}) = 0

\* Each outcome told or yet to be told is the one of the source or excused;
\* the runs still to read the row count while it may let them through.
BudgetOK(s) ==
  /\ Told(s) + RunCount(s, Announcers) <= 1 + Excused(s)
  /\ Closed(s) => Told(s) + RunCount(s, {"context"}) <= 2 + Excused(s)
  /\ ~Closed(s) => Told(s) + RunCount(s, Announcers) + RunCount(s, {"context"}) <= 1 + Excused(s)
  /\ StillOpen(s) => Told(s) + RunCount(s, Committed) <= Excused(s)

DoneTold(s) == row[s] = "done" \/ RunCount(s, {"done"}) > 0 => notices[s]["done"] > 0

IngestionInv == IngestionTypeOK /\ \A s \in Source : BudgetOK(s) /\ DoneTold(s)

LEMMA RunCountNat == ASSUME NEW s, NEW P PROVE IsFiniteSet(IngestRuns(s, P)) /\ RunCount(s, P) \in Nat
<1>1. IngestRuns(s, P) \in SUBSET Ingester
  BY DEF IngestRuns
<1> QED
  BY <1>1, IngestionConstants, FS_Subset, FS_CardinalityType DEF RunCount

LEMMA Numbers ==
  ASSUME IngestionTypeOK, NEW s \in Source
  PROVE  /\ Told(s) \in Nat /\ Excused(s) \in Nat /\ notices[s]["done"] \in Nat /\ notices[s]["failed"] \in Nat
         /\ missed[s] \in Nat /\ ingestOverlaps \in Nat
BY IngestionConstants DEF IngestionTypeOK, Told, Excused, Terminal

\* Whether a run is one of those counted.
Here(run, s, P) == IF run.source = s /\ run.at \in P THEN 1 ELSE 0

\* One run moves: the counts change by it.
LEMMA RunsMove ==
  ASSUME NEW r \in Ingester, \A o \in Ingester \ {r} : ingester'[o] = ingester[o], NEW s, NEW P
  PROVE  /\ RunCount(s, P) \in Nat /\ RunCount(s, P)' \in Nat
         /\ RunCount(s, P)' = RunCount(s, P) + Here(ingester'[r], s, P) - Here(ingester[r], s, P)
         /\ RunCount(s, P) >= Here(ingester[r], s, P) /\ RunCount(s, P)' >= Here(ingester'[r], s, P)
<1> DEFINE others == IngestRuns(s, P) \ {r}
<1>1. others = IngestRuns(s, P)' \ {r}
  BY DEF IngestRuns
<1>2. IsFiniteSet(others) /\ Cardinality(others) \in Nat /\ r \notin others
  BY RunCountNat, FS_RemoveElement, FS_CardinalityType
<1>3. IngestRuns(s, P) = IF Here(ingester[r], s, P) = 1 THEN others \cup {r} ELSE others
  BY DEF IngestRuns, Here
<1>4. IngestRuns(s, P)' = IF Here(ingester'[r], s, P) = 1 THEN others \cup {r} ELSE others
  BY <1>1 DEF IngestRuns, Here
<1>5. Cardinality(others \cup {r}) = Cardinality(others) + 1
  BY <1>2, FS_AddElement
<1>6. Here(ingester[r], s, P) \in {0, 1} /\ Here(ingester'[r], s, P) \in {0, 1}
  BY DEF Here
<1> HIDE DEF others
<1>7. RunCount(s, P) = Cardinality(others) + Here(ingester[r], s, P)
  BY <1>2, <1>3, <1>5, <1>6 DEF RunCount
<1>8. RunCount(s, P)' = Cardinality(others) + Here(ingester'[r], s, P)
  BY <1>2, <1>4, <1>5, <1>6 DEF RunCount
<1> QED
  BY <1>2, <1>6, <1>7, <1>8

LEMMA CommittedAreAnnouncers ==
  ASSUME NEW s
  PROVE  /\ RunCount(s, Committed) <= RunCount(s, Announcers)
         /\ RunCount(s, Committed)' <= RunCount(s, Announcers)'
<1>1. /\ IngestRuns(s, Committed) \subseteq IngestRuns(s, Announcers)
      /\ IngestRuns(s, Committed)' \subseteq IngestRuns(s, Announcers)'
  BY DEF IngestRuns, Committed, Announcers
<1>2. IsFiniteSet(IngestRuns(s, Announcers)) /\ IsFiniteSet(IngestRuns(s, Announcers)')
  <2>1. IngestRuns(s, Announcers) \in SUBSET Ingester /\ IngestRuns(s, Announcers)' \in SUBSET Ingester
    BY DEF IngestRuns
  <2> QED
    BY <2>1, IngestionConstants, FS_Subset
<1> QED
  BY <1>1, <1>2, FS_Subset DEF RunCount

LEMMA IngestionInitOK == IngestionInit => IngestionInv
<1> SUFFICES ASSUME IngestionInit PROVE IngestionInv
  OBVIOUS
<1>1. Vacant \in [at : IngesterAt, source : Source, resumes : BOOLEAN] /\ Vacant.at = "idle"
  BY IngestionConstants DEF Vacant, IngesterAt
<1>2. IngestionTypeOK
  <2>1. /\ row \in [Source -> RowStatus] /\ ingestJob \in [Source -> {"none", "upload", "resume"}]
        /\ notices \in [Source -> [Terminal -> Nat]] /\ missed \in [Source -> Nat] /\ thrown \subseteq Source
    BY DEF IngestionInit, RowStatus
  <2>2. staged \in [Source -> BOOLEAN] /\ drained \in BOOLEAN
    BY DEF IngestionInit
  <2>3. ingester \in [Ingester -> [at : IngesterAt, source : Source, resumes : BOOLEAN]]
    BY <1>1 DEF IngestionInit
  <2>4. ingestFaults \in 0..MaxIngestFaults /\ ingestOverlaps \in 0..MaxIngestOverlaps
    BY IngestionConstants DEF IngestionInit
  <2> QED
    BY <2>1, <2>2, <2>3, <2>4 DEF IngestionTypeOK
<1>3. \A s, P : "idle" \notin P => RunCount(s, P) = 0
  <2>1. \A s, P : "idle" \notin P => IngestRuns(s, P) = {}
    BY <1>1 DEF IngestionInit, IngestRuns
  <2> QED
    BY <2>1, FS_EmptySet DEF RunCount
<1>4. \A s : /\ RunCount(s, Announcers) = 0 /\ RunCount(s, Committed) = 0
             /\ RunCount(s, {"context"}) = 0 /\ RunCount(s, {"done"}) = 0
  <2>1. "idle" \notin Announcers /\ "idle" \notin Committed /\ "idle" \notin {"context"} /\ "idle" \notin {"done"}
    BY DEF Announcers, Committed, Stage
  <2> QED
    BY <1>3, <2>1
<1>5. ASSUME NEW s \in Source PROVE BudgetOK(s) /\ DoneTold(s)
  <2>1. Told(s) = 0 /\ Excused(s) = 0 /\ row[s] = "none"
    BY DEF IngestionInit, Told, Excused, Terminal
  <2> QED
    BY <1>4, <2>1 DEF BudgetOK, DoneTold
<1> QED
  BY <1>2, <1>5 DEF IngestionInv

\* A source of which less is going on, and nothing more was told, stays within
\* its budget.
LEMMA BudgetShrinks ==
  ASSUME NEW s \in Source, BudgetOK(s), DoneTold(s), IngestionTypeOK, IngestionTypeOK',
         StillOpen(s)' => StillOpen(s), row'[s] = "done" => row[s] = "done",
         notices'[s] = notices[s], Excused(s) <= Excused(s)',
         RunCount(s, Announcers)' <= RunCount(s, Announcers), RunCount(s, Committed)' <= RunCount(s, Committed),
         RunCount(s, {"context"})' <= RunCount(s, {"context"}), RunCount(s, {"done"})' <= RunCount(s, {"done"})
  PROVE  BudgetOK(s)' /\ DoneTold(s)'
<1>1. /\ Told(s)' = Told(s) /\ Told(s) \in Nat /\ Excused(s) \in Nat
      /\ \A P : RunCount(s, P) \in Nat
  BY Numbers, RunCountNat DEF Told
<1>2. Excused(s)' \in Nat
  BY Numbers, IngestionConstants DEF IngestionTypeOK, Excused
<1>3. \A P : RunCount(s, P)' \in Nat
  <2>1. \A P : IngestRuns(s, P)' \in SUBSET Ingester
    BY DEF IngestRuns
  <2> QED
    BY <2>1, IngestionConstants, FS_Subset, FS_CardinalityType DEF RunCount
<1>4. Closed(s) => Closed(s)'
  BY <1>1, <1>3 DEF Closed
<1>5. BudgetOK(s)'
  BY <1>1, <1>2, <1>3, <1>4 DEF BudgetOK
<1> QED
  BY <1>1, <1>3, <1>5 DEF DoneTold

\* A run moves at its source: the others keep within their budgets.
LEMMA OneMoves ==
  ASSUME IngestionInv, IngestionTypeOK', NEW r \in Ingester, NEW s \in Source,
         \A o \in Ingester \ {r} : ingester'[o] = ingester[o],
         ingester[r].source = s \/ ingester[r].at = "idle",
         ingester'[r].source = s \/ ingester'[r].at = "idle",
         \A t \in Source \ {s} : row'[t] = row[t] /\ notices'[t] = notices[t] /\ missed'[t] = missed[t],
         ingestOverlaps <= ingestOverlaps', BudgetOK(s)', DoneTold(s)'
  PROVE  IngestionInv'
<1>1. ASSUME NEW t \in Source \ {s} PROVE BudgetOK(t)' /\ DoneTold(t)'
  <2>1. /\ "idle" \notin Announcers /\ "idle" \notin Committed /\ "idle" \notin {"context"} /\ "idle" \notin {"done"}
    BY DEF Announcers, Committed, Stage
  <2>2. \A P : "idle" \notin P => RunCount(t, P)' = RunCount(t, P) /\ RunCount(t, P) \in Nat
    <3>1. ASSUME NEW P, "idle" \notin P PROVE RunCount(t, P)' = RunCount(t, P) /\ RunCount(t, P) \in Nat
      <4>1. Here(ingester'[r], t, P) = 0 /\ Here(ingester[r], t, P) = 0
        BY <3>1 DEF Here
      <4> QED
        BY <4>1, RunsMove
    <3> QED
      BY <3>1
  <2>3. /\ BudgetOK(t) /\ DoneTold(t) /\ Excused(t) <= Excused(t)' /\ (StillOpen(t)' => StillOpen(t))
        /\ row'[t] = row[t] /\ notices'[t] = notices[t] /\ t \in Source
    <3>1. missed[t] \in Nat /\ ingestOverlaps \in Nat /\ ingestOverlaps' \in Nat
      BY Numbers, IngestionConstants DEF IngestionInv, IngestionTypeOK
    <3> QED
      BY <3>1 DEF IngestionInv, Excused, StillOpen
  <2>4. /\ RunCount(t, Announcers)' <= RunCount(t, Announcers) /\ RunCount(t, Committed)' <= RunCount(t, Committed)
        /\ RunCount(t, {"context"})' <= RunCount(t, {"context"}) /\ RunCount(t, {"done"})' <= RunCount(t, {"done"})
    BY <2>1, <2>2
  <2> QED
    BY <2>3, <2>4, BudgetShrinks DEF IngestionInv
<1> QED
  BY <1>1 DEF IngestionInv

\* Whether a place is one of those counted.
In(at, P) == IF at \in P THEN 1 ELSE 0

CountedAt == {Announcers, Committed, {"context"}, {"done"}}

\* A run of source s, or an idle node taking it up, becomes run.
\* The counts of source s change as by a run that goes from place p to place q.
Moved(s, p, q) ==
  \A P \in CountedAt : /\ RunCount(s, P) \in Nat /\ RunCount(s, P)' \in Nat
                     /\ RunCount(s, P)' = RunCount(s, P) + In(q, P) - In(p, P)
                     /\ RunCount(s, P) >= In(p, P) /\ RunCount(s, P)' >= In(q, P)

LEMMA RunSteps ==
  ASSUME IngestionTypeOK, NEW r \in Ingester, NEW s \in Source, NEW p, ingester[r].at = p,
         NEW run \in [at : IngesterAt, source : Source, resumes : BOOLEAN],
         ingester' = [ingester EXCEPT ![r] = run],
         ingester[r].source = s \/ ingester[r].at = "idle", run.source = s \/ run.at = "idle"
  PROVE  /\ ingester' \in [Ingester -> [at : IngesterAt, source : Source, resumes : BOOLEAN]]
         /\ ingester'[r] = run /\ (\A o \in Ingester \ {r} : ingester'[o] = ingester[o])
         /\ Moved(s, p, run.at)
<1>1. /\ ingester' \in [Ingester -> [at : IngesterAt, source : Source, resumes : BOOLEAN]]
      /\ ingester'[r] = run /\ \A o \in Ingester \ {r} : ingester'[o] = ingester[o]
  BY DEF IngestionTypeOK
<1>2. ASSUME NEW P \in CountedAt
      PROVE  /\ RunCount(s, P) \in Nat /\ RunCount(s, P)' \in Nat
             /\ RunCount(s, P)' = RunCount(s, P) + In(run.at, P) - In(p, P)
             /\ RunCount(s, P) >= In(p, P)
             /\ RunCount(s, P)' >= In(run.at, P)
  <2>1. "idle" \notin P
    BY DEF CountedAt, Announcers, Committed, Stage
  <2>2. Here(ingester[r], s, P) = In(p, P) /\ Here(ingester'[r], s, P) = In(run.at, P)
    BY <1>1, <2>1 DEF Here, In
  <2> QED
    BY <1>1, <2>2, RunsMove
<1> QED
  BY <1>1, <1>2 DEF Moved

LEMMA CountsMove ==
  ASSUME NEW s \in Source, NEW p, NEW q, Moved(s, p, q)
  PROVE  /\ RunCount(s, Announcers) \in Nat /\ RunCount(s, Announcers)' \in Nat
         /\ RunCount(s, Announcers)' = RunCount(s, Announcers) + In(q, Announcers) - In(p, Announcers)
         /\ RunCount(s, Announcers) >= In(p, Announcers) /\ RunCount(s, Announcers)' >= In(q, Announcers)
         /\ RunCount(s, Committed) \in Nat /\ RunCount(s, Committed)' \in Nat
         /\ RunCount(s, Committed)' = RunCount(s, Committed) + In(q, Committed) - In(p, Committed)
         /\ RunCount(s, {"context"}) \in Nat /\ RunCount(s, {"context"})' \in Nat
         /\ RunCount(s, {"context"})' = RunCount(s, {"context"}) + In(q, {"context"}) - In(p, {"context"})
         /\ RunCount(s, {"done"}) \in Nat /\ RunCount(s, {"done"})' \in Nat
         /\ RunCount(s, {"done"})' = RunCount(s, {"done"}) + In(q, {"done"}) - In(p, {"done"})
         /\ RunCount(s, {"done"}) >= In(p, {"done"}) /\ RunCount(s, {"done"})' >= In(q, {"done"})
<1>1. Announcers \in CountedAt /\ Committed \in CountedAt /\ {"context"} \in CountedAt /\ {"done"} \in CountedAt
  BY DEF CountedAt
<1> QED
  BY <1>1 DEF Moved

\* A run that goes from place p to place q counts no more than before.
Winds(p, q) == \A P \in CountedAt : In(q, P) <= In(p, P)

\* A run at p of source s moves on to q, and neither more is told nor does the
\* row open: it may not come to count more.
LEMMA RunWinds ==
  ASSUME IngestionInv, IngestionTypeOK', NEW r \in Ingester, NEW s \in Source,
         NEW run \in [at : IngesterAt, source : Source, resumes : BOOLEAN],
         ingester' = [ingester EXCEPT ![r] = run],
         ingester[r].source = s, run.source = s \/ run.at = "idle",
         NEW p, NEW q, ingester[r].at = p, run.at = q, Winds(p, q),
         row' = row, notices' = notices, missed' = missed, ingestOverlaps' = ingestOverlaps
  PROVE  IngestionInv'
<1>1. IngestionTypeOK /\ BudgetOK(s) /\ DoneTold(s)
  BY DEF IngestionInv
<1>2. (\A o \in Ingester \ {r} : ingester'[o] = ingester[o]) /\ ingester'[r] = run /\ Moved(s, p, q)
  BY <1>1, RunSteps
<1>3. \A P \in CountedAt : RunCount(s, P)' <= RunCount(s, P)
  <2>1. \A P \in CountedAt : In(q, P) \in {0, 1} /\ In(p, P) \in {0, 1} /\ In(q, P) <= In(p, P)
    BY DEF In, Winds
  <2> QED
    BY <1>2, <2>1 DEF Moved
<1>4. /\ RunCount(s, Announcers)' <= RunCount(s, Announcers) /\ RunCount(s, Committed)' <= RunCount(s, Committed)
      /\ RunCount(s, {"context"})' <= RunCount(s, {"context"}) /\ RunCount(s, {"done"})' <= RunCount(s, {"done"})
  BY <1>3 DEF CountedAt
<1>5. /\ Excused(s) <= Excused(s)' /\ (StillOpen(s)' => StillOpen(s)) /\ ingestOverlaps <= ingestOverlaps'
  <2>1. missed[s] \in Nat /\ ingestOverlaps \in Nat /\ missed'[s] \in Nat
    BY <1>1, Numbers, IngestionConstants DEF IngestionTypeOK
  <2> QED
    BY <2>1 DEF Excused, StillOpen
<1>6. BudgetOK(s)' /\ DoneTold(s)'
  BY <1>1, <1>4, <1>5, BudgetShrinks
<1>7. row'[s] = row[s] /\ \A t \in Source \ {s} : row'[t] = row[t] /\ notices'[t] = notices[t] /\ missed'[t] = missed[t]
  OBVIOUS
<1>8. /\ ingester[r].source = s \/ ingester[r].at = "idle"
      /\ ingester'[r].source = s \/ ingester'[r].at = "idle"
  BY <1>2
<1> QED
  BY <1>2, <1>5, <1>6, <1>7, <1>8, OneMoves

LEMMA RunTyped ==
  ASSUME IngestionTypeOK, NEW r \in Ingester
  PROVE  /\ ingester[r] \in [at : IngesterAt, source : Source, resumes : BOOLEAN]
         /\ ingester[r].source \in Source /\ ingester[r].at \in IngesterAt
         /\ row[ingester[r].source] \in RowStatus
BY DEF IngestionTypeOK

LEMMA VacantTyped == Vacant \in [at : IngesterAt, source : Source, resumes : BOOLEAN] /\ Vacant.at = "idle"
BY IngestionConstants DEF Vacant, IngesterAt

\* [ingester EXCEPT ![r].at = q] makes the run the record with q in it.
LEMMA MovedRun ==
  ASSUME IngestionTypeOK, NEW r \in Ingester, NEW q \in IngesterAt, MovesTo(r, q)
  PROVE  \E run \in [at : IngesterAt, source : Source, resumes : BOOLEAN] :
           ingester' = [ingester EXCEPT ![r] = run] /\ run.at = q /\ run.source = ingester[r].source
<1> DEFINE run == [ingester[r] EXCEPT !.at = q]
<1>1. run \in [at : IngesterAt, source : Source, resumes : BOOLEAN] /\ run.at = q /\ run.source = ingester[r].source
  BY RunTyped
<1>2. ingester' = [ingester EXCEPT ![r] = run]
  BY DEF MovesTo, IngestionTypeOK
<1> QED
  BY <1>1, <1>2

\* The steps after which a run has no more to tell than before, and which
\* leave the rows alone.
LEMMA WindingStep ==
  ASSUME IngestionInv, NEW r \in Ingester,
         \/ ReadsBytes(r) \/ StageEnds(r) \/ StageFails(r) \/ Discards(r)
         \/ JobMarked(r) \/ HandlerThrows(r) \/ IngesterDies(r)
  PROVE  IngestionInv'
<1>a. IngestionTypeOK
  BY DEF IngestionInv
<1>0. PICK s \in Source : s = ingester[r].source
  BY <1>a, RunTyped
<1>b. PICK p : p = ingester[r].at
  OBVIOUS
<1>1. CASE ReadsBytes(r)
  <2>1. PICK q \in {"begin", "refuse"} : MovesTo(r, q)
    BY <1>1 DEF ReadsBytes
  <2>2. q \in IngesterAt /\ Winds(p, q)
    BY <1>b, <1>1 DEF ReadsBytes, IngesterAt, Winds, CountedAt, In, Announcers, Committed, Stage
  <2>3. PICK run \in [at : IngesterAt, source : Source, resumes : BOOLEAN] :
          ingester' = [ingester EXCEPT ![r] = run] /\ run.at = q /\ run.source = s
    BY <1>0, <2>1, <2>2, <1>a, MovedRun
  <2>4. IngestionTypeOK'
    BY <1>0, <1>1, <2>3, <1>a, RunSteps DEF ReadsBytes, IngestionTypeOK
  <2>5. UNCHANGED <<row, notices, missed, ingestOverlaps>>
    BY <1>1 DEF ReadsBytes
  <2> QED
    BY <1>0, <1>b, <2>2, <2>3, <2>4, <2>5, RunWinds
<1>2. CASE StageEnds(r)
  <2>1. PICK q :
          /\ q \in {"wallet", "announce"} /\ MovesTo(r, q)
          /\ \/ q = "wallet" /\ ingester[r].at = "parsing"
             \/ q = "announce" /\ ingester[r].at = "embedding"
    <3>1. ingester[r].at \in {"parsing", "embedding"}
      BY <1>2 DEF StageEnds
    <3>2. CASE ingester[r].at = "parsing"
      <4>1. MovesTo(r, "wallet")
        BY <1>2, <3>2 DEF StageEnds
      <4> QED
        BY <3>2, <4>1
    <3>3. CASE ingester[r].at = "embedding"
      <4>1. MovesTo(r, "announce")
        BY <1>2, <3>3 DEF StageEnds
      <4> QED
        BY <3>3, <4>1
    <3> QED
      BY <3>1, <3>2, <3>3
  <2>2. q \in IngesterAt /\ Winds(p, q)
    BY <1>b, <2>1 DEF IngesterAt, Winds, CountedAt, In, Announcers, Committed, Stage
  <2>3. PICK run \in [at : IngesterAt, source : Source, resumes : BOOLEAN] :
          ingester' = [ingester EXCEPT ![r] = run] /\ run.at = q /\ run.source = s
    BY <1>0, <2>1, <2>2, <1>a, MovedRun
  <2>4. IngestionTypeOK'
    BY <1>0, <1>2, <2>3, <1>a, RunSteps DEF StageEnds, IngestionTypeOK
  <2>5. UNCHANGED <<row, notices, missed, ingestOverlaps>>
    BY <1>2 DEF StageEnds
  <2> QED
    BY <1>0, <1>b, <2>2, <2>3, <2>4, <2>5, RunWinds
<1>3. CASE StageFails(r)
  <2>1. MovesTo(r, "sorry") /\ ingester[r].at \in Stage
    BY <1>3 DEF StageFails
  <2>2. "sorry" \in IngesterAt /\ Winds(p, "sorry")
    BY <1>b, <2>1 DEF IngesterAt, Winds, CountedAt, In, Announcers, Committed, Stage
  <2>3. PICK run \in [at : IngesterAt, source : Source, resumes : BOOLEAN] :
          ingester' = [ingester EXCEPT ![r] = run] /\ run.at = "sorry" /\ run.source = s
    BY <1>0, <2>1, <2>2, <1>a, MovedRun
  <2>4. IngestionTypeOK'
    BY <1>0, <1>3, <2>3, <1>a, RunSteps DEF StageFails, IngestionTypeOK
  <2>5. UNCHANGED <<row, notices, missed, ingestOverlaps>>
    BY <1>3 DEF StageFails
  <2> QED
    BY <1>0, <1>b, <2>2, <2>3, <2>4, <2>5, RunWinds
<1>4. CASE Discards(r)
  <2>1. MovesTo(r, "mark") /\ ingester[r].at = "discard"
    BY <1>4 DEF Discards
  <2>2. "mark" \in IngesterAt /\ Winds(p, "mark")
    BY <1>b, <2>1 DEF IngesterAt, Winds, CountedAt, In, Announcers, Committed, Stage
  <2>3. PICK run \in [at : IngesterAt, source : Source, resumes : BOOLEAN] :
          ingester' = [ingester EXCEPT ![r] = run] /\ run.at = "mark" /\ run.source = s
    BY <1>0, <2>1, <2>2, <1>a, MovedRun
  <2>4. IngestionTypeOK'
    <3>1. staged' \in [Source -> BOOLEAN]
      BY <1>4, <1>a DEF Discards, IngestionTypeOK
    <3> QED
      BY <1>0, <1>4, <2>3, <3>1, <1>a, RunSteps DEF Discards, IngestionTypeOK
  <2>5. UNCHANGED <<row, notices, missed, ingestOverlaps>>
    BY <1>4 DEF Discards
  <2> QED
    BY <1>0, <1>b, <2>2, <2>3, <2>4, <2>5, RunWinds
<1>5. CASE JobMarked(r)
  <2>1. ingester' = [ingester EXCEPT ![r] = Vacant]
    BY <1>5 DEF JobMarked
  <2>2. Winds(p, Vacant.at)
    BY <1>b, VacantTyped DEF Winds, CountedAt, In, Announcers, Committed, Stage
  <2>3. IngestionTypeOK'
    <3>1. ingestJob' \in [Source -> {"none", "upload", "resume"}]
      BY <1>5, <1>a DEF JobMarked, IngestionTypeOK
    <3> QED
      BY <1>0, <1>5, <2>1, <3>1, VacantTyped, <1>a, RunSteps DEF JobMarked, IngestionTypeOK
  <2>4. UNCHANGED <<row, notices, missed, ingestOverlaps>>
    BY <1>5 DEF JobMarked
  <2> QED
    BY <1>0, <1>b, <2>1, <2>2, <2>3, <2>4, VacantTyped, RunWinds
<1>6. CASE HandlerThrows(r)
  <2>1. PICK q \in {"discard", "mark"} : MovesTo(r, q)
    BY <1>6 DEF HandlerThrows
  <2>2. q \in IngesterAt /\ Winds(p, q)
    BY <1>b DEF IngesterAt, Winds, CountedAt, In, Announcers, Committed, Stage
  <2>3. PICK run \in [at : IngesterAt, source : Source, resumes : BOOLEAN] :
          ingester' = [ingester EXCEPT ![r] = run] /\ run.at = q /\ run.source = s
    BY <1>0, <2>1, <2>2, <1>a, MovedRun
  <2>4. IngestionTypeOK'
    <3>1. thrown' \subseteq Source /\ ingestFaults' \in 0..MaxIngestFaults
      BY <1>0, <1>6, <1>a, IngestionConstants DEF HandlerThrows, Fault, IngestionTypeOK
    <3> QED
      BY <1>0, <1>6, <2>3, <3>1, <1>a, RunSteps DEF HandlerThrows, IngestionTypeOK
  <2>5. UNCHANGED <<row, notices, missed, ingestOverlaps>>
    BY <1>6 DEF HandlerThrows
  <2> QED
    BY <1>0, <1>b, <2>2, <2>3, <2>4, <2>5, RunWinds
<1>7. CASE IngesterDies(r)
  <2>1. ingester' = [ingester EXCEPT ![r] = Vacant]
    BY <1>7 DEF IngesterDies
  <2>2. Winds(p, Vacant.at)
    BY <1>b, VacantTyped DEF Winds, CountedAt, In, Announcers, Committed, Stage
  <2>3. IngestionTypeOK'
    <3>1. ingestFaults' \in 0..MaxIngestFaults
      BY <1>7, <1>a, IngestionConstants DEF IngesterDies, Fault, IngestionTypeOK
    <3> QED
      BY <1>0, <1>7, <2>1, <3>1, VacantTyped, <1>a, RunSteps DEF IngesterDies, IngestionTypeOK
  <2>4. UNCHANGED <<row, notices, missed, ingestOverlaps>>
    BY <1>7 DEF IngesterDies
  <2> QED
    BY <1>0, <1>b, <2>1, <2>2, <2>3, <2>4, VacantTyped, RunWinds
<1> QED
  BY <1>1, <1>2, <1>3, <1>4, <1>5, <1>6, <1>7

LEMMA RowUpdated ==
  ASSUME IngestionTypeOK, NEW s \in Source, NEW st \in RowStatus, UpdateJob(s, st)
  PROVE  /\ row' \in [Source -> RowStatus]
         /\ row'[s] = IF row[s] = "gone" THEN "gone" ELSE st
         /\ \A t \in Source \ {s} : row'[t] = row[t]
BY DEF IngestionTypeOK, UpdateJob

\* A run of source s goes from place p to place q: what a step must show of its
\* source.
LEMMA StepKeeps ==
  ASSUME IngestionInv, IngestionTypeOK', NEW r \in Ingester, NEW s \in Source, NEW p, NEW q,
         NEW run \in [at : IngesterAt, source : Source, resumes : BOOLEAN],
         ingester' = [ingester EXCEPT ![r] = run], run.source = s, run.at = q,
         ingester[r].source = s \/ ingester[r].at = "idle", ingester[r].at = p,
         \A t \in Source \ {s} : row'[t] = row[t] /\ notices'[t] = notices[t] /\ missed'[t] = missed[t],
         ingestOverlaps <= ingestOverlaps',
         Moved(s, p, q) => BudgetOK(s)' /\ DoneTold(s)'
  PROVE  IngestionInv'
<1>1. IngestionTypeOK
  BY DEF IngestionInv
<1>2. (\A o \in Ingester \ {r} : ingester'[o] = ingester[o]) /\ ingester'[r] = run /\ Moved(s, p, q)
  BY <1>1, RunSteps
<1>3. BudgetOK(s)' /\ DoneTold(s)'
  BY <1>2
<1>4. /\ ingester[r].source = s \/ ingester[r].at = "idle"
      /\ ingester'[r].source = s \/ ingester'[r].at = "idle"
  BY <1>2
<1> QED
  BY <1>2, <1>3, <1>4, OneMoves

\* The handler writes failed over a row it will not read.
LEMMA RefusesStep == ASSUME IngestionInv, NEW r \in Ingester, Refuses(r) PROVE IngestionInv'
<1>1. IngestionTypeOK
  BY DEF IngestionInv
<1>2. PICK s \in Source : s = ingester[r].source
  BY <1>1, RunTyped
<1>3. ingester[r].at = "refuse" /\ UpdateJob(s, "failed") /\ MovesTo(r, "mark")
      /\ UNCHANGED <<ingestJob, staged, drained, notices, missed, thrown, ingestFaults, ingestOverlaps>>
  BY <1>2 DEF Refuses
<1>4. "mark" \in IngesterAt /\ "failed" \in RowStatus
  BY DEF IngesterAt, RowStatus, Terminal
<1>5. PICK run \in [at : IngesterAt, source : Source, resumes : BOOLEAN] :
        ingester' = [ingester EXCEPT ![r] = run] /\ run.at = "mark" /\ run.source = s
  BY <1>1, <1>2, <1>3, <1>4, MovedRun
<1>6. /\ row' \in [Source -> RowStatus] /\ row'[s] \in {"gone", "failed"} /\ (row'[s] = "gone" => row[s] = "gone")
      /\ \A t \in Source \ {s} : row'[t] = row[t]
  BY <1>1, <1>3, <1>4, RowUpdated
<1>7. IngestionTypeOK'
  BY <1>1, <1>2, <1>3, <1>5, <1>6, RunSteps DEF IngestionTypeOK
<1>8. ASSUME Moved(s, "refuse", "mark") PROVE BudgetOK(s)' /\ DoneTold(s)'
  <2>1. /\ In("refuse", Announcers) = 0 /\ In("refuse", Committed) = 0
        /\ In("refuse", {"context"}) = 0 /\ In("refuse", {"done"}) = 0
        /\ In("mark", Announcers) = 0 /\ In("mark", Committed) = 0
        /\ In("mark", {"context"}) = 0 /\ In("mark", {"done"}) = 0
    BY DEF In, Announcers, Committed, Stage
  <2>2. BudgetOK(s) /\ DoneTold(s) /\ Told(s)' = Told(s) /\ Excused(s)' = Excused(s)
    BY <1>3 DEF IngestionInv, Told, Excused
  <2>3. Told(s) \in Nat /\ Excused(s) \in Nat /\ notices' = notices
    BY <1>1, <1>3, Numbers
  <2>4. /\ RunCount(s, Announcers) \in Nat /\ RunCount(s, Announcers)' = RunCount(s, Announcers)
        /\ RunCount(s, Committed) \in Nat /\ RunCount(s, Committed)' = RunCount(s, Committed)
        /\ RunCount(s, {"context"}) \in Nat /\ RunCount(s, {"context"})' = RunCount(s, {"context"})
        /\ RunCount(s, {"done"}) \in Nat /\ RunCount(s, {"done"})' = RunCount(s, {"done"})
    BY <1>8, <2>1, CountsMove
  <2>5. ~StillOpen(s)' /\ row'[s] # "done"
    BY <1>6 DEF StillOpen
  <2>6. BudgetOK(s)'
    BY <2>2, <2>3, <2>4, <2>5 DEF BudgetOK, Closed
  <2> QED
    BY <2>2, <2>3, <2>4, <2>5, <2>6 DEF DoneTold
<1>9. \A t \in Source \ {s} : row'[t] = row[t] /\ notices'[t] = notices[t] /\ missed'[t] = missed[t]
  BY <1>3, <1>6
<1>10. ingestOverlaps <= ingestOverlaps'
  BY <1>1, <1>3, Numbers
<1> QED
  BY ZenonT(30), <1>2, <1>3, <1>5, <1>7, <1>8, <1>9, <1>10, StepKeeps

\* The pipeline records a stage and works on it.
LEMMA StageBeginsStep == ASSUME IngestionInv, NEW r \in Ingester, StageBegins(r) PROVE IngestionInv'
<1>1. IngestionTypeOK
  BY DEF IngestionInv
<1>2. PICK s \in Source : s = ingester[r].source
  BY <1>1, RunTyped
<1>p. PICK p : p = ingester[r].at
  OBVIOUS
<1>q. PICK q : q = NextStage(p)
  OBVIOUS
<1>3. /\ p \in {"begin", "segmenting", "enriching"} /\ UpdateJob(s, q) /\ MovesTo(r, q)
      /\ UNCHANGED <<ingestJob, staged, drained, notices, missed, thrown, ingestFaults, ingestOverlaps>>
  BY <1>2, <1>p, <1>q DEF StageBegins
<1>4. q \in IngesterAt /\ q \in RowStatus /\ q \in {"parsing", "enriching", "embedding"}
  BY <1>3, <1>q DEF IngesterAt, RowStatus, Stage, NextStage
<1>5. PICK run \in [at : IngesterAt, source : Source, resumes : BOOLEAN] :
        ingester' = [ingester EXCEPT ![r] = run] /\ run.at = q /\ run.source = s
  BY <1>1, <1>2, <1>3, <1>4, MovedRun
<1>6. /\ row' \in [Source -> RowStatus] /\ row'[s] \in {"gone", q} /\ (row'[s] = "gone" => row[s] = "gone")
      /\ \A t \in Source \ {s} : row'[t] = row[t]
  BY <1>1, <1>3, <1>4, RowUpdated
<1>7. IngestionTypeOK'
  BY <1>1, <1>2, <1>3, <1>5, <1>6, RunSteps DEF IngestionTypeOK
<1>8. ASSUME Moved(s, p, q) PROVE BudgetOK(s)' /\ DoneTold(s)'
  <2>1. /\ In(p, Announcers) = 1 /\ In(p, {"context"}) = 0 /\ In(p, {"done"}) = 0
        /\ In(q, Announcers) = 1 /\ In(q, {"context"}) = 0 /\ In(q, {"done"}) = 0
    BY <1>3, <1>4 DEF In, Announcers, Stage
  <2>2. BudgetOK(s) /\ DoneTold(s) /\ Told(s)' = Told(s) /\ Excused(s)' = Excused(s)
    BY <1>3 DEF IngestionInv, Told, Excused
  <2>3. Told(s) \in Nat /\ Excused(s) \in Nat /\ notices' = notices
    BY <1>1, <1>3, Numbers
  <2>4. /\ RunCount(s, Announcers) \in Nat /\ RunCount(s, Announcers)' = RunCount(s, Announcers)
        /\ RunCount(s, Announcers) >= 1
        /\ RunCount(s, {"context"}) \in Nat /\ RunCount(s, {"context"})' = RunCount(s, {"context"})
        /\ RunCount(s, {"done"}) \in Nat /\ RunCount(s, {"done"})' = RunCount(s, {"done"})
    BY <1>8, <2>1, CountsMove
  <2>5. ~StillOpen(s)' /\ row'[s] # "done"
    BY <1>4, <1>6 DEF StillOpen
  <2>6. BudgetOK(s)'
    BY <2>2, <2>3, <2>4, <2>5 DEF BudgetOK, Closed
  <2> QED
    BY <2>2, <2>3, <2>4, <2>5, <2>6 DEF DoneTold
<1>9. \A t \in Source \ {s} : row'[t] = row[t] /\ notices'[t] = notices[t] /\ missed'[t] = missed[t]
  BY <1>3, <1>6
<1>10. ingestOverlaps <= ingestOverlaps'
  BY <1>1, <1>3, Numbers
<1> QED
  BY ZenonT(30), <1>2, <1>p, <1>5, <1>7, <1>8, <1>9, <1>10, StepKeeps

\* The wallet lets a run through, or its row is deferred: then another run may
\* follow, and this one announces nothing.
LEMMA PassesWalletStep == ASSUME IngestionInv, NEW r \in Ingester, PassesWallet(r) PROVE IngestionInv'
<1>1. IngestionTypeOK
  BY DEF IngestionInv
<1>2. PICK s \in Source : s = ingester[r].source
  BY <1>1, RunTyped
<1>p. PICK p : p = "wallet"
  OBVIOUS
<1>q. PICK q : q = IF drained THEN "discard" ELSE "segmenting"
  OBVIOUS
<1>t. PICK st : st = IF drained THEN "deferred" ELSE "segmenting"
  OBVIOUS
<1>3. /\ ingester[r].at = "wallet" /\ UpdateJob(s, st) /\ MovesTo(r, q)
      /\ UNCHANGED <<ingestJob, staged, drained, notices, missed, thrown, ingestFaults, ingestOverlaps>>
  BY <1>2, <1>q, <1>t DEF PassesWallet
<1>4. /\ q \in IngesterAt /\ st \in RowStatus
      /\ \/ q = "discard" /\ st = "deferred"
         \/ q = "segmenting" /\ st = "segmenting"
  BY <1>q, <1>t DEF IngesterAt, RowStatus, Stage
<1>5. PICK run \in [at : IngesterAt, source : Source, resumes : BOOLEAN] :
        ingester' = [ingester EXCEPT ![r] = run] /\ run.at = q /\ run.source = s
  BY <1>1, <1>2, <1>3, <1>4, MovedRun
<1>6. /\ row' \in [Source -> RowStatus] /\ row'[s] \in {"gone", st} /\ (row'[s] = "gone" => row[s] = "gone")
      /\ \A t \in Source \ {s} : row'[t] = row[t]
  BY <1>1, <1>3, <1>4, RowUpdated
<1>7. IngestionTypeOK'
  BY <1>1, <1>2, <1>3, <1>5, <1>6, RunSteps DEF IngestionTypeOK
<1>8. ASSUME Moved(s, p, q) PROVE BudgetOK(s)' /\ DoneTold(s)'
  <2>1. /\ In("wallet", Announcers) = 1 /\ In("wallet", Committed) = 0
        /\ In("wallet", {"context"}) = 0 /\ In("wallet", {"done"}) = 0
        /\ In(q, {"context"}) = 0 /\ In(q, {"done"}) = 0
        /\ In(q, Announcers) \in {0, 1} /\ In(q, Committed) \in {0, 1}
    BY <1>4 DEF In, Announcers, Committed, Stage
  <2>2. BudgetOK(s) /\ DoneTold(s) /\ Told(s)' = Told(s) /\ Excused(s)' = Excused(s)
    BY <1>3 DEF IngestionInv, Told, Excused
  <2>3. Told(s) \in Nat /\ Excused(s) \in Nat /\ notices' = notices
    BY <1>1, <1>3, Numbers
  <2>4. /\ RunCount(s, Announcers) \in Nat /\ RunCount(s, Announcers)' \in Nat
        /\ RunCount(s, Announcers)' = RunCount(s, Announcers) + In(q, Announcers) - 1
        /\ RunCount(s, Announcers) >= 1
        /\ RunCount(s, Committed) \in Nat /\ RunCount(s, Committed)' = RunCount(s, Committed) + In(q, Committed)
        /\ RunCount(s, {"context"}) \in Nat /\ RunCount(s, {"context"})' = RunCount(s, {"context"})
        /\ RunCount(s, {"done"}) \in Nat /\ RunCount(s, {"done"})' = RunCount(s, {"done"})
    BY <1>8, <1>p, <2>1, CountsMove
  <2>5. CASE q = "segmenting"
    <3>1. In(q, Announcers) = 1
      BY <2>5 DEF In, Announcers, Stage
    <3>2. ~StillOpen(s)' /\ row'[s] # "done"
      BY <1>4, <1>6, <2>5 DEF StillOpen
    <3>3. BudgetOK(s)'
      BY <2>2, <2>3, <2>4, <3>1, <3>2 DEF BudgetOK, Closed
    <3> QED
      BY <2>2, <2>3, <2>4, <3>2, <3>3 DEF DoneTold
  <2>6. CASE q = "discard"
    <3>1. In(q, Announcers) = 0 /\ In(q, Committed) = 0
      BY <2>6 DEF In, Announcers, Committed, Stage
    <3>2. \/ row'[s] = "gone" /\ ~StillOpen(s)'
          \/ row'[s] = "deferred" /\ StillOpen(s)'
      BY <1>4, <1>6, <2>6 DEF StillOpen
    <3>3. RunCount(s, Committed)' <= RunCount(s, Announcers)'
      BY CommittedAreAnnouncers
    <3>4. RunCount(s, Committed)' \in Nat /\ ~Closed(s)
      BY <2>4, <3>1 DEF Closed
    <3>5. BudgetOK(s)'
      <4>1. Told(s) + RunCount(s, Announcers) + RunCount(s, {"context"}) <= 1 + Excused(s)
        BY <2>2, <3>4 DEF BudgetOK
      <4>2. CASE row'[s] = "deferred" /\ StillOpen(s)'
        BY <2>2, <2>3, <2>4, <3>1, <3>3, <3>4, <4>1, <4>2 DEF BudgetOK, Closed
      <4>3. CASE row'[s] = "gone" /\ ~StillOpen(s)'
        BY <2>2, <2>3, <2>4, <3>1, <4>1, <4>3 DEF BudgetOK, Closed
      <4> QED
        BY <3>2, <4>2, <4>3
    <3> QED
      BY <2>2, <2>3, <2>4, <3>2, <3>5 DEF DoneTold
  <2> QED
    BY <1>4, <2>5, <2>6
<1>9. \A t \in Source \ {s} : row'[t] = row[t] /\ notices'[t] = notices[t] /\ missed'[t] = missed[t]
  BY <1>3, <1>6
<1>10. ingestOverlaps <= ingestOverlaps'
  BY <1>1, <1>3, Numbers
<1>11. ingester[r].source = s /\ ingester[r].at = p
  BY <1>2, <1>3, <1>p
<1> QED
  BY ZenonT(30), <1>5, <1>7, <1>8, <1>9, <1>10, <1>11, StepKeeps

\* A run reads the row of its source: only a row that is not yet closed lets
\* it work.
LEMMA ReadsContextStep == ASSUME IngestionInv, NEW r \in Ingester, ReadsContext(r) PROVE IngestionInv'
<1>1. IngestionTypeOK
  BY DEF IngestionInv
<1>2. PICK s \in Source : s = ingester[r].source
  BY <1>1, RunTyped
<1>p. PICK p : p = "context"
  OBVIOUS
<1>3. ingester[r].at = p /\ UNCHANGED <<row, ingestJob, staged, drained, notices, missed, thrown, ingestFaults, ingestOverlaps>>
  BY <1>p DEF ReadsContext
<1>4. PICK q : q = CASE Finished(row[s]) -> "mark"
                    [] row[s] = "deferred" -> "wallet"
                    [] Interrupted(row[s]) -> "refuse"
                    [] OTHER -> "bytes"
  OBVIOUS
<1>5. PICK run \in [at : IngesterAt, source : Source, resumes : BOOLEAN] :
        ingester' = [ingester EXCEPT ![r] = run] /\ run.at = q /\ run.source = s
  <2> DEFINE run == [ingester[r] EXCEPT !.resumes = (row[s] = "deferred"), !.at = q]
  <2>1. q \in IngesterAt
    BY <1>1, <1>4 DEF IngesterAt, IngestionTypeOK, RowStatus, Stage, Terminal, Finished, Interrupted
  <2>2. run \in [at : IngesterAt, source : Source, resumes : BOOLEAN] /\ run.at = q /\ run.source = s
    BY <1>1, <1>2, <2>1, RunTyped
  <2>3. ingester' = [ingester EXCEPT ![r] = run]
    BY <1>1, <1>2, <1>4 DEF ReadsContext, IngestionTypeOK
  <2> QED
    BY <2>2, <2>3
<1>6. /\ q \in {"mark", "refuse", "wallet", "bytes"}
      /\ q \in {"wallet", "bytes"} => StillOpen(s)
  BY <1>1, <1>4 DEF IngestionTypeOK, RowStatus, Stage, Terminal, Finished, Interrupted, StillOpen
<1>7. IngestionTypeOK'
  BY <1>1, <1>2, <1>3, <1>5, RunSteps DEF IngestionTypeOK
<1>8. ASSUME Moved(s, p, q) PROVE BudgetOK(s)' /\ DoneTold(s)'
  <2>1. /\ In(p, Announcers) = 0 /\ In(p, Committed) = 0 /\ In(p, {"context"}) = 1 /\ In(p, {"done"}) = 0
        /\ In(q, {"context"}) = 0 /\ In(q, {"done"}) = 0 /\ In(q, Committed) = 0
        /\ In(q, Announcers) \in {0, 1} /\ (In(q, Announcers) = 1 => StillOpen(s))
    BY <1>p, <1>6 DEF In, Announcers, Committed, Stage
  <2>2. /\ BudgetOK(s) /\ DoneTold(s) /\ Told(s)' = Told(s) /\ Excused(s)' = Excused(s)
        /\ row' = row /\ (StillOpen(s)' <=> StillOpen(s))
    BY <1>3 DEF IngestionInv, Told, Excused, StillOpen
  <2>3. Told(s) \in Nat /\ Excused(s) \in Nat /\ notices' = notices
    BY <1>1, <1>3, Numbers
  <2>4. /\ RunCount(s, Announcers) \in Nat /\ RunCount(s, Announcers)' \in Nat
        /\ RunCount(s, Announcers)' = RunCount(s, Announcers) + In(q, Announcers)
        /\ RunCount(s, Committed) \in Nat /\ RunCount(s, Committed)' = RunCount(s, Committed)
        /\ RunCount(s, {"context"}) \in Nat /\ RunCount(s, {"context"})' \in Nat
        /\ RunCount(s, {"context"})' = RunCount(s, {"context"}) - 1
        /\ RunCount(s, {"done"}) \in Nat /\ RunCount(s, {"done"})' = RunCount(s, {"done"})
    BY <1>8, <2>1, CountsMove
  <2>5. BudgetOK(s)'
    BY <2>1, <2>2, <2>3, <2>4 DEF BudgetOK, Closed
  <2> QED
    BY <2>2, <2>3, <2>4, <2>5 DEF DoneTold
<1>9. \A t \in Source \ {s} : row'[t] = row[t] /\ notices'[t] = notices[t] /\ missed'[t] = missed[t]
  BY <1>3
<1>10. ingestOverlaps <= ingestOverlaps' /\ ingester[r].source = s
  BY <1>1, <1>2, <1>3, Numbers
<1> QED
  BY <1>3, <1>5, <1>7, <1>8, <1>9, <1>10, StepKeeps

\* The companion is told an outcome, once for the run that was to tell it.
LEMMA AnnouncesStep ==
  ASSUME IngestionInv, NEW r \in Ingester, NEW outcome \in Terminal, Announces(r, outcome) PROVE IngestionInv'
<1>1. IngestionTypeOK
  BY DEF IngestionInv
<1>2. PICK s \in Source : s = ingester[r].source
  BY <1>1, RunTyped
<1>p. PICK p : p = ingester[r].at
  OBVIOUS
<1>3. /\ p \in {"announce", "sorry"} /\ MovesTo(r, outcome)
      /\ notices' = [notices EXCEPT ![s][outcome] = @ + 1]
      /\ UNCHANGED <<row, ingestJob, staged, drained, missed, thrown, ingestFaults, ingestOverlaps>>
  BY <1>2, <1>p DEF Announces
<1>4. outcome \in IngesterAt /\ outcome \in {"done", "failed"}
  BY DEF IngesterAt, Terminal
<1>5. PICK run \in [at : IngesterAt, source : Source, resumes : BOOLEAN] :
        ingester' = [ingester EXCEPT ![r] = run] /\ run.at = outcome /\ run.source = s
  BY <1>1, <1>2, <1>3, <1>4, MovedRun
<1>6. /\ notices' \in [Source -> [Terminal -> Nat]]
      /\ notices'[s] = [notices[s] EXCEPT ![outcome] = @ + 1]
      /\ \A t \in Source \ {s} : notices'[t] = notices[t]
  <2>1. notices[s] \in [Terminal -> Nat] /\ [notices[s] EXCEPT ![outcome] = @ + 1] \in [Terminal -> Nat]
    BY <1>1 DEF IngestionTypeOK
  <2> QED
    BY <1>1, <1>3, <2>1 DEF IngestionTypeOK
<1>7. IngestionTypeOK'
  BY <1>1, <1>2, <1>3, <1>5, <1>6, RunSteps DEF IngestionTypeOK
<1>8. ASSUME Moved(s, p, outcome) PROVE BudgetOK(s)' /\ DoneTold(s)'
  <2>1. /\ In(p, Announcers) = 1 /\ In(p, Committed) = 1 /\ In(p, {"context"}) = 0 /\ In(p, {"done"}) = 0
        /\ In(outcome, Announcers) = 0 /\ In(outcome, Committed) = 0 /\ In(outcome, {"context"}) = 0
        /\ In(outcome, {"done"}) = IF outcome = "done" THEN 1 ELSE 0
    BY <1>3, <1>4 DEF In, Announcers, Committed, Stage
  <2>2. /\ BudgetOK(s) /\ DoneTold(s) /\ Excused(s)' = Excused(s) /\ row' = row /\ (StillOpen(s)' <=> StillOpen(s))
    BY <1>3 DEF IngestionInv, Excused, StillOpen
  <2>3. Told(s) \in Nat /\ Excused(s) \in Nat /\ notices[s]["done"] \in Nat
    BY <1>1, Numbers
  <2>4. /\ Told(s)' = Told(s) + 1
        /\ notices'[s]["done"] = IF outcome = "done" THEN notices[s]["done"] + 1 ELSE notices[s]["done"]
    <3>1. notices[s] \in [Terminal -> Nat] /\ {"done", "failed"} = Terminal
      BY <1>1 DEF IngestionTypeOK, Terminal
    <3>2. CASE outcome = "done"
      BY SMTT(30), <1>6, <3>1, <3>2 DEF Told
    <3>3. CASE outcome = "failed"
      BY <1>6, <3>1, <3>3 DEF Told
    <3> QED
      BY <1>4, <3>2, <3>3
  <2>5. /\ RunCount(s, Announcers) \in Nat /\ RunCount(s, Announcers)' \in Nat
        /\ RunCount(s, Announcers)' = RunCount(s, Announcers) - 1
        /\ RunCount(s, Announcers) >= 1
        /\ RunCount(s, Committed) \in Nat /\ RunCount(s, Committed)' \in Nat
        /\ RunCount(s, Committed)' = RunCount(s, Committed) - 1
        /\ RunCount(s, {"context"}) \in Nat /\ RunCount(s, {"context"})' = RunCount(s, {"context"})
        /\ RunCount(s, {"done"}) \in Nat /\ RunCount(s, {"done"})' \in Nat
        /\ RunCount(s, {"done"})' = RunCount(s, {"done"}) + IF outcome = "done" THEN 1 ELSE 0
    BY <1>8, <2>1, CountsMove
  <2>6. BudgetOK(s)'
    BY <2>2, <2>3, <2>4, <2>5 DEF BudgetOK, Closed
  <2> QED
    BY <1>4, <2>2, <2>3, <2>4, <2>5, <2>6 DEF DoneTold
<1>9. \A t \in Source \ {s} : row'[t] = row[t] /\ notices'[t] = notices[t] /\ missed'[t] = missed[t]
  BY <1>3, <1>6
<1>10. ingestOverlaps <= ingestOverlaps' /\ ingester[r].source = s
  BY <1>1, <1>2, <1>3, Numbers
<1> QED
  BY ZenonT(30), <1>p, <1>5, <1>7, <1>8, <1>9, <1>10, StepKeeps

\* The row gets the outcome that was announced.
LEMMA SettlesStep ==
  ASSUME IngestionInv, NEW r \in Ingester, NEW outcome \in Terminal, Settles(r, outcome) PROVE IngestionInv'
<1>1. IngestionTypeOK
  BY DEF IngestionInv
<1>2. PICK s \in Source : s = ingester[r].source
  BY <1>1, RunTyped
<1>q. PICK q : q = "discard"
  OBVIOUS
<1>3. /\ ingester[r].at = outcome /\ UpdateJob(s, outcome) /\ MovesTo(r, q)
      /\ UNCHANGED <<ingestJob, staged, drained, notices, missed, thrown, ingestFaults, ingestOverlaps>>
  BY <1>2, <1>q DEF Settles
<1>4. q \in IngesterAt /\ outcome \in RowStatus /\ outcome \in {"done", "failed"}
  BY <1>q DEF IngesterAt, RowStatus, Terminal
<1>5. PICK run \in [at : IngesterAt, source : Source, resumes : BOOLEAN] :
        ingester' = [ingester EXCEPT ![r] = run] /\ run.at = q /\ run.source = s
  BY <1>1, <1>2, <1>3, <1>4, MovedRun
<1>6. /\ row' \in [Source -> RowStatus] /\ row'[s] \in {"gone", outcome}
      /\ \A t \in Source \ {s} : row'[t] = row[t]
  BY <1>1, <1>3, <1>4, RowUpdated
<1>7. IngestionTypeOK'
  BY <1>1, <1>2, <1>3, <1>5, <1>6, RunSteps DEF IngestionTypeOK
<1>8. ASSUME Moved(s, outcome, q) PROVE BudgetOK(s)' /\ DoneTold(s)'
  <2>1. /\ In(outcome, Announcers) = 0 /\ In(outcome, Committed) = 0 /\ In(outcome, {"context"}) = 0
        /\ In(outcome, {"done"}) = (IF outcome = "done" THEN 1 ELSE 0)
        /\ In(q, Announcers) = 0 /\ In(q, Committed) = 0 /\ In(q, {"context"}) = 0 /\ In(q, {"done"}) = 0
    BY <1>4, <1>q DEF In, Announcers, Committed, Stage
  <2>2. BudgetOK(s) /\ DoneTold(s) /\ Told(s)' = Told(s) /\ Excused(s)' = Excused(s)
    BY <1>3 DEF IngestionInv, Told, Excused
  <2>3. Told(s) \in Nat /\ Excused(s) \in Nat /\ notices' = notices
    BY <1>1, <1>3, Numbers
  <2>4. /\ RunCount(s, Announcers) \in Nat /\ RunCount(s, Announcers)' = RunCount(s, Announcers)
        /\ RunCount(s, Committed) \in Nat /\ RunCount(s, Committed)' = RunCount(s, Committed)
        /\ RunCount(s, {"context"}) \in Nat /\ RunCount(s, {"context"})' = RunCount(s, {"context"})
        /\ RunCount(s, {"done"}) \in Nat /\ RunCount(s, {"done"})' \in Nat
        /\ RunCount(s, {"done"})' <= RunCount(s, {"done"})
        /\ (outcome = "done" => RunCount(s, {"done"}) >= 1)
    BY <1>8, <2>1, CountsMove
  <2>5. ~StillOpen(s)' /\ (row'[s] = "done" => outcome = "done")
    BY <1>4, <1>6 DEF StillOpen
  <2>6. BudgetOK(s)'
    BY <2>2, <2>3, <2>4, <2>5 DEF BudgetOK, Closed
  <2> QED
    BY <2>2, <2>3, <2>4, <2>5, <2>6 DEF DoneTold
<1>9. \A t \in Source \ {s} : row'[t] = row[t] /\ notices'[t] = notices[t] /\ missed'[t] = missed[t]
  BY <1>3, <1>6
<1>10. ingestOverlaps <= ingestOverlaps' /\ ingester[r].source = s
  BY <1>1, <1>2, <1>3, Numbers
<1> QED
  BY ZenonT(30), <1>3, <1>5, <1>7, <1>8, <1>9, <1>10, StepKeeps

\* A write that is lost sends the run to announce a failure, which is excused.
LEMMA RowMissedStep == ASSUME IngestionInv, NEW r \in Ingester, RowMissed(r) PROVE IngestionInv'
<1>1. IngestionTypeOK
  BY DEF IngestionInv
<1>2. PICK s \in Source : s = ingester[r].source
  BY <1>1, RunTyped
<1>p. PICK p : p = ingester[r].at
  OBVIOUS
<1>q. PICK q : q = "sorry"
  OBVIOUS
<1>3. /\ p \in {"begin", "wallet", "done"} /\ MovesTo(r, q) /\ Fault
      /\ missed' = [missed EXCEPT ![s] = @ + 1]
      /\ UNCHANGED <<row, ingestJob, staged, drained, notices, thrown, ingestOverlaps>>
  BY <1>2, <1>p, <1>q DEF RowMissed
<1>4. q \in IngesterAt
  BY <1>q DEF IngesterAt
<1>5. PICK run \in [at : IngesterAt, source : Source, resumes : BOOLEAN] :
        ingester' = [ingester EXCEPT ![r] = run] /\ run.at = q /\ run.source = s
  BY <1>1, <1>2, <1>3, <1>4, MovedRun
<1>6. /\ missed' \in [Source -> Nat] /\ missed'[s] = missed[s] + 1
      /\ \A t \in Source \ {s} : missed'[t] = missed[t]
  BY <1>1, <1>3 DEF IngestionTypeOK
<1>7. IngestionTypeOK'
  <2>1. ingestFaults' \in 0..MaxIngestFaults
    BY <1>1, <1>3, IngestionConstants DEF Fault, IngestionTypeOK
  <2> QED
    BY <1>1, <1>2, <1>3, <1>5, <1>6, <2>1, RunSteps DEF IngestionTypeOK
<1>8. ASSUME Moved(s, p, q) PROVE BudgetOK(s)' /\ DoneTold(s)'
  <2>1. /\ In(p, Committed) = 0 /\ In(p, {"context"}) = 0
        /\ In(p, {"done"}) \in {0, 1} /\ In(p, Announcers) = 1 - In(p, {"done"})
        /\ In(q, Announcers) = 1 /\ In(q, Committed) = 1 /\ In(q, {"context"}) = 0 /\ In(q, {"done"}) = 0
    BY <1>3, <1>q DEF In, Announcers, Committed, Stage
  <2>2. /\ BudgetOK(s) /\ DoneTold(s) /\ Told(s)' = Told(s)
        /\ row' = row /\ (StillOpen(s)' <=> StillOpen(s)) /\ notices' = notices
    BY <1>3 DEF IngestionInv, Told, StillOpen
  <2>3. Told(s) \in Nat /\ Excused(s) \in Nat /\ Excused(s)' = Excused(s) + 1
    BY <1>1, <1>3, <1>6, Numbers DEF Excused
  <2>4. /\ RunCount(s, Announcers) \in Nat /\ RunCount(s, Announcers)' \in Nat
        /\ RunCount(s, Announcers)' = RunCount(s, Announcers) + In(p, {"done"})
        /\ RunCount(s, Announcers) >= 1 - In(p, {"done"}) /\ RunCount(s, Announcers)' >= 1
        /\ RunCount(s, Committed) \in Nat /\ RunCount(s, Committed)' = RunCount(s, Committed) + 1
        /\ RunCount(s, {"context"}) \in Nat /\ RunCount(s, {"context"})' = RunCount(s, {"context"})
        /\ RunCount(s, {"done"}) \in Nat /\ RunCount(s, {"done"})' \in Nat
        /\ RunCount(s, {"done"})' = RunCount(s, {"done"}) - In(p, {"done"})
        /\ RunCount(s, {"done"}) >= In(p, {"done"})
    BY <1>8, <2>1, CountsMove
  <2>5. ~Closed(s)
    BY <2>1, <2>4 DEF Closed
  <2>6. BudgetOK(s)'
    BY <2>1, <2>2, <2>3, <2>4, <2>5 DEF BudgetOK, Closed
  <2> QED
    BY <2>1, <2>2, <2>4, <2>6 DEF DoneTold
<1>9. \A t \in Source \ {s} : row'[t] = row[t] /\ notices'[t] = notices[t] /\ missed'[t] = missed[t]
  BY <1>3, <1>6
<1>10. ingestOverlaps <= ingestOverlaps' /\ ingester[r].source = s
  BY <1>1, <1>2, <1>3, Numbers
<1> QED
  BY ZenonT(30), <1>p, <1>5, <1>7, <1>8, <1>9, <1>10, StepKeeps

\* A node claims the companion: a claim beside a live runner is excused, and a
\* node alone finds every count at 0.
LEMMA IngestClaimedStep ==
  ASSUME IngestionInv, NEW r \in Ingester, NEW s \in Source, IngestClaimed(r, s) PROVE IngestionInv'
<1>1. IngestionTypeOK
  BY DEF IngestionInv
<1>p. PICK p : p = "idle"
  OBVIOUS
<1>q. PICK q : q = "context"
  OBVIOUS
<1> DEFINE run == [at |-> "context", source |-> s, resumes |-> FALSE]
<1>3. /\ ingester[r].at = p
      /\ ingester' = [ingester EXCEPT ![r] = run]
      /\ UNCHANGED <<row, ingestJob, staged, drained, notices, missed, thrown, ingestFaults>>
  BY <1>p DEF IngestClaimed, Busy
<1>4. run \in [at : IngesterAt, source : Source, resumes : BOOLEAN] /\ run.at = q /\ run.source = s
  BY <1>q DEF IngesterAt
<1> HIDE DEF run
<1>5. \/ (\A o \in Ingester : ingester[o].at = "idle") /\ ingestOverlaps' = ingestOverlaps
      \/ ingestOverlaps < MaxIngestOverlaps /\ ingestOverlaps' = ingestOverlaps + 1
  BY DEF IngestClaimed, Busy
<1>6. /\ ingestOverlaps \in Nat /\ ingestOverlaps' \in Nat /\ ingestOverlaps <= ingestOverlaps'
      /\ ingestOverlaps' \in 0..MaxIngestOverlaps
  BY <1>1, <1>5, IngestionConstants DEF IngestionTypeOK
<1>7. IngestionTypeOK'
  <2>1. ingester' \in [Ingester -> [at : IngesterAt, source : Source, resumes : BOOLEAN]]
    BY <1>1, <1>3, <1>4 DEF IngestionTypeOK
  <2> QED
    BY <1>1, <1>3, <1>6, <2>1 DEF IngestionTypeOK
<1>8. ASSUME Moved(s, p, q) PROVE BudgetOK(s)' /\ DoneTold(s)'
  <2>1. /\ In(p, Announcers) = 0 /\ In(p, Committed) = 0 /\ In(p, {"context"}) = 0 /\ In(p, {"done"}) = 0
        /\ In(q, Announcers) = 0 /\ In(q, Committed) = 0 /\ In(q, {"context"}) = 1 /\ In(q, {"done"}) = 0
    BY <1>p, <1>q DEF In, Announcers, Committed, Stage
  <2>2. /\ BudgetOK(s) /\ DoneTold(s) /\ Told(s)' = Told(s)
        /\ row' = row /\ (StillOpen(s)' <=> StillOpen(s)) /\ notices' = notices
    BY <1>3 DEF IngestionInv, Told, StillOpen
  <2>3. /\ Told(s) \in Nat /\ Excused(s) \in Nat
        /\ Excused(s)' = Excused(s) + ingestOverlaps' - ingestOverlaps
    BY <1>1, <1>3, <1>6, Numbers DEF Excused
  <2>4. /\ RunCount(s, Announcers) \in Nat /\ RunCount(s, Announcers)' = RunCount(s, Announcers)
        /\ RunCount(s, Committed) \in Nat /\ RunCount(s, Committed)' = RunCount(s, Committed)
        /\ RunCount(s, {"context"}) \in Nat /\ RunCount(s, {"context"})' = RunCount(s, {"context"}) + 1
        /\ RunCount(s, {"done"}) \in Nat /\ RunCount(s, {"done"})' = RunCount(s, {"done"})
    BY <1>8, <2>1, CountsMove
  <2>5. CASE ingestOverlaps' = ingestOverlaps + 1
    <3>1. Excused(s)' = Excused(s) + 1
      BY <1>6, <2>3, <2>5
    <3>2. BudgetOK(s)'
      BY <2>2, <2>3, <2>4, <3>1 DEF BudgetOK, Closed
    <3> QED
      BY <2>2, <2>4, <3>2 DEF DoneTold
  <2>6. CASE (\A o \in Ingester : ingester[o].at = "idle") /\ ingestOverlaps' = ingestOverlaps
    <3>1. Excused(s)' = Excused(s)
      BY <1>6, <2>3, <2>6
    <3>2. /\ RunCount(s, Announcers) = 0 /\ RunCount(s, Committed) = 0
          /\ RunCount(s, {"context"}) = 0 /\ RunCount(s, {"done"}) = 0
      <4>1. /\ IngestRuns(s, Announcers) = {} /\ IngestRuns(s, Committed) = {}
            /\ IngestRuns(s, {"context"}) = {} /\ IngestRuns(s, {"done"}) = {}
        BY <2>6 DEF IngestRuns, Announcers, Committed, Stage
      <4> QED
        BY <4>1, FS_EmptySet DEF RunCount
    <3>3. BudgetOK(s)'
      BY <2>2, <2>3, <2>4, <3>1, <3>2 DEF BudgetOK, Closed
    <3> QED
      BY <2>2, <2>4, <3>3 DEF DoneTold
  <2> QED
    BY <1>5, <2>5, <2>6
<1>9. \A t \in Source \ {s} : row'[t] = row[t] /\ notices'[t] = notices[t] /\ missed'[t] = missed[t]
  BY <1>3
<1>10. ingester[r].source = s \/ ingester[r].at = "idle"
  BY <1>3, <1>p
<1> QED
  BY <1>3, <1>4, <1>6, <1>7, <1>8, <1>9, <1>10, StepKeeps

\* No run moves, and no row opens.
LEMMA RunsStay ==
  ASSUME IngestionInv, IngestionTypeOK', UNCHANGED <<ingester, notices, missed, ingestOverlaps>>,
         \A s \in Source : (StillOpen(s)' => StillOpen(s)) /\ (row'[s] = "done" => row[s] = "done")
  PROVE  IngestionInv'
<1>1. ASSUME NEW s \in Source PROVE BudgetOK(s)' /\ DoneTold(s)'
  <2>1. /\ BudgetOK(s) /\ DoneTold(s) /\ IngestionTypeOK /\ notices'[s] = notices[s] /\ Excused(s)' = Excused(s)
    BY DEF IngestionInv, Excused
  <2>2. /\ RunCount(s, Announcers)' = RunCount(s, Announcers) /\ RunCount(s, Committed)' = RunCount(s, Committed)
        /\ RunCount(s, {"context"})' = RunCount(s, {"context"}) /\ RunCount(s, {"done"})' = RunCount(s, {"done"})
    BY DEF RunCount, IngestRuns
  <2>3. /\ RunCount(s, Announcers) \in Nat /\ RunCount(s, Committed) \in Nat
        /\ RunCount(s, {"context"}) \in Nat /\ RunCount(s, {"done"}) \in Nat /\ Excused(s) \in Nat
    BY <2>1, RunCountNat, Numbers
  <2>4. /\ RunCount(s, Announcers)' <= RunCount(s, Announcers) /\ RunCount(s, Committed)' <= RunCount(s, Committed)
        /\ RunCount(s, {"context"})' <= RunCount(s, {"context"}) /\ RunCount(s, {"done"})' <= RunCount(s, {"done"})
        /\ Excused(s) <= Excused(s)'
    BY <2>1, <2>2, <2>3
  <2> QED
    BY <2>1, <2>4, BudgetShrinks
<1> QED
  BY <1>1 DEF IngestionInv

\* Uploads, deletions, expiries, the wallet and the sweep.
LEMMA AroundStep ==
  ASSUME IngestionInv,
         \/ WalletChanges
         \/ \E s \in Source :
              \/ UploadAccepted(s) \/ UploadRequested(s) \/ SourceGone(s)
              \/ StagedExpires(s) \/ SweepResumes(s)
  PROVE  IngestionInv'
<1>1. IngestionTypeOK
  BY DEF IngestionInv
<1>2. CASE WalletChanges
  <2>1. IngestionTypeOK'
    <3>1. drained' \in BOOLEAN
      BY <1>1, <1>2 DEF WalletChanges, IngestionTypeOK
    <3> QED
      BY <1>1, <1>2, <3>1 DEF WalletChanges, IngestionTypeOK
  <2>2. UNCHANGED <<row, ingester, notices, missed, ingestOverlaps>>
    BY <1>2 DEF WalletChanges
  <2>3. \A s \in Source : (StillOpen(s)' => StillOpen(s)) /\ (row'[s] = "done" => row[s] = "done")
    BY <2>2 DEF StillOpen
  <2> QED
    BY <2>1, <2>2, <2>3, RunsStay
<1>3. ASSUME NEW s \in Source, UploadAccepted(s) PROVE IngestionInv'
  <2>1. IngestionTypeOK'
    <3>1. row' \in [Source -> RowStatus] /\ staged' \in [Source -> BOOLEAN]
      BY <1>1, <1>3 DEF UploadAccepted, IngestionTypeOK, RowStatus
    <3> QED
      BY <1>1, <1>3, <3>1 DEF UploadAccepted, IngestionTypeOK
  <2>2. UNCHANGED <<ingester, notices, missed, ingestOverlaps>>
    BY <1>3 DEF UploadAccepted
  <2>3. \A t \in Source : (StillOpen(t)' => StillOpen(t)) /\ (row'[t] = "done" => row[t] = "done")
    BY <1>1, <1>3 DEF UploadAccepted, IngestionTypeOK, StillOpen
  <2> QED
    BY <2>1, <2>2, <2>3, RunsStay
<1>4. ASSUME NEW s \in Source, UploadRequested(s) PROVE IngestionInv'
  <2>1. IngestionTypeOK'
    <3>1. row' \in [Source -> RowStatus]
      BY <1>1, <1>4 DEF UploadRequested, IngestionTypeOK, RowStatus
    <3>2. ingestJob' \in [Source -> {"none", "upload", "resume"}]
      BY <1>1, <1>4 DEF UploadRequested, IngestionTypeOK
    <3>3. ingestFaults' \in 0..MaxIngestFaults
      BY <1>1, <1>4, IngestionConstants DEF UploadRequested, Fault, IngestionTypeOK
    <3> QED
      BY <1>1, <1>4, <3>1, <3>2, <3>3 DEF UploadRequested, IngestionTypeOK
  <2>2. UNCHANGED <<ingester, notices, missed, ingestOverlaps>>
    BY <1>4 DEF UploadRequested
  <2>3. \A t \in Source : (StillOpen(t)' => StillOpen(t)) /\ (row'[t] = "done" => row[t] = "done")
    BY <1>1, <1>4 DEF UploadRequested, IngestionTypeOK, StillOpen
  <2> QED
    BY <2>1, <2>2, <2>3, RunsStay
<1>5. ASSUME NEW s \in Source, SourceGone(s) PROVE IngestionInv'
  <2>1. IngestionTypeOK'
    <3>1. row' \in [Source -> RowStatus]
      BY <1>1, <1>5 DEF SourceGone, IngestionTypeOK, RowStatus
    <3> QED
      BY <1>1, <1>5, <3>1 DEF SourceGone, IngestionTypeOK
  <2>2. UNCHANGED <<ingester, notices, missed, ingestOverlaps>>
    BY <1>5 DEF SourceGone
  <2>3. \A t \in Source : (StillOpen(t)' => StillOpen(t)) /\ (row'[t] = "done" => row[t] = "done")
    BY <1>1, <1>5 DEF SourceGone, IngestionTypeOK, StillOpen
  <2> QED
    BY <2>1, <2>2, <2>3, RunsStay
<1>6. ASSUME NEW s \in Source, StagedExpires(s) PROVE IngestionInv'
  <2>1. IngestionTypeOK'
    <3>1. staged' \in [Source -> BOOLEAN]
      BY <1>1, <1>6 DEF StagedExpires, IngestionTypeOK
    <3> QED
      BY <1>1, <1>6, <3>1 DEF StagedExpires, IngestionTypeOK
  <2>2. UNCHANGED <<row, ingester, notices, missed, ingestOverlaps>>
    BY <1>6 DEF StagedExpires
  <2>3. \A t \in Source : (StillOpen(t)' => StillOpen(t)) /\ (row'[t] = "done" => row[t] = "done")
    BY <2>2 DEF StillOpen
  <2> QED
    BY <2>1, <2>2, <2>3, RunsStay
<1>7. ASSUME NEW s \in Source, SweepResumes(s) PROVE IngestionInv'
  <2>1. IngestionTypeOK'
    <3>1. ingestJob' \in [Source -> {"none", "upload", "resume"}]
      BY <1>1, <1>7 DEF SweepResumes, IngestionTypeOK
    <3> QED
      BY <1>1, <1>7, <3>1 DEF SweepResumes, IngestionTypeOK
  <2>2. UNCHANGED <<row, ingester, notices, missed, ingestOverlaps>>
    BY <1>7 DEF SweepResumes
  <2>3. \A t \in Source : (StillOpen(t)' => StillOpen(t)) /\ (row'[t] = "done" => row[t] = "done")
    BY <2>2 DEF StillOpen
  <2> QED
    BY <2>1, <2>2, <2>3, RunsStay
<1> QED
  BY <1>2, <1>3, <1>4, <1>5, <1>6, <1>7

LEMMA IngestionStep == IngestionInv /\ [IngestionNext]_ingestionVars => IngestionInv'
<1> SUFFICES ASSUME IngestionInv, [IngestionNext]_ingestionVars PROVE IngestionInv'
  OBVIOUS
<1>1. CASE IngestionNext
  <2>1. CASE WalletChanges
    BY <2>1, AroundStep
  <2>2. ASSUME NEW s \in Source,
               \/ UploadAccepted(s) \/ UploadRequested(s) \/ SourceGone(s)
               \/ StagedExpires(s) \/ SweepResumes(s)
        PROVE  IngestionInv'
    BY <2>2, AroundStep
  <2>3. ASSUME NEW r \in Ingester, NEW s \in Source, IngestClaimed(r, s) PROVE IngestionInv'
    BY <2>3, IngestClaimedStep
  <2>4. ASSUME NEW r \in Ingester, Ingests(r) PROVE IngestionInv'
    <3>1. CASE ReadsContext(r)
      BY <3>1, ReadsContextStep
    <3>2. CASE ReadsBytes(r) \/ StageEnds(r) \/ StageFails(r) \/ Discards(r) \/ JobMarked(r)
      BY <3>2, WindingStep
    <3>3. CASE Refuses(r)
      BY <3>3, RefusesStep
    <3>4. CASE StageBegins(r)
      BY <3>4, StageBeginsStep
    <3>5. CASE PassesWallet(r)
      BY <3>5, PassesWalletStep
    <3>6. ASSUME NEW o \in Terminal, Announces(r, o) PROVE IngestionInv'
      BY <3>6, AnnouncesStep
    <3>7. ASSUME NEW o \in Terminal, Settles(r, o) PROVE IngestionInv'
      BY <3>7, SettlesStep
    <3> QED
      BY <2>4, <3>1, <3>2, <3>3, <3>4, <3>5, <3>6, <3>7 DEF Ingests
  <2>5. ASSUME NEW r \in Ingester, RowMissed(r) PROVE IngestionInv'
    BY <2>5, RowMissedStep
  <2>6. ASSUME NEW r \in Ingester, HandlerThrows(r) \/ IngesterDies(r) PROVE IngestionInv'
    BY <2>6, WindingStep
  <2> QED
    BY <1>1, <2>1, <2>2, <2>3, <2>4, <2>5, <2>6 DEF IngestionNext
<1>2. CASE UNCHANGED ingestionVars
  <2>1. IngestionTypeOK'
    BY <1>2 DEF IngestionInv, IngestionTypeOK, ingestionVars
  <2>2. UNCHANGED <<row, ingester, notices, missed, ingestOverlaps>>
    BY <1>2 DEF ingestionVars
  <2>3. \A s \in Source : (StillOpen(s)' => StillOpen(s)) /\ (row'[s] = "done" => row[s] = "done")
    BY <2>2 DEF StillOpen
  <2> QED
    BY <2>1, <2>2, <2>3, RunsStay
<1> QED
  BY <1>1, <1>2

\* The rows of sources, their notices and the runs keep their types
\* (ingestion/pipeline.ts).
THEOREM IngestionTypeCorrect == IngestionSpec => []IngestionTypeOK
<1>1. IngestionInv => IngestionTypeOK
  BY DEF IngestionInv
<1> QED
  BY <1>1, IngestionInitOK, IngestionStep, PTL DEF IngestionSpec

\* A source that is done was announced as done, and no more notices of an end
\* reach the owner than one, one for each overlap of two runners and one for
\* each status that could not be written (pipeline.ts, announcer.ts).
THEOREM AnnouncedOnceHolds == IngestionSpec => []AnnouncedOnce
<1>1. IngestionInv => AnnouncedOnce
  <2> SUFFICES ASSUME IngestionInv, NEW s \in Source
               PROVE  /\ row[s] = "done" => notices[s]["done"] > 0
                      /\ notices[s]["done"] + notices[s]["failed"] <= 1 + ingestOverlaps + missed[s]
    BY DEF AnnouncedOnce
  <2>1. /\ Told(s) + RunCount(s, Announcers) <= 1 + Excused(s)
        /\ row[s] = "done" => notices[s]["done"] > 0
    BY DEF IngestionInv, BudgetOK, DoneTold
  <2>2. IngestionTypeOK /\ RunCount(s, Announcers) \in Nat
    BY RunCountNat DEF IngestionInv
  <2> QED
    BY <2>1, <2>2, Numbers DEF Told, Excused
<1> QED
  BY <1>1, IngestionInitOK, IngestionStep, PTL DEF IngestionSpec

-----------------------------------------------------------------------------
(* Segmentation: the batches.  Their recursion, and that of FlattenSeq, has a *)
(* solution, by induction on its length; nothing more is known of a CHOOSE.   *)

\* The batch of paragraph p, given that of the paragraph before it.
Joins(ls, prior, p) ==
  IF p = 1 \/ p - prior.first >= BatchSize \/ prior.chars + ls[p] > BatchBudget
  THEN [first |-> p, chars |-> ls[p]]
  ELSE [prior EXCEPT !.chars = @ + ls[p]]

BatchesUpTo(ls, n, b) == b = [p \in 1..n |-> Joins(ls, b[p - 1], p)]

BatchOf(ls) == CHOOSE b : BatchesUpTo(ls, Len(ls), b)

\* The first paragraph has none before it.
LEMMA JoinsFirst == \A ls, x : Joins(ls, x, 1) = [first |-> 1, chars |-> ls[1]]
BY DEF Joins

LEMMA BatchIs == Batch = BatchOf(lengths)
BY DEF Batch, BatchOf, BatchesUpTo, Joins, Paragraphs

LEMMA BatchesExist == ASSUME NEW ls PROVE \A n \in Nat : \E b : BatchesUpTo(ls, n, b)
<1> DEFINE T == {n \in Nat : \E b : BatchesUpTo(ls, n, b)}
<1>1. 0 \in T
  <2> DEFINE none == [p \in 1..0 |-> 0]
  <2>1. BatchesUpTo(ls, 0, none)
    BY DEF BatchesUpTo
  <2> QED
    BY <2>1
<1>2. ASSUME NEW n \in Nat, n \in T PROVE n + 1 \in T
  <2>1. PICK b : BatchesUpTo(ls, n, b)
    BY <1>2
  <2> DEFINE c == [p \in 1..(n + 1) |-> IF p = n + 1 THEN Joins(ls, b[n], n + 1) ELSE b[p]]
  <2>2. \A p \in 1..n : b[p] = Joins(ls, b[p - 1], p)
    BY <2>1 DEF BatchesUpTo
  <2>3. \A p \in 1..(n + 1) : p # 1 => p - 1 \in 1..n /\ c[p - 1] = b[p - 1]
    OBVIOUS
  <2>4. \A p \in 1..(n + 1) : c[p] = IF p = n + 1 THEN Joins(ls, b[n], n + 1) ELSE b[p]
    OBVIOUS
  <2> HIDE DEF c
  <2>5. ASSUME NEW p \in 1..(n + 1) PROVE c[p] = Joins(ls, c[p - 1], p)
    <3>1. c[p] = Joins(ls, b[p - 1], p)
      <4>1. CASE p = n + 1
        <5>1. p - 1 = n
          BY <4>1
        <5> QED
          BY <4>1, <5>1, <2>4
      <4>2. CASE p # n + 1
        <5>1. p \in 1..n
          BY <4>2
        <5> QED
          BY <4>2, <5>1, <2>2, <2>4
      <4> QED
        BY <4>1, <4>2
    <3>2. CASE p = 1
      BY <3>1, <3>2, JoinsFirst
    <3>3. CASE p # 1
      BY <3>1, <3>3, <2>3
    <3> QED
      BY <3>2, <3>3
  <2>6. c = [p \in 1..(n + 1) |-> c[p]]
    BY DEF c
  <2>7. BatchesUpTo(ls, n + 1, c)
    BY <2>5, <2>6 DEF BatchesUpTo
  <2> QED
    BY <2>7
<1> HIDE DEF T
<1>3. Nat \subseteq T
  BY <1>1, <1>2, NatInduced
<1> QED
  BY <1>3 DEF T

\* A batch begins at its first paragraph, and goes on to the next or ends.
LEMMA BatchFacts ==
  ASSUME NEW ls \in Seq(Nat)
  PROVE  /\ \A p \in 1..Len(ls) : BatchOf(ls)[p].first \in 1..p
         /\ Len(ls) # 0 => BatchOf(ls)[1].first = 1
         /\ \A p \in 1..Len(ls) : p # 1 => BatchOf(ls)[p].first \in {p, BatchOf(ls)[p - 1].first}
<1>0. Len(ls) \in Nat /\ \A p \in 1..Len(ls) : ls[p] \in Nat
  BY LenProperties, ElementOfSeq
<1>1. BatchesUpTo(ls, Len(ls), BatchOf(ls))
  BY <1>0, BatchesExist DEF BatchOf
<1> DEFINE b == BatchOf(ls)
<1>2. \A p \in 1..Len(ls) : b[p] = Joins(ls, b[p - 1], p)
  BY <1>1 DEF BatchesUpTo
<1> HIDE DEF b
<1>3. Len(ls) # 0 => b[1] = [first |-> 1, chars |-> ls[1]]
  BY <1>0, <1>2, JoinsFirst
<1> DEFINE Row(p) == b[p] \in [first : 1..p, chars : Int]
           T == {n \in Nat : n + 1 \in 1..Len(ls) => Row(n + 1)}
<1>4. 0 \in T
  <2>1. 1 \in 1..Len(ls) => b[1] = [first |-> 1, chars |-> ls[1]] /\ ls[1] \in Int
    BY <1>0, <1>3
  <2> QED
    BY <2>1
<1>5. ASSUME NEW n \in Nat, n + 1 \in 1..Len(ls), Row(n + 1), n + 2 \in 1..Len(ls)
      PROVE  /\ Row(n + 2)
             /\ b[n + 2].first \in {n + 2, b[n + 1].first}
  <2> DEFINE p == n + 2
             prior == b[n + 1]
  <2>1. b[p] = Joins(ls, prior, p) /\ ls[p] \in Int
    <3>1. p - 1 = n + 1
      OBVIOUS
    <3> QED
      BY <1>5, <1>0, <1>2, <3>1
  <2>2. prior.first \in 1..(n + 1) /\ prior.chars \in Int /\ prior = [first |-> prior.first, chars |-> prior.chars]
    BY <1>5
  <2>3. \/ b[p] = [first |-> p, chars |-> ls[p]]
        \/ b[p] = [first |-> prior.first, chars |-> prior.chars + ls[p]]
    BY <2>1, <2>2 DEF Joins
  <2>4. prior.chars + ls[p] \in Int /\ p \in 1..p /\ prior.first \in 1..p
    BY <2>1, <2>2
  <2> HIDE DEF prior, p
  <2>5. Row(p) /\ b[p].first \in {p, prior.first}
    BY <2>1, <2>3, <2>4
  <2> QED
    BY <2>5 DEF p, prior
<1>6. ASSUME NEW n \in Nat, n \in T PROVE n + 1 \in T
  <2>1. (n + 1) + 1 = n + 2 /\ (n + 2 \in 1..Len(ls) => n + 1 \in 1..Len(ls))
    BY <1>0
  <2> QED
    BY <1>5, <1>6, <2>1
<1> HIDE DEF T
<1>7. Nat \subseteq T
  BY <1>4, <1>6, NatInduced
<1>8. ASSUME NEW p \in 1..Len(ls) PROVE Row(p) /\ (p # 1 => b[p].first \in {p, b[p - 1].first})
  <2>1. p - 1 \in Nat /\ (p - 1) + 1 = p
    BY <1>0
  <2>2. Row(p)
    BY <1>7, <2>1 DEF T
  <2>3. ASSUME p # 1 PROVE b[p].first \in {p, b[p - 1].first}
    <3>1. p - 2 \in Nat /\ (p - 2) + 1 = p - 1 /\ (p - 2) + 2 = p /\ p - 1 \in 1..Len(ls)
      BY <1>0, <2>3
    <3>2. Row(p - 1)
      BY <1>7, <3>1 DEF T
    <3> QED
      BY <1>5, <3>1, <3>2
  <2> QED
    BY <2>2, <2>3
<1>9. \A p \in 1..Len(ls) : b[p].first \in 1..p
  BY <1>8
<1>10. Len(ls) # 0 => b[1].first = 1
  BY <1>3
<1> QED
  BY <1>8, <1>9, <1>10 DEF b

\* The first paragraph no batch has held begins a batch.
AtBatch == nextPara \in Paragraphs => Batch[nextPara].first = nextPara

\* The batch ends at a paragraph that is not before its first, and the next one
\* begins a batch.
LEMMA BatchEnds ==
  ASSUME lengths \in Seq(Nat), nextPara \in Paragraphs, AtBatch
  PROVE  /\ BatchEnd(nextPara) \in Paragraphs /\ nextPara <= BatchEnd(nextPara)
         /\ BatchEnd(nextPara) + 1 \in Paragraphs =>
              Batch[BatchEnd(nextPara) + 1].first = BatchEnd(nextPara) + 1
<1> DEFINE n == Len(lengths)
           b == BatchOf(lengths)
           Fits(q) == b[q].first = nextPara /\ (q = n \/ b[q + 1].first # nextPara)
           S == {q \in 1..n : b[q].first = nextPara}
<1>1. /\ n \in Nat /\ nextPara \in 1..n
      /\ \A p \in 1..n : b[p].first \in 1..p
      /\ \A p \in 1..n : p # 1 => b[p].first \in {p, b[p - 1].first}
  BY BatchFacts, LenProperties DEF Paragraphs
<1>2. Batch = b
  BY BatchIs
<1>3. BatchEnd(nextPara) = CHOOSE q \in 1..n : Fits(q)
  BY <1>2 DEF BatchEnd, Paragraphs
<1> HIDE DEF b, n
<1>4. \E q \in 1..n : Fits(q)
  <2>1. S # {} /\ S \subseteq 1..n
    BY <1>1, <1>2 DEF AtBatch
  <2>2. PICK m \in S : \A k \in S : k <= m
    BY <1>1, <2>1, GreatestOf
  <2>3. m \in 1..n /\ b[m].first = nextPara
    OBVIOUS
  <2>4. m = n \/ b[m + 1].first # nextPara
    <3> SUFFICES ASSUME m # n, b[m + 1].first = nextPara PROVE FALSE
      OBVIOUS
    <3>1. m + 1 \in 1..n
      BY <1>1, <2>3
    <3>2. m + 1 \in S
      BY <3>1
    <3>3. m + 1 <= m /\ m \in Int
      BY <2>2, <2>3, <3>2
    <3> QED
      BY <3>3
  <2> QED
    BY <2>3, <2>4
<1> DEFINE last == CHOOSE q \in 1..n : Fits(q)
<1>5. last \in 1..n /\ Fits(last)
  BY <1>4
<1> HIDE DEF last
<1>6. nextPara <= last
  BY <1>1, <1>5
<1>7. last + 1 \in 1..n => b[last + 1].first = last + 1
  <2> SUFFICES ASSUME last + 1 \in 1..n PROVE b[last + 1].first = last + 1
    OBVIOUS
  <2>1. last # n /\ last + 1 # 1 /\ (last + 1) - 1 = last
    BY <1>1, <1>5
  <2>2. b[last + 1].first \in {last + 1, b[last].first}
    BY <1>1, <2>1
  <2> QED
    BY <1>5, <2>1, <2>2
<1> QED
  BY <1>2, <1>3, <1>5, <1>6, <1>7 DEF n, Paragraphs, last

-----------------------------------------------------------------------------
(* Segmentation: the boundaries *)

\* A boundary is two numbers.
LEMMA BoundaryFacts ==
  ASSUME NEW bs \in Seq(Boundary)
  PROVE  /\ Len(bs) \in Nat /\ DOMAIN bs = 1..Len(bs)
         /\ \A i \in 1..Len(bs) : bs[i] \in Boundary /\ bs[i].start \in Int /\ bs[i].end \in Int
<1>1. Len(bs) \in Nat /\ DOMAIN bs = 1..Len(bs) /\ \A i \in 1..Len(bs) : bs[i] \in Boundary
  BY LenProperties, ElementOfSeq
<1>2. Marks \subseteq Int
  BY SegmentationConstants DEF Marks, Para
<1> QED
  BY <1>1, <1>2 DEF Boundary

\* Usable, with the numbers spelled out.
LEMMA UsableIs ==
  ASSUME NEW bs \in Seq(Boundary), NEW first \in Nat, NEW last \in Nat
  PROVE  Usable(bs, first, last) <=>
           /\ Len(bs) # 0
           /\ bs[1].start = 2 * first /\ bs[Len(bs)].end = 2 * last
           /\ \A i \in 1..Len(bs) : /\ bs[i].start <= bs[i].end /\ bs[i].end <= 2 * last
                                    /\ i # 1 => bs[i].start = bs[i - 1].end + 2
<1>1. (bs = <<>>) <=> (Len(bs) = 0)
  BY EmptySeq, LenProperties
<1>2. Len(bs) \in Nat /\ DOMAIN bs = 1..Len(bs)
  BY BoundaryFacts
<1>3. Para(1) = 2 /\ Para(first) = 2 * first /\ Para(last) = 2 * last
  BY DEF Para
<1>4. Len(bs) # 0 => 1 \in 1..Len(bs)
  BY <1>2
<1> QED
  BY <1>1, <1>2, <1>3, <1>4 DEF Usable, Continues

\* A cover and a cover of what follows make a cover.
LEMMA UsableJoins ==
  ASSUME NEW bs \in Seq(Boundary), NEW more \in Seq(Boundary),
         NEW first \in Nat, NEW mid \in Nat, NEW last \in Nat, mid < last,
         Usable(bs, first, mid), Usable(more, mid + 1, last)
  PROVE  Usable(bs \o more, first, last)
<1> DEFINE all == bs \o more
           m == Len(bs)
           n == Len(more)
<1>1. /\ all \in Seq(Boundary) /\ Len(all) = m + n
      /\ m \in Nat /\ n \in Nat
      /\ \A i \in 1..m : all[i] = bs[i]
      /\ \A i \in 1..(m + n) : i > m => all[i] = more[i - m]
  <2>1. Len(all) = m + n /\ m \in Nat /\ n \in Nat
    BY ConcatProperties, LenProperties
  <2>2. \A i \in 1..(m + n) : all[i] = IF i <= m THEN bs[i] ELSE more[i - m]
    BY ConcatProperties
  <2>3. all \in Seq(Boundary)
    BY ConcatProperties
  <2>4. \A i \in 1..m : i \in 1..(m + n) /\ i <= m
    BY <2>1
  <2>5. \A i \in 1..(m + n) : i > m => ~(i <= m)
    BY <2>1
  <2> QED
    BY <2>1, <2>2, <2>3, <2>4, <2>5
<1>2. /\ m # 0 /\ bs[1].start = 2 * first /\ bs[m].end = 2 * mid
      /\ \A i \in 1..m : /\ bs[i].start <= bs[i].end /\ bs[i].end <= 2 * mid
                         /\ i # 1 => bs[i].start = bs[i - 1].end + 2
  BY UsableIs
<1>3. /\ n # 0 /\ more[1].start = 2 * (mid + 1) /\ more[n].end = 2 * last
      /\ \A i \in 1..n : /\ more[i].start <= more[i].end /\ more[i].end <= 2 * last
                         /\ i # 1 => more[i].start = more[i - 1].end + 2
  BY UsableIs
<1>4. \A i \in 1..m : bs[i].start \in Int /\ bs[i].end \in Int
  BY BoundaryFacts
<1> HIDE DEF all, m, n
<1>5. Len(all) # 0 /\ 1 \in 1..m /\ m + n \in 1..(m + n) /\ m + n > m /\ (m + n) - m = n
  BY <1>1, <1>2, <1>3
<1>6. all[1].start = 2 * first /\ all[Len(all)].end = 2 * last
  BY <1>1, <1>2, <1>3, <1>5
<1>7. ASSUME NEW i \in 1..(m + n)
      PROVE  /\ all[i].start <= all[i].end /\ all[i].end <= 2 * last
             /\ i # 1 => all[i].start = all[i - 1].end + 2
  <2>1. CASE i <= m
    <3>1. i \in 1..m /\ all[i] = bs[i]
      BY <1>1, <2>1
    <3>2. i # 1 => i - 1 \in 1..m /\ all[i - 1] = bs[i - 1]
      BY <1>1, <3>1
    <3>3. bs[i].end <= 2 * last
      BY <1>2, <1>4, <3>1
    <3> QED
      BY <1>2, <3>1, <3>2, <3>3
  <2>2. CASE i = m + 1
    <3>1. all[i] = more[1] /\ i - 1 = m /\ all[i - 1] = bs[m] /\ 1 \in 1..n
      <4>1. i > m /\ i - m = 1 /\ i - 1 = m /\ m \in 1..m /\ 1 \in 1..n
        BY <1>1, <1>2, <1>3, <2>2
      <4> QED
        BY <1>1, <4>1
    <3>2. 2 * (mid + 1) = 2 * mid + 2
      OBVIOUS
    <3> QED
      BY <1>2, <1>3, <3>1, <3>2
  <2>3. CASE i > m + 1
    <3>1. i > m /\ i - 1 > m /\ i - 1 \in 1..(m + n) /\ i - m \in 1..n /\ i - m # 1 /\ (i - 1) - m = (i - m) - 1
      BY <1>1, <2>3
    <3>2. all[i] = more[i - m] /\ all[i - 1] = more[(i - m) - 1]
      BY <1>1, <3>1
    <3> QED
      BY <1>3, <3>1, <3>2
  <2> QED
    BY <1>1, <2>1, <2>2, <2>3
<1>8. Usable(all, first, last)
  <2>1. \A i \in 1..Len(all) : /\ all[i].start <= all[i].end /\ all[i].end <= 2 * last
                               /\ i # 1 => all[i].start = all[i - 1].end + 2
    BY <1>1, <1>7
  <2> QED
    BY <1>1, <1>5, <1>6, <2>1, UsableIs
<1> QED
  BY <1>8 DEF all

\* Sections of a fixed size cover the batch.
LEMMA FallbackCovers ==
  ASSUME NEW first \in 1..MaxParagraphs, NEW last \in 1..MaxParagraphs, first <= last
  PROVE  /\ FallbackBoundaries(first, last) \in Seq(Boundary)
         /\ Usable(FallbackBoundaries(first, last), first, last)
<1> DEFINE K == FallbackSize
           q == (last - first) \div K
           fb == FallbackBoundaries(first, last)
           start(i) == first + (i - 1) * K
           end(i) == IF start(i) + K - 1 < last THEN start(i) + K - 1 ELSE last
<1>1. K \in Nat \ {0} /\ MaxParagraphs \in Nat /\ first \in Nat /\ last \in Nat
  BY SegmentationConstants
<1>2. q \in Nat /\ q * K <= last - first /\ last - first < q * K + K
  BY <1>1
<1>3. fb = [i \in 1..(q + 1) |-> [start |-> 2 * start(i), end |-> 2 * end(i)]]
  BY DEF FallbackBoundaries, Para
<1> HIDE DEF q, K, fb
<1>4. ASSUME NEW i \in 1..(q + 1)
      PROVE  /\ start(i) \in first..last /\ end(i) \in first..last /\ start(i) <= end(i)
             /\ i # 1 => end(i - 1) = start(i) - 1
             /\ i = q + 1 => end(i) = last
  <2>1. (i - 1) * K \in Nat /\ (i - 1) * K <= q * K
    BY <1>1, <1>2
  <2>2. start(i) \in first..last
    BY <1>1, <1>2, <2>1
  <2>3. end(i) \in first..last /\ start(i) <= end(i)
    BY <1>1, <2>2
  <2>4. ASSUME i # 1 PROVE end(i - 1) = start(i) - 1
    <3>1. start(i - 1) + K = start(i)
      <4>1. ((i - 1) - 1) * K + K = (i - 1) * K
        BY <1>1, <1>2
      <4> QED
        BY <1>1, <2>1, <4>1
    <3>2. start(i) - 1 < last
      BY <1>1, <2>2
    <3>3. start(i - 1) \in Int
      BY <1>1, <1>2
    <3> HIDE DEF start
    <3> QED
      BY <1>1, <3>1, <3>2, <3>3
  <2>5. ASSUME i = q + 1 PROVE end(i) = last
    <3>1. (i - 1) * K = q * K
      BY <1>2, <2>5
    <3>2. start(i) + K - 1 >= last
      BY <1>1, <1>2, <2>1, <3>1
    <3>3. start(i) \in Int
      BY <2>2
    <3> HIDE DEF start
    <3> QED
      BY <1>1, <3>2, <3>3
  <2> QED
    BY <2>2, <2>3, <2>4, <2>5
<1> HIDE DEF start, end
<1>5. \A p \in first..last : 2 * p \in Marks
  BY <1>1 DEF Marks, Para
<1>6. fb \in Seq(Boundary) /\ Len(fb) = q + 1
  <2>1. q + 1 \in Nat
    BY <1>2
  <2>2. \A i \in 1..(q + 1) : [start |-> 2 * start(i), end |-> 2 * end(i)] \in Boundary
    BY <1>4, <1>5 DEF Boundary
  <2>3. fb \in [1..(q + 1) -> Boundary]
    BY <1>3, <2>2
  <2> QED
    BY <2>1, <2>3, SeqDef, LenProperties, <1>3
<1>7. \A i \in 1..(q + 1) : fb[i].start = 2 * start(i) /\ fb[i].end = 2 * end(i)
  BY <1>3
<1>8. start(1) = first
  BY <1>1 DEF start
<1>9. 1 \in 1..(q + 1) /\ q + 1 \in 1..(q + 1) /\ q + 1 # 0
  BY <1>2
<1>10. ASSUME NEW i \in 1..(q + 1)
       PROVE  /\ fb[i].start <= fb[i].end /\ fb[i].end <= 2 * last
              /\ i # 1 => fb[i].start = fb[i - 1].end + 2
  <2>1. start(i) \in Int /\ end(i) \in Int /\ start(i) <= end(i) /\ end(i) <= last
    BY <1>1, <1>4
  <2>2. i # 1 => i - 1 \in 1..(q + 1) /\ end(i - 1) = start(i) - 1
    BY <1>2, <1>4
  <2> QED
    BY <1>1, <1>7, <2>1, <2>2
<1>11. Usable(fb, first, last)
  <2>1. fb[1].start = 2 * first /\ fb[Len(fb)].end = 2 * last
    BY <1>4, <1>6, <1>7, <1>8, <1>9
  <2> QED
    BY <1>1, <1>6, <1>9, <1>10, <2>1, UsableIs
<1> QED
  BY <1>6, <1>11 DEF fb

-----------------------------------------------------------------------------
(* Segmentation: the sections *)

FlatUpTo(secs, n, f) == f = [i \in 1..n |-> IF i = 1 THEN secs[i] ELSE f[i - 1] \o secs[i]]

LEMMA FlatExists == ASSUME NEW secs PROVE \A n \in Nat : \E f : FlatUpTo(secs, n, f)
<1> DEFINE T == {n \in Nat : \E f : FlatUpTo(secs, n, f)}
<1>1. 0 \in T
  <2> DEFINE none == [i \in 1..0 |-> 0]
  <2>1. FlatUpTo(secs, 0, none)
    BY DEF FlatUpTo
  <2> QED
    BY <2>1
<1>2. ASSUME NEW n \in Nat, n \in T PROVE n + 1 \in T
  <2>1. PICK f : FlatUpTo(secs, n, f)
    BY <1>2
  <2> DEFINE Piece(i) == IF i = 1 THEN secs[i] ELSE f[i - 1] \o secs[i]
             g == [i \in 1..(n + 1) |-> Piece(i)]
  <2>2. \A i \in 1..n : f[i] = Piece(i)
    BY <2>1 DEF FlatUpTo
  <2>3. \A i \in 1..(n + 1) : g[i] = Piece(i)
    OBVIOUS
  <2>4. \A i \in 1..(n + 1) : i # 1 => i - 1 \in 1..n /\ i - 1 \in 1..(n + 1)
    OBVIOUS
  <2> HIDE DEF g
  <2>5. \A i \in 1..(n + 1) : i # 1 => g[i - 1] = f[i - 1]
    <3> HIDE DEF Piece
    <3> QED
      BY <2>2, <2>3, <2>4
  <2>6. \A i \in 1..(n + 1) : g[i] = IF i = 1 THEN secs[i] ELSE g[i - 1] \o secs[i]
    BY <2>3, <2>5
  <2>7. g = [i \in 1..(n + 1) |-> g[i]]
    BY DEF g
  <2>8. FlatUpTo(secs, n + 1, g)
    BY <2>6, <2>7 DEF FlatUpTo
  <2> QED
    BY <2>8
<1> HIDE DEF T
<1>3. Nat \subseteq T
  BY <1>1, <1>2, NatInduced
<1> QED
  BY <1>3 DEF T

\* FlattenSeq is what is left of its recursion at the end.
LEMMA FlattenIs ==
  ASSUME NEW secs, Len(secs) \in Nat, Len(secs) # 0
  PROVE  \E f : FlatUpTo(secs, Len(secs), f) /\ FlattenSeq(secs) = f[Len(secs)]
<1> DEFINE f == CHOOSE f : FlatUpTo(secs, Len(secs), f)
<1>1. FlatUpTo(secs, Len(secs), f)
  BY FlatExists
<1>2. FlattenSeq(secs) = f[Len(secs)]
  BY DEF FlattenSeq, FlatUpTo
<1> QED
  BY <1>1, <1>2

LEMMA WiderSeq == ASSUME NEW S, NEW T, S \subseteq T PROVE Seq(S) \subseteq Seq(T)
<1> SUFFICES ASSUME NEW s \in Seq(S) PROVE s \in Seq(T)
  OBVIOUS
<1>1. Len(s) \in Nat /\ s \in [1..Len(s) -> S]
  BY LenProperties
<1>2. s \in [1..Len(s) -> T]
  BY <1>1
<1> QED
  BY <1>1, <1>2, SeqDef

\* A function over 1..m is a sequence of that length.
LEMMA FunctionIsSeq ==
  ASSUME NEW S, NEW m \in Nat, NEW s \in [1..m -> S]
  PROVE  s \in Seq(S) /\ Len(s) = m
BY SeqDef, LenProperties

\* What follows what in a sequence made of two.
LEMMA ConcatIs ==
  ASSUME NEW s \in Seq(Int), NEW t \in Seq(Int)
  PROVE  s \o t = [p \in 1..(Len(s) + Len(t)) |-> IF p <= Len(s) THEN s[p] ELSE t[p - Len(s)]]
<1>1. /\ s \o t \in Seq(Int) /\ Len(s \o t) = Len(s) + Len(t)
      /\ \A p \in 1..(Len(s) + Len(t)) : (s \o t)[p] = IF p <= Len(s) THEN s[p] ELSE t[p - Len(s)]
  BY ConcatProperties
<1>2. s \o t = [p \in 1..(Len(s) + Len(t)) |-> (s \o t)[p]]
  BY <1>1, LenProperties, SeqDef
<1> QED
  BY <1>1, <1>2

\* The section of a boundary, in paragraphs.
LEMMA SectionIs ==
  ASSUME NEW m \in Nat, NEW n \in Nat, m < n
  PROVE  ToNewSection([start |-> 2 * m + 2, end |-> 2 * n]) = [k \in 1..(n - m) |-> m + k]
<1>1. ((2 * m + 2) - 2) \div 2 = m /\ (2 * n) \div 2 = n
  OBVIOUS
<1>2. Para(1) = 2
  BY DEF Para
<1> QED
  BY <1>1, <1>2 DEF ToNewSection

LEMMA Halves == ASSUME NEW x \in Int, x % 2 = 0 PROVE x \div 2 \in Int /\ x = 2 * (x \div 2)
OBVIOUS

\* The sections of a cover by whole numbers are its paragraphs, each once and in
\* order, and none of them is empty.
LEMMA SectionsOfCover ==
  ASSUME NEW bs \in Seq(Boundary), NEW n \in Nat, Usable(bs, 1, n), \A i \in DOMAIN bs : Whole(bs[i]),
         NEW secs, secs = [i \in DOMAIN bs |-> ToNewSection(bs[i])]
  PROVE  /\ secs # <<>> /\ secs \in Seq(Seq(1..n))
         /\ FlattenSeq(secs) = [p \in 1..n |-> p]
         /\ \A i \in DOMAIN secs : secs[i] # <<>>
<1> DEFINE L == Len(bs)
           till == [i \in 1..L |-> bs[i].end \div 2]
           past == [i \in 1..L |-> IF i = 1 THEN 0 ELSE bs[i - 1].end \div 2]
<1>1. /\ L \in Nat /\ L # 0 /\ DOMAIN bs = 1..L
      /\ \A i \in 1..L : bs[i] \in Boundary /\ bs[i].start \in Int /\ bs[i].end \in Int
      /\ bs[1].start = 2 /\ bs[L].end = 2 * n
      /\ \A i \in 1..L : /\ bs[i].start <= bs[i].end /\ bs[i].end <= 2 * n
                         /\ i # 1 => bs[i].start = bs[i - 1].end + 2
  <2>1. 2 * 1 = 2
    OBVIOUS
  <2> QED
    BY <2>1, BoundaryFacts, UsableIs
<1>2. /\ \A i \in 1..L : i # 1 => i - 1 \in 1..L
      /\ 1 \in 1..L /\ L \in 1..L
      /\ \A i \in 1..L : till[i] = bs[i].end \div 2
      /\ \A i \in 1..L : past[i] = IF i = 1 THEN 0 ELSE bs[i - 1].end \div 2
      /\ \A i \in 1..L : bs[i].end % 2 = 0
  <2>1. \A i \in 1..L : bs[i].end % 2 = 0
    BY <1>1 DEF Whole
  <2>2. \A i \in 1..L : i # 1 => i - 1 \in 1..L
    BY <1>1
  <2> QED
    BY <1>1, <2>1, <2>2
<1> HIDE DEF L, past, till
<1>3. \A i \in 1..L : bs[i].start >= 2
  <2>1. \A i \in 1..L : bs[i].start \in Marks
    BY <1>1 DEF Boundary
  <2>2. \A x \in Marks : x >= 2
    BY SegmentationConstants DEF Marks, Para
  <2> QED
    BY <2>1, <2>2
<1>b. \A i \in 1..L : till[i] \in Int /\ bs[i].end = 2 * till[i]
  <2> SUFFICES ASSUME NEW i \in 1..L PROVE till[i] \in Int /\ bs[i].end = 2 * till[i]
    OBVIOUS
  <2>1. bs[i].end \in Int /\ bs[i].end % 2 = 0 /\ till[i] = bs[i].end \div 2
    BY <1>1, <1>2
  <2>2. bs[i].end \div 2 \in Int /\ bs[i].end = 2 * (bs[i].end \div 2)
    BY <2>1, Halves
  <2> QED
    BY <2>1, <2>2
<1>c. \A i \in 1..L : i # 1 => past[i] = till[i - 1]
  BY <1>2
<1>d. past[1] = 0
  BY <1>2
<1>e. \A i \in 1..L : past[i] \in Int /\ bs[i].start = 2 * past[i] + 2
  <2> SUFFICES ASSUME NEW i \in 1..L PROVE past[i] \in Int /\ bs[i].start = 2 * past[i] + 2
    OBVIOUS
  <2>1. CASE i = 1
    BY <1>1, <1>d, <2>1
  <2>2. CASE i # 1
    <3>1. i - 1 \in 1..L /\ past[i] = till[i - 1] /\ bs[i].start = bs[i - 1].end + 2
      BY <1>1, <1>2, <1>c, <2>2
    <3>2. till[i - 1] \in Int /\ bs[i - 1].end = 2 * till[i - 1]
      BY <1>b, <3>1
    <3> QED
      BY <3>1, <3>2
  <2> QED
    BY <2>1, <2>2
<1>4. \A i \in 1..L : /\ past[i] \in 0..n /\ till[i] \in 0..n /\ past[i] < till[i]
                       /\ past[i] \in Nat /\ till[i] \in Nat /\ till[i] - past[i] \in Nat
                       /\ till[i] - past[i] # 0
  <2> SUFFICES ASSUME NEW i \in 1..L
               PROVE  past[i] \in 0..n /\ till[i] \in 0..n /\ past[i] < till[i]
    OBVIOUS
  <2>1. bs[i].start <= bs[i].end /\ bs[i].end <= 2 * n /\ bs[i].start >= 2
    BY <1>1, <1>3
  <2>2. /\ past[i] \in Int /\ bs[i].start = 2 * past[i] + 2
        /\ till[i] \in Int /\ bs[i].end = 2 * till[i]
    BY <1>b, <1>e
  <2> QED
    BY <2>1, <2>2
<1>5. \A i \in 1..L : bs[i] = [start |-> 2 * past[i] + 2, end |-> 2 * till[i]]
  <2> SUFFICES ASSUME NEW i \in 1..L PROVE bs[i] = [start |-> 2 * past[i] + 2, end |-> 2 * till[i]]
    OBVIOUS
  <2>1. bs[i] = [start |-> bs[i].start, end |-> bs[i].end]
    BY <1>1 DEF Boundary
  <2> QED
    BY <1>b, <1>e, <2>1
<1>6. till[L] = n
  BY <1>1, <1>2, <1>b
<1>7. secs = [i \in 1..L |-> ToNewSection(bs[i])]
  BY <1>1
<1>8. ASSUME NEW i \in 1..L PROVE secs[i] = [k \in 1..(till[i] - past[i]) |-> past[i] + k]
  <2>1. past[i] \in Nat /\ till[i] \in Nat /\ past[i] < till[i]
    BY <1>4
  <2> QED
    <3>1. ToNewSection([start |-> 2 * past[i] + 2, end |-> 2 * till[i]]) = [k \in 1..(till[i] - past[i]) |-> past[i] + k]
      BY <2>1, SectionIs
    <3>2. secs[i] = ToNewSection(bs[i])
      BY <1>7
    <3>3. bs[i] = [start |-> 2 * past[i] + 2, end |-> 2 * till[i]]
      BY <1>5
    <3> QED
      BY <3>1, <3>2, <3>3
<1>9. \A i \in 1..L : secs[i] \in Seq(1..n) /\ Len(secs[i]) = till[i] - past[i]
  <2> SUFFICES ASSUME NEW i \in 1..L
               PROVE  secs[i] \in Seq(1..n) /\ Len(secs[i]) = till[i] - past[i]
    OBVIOUS
  <2>1. till[i] - past[i] \in Nat /\ \A k \in 1..(till[i] - past[i]) : past[i] + k \in 1..n
    BY <1>4
  <2>2. secs[i] = [k \in 1..(till[i] - past[i]) |-> past[i] + k]
    BY <1>8
  <2>3. secs[i] \in [1..(till[i] - past[i]) -> 1..n]
    BY <2>1, <2>2
  <2> QED
    BY <2>1, <2>3, FunctionIsSeq
<1>10. /\ secs \in Seq(Seq(1..n)) /\ Len(secs) = L /\ DOMAIN secs = 1..L
       /\ secs # <<>>
  <2>1. secs \in [1..L -> Seq(1..n)]
    BY <1>7, <1>9
  <2>2. secs \in Seq(Seq(1..n)) /\ Len(secs) = L
    <3>1. L \in Nat
      BY <1>1
    <3>2. ASSUME NEW S, secs \in [1..L -> S] PROVE secs \in Seq(S) /\ Len(secs) = L
      BY <3>1, <3>2, FunctionIsSeq
    <3> QED
      BY <2>1, <3>2
  <2> QED
    BY <1>1, <1>7, <2>2, EmptySeq
<1>11. \A i \in DOMAIN secs : secs[i] # <<>>
  <2> SUFFICES ASSUME NEW i \in 1..L PROVE secs[i] # <<>>
    BY <1>10
  <2>1. Len(secs[i]) # 0
    BY <1>4, <1>9
  <2> QED
    BY <2>1, EmptySeq
<1>12. PICK f : FlatUpTo(secs, L, f) /\ FlattenSeq(secs) = f[L]
  BY <1>1, <1>10, FlattenIs
<1> DEFINE Run(m) == [p \in 1..m |-> p]
           T == {k \in Nat : k + 1 \in 1..L => f[k + 1] = Run(till[k + 1])}
<1>13. \A i \in 1..L : f[i] = IF i = 1 THEN secs[i] ELSE f[i - 1] \o secs[i]
  BY <1>12 DEF FlatUpTo
<1>14. 0 \in T
  <2>1. 1 \in 1..L => f[1] = secs[1] /\ secs[1] = [k \in 1..(till[1] - past[1]) |-> past[1] + k]
    BY <1>8, <1>13
  <2>2. 1 \in 1..L => till[1] \in Nat
    BY <1>4
  <2>3. \A t \in Nat : [k \in 1..(t - 0) |-> 0 + k] = Run(t)
    OBVIOUS
  <2>4. 1 \in 1..L => f[1] = [k \in 1..(till[1] - 0) |-> 0 + k]
    BY <1>d, <2>1, Zenon
  <2>5. 1 \in 1..L => f[1] = Run(till[1])
    <3> HIDE DEF Run
    <3> QED
      BY <2>2, <2>3, <2>4, Zenon
  <2> QED
    BY <2>5
<1>15. ASSUME NEW j \in Nat, j \in T PROVE j + 1 \in T
  <2> DEFINE i == j + 2
  <2> SUFFICES ASSUME i \in 1..L PROVE f[i] = Run(till[i])
    OBVIOUS
  <2>1. i # 1 /\ i - 1 = j + 1 /\ i - 1 \in 1..L
    BY <1>1
  <2>2. f[i - 1] = Run(till[i - 1]) /\ past[i] = till[i - 1]
    BY <1>c, <1>15, <2>1
  <2>3. f[i] = Run(past[i]) \o secs[i]
    BY <1>13, <2>1, <2>2
  <2>4. past[i] \in Nat /\ till[i] \in Nat /\ past[i] < till[i]
    BY <1>1, <1>4
  <2>5. Run(past[i]) \in Seq(Int) /\ Len(Run(past[i])) = past[i]
    <3>1. Run(past[i]) \in [1..past[i] -> Int]
      BY <2>4
    <3> QED
      BY <2>4, <3>1, SeqDef, LenProperties
  <2>6. secs[i] \in Seq(Int) /\ Len(secs[i]) = till[i] - past[i]
    <3>1. secs[i] \in Seq(1..n)
      BY <1>9
    <3>2. Len(secs[i]) = till[i] - past[i]
      BY <1>9
    <3>3. Seq(1..n) \subseteq Seq(Int)
      BY SeqDef
    <3> QED
      BY <3>1, <3>2, <3>3
  <2>7. PICK s \in Seq(Int) : s = Run(past[i])
    BY <2>5
  <2>8. PICK t \in Seq(Int) : t = secs[i]
    BY <2>6
  <2>9. s \o t = [p \in 1..till[i] |-> IF p <= past[i] THEN s[p] ELSE t[p - past[i]]]
    <3>1. s \o t = [p \in 1..(Len(s) + Len(t)) |-> IF p <= Len(s) THEN s[p] ELSE t[p - Len(s)]]
      BY ConcatIs
    <3> HIDE DEF Run
    <3>2. Len(s) = past[i] /\ Len(s) + Len(t) = till[i]
      <4>1. Len(s) = past[i] /\ Len(t) = till[i] - past[i]
        BY <2>5, <2>6, <2>7, <2>8
      <4> QED
        BY <2>4, <4>1
    <3> QED
      BY <3>1, <3>2, Zenon
  <2>10. ASSUME NEW p \in 1..till[i]
         PROVE  (IF p <= past[i] THEN s[p] ELSE t[p - past[i]]) = p
    <3>1. CASE p <= past[i]
      <4>1. p \in 1..past[i]
        BY <3>1, <2>4
      <4>2. s[p] = p
        BY <4>1, <2>7
      <4> QED
        BY <3>1, <4>2
    <3>2. CASE ~(p <= past[i])
      <4>1. p - past[i] \in 1..(till[i] - past[i]) /\ past[i] + (p - past[i]) = p
        BY <3>2, <2>4
      <4>2. t = [k \in 1..(till[i] - past[i]) |-> past[i] + k]
        BY <1>8, <2>8
      <4>3. t[p - past[i]] = p
        BY <4>1, <4>2
      <4> QED
        BY <3>2, <4>3
    <3> QED
      BY <3>1, <3>2
  <2>11. s \o t = Run(till[i])
    BY <2>9, <2>10
  <2> QED
    BY <2>3, <2>7, <2>8, <2>11
<1> HIDE DEF T
<1>16. Nat \subseteq T
  BY <1>14, <1>15, NatInduced
<1>17. f[L] = Run(n)
  <2>1. L - 1 \in Nat /\ (L - 1) + 1 = L /\ L \in 1..L
    BY <1>1
  <2> QED
    BY <1>6, <1>16, <2>1 DEF T
<1> QED
  BY <1>10, <1>11, <1>12, <1>17

-----------------------------------------------------------------------------
(* Segmentation: the invariant.  The boundaries kept cover what was read; the *)
(* batch to come begins where they end; and rows that were stored are the     *)
(* whole source.                                                              *)

Covered == (nextPara = 1 /\ boundaries = <<>>) \/ (nextPara > 1 /\ Usable(boundaries, 1, nextPara - 1))

\* Of the sections stored, whose elements are the paragraphs of ls.
Complete(secs, ls) ==
  /\ secs \in Seq(Seq(1..Len(ls))) /\ FlattenSeq(secs) = [p \in 1..Len(ls) |-> p]
  /\ \A i \in DOMAIN secs : secs[i] # <<>>

SegmentationInv ==
  /\ lengths \in Seq(Length) /\ Len(lengths) <= MaxParagraphs
  /\ segmenting \in {"parsing", "batches", "failed", "thrown", "stored", "refused"}
  /\ nextPara \in 1..(Len(lengths) + 1)
  /\ boundaries \in Seq(Boundary)
  /\ segmenting = "parsing" => nextPara = 1 /\ sections = <<>>
  /\ AtBatch /\ Covered
  /\ segmenting = "stored" => nextPara \notin Paragraphs /\ (lengths # <<>> => sections # <<>>)
  /\ segmenting = "refused" => \E i \in DOMAIN boundaries : ~Whole(boundaries[i])
  /\ sections = <<>> \/ Complete(sections, lengths)

LEMMA AtFirstBatch == ASSUME NEW ls \in Seq(Length), 1 \in 1..Len(ls) PROVE BatchOf(ls)[1].first = 1
<1>1. ls \in Seq(Nat)
  BY SegmentationConstants, WiderSeq
<1>2. Len(ls) # 0
  BY LenProperties
<1> QED
  BY <1>1, <1>2, BatchFacts

LEMMA BatchMoves == Batch' = BatchOf(lengths')
BY DEF Batch, BatchOf, BatchesUpTo, Joins, Paragraphs

\* What was read may be reset.
LEMMA AtBatchAgain ==
  /\ lengths \in Seq(Length) /\ nextPara = 1 => AtBatch
  /\ lengths' \in Seq(Length) /\ nextPara' = 1 => AtBatch'
<1>1. lengths \in Seq(Length) /\ nextPara = 1 => AtBatch
  BY BatchIs, AtFirstBatch DEF AtBatch, Paragraphs
<1>2. lengths' \in Seq(Length) /\ nextPara' = 1 => AtBatch'
  BY BatchMoves, AtFirstBatch DEF AtBatch, Paragraphs
<1> QED
  BY <1>1, <1>2

LEMMA SegmentationStarts == SegmentationInit => SegmentationInv
<1> SUFFICES ASSUME SegmentationInit PROVE SegmentationInv
  OBVIOUS
<1>1. lengths = <<>> /\ segmenting = "parsing" /\ nextPara = 1 /\ boundaries = <<>> /\ sections = <<>>
  BY DEF SegmentationInit
<1>2. lengths \in Seq(Length) /\ Len(lengths) = 0 /\ boundaries \in Seq(Boundary)
  BY <1>1, EmptySeq
<1>3. MaxParagraphs \in Nat
  BY SegmentationConstants
<1>4. AtBatch
  BY <1>1, <1>2, AtBatchAgain
<1> QED
  BY <1>1, <1>2, <1>3, <1>4 DEF SegmentationInv, Covered

\* A null entry continues no section.
LEMMA NoNullFits ==
  ASSUME NEW n \in Nat, NEW answer \in [1..n -> Boundary \cup {Null}],
         NEW first \in Nat \ {0}, NEW last, Usable(answer, first, last)
  PROVE  answer \in [1..n -> Boundary]
<1>a. /\ \A i \in 1..n : answer[i] \in Boundary \cup {Null}
      /\ answer = [i \in 1..n |-> answer[i]]
  OBVIOUS
<1> SUFFICES ASSUME NEW i \in 1..n, answer[i] = Null PROVE FALSE
  <2>1. \A i \in 1..n : answer[i] \in Boundary
    BY <1>a
  <2> QED
    BY <1>a, <2>1, Zenon
<1>1. answer[i].start = 0
  BY DEF Null
<1>2. answer[i].start = IF i = 1 THEN 2 * first ELSE answer[i - 1].end + 2
  BY DEF Usable, Continues, Para
<1>3. CASE i = 1
  BY <1>1, <1>2, <1>3
<1>4. CASE i # 1
  <2>1. i - 1 \in 1..n
    BY <1>4
  <2>2. answer[i - 1].end \in Nat
    <3>1. answer[i - 1] \in Boundary \cup {Null}
      BY <2>1
    <3>2. CASE answer[i - 1] \in Boundary
      BY <3>2, SegmentationConstants DEF Boundary, Marks, Para
    <3>3. CASE answer[i - 1] = Null
      BY <3>3 DEF Null
    <3> QED
      BY <3>1, <3>2, <3>3
  <2> QED
    BY <1>1, <1>2, <1>4, <2>2
<1> QED
  BY <1>3, <1>4

\* The next batch is covered by what the model answered, or by sections of a
\* fixed size.
LEMMA SegmentBatchKeeps ==
  ASSUME SegmentationInv, NEW answer \in Answer, SegmentBatch(answer)
  PROVE  SegmentationInv'
<1> DEFINE last == BatchEnd(nextPara)
           more == IF Usable(answer, nextPara, last) THEN answer ELSE FallbackBoundaries(nextPara, last)
<1>1. /\ segmenting = "batches" /\ nextPara \in Paragraphs
      /\ boundaries' = boundaries \o more /\ nextPara' = last + 1
      /\ UNCHANGED <<lengths, segmenting, sections>>
  BY DEF SegmentBatch
<1>2. /\ lengths \in Seq(Length) /\ lengths \in Seq(Nat) /\ Len(lengths) \in Nat
      /\ Len(lengths) <= MaxParagraphs /\ MaxParagraphs \in Nat
      /\ boundaries \in Seq(Boundary) /\ AtBatch /\ Covered
  <2>1. Seq(Length) \subseteq Seq(Nat)
    BY SegmentationConstants, WiderSeq
  <2> QED
    BY <2>1, SegmentationConstants, LenProperties DEF SegmentationInv
<1>3. /\ last \in Paragraphs /\ nextPara <= last
      /\ last + 1 \in Paragraphs => Batch[last + 1].first = last + 1
  BY <1>1, <1>2, BatchEnds
<1> HIDE DEF last
<1>4. /\ nextPara \in 1..MaxParagraphs /\ last \in 1..MaxParagraphs
      /\ nextPara \in Nat \ {0} /\ nextPara \in Nat /\ last \in Nat /\ last + 1 \in 1..(Len(lengths) + 1)
      /\ nextPara - 1 \in Nat /\ nextPara - 1 < last /\ (nextPara - 1) + 1 = nextPara
      /\ last + 1 > 1 /\ (last + 1) - 1 = last
  BY <1>1, <1>2, <1>3 DEF Paragraphs
<1>5. more \in Seq(Boundary) /\ Usable(more, nextPara, last)
  <2>1. CASE Usable(answer, nextPara, last)
    <3>1. MaxMarked \in Nat
      BY SegmentationConstants
    <3>2. PICK n \in 0..MaxMarked : answer \in [1..n -> Boundary \cup {Null}]
      BY DEF Answer
    <3>3. n \in Nat /\ DOMAIN answer = 1..n
      BY <3>1, <3>2
    <3>4. answer \in [1..n -> Boundary]
      BY <1>4, <2>1, <3>2, <3>3, NoNullFits, Zenon
    <3>5. answer \in Seq(Boundary)
      BY <3>3, <3>4, FunctionIsSeq
    <3> QED
      BY <2>1, <3>5
  <2>2. CASE ~Usable(answer, nextPara, last)
    BY <1>3, <1>4, <2>2, FallbackCovers
  <2> QED
    BY <2>1, <2>2
<1> HIDE DEF more
<1>6. boundaries' \in Seq(Boundary) /\ Usable(boundaries', 1, last)
  <2>1. CASE nextPara = 1 /\ boundaries = <<>>
    <3>1. boundaries' = more
      BY <1>1, <1>5, <2>1, ConcatEmptySeq
    <3> QED
      BY <1>5, <2>1, <3>1
  <2>2. CASE Usable(boundaries, 1, nextPara - 1)
    <3>1. boundaries \o more \in Seq(Boundary)
      BY <1>2, <1>5, ConcatProperties
    <3>2. Usable(boundaries \o more, 1, last)
      BY <1>2, <1>4, <1>5, <2>2, UsableJoins
    <3> QED
      BY <1>1, <3>1, <3>2
  <2> QED
    BY <1>2, <2>1, <2>2 DEF Covered
<1>7. Covered'
  <2>1. nextPara' > 1 /\ nextPara' - 1 = last
    BY <1>1, <1>4
  <2>2. Usable(boundaries', 1, nextPara' - 1)
    BY <1>6, <2>1
  <2> QED
    BY <2>1, <2>2 DEF Covered, Usable, Continues
<1>8. AtBatch'
  <2>1. Batch' = Batch
    BY <1>1, BatchIs, BatchMoves
  <2>2. Paragraphs' = Paragraphs
    BY <1>1 DEF Paragraphs
  <2>3. last + 1 \in Paragraphs => Batch'[last + 1].first = last + 1
    BY <1>3, <2>1
  <2> QED
    BY <1>1, <2>2, <2>3 DEF AtBatch
<1>9. /\ lengths' \in Seq(Length) /\ Len(lengths') <= MaxParagraphs /\ nextPara' \in 1..(Len(lengths') + 1)
      /\ segmenting' = "batches" /\ (sections' = <<>> \/ Complete(sections', lengths'))
  <2>1. sections = <<>> \/ Complete(sections, lengths)
    BY DEF SegmentationInv
  <2> QED
    BY <1>1, <1>2, <1>4, <2>1
<1> QED
  BY <1>6, <1>7, <1>8, <1>9 DEF SegmentationInv, Complete

LEMMA InsertSectionsKeeps == ASSUME SegmentationInv, InsertSections PROVE SegmentationInv'
<1>1. /\ segmenting = "batches" /\ nextPara \notin Paragraphs
      /\ UNCHANGED <<lengths, nextPara, boundaries>>
  BY DEF InsertSections
<1>2. /\ lengths \in Seq(Length) /\ Len(lengths) \in Nat /\ nextPara \in 1..(Len(lengths) + 1)
      /\ boundaries \in Seq(Boundary) /\ AtBatch /\ Covered
      /\ sections = <<>> \/ Complete(sections, lengths)
  BY LenProperties DEF SegmentationInv
<1>3. nextPara = Len(lengths) + 1 /\ nextPara - 1 = Len(lengths) /\ (boundaries = <<>> => Len(lengths) = 0)
  <2>1. nextPara = Len(lengths) + 1 /\ nextPara - 1 = Len(lengths)
    BY <1>1, <1>2 DEF Paragraphs
  <2>2. ~Usable(<<>>, 1, nextPara - 1)
    BY DEF Usable
  <2> QED
    BY <1>2, <2>1, <2>2 DEF Covered
<1>4. AtBatch' /\ Covered'
  <2>1. Batch' = Batch
    BY <1>1, BatchIs, BatchMoves
  <2>2. Paragraphs' = Paragraphs
    BY <1>1 DEF Paragraphs
  <2>3. AtBatch'
    BY <1>1, <1>2, <2>1, <2>2 DEF AtBatch
  <2>4. Covered'
    BY <1>1, <1>2 DEF Covered, Usable, Continues
  <2> QED
    BY <2>3, <2>4
<1>5. CASE \A i \in DOMAIN boundaries : Whole(boundaries[i])
  <2>1. /\ segmenting' = "stored"
        /\ sections' = IF boundaries = <<>> THEN sections ELSE [i \in DOMAIN boundaries |-> ToNewSection(boundaries[i])]
    BY <1>5 DEF InsertSections
  <2>2. /\ lengths # <<>> => sections' # <<>>
        /\ sections' = <<>> \/ Complete(sections', lengths)
    <3>1. CASE boundaries = <<>>
      BY <1>2, <1>3, <2>1, <3>1, EmptySeq
    <3>2. CASE boundaries # <<>>
      <4>1. Usable(boundaries, 1, Len(lengths))
        BY <1>2, <1>3, <3>2 DEF Covered
      <4>2. sections' = [i \in DOMAIN boundaries |-> ToNewSection(boundaries[i])]
        BY <2>1, <3>2
      <4>3. /\ sections' # <<>> /\ sections' \in Seq(Seq(1..Len(lengths)))
            /\ FlattenSeq(sections') = [p \in 1..Len(lengths) |-> p]
            /\ \A i \in DOMAIN sections' : sections'[i] # <<>>
        BY <1>2, <1>5, <4>1, <4>2, SectionsOfCover
      <4> QED
        BY <4>3 DEF Complete
    <3> QED
      BY <3>1, <3>2
  <2> QED
    BY <1>1, <1>2, <1>4, <2>1, <2>2 DEF SegmentationInv, Complete, Paragraphs
<1>6. CASE ~\A i \in DOMAIN boundaries : Whole(boundaries[i])
  <2>1. segmenting' = "refused" /\ sections' = sections
    BY <1>6 DEF InsertSections
  <2>2. \E i \in DOMAIN boundaries' : ~Whole(boundaries'[i])
    BY <1>1, <1>6
  <2> QED
    BY <1>1, <1>2, <1>4, <2>1, <2>2 DEF SegmentationInv, Complete, Whole
<1> QED
  BY <1>5, <1>6

LEMMA SegmentationStep ==
  ASSUME SegmentationInv, [SegmentationNext]_segmentationVars
  PROVE  SegmentationInv'
<1>1. CASE Parses
  <2>1. /\ segmenting = "parsing" /\ segmenting' = "batches" /\ UNCHANGED <<nextPara, boundaries, sections>>
    BY <1>1 DEF Parses
  <2>2. PICK n \in 0..MaxParagraphs : lengths' \in [1..n -> Length]
    BY <1>1 DEF Parses
  <2>3. MaxParagraphs \in Nat /\ n \in Nat /\ n <= MaxParagraphs
    BY <2>2, SegmentationConstants
  <2>4. lengths' \in Seq(Length) /\ Len(lengths') = n
    BY <2>2, <2>3, FunctionIsSeq
  <2>5. nextPara = 1 /\ sections = <<>> /\ boundaries \in Seq(Boundary) /\ Covered
    BY <2>1 DEF SegmentationInv
  <2>6. nextPara' = 1 /\ boundaries' = <<>> /\ sections' = <<>>
    BY <2>1, <2>5 DEF Covered
  <2>7. AtBatch'
    BY <2>4, <2>6, AtBatchAgain
  <2>8. Covered' /\ nextPara' \in 1..(Len(lengths') + 1)
    BY <2>3, <2>4, <2>6 DEF Covered
  <2> QED
    BY <2>1, <2>3, <2>4, <2>5, <2>6, <2>7, <2>8 DEF SegmentationInv
<1>2. ASSUME SegmentFails \/ \E answer \in Answer : SegmentThrows(answer) PROVE SegmentationInv'
  <2>1. /\ segmenting = "batches" /\ segmenting' \in {"failed", "thrown"}
        /\ UNCHANGED <<lengths, nextPara, boundaries, sections>>
    BY <1>2 DEF SegmentFails, SegmentThrows
  <2>2. AtBatch' /\ Covered'
    <3>1. Batch' = Batch /\ Paragraphs' = Paragraphs
      BY <2>1, BatchIs, BatchMoves DEF Paragraphs
    <3>2. AtBatch /\ Covered
      BY DEF SegmentationInv
    <3> QED
      BY <2>1, <3>1, <3>2 DEF AtBatch, Covered, Usable, Continues
  <2> QED
    BY <2>1, <2>2 DEF SegmentationInv, Complete
<1>3. CASE SegmentsAgain
  <2>1. /\ segmenting' = "batches" /\ nextPara' = 1 /\ boundaries' = <<>>
        /\ UNCHANGED <<lengths, sections>>
    BY <1>3 DEF SegmentsAgain
  <2>2. /\ lengths \in Seq(Length) /\ Len(lengths) <= MaxParagraphs /\ Len(lengths) \in Nat
        /\ sections = <<>> \/ Complete(sections, lengths)
    BY LenProperties DEF SegmentationInv
  <2>3. AtBatch'
    BY <2>1, <2>2, AtBatchAgain
  <2>4. Covered' /\ nextPara' \in 1..(Len(lengths') + 1) /\ boundaries' \in Seq(Boundary)
    BY <2>1, <2>2, EmptySeq DEF Covered
  <2> QED
    BY <2>1, <2>2, <2>3, <2>4 DEF SegmentationInv, Complete
<1>4. CASE UNCHANGED segmentationVars
  <2>1. UNCHANGED <<lengths, segmenting, nextPara, boundaries, sections>>
    BY <1>4 DEF segmentationVars
  <2>2. AtBatch' /\ Covered'
    <3>1. Batch' = Batch /\ Paragraphs' = Paragraphs
      BY <2>1, BatchIs, BatchMoves DEF Paragraphs
    <3>2. AtBatch /\ Covered
      BY DEF SegmentationInv
    <3> QED
      BY <2>1, <3>1, <3>2 DEF AtBatch, Covered, Usable, Continues
  <2> QED
    BY <2>1, <2>2 DEF SegmentationInv, Complete, Paragraphs, Whole
<1> QED
  BY <1>1, <1>2, <1>3, <1>4, SegmentBatchKeeps, InsertSectionsKeeps DEF SegmentationNext

LEMMA SegmentationHolds == SegmentationSpec => []SegmentationInv
BY SegmentationStarts, SegmentationStep, PTL DEF SegmentationSpec

\* The section rows of a source are the whole source: every paragraph once and
\* in order, whatever the model answers and however the paragraphs fall into
\* batches, for any sizes of batch, budget and source (segmenter.ts,
\* pipeline.ts, semantic-store.ts insertSections).
THEOREM SectionsCoverHolds == SegmentationSpec => []SectionsCover
<1>1. SegmentationInv => SectionsCover
  <2> SUFFICES ASSUME SegmentationInv PROVE SectionsCover
    OBVIOUS
  <2>1. sections = <<>> \/ Complete(sections, lengths)
    BY DEF SegmentationInv
  <2> QED
    BY <2>1 DEF SectionsCover, SegmentationInv, Complete, Paragraphs
<1> QED
  BY <1>1, SegmentationHolds, PTL

\* The pass keeps its types: a boundary never leaves the source.
THEOREM SegmentationTypeCorrect == SegmentationSpec => []SegmentationTypeOK
<1>1. SegmentationInv => SegmentationTypeOK
  <2> SUFFICES ASSUME SegmentationInv PROVE SegmentationTypeOK
    OBVIOUS
  <2>1. sections \in Seq(Seq(Paragraphs))
    BY EmptySeq DEF SegmentationInv, Complete, Paragraphs
  <2> QED
    BY <2>1 DEF SegmentationInv, SegmentationTypeOK
<1> QED
  BY <1>1, SegmentationHolds, PTL

-----------------------------------------------------------------------------
(* Turns: the loop, its fences and the held actions.  The inductive           *)
(* invariant says of each turn what its place in the loop implies: what it    *)
(* may still write under the claim it last read, what its mission was when it *)
(* passed the gate, and that no bill is settled before the turn ends.  Of the *)
(* held actions it says that those approved and not yet run are, one for one, *)
(* the confirmations under way and those that died.                           *)

TurnRow ==
  [at : At, kind : Kind, missionId : 0..MaxMissions, seq : 0..MaxClaims,
   iteration : 0..MaxIterations, calls : 0..MaxCalls, blocked : BOOLEAN,
   metered : Nat, spent : Nat, billed : Nat, lost : Loss, late : Nat,
   slack : Nat, ungatedLate : Nat]

\* Between a fence and the rows written behind it.
WriteAhead == {"idle", "queued", "append", "step", "reply", "holdRows", "stream"}

\* Below the ceiling when it streams.
LoopRow(r) == r.at = "stream" => r.iteration < MaxIterations

\* A turn that holds its claim has written nothing late, and one about to
\* write behind a fence owes each late group of rows to a failed claim read.
OverlapRow(r) ==
  /\ r.seq <= room
  /\ r.seq = room => r.late = 0
  /\ r.at \in WriteAhead => r.late <= r.slack
  /\ r.late <= 1 + r.slack

\* Past the gate the mission was active once; it has stopped for good as soon
\* as a call ran late.
GateRow(r) ==
  /\ r.at = "ungated" => r.kind = "mission" /\ r.ungatedLate = 0
  /\ r.kind = "mission" => r.missionId \in TurnMission /\ mission[r.missionId] # "draft"
  /\ r.ungatedLate > 0 =>
       /\ r.ungatedLate = 1 /\ r.kind = "mission"
       /\ mission[r.missionId] = "stopped"

\* A turn owes nothing before its retrieval; what it is metered for is what its
\* owner had of it, and none is billed before its end.
BillRow(r) ==
  /\ r.at \in {"idle", "queued", "append"} => r.spent = 0
  /\ r.at # "ended" => r.billed = 0 /\ r.lost = "none" /\ r.metered = r.spent
  /\ r.at = "ended" => r.billed = IF r.lost = "none" THEN r.spent ELSE 0

RowOK(r) == LoopRow(r) /\ OverlapRow(r) /\ GateRow(r) /\ BillRow(r)

\* Approved and not yet run.
Unrun == {p \in Proposal : proposal[p] = "approved" /\ executed[p] = 0}

Dispatching == {k \in Confirm : confirm[k].at = "dispatch"}

\* Every confirmation under way has an action of its own that has not run.
ConfirmsOK ==
  /\ \A p \in Proposal : executed[p] <= IF proposal[p] = "approved" THEN 1 ELSE 0
  /\ \A k \in Dispatching : confirm[k].p \in Unrun
  /\ \A k, l \in Dispatching : confirm[k].p = confirm[l].p => k = l
  /\ Cardinality(Unrun) = lostConfirms + Cardinality(Dispatching)

TurnsOK == turn \in [Turn -> TurnRow] /\ \A t \in Turn : RowOK(turn[t])

MissionsOK == mission \in [TurnMission -> {"draft", "active", "stopped"}]

ProposalsTyped ==
  /\ proposal \in [Proposal -> {"none", "pending", "approved", "rejected"}]
  /\ executed \in [Proposal -> Nat]
  /\ confirm \in [Confirm -> [at : {"idle", "dispatch"}, p : 0..MaxProposals]]

FaultsOK == turnFaults \in 0..MaxTurnFaults /\ lostConfirms \in 0..turnFaults

TurnInv == room \in 1..MaxClaims /\ TurnsOK /\ MissionsOK /\ ProposalsTyped /\ ConfirmsOK /\ FaultsOK

-----------------------------------------------------------------------------
(* The initial state *)

LEMMA NoTurnOK == ASSUME room = 1 PROVE NoTurn \in TurnRow /\ RowOK(NoTurn)
BY TurnConstants DEF NoTurn, TurnRow, At, Kind, Loss, RowOK, LoopRow, OverlapRow, GateRow, BillRow

\* The initial state satisfies the invariant.
LEMMA TurnInitOK == TurnInit => TurnInv
<1> SUFFICES ASSUME TurnInit PROVE TurnInv
  OBVIOUS
<1>1. TurnsOK
  BY NoTurnOK DEF TurnInit, TurnsOK
<1>2. room \in 1..MaxClaims /\ MissionsOK /\ ProposalsTyped /\ FaultsOK
  BY TurnConstants DEF TurnInit, MissionsOK, ProposalsTyped, FaultsOK
<1>3. ConfirmsOK
  <2>1. Unrun = {} /\ Dispatching = {}
    BY DEF TurnInit, Unrun, Dispatching
  <2> QED
    BY <2>1, FS_EmptySet DEF TurnInit, ConfirmsOK
<1> QED
  BY <1>1, <1>2, <1>3 DEF TurnInv

-----------------------------------------------------------------------------
(* One turn moves *)

\* A turn's new row is all that has to be looked at.
LEMMA RowMoves ==
  ASSUME TurnsOK, UNCHANGED <<room, mission>>, NEW t \in Turn, NEW r \in TurnRow, RowOK(r),
         turn' = [turn EXCEPT ![t] = r]
  PROVE  TurnsOK'
BY DEF TurnsOK, RowOK, LoopRow, OverlapRow, GateRow, BillRow

\* EndTurn settles the bill, or loses it.
LEMMA EndTurnKeeps ==
  ASSUME TurnInv, UNCHANGED <<room, mission>>, NEW t \in Turn, turn[t].at # "ended",
         NEW b, NEW l \in Loss, b = IF l = "none" THEN turn[t].spent ELSE 0, EndTurn(t, b, l)
  PROVE  TurnsOK'
<1> DEFINE r == [NoTurn EXCEPT !.at = "ended", !.spent = turn[t].spent,
                               !.billed = turn[t].billed + b, !.lost = l]
<1>1. turn[t] \in TurnRow /\ RowOK(turn[t])
  BY DEF TurnInv, TurnsOK
<1>2. turn[t].spent \in Nat /\ turn[t].billed = 0 /\ b \in Nat
  BY <1>1 DEF TurnRow, RowOK, BillRow
<1>3. r \in TurnRow
  <2>1. NoTurn \in TurnRow
    BY TurnConstants DEF NoTurn, TurnRow, At, Kind, Loss
  <2>2. "ended" \in At /\ turn[t].billed + b \in Nat
    BY <1>2 DEF At
  <2> HIDE DEF NoTurn
  <2> QED
    BY <1>2, <2>1, <2>2 DEF TurnRow
<1>4. /\ r.at = "ended" /\ r.kind = "chat" /\ r.seq = 0 /\ r.late = 0 /\ r.slack = 0 /\ r.ungatedLate = 0
      /\ r.spent = turn[t].spent /\ r.billed = b /\ r.lost = l
  BY <1>2 DEF NoTurn
<1> HIDE DEF r
<1>5. RowOK(r)
  BY <1>2, <1>4 DEF TurnInv, RowOK, LoopRow, OverlapRow, GateRow, BillRow, WriteAhead
<1>6. turn' = [turn EXCEPT ![t] = r]
  BY DEF EndTurn, r
<1> QED
  BY <1>3, <1>5, <1>6, RowMoves DEF TurnInv

\* Leave keeps the claim the turn started under and what it owes.
LEMMA LeaveKeeps ==
  ASSUME TurnInv, UNCHANGED <<room, mission>>, NEW t \in Turn, turn[t].at # "ended",
         NEW at \in {"bill", "abandon"}, NEW n \in Nat, NEW late \in Nat,
         late <= 1 + turn[t].slack, Holds(t) => late = 0, Leave(t, at, n, n, late)
  PROVE  TurnsOK'
<1> DEFINE r == [NoTurn EXCEPT !.at = at, !.seq = turn[t].seq,
                               !.metered = turn[t].metered + n, !.spent = turn[t].spent + n,
                               !.billed = turn[t].billed, !.late = late, !.slack = turn[t].slack]
<1>1. turn[t] \in TurnRow /\ RowOK(turn[t])
  BY DEF TurnInv, TurnsOK
<1>2. /\ turn[t].billed = 0 /\ turn[t].seq \in 0..MaxClaims /\ turn[t].slack \in Nat /\ turn[t].seq <= room
      /\ turn[t].metered = turn[t].spent /\ turn[t].spent \in Nat
  BY <1>1 DEF TurnRow, RowOK, BillRow, OverlapRow
<1>3. r \in TurnRow
  <2>1. NoTurn \in TurnRow
    BY TurnConstants DEF NoTurn, TurnRow, At, Kind, Loss
  <2>2. at \in At
    BY DEF At
  <2>3. turn[t].billed \in Nat /\ turn[t].metered + n \in Nat /\ turn[t].spent + n \in Nat
    BY <1>2
  <2> HIDE DEF NoTurn
  <2> QED
    BY <1>2, <2>1, <2>2, <2>3 DEF TurnRow
<1>4. /\ r.at = at /\ r.kind = "chat" /\ r.seq = turn[t].seq /\ r.late = late /\ r.slack = turn[t].slack
      /\ r.ungatedLate = 0 /\ r.metered = r.spent /\ r.billed = 0 /\ r.lost = "none"
  BY <1>2 DEF NoTurn
<1> HIDE DEF r
<1>5. RowOK(r)
  BY <1>2, <1>4 DEF TurnInv, RowOK, LoopRow, OverlapRow, GateRow, BillRow, WriteAhead, Holds
<1>6. turn' = [turn EXCEPT ![t] = r]
  BY DEF Leave, r
<1> QED
  BY <1>3, <1>5, <1>6, RowMoves DEF TurnInv

\* The rest of the state is left alone by a step of the loop.
LEMMA OnlyTurn ==
  ASSUME TurnInv, TurnsOK', UNCHANGED onlyTurn, UNCHANGED turnFaults \/ TurnFault
  PROVE  TurnInv'
<1>1. ConfirmsOK'
  BY DEF TurnInv, onlyTurn, ConfirmsOK, Unrun, Dispatching
<1>2. FaultsOK'
  BY TurnConstants DEF TurnInv, onlyTurn, FaultsOK, TurnFault
<1> QED
  BY <1>1, <1>2 DEF TurnInv, onlyTurn, MissionsOK, ProposalsTyped

\* A turn that loses its bill.
LEMMA LostTurnKeeps ==
  ASSUME TurnInv, NEW t \in Turn, turn[t].at # "ended", NEW l \in Loss \ {"none"}, EndTurn(t, 0, l),
         UNCHANGED onlyTurn, TurnFault
  PROVE  TurnInv'
<1>1. UNCHANGED <<room, mission>>
  BY DEF onlyTurn
<1>2. TurnsOK'
  BY <1>1, EndTurnKeeps
<1> QED
  BY <1>2, OnlyTurn

\* A turn whose bill is settled, or cannot be written.
LEMMA DebitKeeps ==
  ASSUME TurnInv, NEW t \in Turn, turn[t].at # "ended", Debit(t), UNCHANGED onlyTurn
  PROVE  TurnInv'
<1>1. CASE EndTurn(t, turn[t].metered, "none") /\ UNCHANGED turnFaults
  <2>1. turn[t].metered = turn[t].spent /\ "none" \in Loss
    BY DEF TurnInv, TurnsOK, RowOK, BillRow, Loss
  <2>2. EndTurn(t, turn[t].spent, "none") /\ UNCHANGED <<room, mission>>
    BY <1>1, <2>1 DEF onlyTurn
  <2>3. TurnsOK'
    BY <2>1, <2>2, EndTurnKeeps
  <2> QED
    BY <1>1, <2>3, OnlyTurn
<1>2. CASE EndTurn(t, 0, "debit") /\ TurnFault
  <2>1. "debit" \in Loss \ {"none"}
    BY DEF Loss
  <2> QED
    BY <1>2, <2>1, LostTurnKeeps
<1> QED
  BY <1>1, <1>2 DEF Debit

\* Every step of the loop, and the starts that queue a turn.
LEMMA LoopKeeps ==
  ASSUME TurnInv, NEW t \in Turn
  PROVE  /\ SendMessage(t) => TurnInv'
         /\ EntryStepOf(t) \/ TurnDies(t) => TurnInv'
         /\ LoopStepOf(t) /\ ~HoldCall(t) => TurnInv'
         /\ \A m \in TurnMission : MissionAdvance(t, m) => TurnInv'
<1> DEFINE self == turn[t]
<1>a. self \in TurnRow /\ RowOK(self)
  BY DEF TurnInv, TurnsOK
<1>b. room \in 1..MaxClaims
  BY DEF TurnInv
<1>c. /\ self.at \in At /\ self.seq \in 0..MaxClaims /\ self.late \in Nat /\ self.slack \in Nat
      /\ self.metered \in Nat /\ self.spent \in Nat /\ self.seq <= room /\ self.late <= 1 + self.slack
      /\ self.calls \in 0..MaxCalls /\ self.iteration \in 0..MaxIterations /\ self.ungatedLate \in Nat
      /\ self.seq = room => self.late = 0
      /\ self.at = "stream" => self.iteration < MaxIterations
  BY <1>a DEF TurnRow, RowOK, OverlapRow, LoopRow
<1>d. LateRow(t) \in Nat /\ (Holds(t) => LateRow(t) = 0)
      /\ (self.at \in WriteAhead => LateRow(t) <= 1 + self.slack)
  BY <1>a, <1>c DEF LateRow, Holds, RowOK, OverlapRow
<1>e. NoTurn \in TurnRow
  BY TurnConstants DEF NoTurn, TurnRow, At, Kind, Loss
<1> HIDE DEF self
<1>1. ASSUME SendMessage(t) PROVE TurnInv'
  <2> DEFINE r == [NoTurn EXCEPT !.at = "queued", !.seq = room]
  <2>0. "queued" \in At /\ room \in 0..MaxClaims
    BY <1>1, <1>b, <1>c, TurnConstants DEF At, Unsettled, Kind, TurnMission
  <2>1. r \in TurnRow
    BY <1>a, <1>e, <2>0 DEF TurnRow
  <2>2. RowOK(r)
    BY <1>1, <1>a, <1>b, <1>c, <1>d, TurnConstants
       DEF NoTurn, RowOK, LoopRow, OverlapRow, GateRow, BillRow, WriteAhead, TurnRow, self
  <2>3. turn' = [turn EXCEPT ![t] = r]
    BY <1>1 DEF SendMessage, self
  <2>4. UNCHANGED onlyTurn /\ (UNCHANGED turnFaults \/ TurnFault)
    BY <1>1 DEF SendMessage
  <2> HIDE DEF r
  <2> QED
    BY <2>1, <2>2, <2>3, <2>4, RowMoves, OnlyTurn DEF TurnInv, onlyTurn
<1>2. ASSUME NEW m \in TurnMission, MissionAdvance(t, m) PROVE TurnInv'
  <2> DEFINE r == [NoTurn EXCEPT !.at = "queued", !.kind = "mission", !.missionId = m, !.seq = room]
  <2>0. "queued" \in At /\ "mission" \in Kind /\ m \in 0..MaxMissions /\ room \in 0..MaxClaims
    BY <1>2, <1>b, <1>c, TurnConstants DEF At, Unsettled, Kind, TurnMission
  <2>1. r \in TurnRow
    BY <1>a, <1>e, <2>0 DEF TurnRow
  <2>2. RowOK(r)
    BY <1>2, <1>a, <1>b, <1>c, <1>d, TurnConstants
       DEF NoTurn, MissionAdvance, RowOK, LoopRow, OverlapRow, GateRow, BillRow, WriteAhead,
           TurnRow, self
  <2>3. turn' = [turn EXCEPT ![t] = r]
    BY <1>2 DEF MissionAdvance, self
  <2>4. UNCHANGED onlyTurn /\ (UNCHANGED turnFaults \/ TurnFault)
    BY <1>2 DEF MissionAdvance
  <2> HIDE DEF r
  <2> QED
    BY <2>1, <2>2, <2>3, <2>4, RowMoves, OnlyTurn DEF TurnInv, onlyTurn
<1>3. ASSUME RunSerial(t) PROVE TurnInv'
  <2> DEFINE r == [self EXCEPT !.at = IF self.kind = "resume" THEN "prepare" ELSE "append"]
  <2>0. (IF self.kind = "resume" THEN "prepare" ELSE "append") \in At
    BY <1>3, <1>b, <1>c, TurnConstants DEF At, Unsettled, Kind, TurnMission
  <2>1. r \in TurnRow
    BY <1>a, <1>e, <2>0 DEF TurnRow
  <2>2. RowOK(r)
    BY <1>3, <1>a, <1>b, <1>c, <1>d, TurnConstants
       DEF RunSerial, RowOK, LoopRow, OverlapRow, GateRow, BillRow, WriteAhead, TurnRow, self
  <2>3. turn' = [turn EXCEPT ![t] = r]
    BY <1>3 DEF RunSerial, TurnAt, self
  <2>4. UNCHANGED onlyTurn /\ (UNCHANGED turnFaults \/ TurnFault)
    BY <1>3 DEF RunSerial, TurnAt
  <2> HIDE DEF r
  <2> QED
    BY <2>1, <2>2, <2>3, <2>4, RowMoves, OnlyTurn DEF TurnInv, onlyTurn
<1>4. ASSUME AppendUser(t) PROVE TurnInv'
  <2> DEFINE r == [self EXCEPT !.at = "prepare", !.late = LateRow(t)]
  <2>0. "prepare" \in At /\ LateRow(t) \in Nat
    BY <1>4, <1>b, <1>c, TurnConstants, <1>d DEF At, Unsettled, Kind, TurnMission
  <2>1. r \in TurnRow
    BY <1>a, <1>e, <2>0 DEF TurnRow
  <2>2. RowOK(r)
    BY <1>4, <1>a, <1>b, <1>c, <1>d, TurnConstants, <1>d
       DEF AppendUser, Holds, RowOK, LoopRow, OverlapRow, GateRow, BillRow, WriteAhead, TurnRow,
           self
  <2>3. turn' = [turn EXCEPT ![t] = r]
    BY <1>4 DEF AppendUser, Write, self
  <2>4. UNCHANGED onlyTurn /\ (UNCHANGED turnFaults \/ TurnFault)
    BY <1>4 DEF AppendUser, Write
  <2> HIDE DEF r
  <2> QED
    BY <2>1, <2>2, <2>3, <2>4, RowMoves, OnlyTurn DEF TurnInv, onlyTurn
<1>5. ASSUME AppendFails(t) PROVE TurnInv'
  <2>1. EndTurn(t, 0, "none") /\ "none" \in Loss
    BY <1>5 DEF AppendFails, Loss
  <2>2. UNCHANGED onlyTurn /\ (UNCHANGED turnFaults \/ TurnFault)
    BY <1>5 DEF AppendFails
  <2>3. turn[t].at # "ended" /\ turn[t].spent = 0
    BY <1>5, <1>a DEF AppendFails, RowOK, BillRow, self
  <2>4. UNCHANGED <<room, mission>>
    BY <2>2 DEF onlyTurn
  <2> QED
    BY <2>1, <2>2, <2>3, <2>4, EndTurnKeeps, OnlyTurn
<1>6. ASSUME StoodDown(t) PROVE TurnInv'
  <2>1. Leave(t, "abandon", 0, 0, 0) /\ 0 \in Nat
    BY <1>6 DEF StoodDown
  <2>2. UNCHANGED onlyTurn /\ (UNCHANGED turnFaults \/ TurnFault)
    BY <1>6 DEF StoodDown
  <2>3. turn[t].at # "ended"
    BY <1>6, <1>c DEF StoodDown, AtFence, self
  <2>4. 0 \in Nat /\ 0 <= 1 + turn[t].slack /\ (Holds(t) => 0 = 0)
    BY <1>6, <1>c, <1>d DEF StoodDown, WriteAhead, self
  <2> QED
    BY <2>1, <2>2, <2>3, <2>4, LeaveKeeps, OnlyTurn DEF onlyTurn
<1>7. ASSUME PassesFence(t) PROVE TurnInv'
  <2> DEFINE r == [self EXCEPT !.at = PastFence(t)]
  <2>p. PastFence(t) \in {"reply", "stream", "step", "holdRows"}
    BY <1>7 DEF PassesFence, AtFence, PastFence
  <2>0. PastFence(t) \in At
    BY <1>7, <1>b, <1>c, TurnConstants, <2>p DEF At, Unsettled, Kind, TurnMission
  <2>1. r \in TurnRow
    BY <1>a, <1>e, <2>0 DEF TurnRow
  <2>2. RowOK(r)
    BY <1>7, <1>a, <1>b, <1>c, <1>d, TurnConstants, <2>p
       DEF PassesFence, PastFence, AtFence, Fences, Holds, RowOK, LoopRow, OverlapRow, GateRow,
           BillRow, WriteAhead, TurnRow, self
  <2>3. turn' = [turn EXCEPT ![t] = r]
    BY <1>7 DEF PassesFence, TurnAt, self
  <2>4. UNCHANGED onlyTurn /\ (UNCHANGED turnFaults \/ TurnFault)
    BY <1>7 DEF PassesFence, TurnAt
  <2> HIDE DEF r
  <2> QED
    BY <2>1, <2>2, <2>3, <2>4, RowMoves, OnlyTurn DEF TurnInv, onlyTurn
<1>8. ASSUME LeaseReadFails(t) PROVE TurnInv'
  <2> DEFINE r == [self EXCEPT !.at = PastFence(t), !.slack = @ + 1]
  <2>p. PastFence(t) \in {"reply", "stream", "step", "holdRows"}
    BY <1>8 DEF LeaseReadFails, AtFence, PastFence
  <2>0. PastFence(t) \in At /\ (self.slack + 1) \in Nat
    BY <1>8, <1>b, <1>c, TurnConstants, <2>p DEF At, Unsettled, Kind, TurnMission
  <2>1. r \in TurnRow
    BY <1>a, <1>e, <2>0 DEF TurnRow
  <2>2. RowOK(r)
    BY <1>8, <1>a, <1>b, <1>c, <1>d, TurnConstants, <2>p
       DEF LeaseReadFails, PastFence, AtFence, RowOK, LoopRow, OverlapRow, GateRow, BillRow,
           WriteAhead, TurnRow, self
  <2>3. turn' = [turn EXCEPT ![t] = r]
    BY <1>8 DEF LeaseReadFails, self
  <2>4. UNCHANGED onlyTurn /\ (UNCHANGED turnFaults \/ TurnFault)
    BY <1>8 DEF LeaseReadFails
  <2> HIDE DEF r
  <2> QED
    BY <2>1, <2>2, <2>3, <2>4, RowMoves, OnlyTurn DEF TurnInv, onlyTurn
<1>9. ASSUME NEW b \in BOOLEAN, Stream(t, b) PROVE TurnInv'
  <2> DEFINE r == [self EXCEPT !.at = IF b THEN "calls" ELSE "replyFence", !.iteration = @ + 1, !.calls = MaxCalls,
                         !.metered = @ + 1, !.spent = @ + 1]
  <2>0. (IF b THEN "calls" ELSE "replyFence") \in At /\ (self.iteration + 1) \in 0..MaxIterations /\ MaxCalls \in 0..MaxCalls
        /\ self.metered + 1 \in Nat /\ self.spent + 1 \in Nat
    BY <1>9, <1>b, <1>c, TurnConstants DEF Stream, self, At, Unsettled, Kind, TurnMission
  <2>1. r \in TurnRow
    BY <1>a, <1>e, <2>0 DEF TurnRow
  <2>2. RowOK(r)
    BY <1>9, <1>a, <1>b, <1>c, <1>d, TurnConstants
       DEF Stream, RowOK, LoopRow, OverlapRow, GateRow, BillRow, WriteAhead, TurnRow, self
  <2>3. turn' = [turn EXCEPT ![t] = r]
    BY <1>9 DEF Stream, self
  <2>4. UNCHANGED onlyTurn /\ (UNCHANGED turnFaults \/ TurnFault)
    BY <1>9 DEF Stream
  <2> HIDE DEF r
  <2> QED
    BY <2>1, <2>2, <2>3, <2>4, RowMoves, OnlyTurn DEF TurnInv, onlyTurn
<1>10. ASSUME NEW b \in BOOLEAN, ReadOnlyCall(t, b) PROVE TurnInv'
  <2> DEFINE r == [self EXCEPT !.at = IF b THEN "stepFence" ELSE "calls", !.calls = @ - 1]
  <2>0. (IF b THEN "stepFence" ELSE "calls") \in At /\ (self.calls - 1) \in 0..MaxCalls
    BY <1>10, <1>b, <1>c, TurnConstants DEF ReadOnlyCall, self, At, Unsettled, Kind, TurnMission
  <2>1. r \in TurnRow
    BY <1>a, <1>e, <2>0 DEF TurnRow
  <2>2. RowOK(r)
    BY <1>10, <1>a, <1>b, <1>c, <1>d, TurnConstants
       DEF ReadOnlyCall, RowOK, LoopRow, OverlapRow, GateRow, BillRow, WriteAhead, TurnRow, self
  <2>3. turn' = [turn EXCEPT ![t] = r]
    BY <1>10 DEF ReadOnlyCall, self
  <2>4. UNCHANGED onlyTurn /\ (UNCHANGED turnFaults \/ TurnFault)
    BY <1>10 DEF ReadOnlyCall
  <2> HIDE DEF r
  <2> QED
    BY <2>1, <2>2, <2>3, <2>4, RowMoves, OnlyTurn DEF TurnInv, onlyTurn
<1>11. ASSUME RecordToolStep(t), Write(t, "calls") PROVE TurnInv'
  <2> DEFINE r == [self EXCEPT !.at = "calls", !.late = LateRow(t)]
  <2>0. "calls" \in At /\ LateRow(t) \in Nat
    BY <1>11, <1>b, <1>c, TurnConstants, <1>d DEF At, Unsettled, Kind, TurnMission
  <2>1. r \in TurnRow
    BY <1>a, <1>e, <2>0 DEF TurnRow
  <2>2. RowOK(r)
    BY <1>11, <1>a, <1>b, <1>c, <1>d, TurnConstants, <1>d
       DEF RecordToolStep, Holds, RowOK, LoopRow, OverlapRow, GateRow, BillRow, WriteAhead,
           TurnRow, self
  <2>3. turn' = [turn EXCEPT ![t] = r]
    BY <1>11 DEF RecordToolStep, Write, self
  <2>4. UNCHANGED onlyTurn /\ (UNCHANGED turnFaults \/ TurnFault)
    BY <1>11 DEF RecordToolStep, Write
  <2> HIDE DEF r
  <2> QED
    BY <2>1, <2>2, <2>3, <2>4, RowMoves, OnlyTurn DEF TurnInv, onlyTurn
<1>12. ASSUME RecordToolStep(t), TurnAt(t, "calls") PROVE TurnInv'
  <2> DEFINE r == [self EXCEPT !.at = "calls"]
  <2>0. "calls" \in At
    BY <1>12, <1>b, <1>c, TurnConstants DEF At, Unsettled, Kind, TurnMission
  <2>1. r \in TurnRow
    BY <1>a, <1>e, <2>0 DEF TurnRow
  <2>2. RowOK(r)
    BY <1>12, <1>a, <1>b, <1>c, <1>d, TurnConstants
       DEF RecordToolStep, RowOK, LoopRow, OverlapRow, GateRow, BillRow, WriteAhead, TurnRow, self
  <2>3. turn' = [turn EXCEPT ![t] = r]
    BY <1>12 DEF RecordToolStep, TurnAt, self
  <2>4. UNCHANGED onlyTurn /\ (UNCHANGED turnFaults \/ TurnFault)
    BY <1>12 DEF RecordToolStep, TurnAt
  <2> HIDE DEF r
  <2> QED
    BY <2>1, <2>2, <2>3, <2>4, RowMoves, OnlyTurn DEF TurnInv, onlyTurn
<1>13. ASSUME EffectfulCall(t) PROVE TurnInv'
  <2> DEFINE r == [self EXCEPT !.at = IF Ungated(t) THEN "ungated" ELSE "hold", !.calls = @ - 1]
  <2>0. (IF Ungated(t) THEN "ungated" ELSE "hold") \in At /\ (self.calls - 1) \in 0..MaxCalls
    BY <1>13, <1>b, <1>c, TurnConstants DEF EffectfulCall, self, At, Unsettled, Kind, TurnMission
  <2>1. r \in TurnRow
    BY <1>a, <1>e, <2>0 DEF TurnRow
  <2>2. RowOK(r)
    BY <1>13, <1>a, <1>b, <1>c, <1>d, TurnConstants
       DEF EffectfulCall, Ungated, RowOK, LoopRow, OverlapRow, GateRow, BillRow, WriteAhead,
           TurnRow, self
  <2>3. turn' = [turn EXCEPT ![t] = r]
    BY <1>13 DEF EffectfulCall, self
  <2>4. UNCHANGED onlyTurn /\ (UNCHANGED turnFaults \/ TurnFault)
    BY <1>13 DEF EffectfulCall
  <2> HIDE DEF r
  <2> QED
    BY <2>1, <2>2, <2>3, <2>4, RowMoves, OnlyTurn DEF TurnInv, onlyTurn
<1>14. ASSUME DispatchUngated(t) PROVE TurnInv'
  <2> DEFINE r == [self EXCEPT !.at = "stepFence", !.ungatedLate = IF mission[self.missionId] = "active" THEN @ ELSE @ + 1]
  <2>0. "stepFence" \in At /\ (IF mission[self.missionId] = "active" THEN self.ungatedLate ELSE self.ungatedLate + 1) \in Nat
    BY <1>14, <1>b, <1>c, TurnConstants DEF At, Unsettled, Kind, TurnMission
  <2>1. r \in TurnRow
    BY <1>a, <1>e, <2>0 DEF TurnRow
  <2>2. RowOK(r)
    BY <1>14, <1>a, <1>b, <1>c, <1>d, TurnConstants
       DEF DispatchUngated, TurnInv, MissionsOK, RowOK, LoopRow, OverlapRow, GateRow, BillRow,
           WriteAhead, TurnRow, self
  <2>3. turn' = [turn EXCEPT ![t] = r]
    BY <1>14 DEF DispatchUngated, self
  <2>4. UNCHANGED onlyTurn /\ (UNCHANGED turnFaults \/ TurnFault)
    BY <1>14 DEF DispatchUngated
  <2> HIDE DEF r
  <2> QED
    BY <2>1, <2>2, <2>3, <2>4, RowMoves, OnlyTurn DEF TurnInv, onlyTurn
<1>15. ASSUME CallsDone(t) PROVE TurnInv'
  <2> DEFINE r == [self EXCEPT !.at = IF self.blocked THEN "holdFence" ELSE "top", !.calls = 0]
  <2>0. (IF self.blocked THEN "holdFence" ELSE "top") \in At /\ 0 \in 0..MaxCalls
    BY <1>15, <1>b, <1>c, TurnConstants DEF CallsDone, At, Unsettled, Kind, TurnMission
  <2>1. r \in TurnRow
    BY <1>a, <1>e, <2>0 DEF TurnRow
  <2>2. RowOK(r)
    BY <1>15, <1>a, <1>b, <1>c, <1>d, TurnConstants
       DEF CallsDone, RowOK, LoopRow, OverlapRow, GateRow, BillRow, WriteAhead, TurnRow, self
  <2>3. turn' = [turn EXCEPT ![t] = r]
    BY <1>15 DEF CallsDone, self
  <2>4. UNCHANGED onlyTurn /\ (UNCHANGED turnFaults \/ TurnFault)
    BY <1>15 DEF CallsDone
  <2> HIDE DEF r
  <2> QED
    BY <2>1, <2>2, <2>3, <2>4, RowMoves, OnlyTurn DEF TurnInv, onlyTurn
<1>16. ASSUME FinalRows(t) PROVE TurnInv'
  <2>1. Leave(t, "bill", 0, 0, LateRow(t)) /\ 0 \in Nat
    BY <1>16 DEF FinalRows
  <2>2. UNCHANGED onlyTurn /\ (UNCHANGED turnFaults \/ TurnFault)
    BY <1>16 DEF FinalRows
  <2>3. turn[t].at # "ended"
    BY <1>16, <1>c DEF FinalRows, AtFence, self
  <2>4. LateRow(t) \in Nat /\ LateRow(t) <= 1 + turn[t].slack /\ (Holds(t) => LateRow(t) = 0)
    BY <1>16, <1>c, <1>d DEF FinalRows, WriteAhead, self
  <2> QED
    BY <2>1, <2>2, <2>3, <2>4, LeaveKeeps, OnlyTurn DEF onlyTurn
<1>17. ASSUME FinalRowsFail(t) PROVE TurnInv'
  <2>1. EndTurn(t, 0, "finish") /\ "finish" \in Loss \ {"none"} /\ UNCHANGED onlyTurn /\ TurnFault
    BY <1>17 DEF FinalRowsFail, Loss
  <2>2. turn[t].at # "ended"
    BY <1>17 DEF FinalRowsFail
  <2> QED
    BY <2>1, <2>2, LostTurnKeeps
<1>18. ASSUME Bill(t) PROVE TurnInv'
  <2>1. Debit(t) /\ UNCHANGED onlyTurn /\ turn[t].at # "ended"
    BY <1>18 DEF Bill
  <2> QED
    BY <2>1, DebitKeeps
<1>19. ASSUME ProviderFaults(t) PROVE TurnInv'
  <2>1. Leave(t, "abandon", 0, 0, 0) /\ 0 \in Nat
    BY <1>19 DEF ProviderFaults
  <2>2. UNCHANGED onlyTurn /\ (UNCHANGED turnFaults \/ TurnFault)
    BY <1>19 DEF ProviderFaults
  <2>3. turn[t].at # "ended"
    BY <1>19, <1>c DEF ProviderFaults, AtFence, self
  <2>4. 0 \in Nat /\ 0 <= 1 + turn[t].slack /\ (Holds(t) => 0 = 0)
    BY <1>19, <1>c, <1>d DEF ProviderFaults, WriteAhead, self
  <2> QED
    BY <2>1, <2>2, <2>3, <2>4, LeaveKeeps, OnlyTurn DEF onlyTurn
<1>20. ASSUME ConsumerStops(t) PROVE TurnInv'
  <2>1. Leave(t, "abandon", 1, 1, 0) /\ 1 \in Nat
    BY <1>20 DEF ConsumerStops
  <2>2. UNCHANGED onlyTurn /\ (UNCHANGED turnFaults \/ TurnFault)
    BY <1>20 DEF ConsumerStops
  <2>3. turn[t].at # "ended"
    BY <1>20, <1>c DEF ConsumerStops, AtFence, self
  <2>4. 0 \in Nat /\ 0 <= 1 + turn[t].slack /\ (Holds(t) => 0 = 0)
    BY <1>20, <1>c, <1>d DEF ConsumerStops, WriteAhead, self
  <2> QED
    BY <2>1, <2>2, <2>3, <2>4, LeaveKeeps, OnlyTurn DEF onlyTurn
<1>21. ASSUME Abandoned(t) PROVE TurnInv'
  <2>1. Leave(t, "abandon", 0, 0, 0) /\ 0 \in Nat
    BY <1>21 DEF Abandoned
  <2>2. UNCHANGED onlyTurn /\ (UNCHANGED turnFaults \/ TurnFault)
    BY <1>21 DEF Abandoned
  <2>3. turn[t].at # "ended"
    BY <1>21, <1>c DEF Abandoned, AtFence, self
  <2>4. 0 \in Nat /\ 0 <= 1 + turn[t].slack /\ (Holds(t) => 0 = 0)
    BY <1>21, <1>c, <1>d DEF Abandoned, WriteAhead, self
  <2> QED
    BY <2>1, <2>2, <2>3, <2>4, LeaveKeeps, OnlyTurn DEF onlyTurn
<1>22. ASSUME SettleAbandoned(t) PROVE TurnInv'
  <2>1. Debit(t) /\ UNCHANGED onlyTurn /\ turn[t].at # "ended"
    BY <1>22 DEF SettleAbandoned
  <2> QED
    BY <2>1, DebitKeeps
<1>23. ASSUME TurnDies(t) PROVE TurnInv'
  <2>1. EndTurn(t, 0, "death") /\ "death" \in Loss \ {"none"} /\ UNCHANGED onlyTurn /\ TurnFault
    BY <1>23 DEF TurnDies, Loss
  <2>2. turn[t].at # "ended"
    BY <1>23 DEF TurnDies
  <2> QED
    BY <2>1, <2>2, LostTurnKeeps
<1>24. ASSUME EntryFails(t) PROVE TurnInv'
  <2>1. EndTurn(t, 0, "entry") /\ "entry" \in Loss \ {"none"} /\ UNCHANGED onlyTurn /\ TurnFault
    BY <1>24 DEF EntryFails, Loss
  <2>2. turn[t].at # "ended"
    BY <1>24 DEF EntryFails
  <2> QED
    BY <2>1, <2>2, LostTurnKeeps
<1>25. ASSUME Prepare(t) PROVE TurnInv'
  <2> DEFINE r == [self EXCEPT !.at = "entry", !.metered = RetrievalCost[t], !.spent = RetrievalCost[t]]
  <2>0. "entry" \in At /\ RetrievalCost[t] \in Nat
    BY RetrievalConstants DEF At, Turn
  <2>1. r \in TurnRow
    BY <1>a, <2>0 DEF TurnRow
  <2>2. RowOK(r)
    BY <1>25, <1>a, <1>c DEF Prepare, RowOK, LoopRow, OverlapRow, GateRow, BillRow, WriteAhead, TurnRow, self
  <2>3. turn' = [turn EXCEPT ![t] = r]
    BY <1>25 DEF Prepare, self
  <2>4. UNCHANGED onlyTurn /\ UNCHANGED turnFaults
    BY <1>25 DEF Prepare
  <2> HIDE DEF r
  <2> QED
    BY <2>1, <2>2, <2>3, <2>4, RowMoves, OnlyTurn DEF TurnInv, onlyTurn
<1>26. ASSUME Enter(t) PROVE TurnInv'
  <2> DEFINE r == [self EXCEPT !.at = "top"]
  <2>0. "top" \in At
    BY DEF At, Unsettled
  <2>1. r \in TurnRow
    BY <1>a, <2>0 DEF TurnRow
  <2>2. RowOK(r)
    BY <1>26, <1>a, <1>c DEF Enter, RowOK, LoopRow, OverlapRow, GateRow, BillRow, WriteAhead, TurnRow, self
  <2>3. turn' = [turn EXCEPT ![t] = r]
    BY <1>26 DEF Enter, TurnAt, self
  <2>4. UNCHANGED onlyTurn /\ UNCHANGED turnFaults
    BY <1>26 DEF Enter
  <2> HIDE DEF r
  <2> QED
    BY <2>1, <2>2, <2>3, <2>4, RowMoves, OnlyTurn DEF TurnInv, onlyTurn
<1> QED
  BY <1>1, <1>2, <1>3, <1>4, <1>5, <1>6, <1>7, <1>8, <1>9, <1>10, <1>11, <1>12, <1>13, <1>14,
     <1>15, <1>16, <1>17, <1>18, <1>19, <1>20, <1>21, <1>22, <1>23, <1>24, <1>25, <1>26
     DEF LoopStepOf, EntryStepOf, RecordToolStep

-----------------------------------------------------------------------------
(* The room and the missions *)

\* No turn started under a claim that does not exist yet.
LEMMA SupersedeKeeps == ASSUME TurnInv, Supersede PROVE TurnInv'
<1>1. TurnsOK'
  <2>1. \A t \in Turn : turn[t].seq \in 0..MaxClaims /\ turn[t].seq <= room
    BY DEF TurnInv, TurnsOK, TurnRow, RowOK, OverlapRow
  <2> QED
    BY <2>1 DEF Supersede, TurnInv, TurnsOK, RowOK, LoopRow, OverlapRow, GateRow, BillRow
<1>2. room' \in 1..MaxClaims
  BY TurnConstants DEF TurnInv, Supersede
<1> QED
  BY <1>1, <1>2
     DEF TurnInv, Supersede, MissionsOK, ProposalsTyped, ConfirmsOK, Unrun, Dispatching, FaultsOK

\* A mission that stopped stays stopped, and none goes back to a draft.
LEMMA MissionKeeps ==
  ASSUME TurnInv, NEW m \in TurnMission, MissionStarts(m) \/ MissionStops(m)
  PROVE  TurnInv'
<1>1. MissionsOK'
  BY DEF TurnInv, MissionsOK, MissionStarts, MissionStops
<1>2. /\ \A n \in TurnMission : /\ mission[n] # "draft" => mission'[n] # "draft"
                                /\ mission[n] = "stopped" => mission'[n] = "stopped"
      /\ UNCHANGED <<room, turn, proposal, executed, confirm, lostConfirms, turnFaults>>
  BY DEF TurnInv, MissionsOK, MissionStarts, MissionStops
<1>3. TurnsOK'
  BY <1>2 DEF TurnInv, TurnsOK, RowOK, LoopRow, OverlapRow, GateRow, BillRow
<1> QED
  BY <1>1, <1>2, <1>3 DEF TurnInv, ProposalsTyped, ConfirmsOK, Unrun, Dispatching, FaultsOK

-----------------------------------------------------------------------------
(* Held actions *)

LEMMA ActionSetsFinite == IsFiniteSet(Unrun) /\ IsFiniteSet(Dispatching)
<1>1. IsFiniteSet(Proposal)
  BY TurnConstants, FS_Interval DEF Proposal
<1> QED
  BY <1>1, TurnConstants, FS_Subset DEF Unrun, Dispatching

\* The gate's hold adds a pending proposal, which is not approved.
LEMMA HoldKeeps == ASSUME TurnInv, NEW t \in Turn, HoldCall(t) PROVE TurnInv'
<1> DEFINE r == [turn[t] EXCEPT !.at = "calls", !.blocked = TRUE]
<1>1. turn[t] \in TurnRow /\ RowOK(turn[t])
  BY DEF TurnInv, TurnsOK
<1>2. r \in TurnRow
  BY <1>1 DEF TurnRow, At, Unsettled
<1>3. RowOK(r)
  BY <1>1 DEF HoldCall, RowOK, LoopRow, OverlapRow, GateRow, BillRow, WriteAhead, TurnRow
<1>4. turn' = [turn EXCEPT ![t] = r] /\ UNCHANGED <<room, mission>>
  BY DEF HoldCall
<1> HIDE DEF r
<1>5. TurnsOK'
  BY <1>2, <1>3, <1>4, RowMoves DEF TurnInv
<1>6. PICK p \in Proposal : proposal[p] = "none" /\ proposal' = [proposal EXCEPT ![p] = "pending"]
  BY DEF HoldCall
<1>7. Unrun' = Unrun /\ ProposalsTyped' /\ UNCHANGED <<executed, confirm, lostConfirms, turnFaults>>
  BY <1>6 DEF HoldCall, TurnInv, ProposalsTyped, Unrun
<1>8. ConfirmsOK'
  BY <1>6, <1>7 DEF TurnInv, ConfirmsOK, Dispatching, ProposalsTyped
<1> QED
  BY <1>4, <1>5, <1>7, <1>8 DEF TurnInv, MissionsOK, FaultsOK

\* The claim of a pending proposal adds one action to run and one confirmation.
LEMMA ClaimKeeps ==
  ASSUME TurnInv, NEW k \in Confirm, NEW p \in Proposal, ConfirmClaims(k, p)
  PROVE  TurnInv'
<1>1. ProposalsTyped' /\ UNCHANGED <<room, turn, mission, executed, lostConfirms, turnFaults>>
  BY DEF TurnInv, ProposalsTyped, ConfirmClaims, Proposal
<1>2. executed[p] = 0
  BY DEF TurnInv, ConfirmsOK, ProposalsTyped, ConfirmClaims, Resolvable
<1>3. p \notin Unrun /\ Unrun' = Unrun \cup {p}
  BY <1>2 DEF TurnInv, ProposalsTyped, ConfirmClaims, Resolvable, Unrun
<1>4. k \notin Dispatching /\ Dispatching' = Dispatching \cup {k}
  BY DEF TurnInv, ProposalsTyped, ConfirmClaims, Dispatching
<1>5. Cardinality(Unrun') = Cardinality(Unrun) + 1 /\ Cardinality(Dispatching') = Cardinality(Dispatching) + 1
  BY <1>3, <1>4, ActionSetsFinite, FS_AddElement
<1>6. /\ Cardinality(Unrun) = lostConfirms + Cardinality(Dispatching)
      /\ Cardinality(Unrun) \in Nat /\ Cardinality(Dispatching) \in Nat /\ lostConfirms \in Nat
  BY ActionSetsFinite, FS_CardinalityType, TurnConstants DEF TurnInv, ConfirmsOK, FaultsOK
<1>7. Cardinality(Unrun') = lostConfirms' + Cardinality(Dispatching')
  BY <1>1, <1>5, <1>6
<1>8. \A l \in Dispatching' : confirm'[l].p \in Unrun'
  BY <1>3, <1>4 DEF TurnInv, ConfirmsOK, ConfirmClaims, ProposalsTyped, Dispatching
<1>9. \A l, j \in Dispatching' : confirm'[l].p = confirm'[j].p => l = j
  BY <1>3, <1>4 DEF TurnInv, ConfirmsOK, ConfirmClaims, ProposalsTyped, Dispatching
<1>10. \A q \in Proposal : executed'[q] <= IF proposal'[q] = "approved" THEN 1 ELSE 0
  BY <1>1, <1>2 DEF TurnInv, ConfirmsOK, ConfirmClaims, ProposalsTyped
<1>11. ConfirmsOK'
  BY <1>7, <1>8, <1>9, <1>10 DEF ConfirmsOK
<1> QED
  BY <1>1, <1>11
     DEF TurnInv, TurnsOK, RowOK, LoopRow, OverlapRow, GateRow, BillRow, MissionsOK, FaultsOK

\* A confirmation that leaves takes its action out of the ones to run, or
\* leaves it behind as lost.
LEMMA ConfirmLeaves ==
  ASSUME TurnInv, NEW k \in Confirm, confirm[k].at = "dispatch",
         confirm' = [confirm EXCEPT ![k] = [at |-> "idle", p |-> 0]], UNCHANGED proposal,
         \/ executed' = [executed EXCEPT ![confirm[k].p] = @ + 1] /\ lostConfirms' = lostConfirms
         \/ executed' = executed /\ lostConfirms' = lostConfirms + 1
  PROVE  ConfirmsOK' /\ ProposalsTyped'
<1> DEFINE p == confirm[k].p
<1>1. k \in Dispatching /\ p \in Unrun /\ p \in Proposal
  BY DEF TurnInv, ConfirmsOK, Dispatching, Unrun
<1>2. ProposalsTyped'
  BY <1>1, TurnConstants DEF TurnInv, ProposalsTyped
<1>3. Dispatching' = Dispatching \ {k}
  BY DEF TurnInv, ProposalsTyped, Dispatching
<1>4. \A l \in Dispatching \ {k} : confirm'[l].p = confirm[l].p /\ confirm[l].p # p /\ confirm[l].p \in Unrun
  BY <1>1 DEF TurnInv, ConfirmsOK, ProposalsTyped, Dispatching
<1>5. \A l, j \in Dispatching' : confirm'[l].p = confirm'[j].p => l = j
  BY <1>3, <1>4 DEF TurnInv, ConfirmsOK, Dispatching
<1>6. /\ Cardinality(Unrun) = lostConfirms + Cardinality(Dispatching)
      /\ Cardinality(Unrun) \in Nat /\ Cardinality(Dispatching) \in Nat /\ lostConfirms \in Nat
  BY ActionSetsFinite, FS_CardinalityType, TurnConstants DEF TurnInv, ConfirmsOK, FaultsOK
<1>7. Cardinality(Dispatching') = Cardinality(Dispatching) - 1
  BY <1>1, <1>3, ActionSetsFinite, FS_RemoveElement
<1>8. CASE executed' = [executed EXCEPT ![p] = @ + 1] /\ lostConfirms' = lostConfirms
  <2>1. Unrun' = Unrun \ {p} /\ executed[p] = 0 /\ proposal[p] = "approved"
    BY <1>1, <1>8 DEF TurnInv, ProposalsTyped, Unrun
  <2>2. Cardinality(Unrun') = Cardinality(Unrun) - 1
    BY <1>1, <2>1, ActionSetsFinite, FS_RemoveElement
  <2>3. Cardinality(Unrun') = lostConfirms' + Cardinality(Dispatching')
    BY <1>6, <1>7, <1>8, <2>2
  <2>4. \A q \in Proposal : executed'[q] <= IF proposal'[q] = "approved" THEN 1 ELSE 0
    BY <1>1, <1>8, <2>1 DEF TurnInv, ConfirmsOK, ProposalsTyped
  <2>5. \A l \in Dispatching' : confirm'[l].p \in Unrun'
    BY <1>3, <1>4, <2>1
  <2> QED
    BY <1>2, <1>5, <2>3, <2>4, <2>5 DEF ConfirmsOK
<1>9. CASE executed' = executed /\ lostConfirms' = lostConfirms + 1
  <2>1. Unrun' = Unrun
    BY <1>9 DEF Unrun
  <2>2. Cardinality(Unrun') = lostConfirms' + Cardinality(Dispatching')
    BY <1>6, <1>7, <1>9, <2>1
  <2>3. \A q \in Proposal : executed'[q] <= IF proposal'[q] = "approved" THEN 1 ELSE 0
    BY <1>9 DEF TurnInv, ConfirmsOK
  <2>4. \A l \in Dispatching' : confirm'[l].p \in Unrun'
    BY <1>3, <1>4, <2>1
  <2> QED
    BY <1>2, <1>5, <2>2, <2>3, <2>4 DEF ConfirmsOK
<1> QED
  BY <1>8, <1>9

\* The confirmed action runs, and the turn that resumes on its outcome is new.
LEMMA DispatchKeeps == ASSUME TurnInv, NEW k \in Confirm, ConfirmDispatches(k) PROVE TurnInv'
<1>1. ConfirmsOK' /\ ProposalsTyped'
  BY ConfirmLeaves DEF ConfirmDispatches
<1>2. UNCHANGED <<room, mission, lostConfirms, turnFaults>>
  BY DEF ConfirmDispatches
<1>3. CASE UNCHANGED turn
  BY <1>1, <1>2, <1>3
     DEF TurnInv, TurnsOK, RowOK, LoopRow, OverlapRow, GateRow, BillRow, MissionsOK, FaultsOK
<1>4. ASSUME NEW t \in Turn,
             turn' = [turn EXCEPT ![t] = [NoTurn EXCEPT !.at = "queued", !.kind = "resume", !.seq = room]]
      PROVE  TurnInv'
  <2> DEFINE r == [NoTurn EXCEPT !.at = "queued", !.kind = "resume", !.seq = room]
  <2>1. NoTurn \in TurnRow
    BY TurnConstants DEF NoTurn, TurnRow, At, Kind, Loss
  <2>2. r \in TurnRow
    <3>1. "queued" \in At /\ "resume" \in Kind /\ room \in 0..MaxClaims
      BY TurnConstants DEF TurnInv, At, Kind
    <3> QED
      BY <2>1, <3>1 DEF TurnRow
  <2>3. RowOK(r)
    <3>1. room \in 1..MaxClaims
      BY DEF TurnInv
    <3> QED
      BY <3>1, TurnConstants DEF NoTurn, RowOK, LoopRow, OverlapRow, GateRow, BillRow, WriteAhead
  <2> HIDE DEF r
  <2>4. TurnsOK'
    BY <1>2, <1>4, <2>2, <2>3, RowMoves DEF TurnInv, r
  <2> QED
    BY <1>1, <1>2, <2>4 DEF TurnInv, MissionsOK, FaultsOK
<1> QED
  BY <1>3, <1>4 DEF ConfirmDispatches

\* A confirmation that dies leaves its action approved and never run.
LEMMA DiesKeeps == ASSUME TurnInv, NEW k \in Confirm, ConfirmDies(k) PROVE TurnInv'
<1>1. ConfirmsOK' /\ ProposalsTyped'
  BY ConfirmLeaves DEF ConfirmDies
<1>2. FaultsOK'
  BY TurnConstants DEF TurnInv, FaultsOK, ConfirmDies, TurnFault
<1> QED
  BY <1>1, <1>2
     DEF TurnInv, ConfirmDies, TurnsOK, RowOK, LoopRow, OverlapRow, GateRow, BillRow, MissionsOK

\* A rejected proposal was pending, hence not one to run.
LEMMA RejectKeeps == ASSUME TurnInv, NEW p \in Proposal, Reject(p) PROVE TurnInv'
<1>1. ProposalsTyped' /\ Unrun' = Unrun
  BY DEF TurnInv, ProposalsTyped, Reject, Resolvable, Unrun
<1>2. ConfirmsOK'
  BY <1>1 DEF TurnInv, ConfirmsOK, ProposalsTyped, Reject, Resolvable, Dispatching
<1> QED
  BY <1>1, <1>2
     DEF TurnInv, Reject, TurnsOK, RowOK, LoopRow, OverlapRow, GateRow, BillRow, MissionsOK,
         FaultsOK

-----------------------------------------------------------------------------
(* The theorems *)

\* The invariant is inductive.
LEMMA TurnInvStep == ASSUME TurnInv, [TurnNext]_turnVars PROVE TurnInv'
<1>1. ASSUME NEW t \in Turn, \/ SendMessage(t) \/ EntryStepOf(t) \/ LoopStepOf(t) \/ TurnDies(t)
                             \/ \E m \in TurnMission : MissionAdvance(t, m)
      PROVE  TurnInv'
  BY <1>1, LoopKeeps, HoldKeeps
<1>2. ASSUME NEW k \in Confirm, \/ ConfirmDispatches(k) \/ ConfirmDies(k)
                                \/ \E p \in Proposal : ConfirmClaims(k, p)
      PROVE  TurnInv'
  BY <1>2, DispatchKeeps, DiesKeeps, ClaimKeeps
<1>3. ASSUME UNCHANGED turnVars PROVE TurnInv'
  BY <1>3 DEF turnVars, TurnInv, TurnsOK, RowOK, LoopRow, OverlapRow, GateRow, BillRow, MissionsOK,
              ProposalsTyped, ConfirmsOK, Unrun, Dispatching, FaultsOK
<1> QED
  BY <1>1, <1>2, <1>3, SupersedeKeeps, MissionKeeps, RejectKeeps DEF TurnNext

LEMMA TurnInvHolds == TurnSpec => []TurnInv
BY TurnInitOK, TurnInvStep, PTL DEF TurnSpec

\* Every variable of the turns keeps its type.
THEOREM TurnTypeCorrect == TurnSpec => []TurnTypeOK
<1>1. TurnInv => TurnTypeOK
  BY TurnConstants DEF TurnInv, TurnTypeOK, TurnsOK, TurnRow, MissionsOK, ProposalsTyped, FaultsOK
<1> QED
  BY <1>1, TurnInvHolds, PTL

\* A held action runs at most once and only when approved, and approved ones
\* that have not run are accounted for one by one (markResolved,
\* confirmProposal), whatever confirmations and rejections race.
THEOREM ExecutedOnceHolds == TurnSpec => []ExecutedOnce
<1>1. TurnInv => ExecutedOnce
  BY DEF TurnInv, ConfirmsOK, ExecutedOnce, Unrun, Dispatching
<1> QED
  BY <1>1, TurnInvHolds, PTL

\* A mission stopped under its own turn lets at most the call already past
\* the gate run (createApprovalGate).
THEOREM StopRegatesHolds == TurnSpec => []StopRegates
<1>1. TurnInv => StopRegates
  BY DEF TurnInv, TurnsOK, TurnRow, RowOK, GateRow, StopRegates
<1> QED
  BY <1>1, TurnInvHolds, PTL

\* However often the room moves, a turn that lost it writes at most one group
\* of rows, and one more for each claim read that failed (runLoop's fences).
THEOREM OverlapBoundedHolds == TurnSpec => []OverlapBounded
<1>1. TurnInv => OverlapBounded
  BY DEF TurnInv, TurnsOK, RowOK, OverlapRow, OverlapBounded
<1> QED
  BY <1>1, TurnInvHolds, PTL

\* However a run ends, its owner pays once for what they had of it, the retrieval
\* and the calls that answered or that the consumer cut short, and never for a
\* call the provider broke, unless the run failed between its retrieval and its
\* loop, or its final write, its debit or its process did (runLoop,
\* meteredLlmGateway, debit).
THEOREM BilledOnceHolds == TurnSpec => []BilledOnce
<1>1. TurnInv => BilledOnce
  BY DEF TurnInv, TurnsOK, RowOK, BillRow, BilledOnce
<1> QED
  BY <1>1, TurnInvHolds, PTL

-----------------------------------------------------------------------------
(* UserFacts: a fact has one value, the newest that could be stored *)

\* The capture of a turn that is under way follows every turn stored, waits
\* for the earlier ones, and once it has deleted holds the fact's only value.
CaptureOK(t) ==
  /\ Capturing(t) => t <= stated /\ \A p \in Predicate : newest[p] < t
  /\ capture[t].at = "insert" => UserChained(t)
  /\ capture[t].at # "insert" => capture[t].deletes = {}
  /\ capture[t].deletes \subseteq Of(capture[t].predicate)
  /\ capture[t].at = "insert" /\ capture[t].predicate = "livesIn" =>
       Of("livesIn") \subseteq capture[t].deletes

OneValue ==
  \A f, g \in facts :
    /\ f.predicate = g.predicate => f = g
    /\ f.source = "transcript" => f.turn = newest[f.predicate]

FactsInv ==
  /\ FactsTypeOK
  /\ \A p \in Predicate : newest[p] <= stated
  /\ \A t \in Statement : CaptureOK(t)
  /\ OneValue


\* Only one transaction at a time has deleted a value.
LEMMA OneTransaction ==
  ASSUME FactsInv, NEW t \in Statement, NEW u \in Statement,
         capture[t].at = "insert", Capturing(u)
  PROVE  t <= u
<1>1. UserChained(t)
  BY DEF FactsInv, CaptureOK
<1>2. t \in Int /\ u \in Int /\ 1 <= u
  BY FactConstants DEF Statement
<1>3. CASE u < t
  <2>1. u \in 1..(t - 1)
    BY <1>2, <1>3
  <2> QED
    BY <1>1, <2>1 DEF UserChained
<1> QED
  BY <1>2, <1>3

LEMMA FactsInitOK == FactsInit => FactsInv
BY FactConstants
   DEF FactsInit, FactsInv, FactsTypeOK, CaptureOK, OneValue, Capturing, NoCapture, Statement,
       Predicate

\* A capture that ends leaves the others' claims on the table alone.
LEMMA CaptureOverKeeps ==
  ASSUME FactsInv, NEW t \in Statement, CaptureOver(t), UNCHANGED <<facts, newest, stated>>
  PROVE  /\ capture' \in [Statement -> [at : {"none", "queued", "insert"}, predicate : Predicate, deletes : SUBSET Fact]]
         /\ \A u \in Statement : CaptureOK(u)'
         /\ OneValue'
<1>1. NoCapture \in [at : {"none", "queued", "insert"}, predicate : Predicate, deletes : SUBSET Fact]
  BY DEF NoCapture, Predicate
<1>2. \A u \in Statement \ {t} : capture'[u] = capture[u]
  BY DEF CaptureOver, FactsInv, FactsTypeOK
<1>3. capture'[t] = NoCapture
  BY DEF CaptureOver, FactsInv, FactsTypeOK
<1>4. \A u \in Statement : /\ (Capturing(u)' => Capturing(u) /\ capture'[u] = capture[u])
                            /\ (UserChained(u) => UserChained(u)')
  BY <1>2, <1>3, FactConstants DEF Capturing, UserChained, NoCapture, Statement
<1>5. ASSUME NEW u \in Statement PROVE CaptureOK(u)'
  <2>1. CASE u = t
    BY <1>3, <2>1 DEF CaptureOK, Capturing, NoCapture
  <2>2. CASE u # t
    BY <1>2, <1>4, <2>2 DEF FactsInv, CaptureOK, Capturing, Of
  <2> QED
    BY <2>1, <2>2
<1> QED
  BY <1>1, <1>5 DEF CaptureOver, FactsInv, FactsTypeOK, OneValue

LEMMA FactsStep == ASSUME FactsInv, [FactsNext]_factVars PROVE FactsInv'
<1> USE FactConstants
<1>1. ASSUME NEW p \in Predicate, StatesFact(p) PROVE FactsInv'
  <2> DEFINE c == [NoCapture EXCEPT !.at = "queued", !.predicate = p]
  <2>1. /\ c \in [at : {"none", "queued", "insert"}, predicate : Predicate, deletes : SUBSET Fact]
        /\ c.at = "queued" /\ c.predicate = p /\ c.deletes = {}
    BY DEF NoCapture, Predicate
  <2>2. stated + 1 \in Statement /\ capture' = [capture EXCEPT ![stated + 1] = c]
    BY <1>1 DEF StatesFact, FactsInv, FactsTypeOK, Statement
  <2> HIDE DEF c
  <2>3. /\ UNCHANGED <<facts, seeding, newest, edits, factFaults>> /\ stated' = stated + 1
        /\ stated' \in 0..MaxStated /\ stated \in Nat
    BY <1>1 DEF StatesFact, FactsInv, FactsTypeOK
  <2>t. FactsTypeOK'
    <3>1. capture' \in [Statement -> [at : {"none", "queued", "insert"}, predicate : Predicate, deletes : SUBSET Fact]]
      BY <2>1, <2>2 DEF FactsInv, FactsTypeOK
    <3> QED
      BY <2>3, <3>1 DEF FactsInv, FactsTypeOK
  <2>4. ~Capturing(stated + 1) /\ \A q \in Predicate : newest[q] < stated + 1
    BY <2>2 DEF FactsInv, FactsTypeOK, CaptureOK, Capturing
  <2>5. \A t \in Statement : capture'[t] = IF t = stated + 1 THEN c ELSE capture[t]
    BY <2>2 DEF FactsInv, FactsTypeOK
  <2>6. ASSUME NEW t \in Statement PROVE CaptureOK(t)'
    <3>1. CASE t = stated + 1
      BY <2>1, <2>3, <2>4, <2>5, <3>1 DEF CaptureOK, Capturing
    <3>2. CASE t # stated + 1 /\ ~Capturing(t)
      BY <1>1, <2>5, <3>2 DEF StatesFact, FactsInv, CaptureOK, Capturing, Of
    <3>3. CASE t # stated + 1 /\ Capturing(t)
      <4>1. t <= stated /\ \A u \in 1..(t - 1) : u \in Statement /\ u # stated + 1
        BY <3>3 DEF FactsInv, FactsTypeOK, CaptureOK, Statement
      <4>2. UserChained(t) => UserChained(t)'
        BY <2>5, <4>1 DEF UserChained, Capturing
      <4>3. capture'[t] = capture[t] /\ CaptureOK(t)
        BY <2>5, <3>3 DEF FactsInv
      <4> QED
        BY <2>3, <4>1, <4>2, <4>3, <3>3 DEF CaptureOK, Capturing, Of, Statement
    <3> QED
      BY <3>1, <3>2, <3>3
  <2> QED
    BY <2>3, <2>t, <2>6 DEF FactsInv, FactsTypeOK, OneValue
<1>2. ASSUME NEW t \in Statement, DeletesPrior(t) PROVE FactsInv'
  <2> DEFINE p == capture[t].predicate
             c == [capture[t] EXCEPT !.at = "insert", !.deletes = Of(p)]
  <2>1. /\ capture[t] \in [at : {"none", "queued", "insert"}, predicate : Predicate, deletes : SUBSET Fact]
        /\ Of(p) \in SUBSET Fact
    BY DEF FactsInv, FactsTypeOK, Of
  <2>2. /\ c \in [at : {"none", "queued", "insert"}, predicate : Predicate, deletes : SUBSET Fact]
        /\ c.at = "insert" /\ c.predicate = p /\ c.deletes = Of(p)
    BY <2>1
  <2>3. capture' = [capture EXCEPT ![t] = c] /\ UNCHANGED <<facts, stated, seeding, newest, edits, factFaults>>
    BY <1>2 DEF DeletesPrior
  <2> HIDE DEF c
  <2>4. FactsTypeOK'
    BY <2>1, <2>2, <2>3 DEF FactsInv, FactsTypeOK
  <2>5. \A u \in Statement : capture'[u] = IF u = t THEN c ELSE capture[u]
    BY <2>3 DEF FactsInv, FactsTypeOK
  <2>6. \A u \in Statement : (Capturing(u)' <=> Capturing(u)) /\ (UserChained(u)' <=> UserChained(u))
    <3>1. \A u \in Statement : Capturing(u)' <=> Capturing(u)
      BY <1>2, <2>2, <2>5 DEF DeletesPrior, Capturing
    <3>2. \A u \in Statement : 1..(u - 1) \subseteq Statement
      BY DEF Statement
    <3> QED
      BY <3>1, <3>2 DEF UserChained
  <2>7. \A u \in Statement : CaptureOK(u)'
    <3>1. ASSUME NEW u \in Statement, u = t PROVE CaptureOK(u)'
      <4>1. capture[t].at = "queued" /\ UserChained(t) /\ Capturing(t) /\ CaptureOK(t)
        BY <1>2 DEF DeletesPrior, Capturing, FactsInv
      <4> QED
        BY <2>2, <2>3, <2>5, <2>6, <3>1, <4>1 DEF CaptureOK, Of
    <3>2. ASSUME NEW u \in Statement, u # t PROVE CaptureOK(u)'
      <4>1. capture'[u] = capture[u] /\ CaptureOK(u)
        BY <2>5, <3>2 DEF FactsInv
      <4> QED
        BY <2>3, <2>6, <4>1 DEF CaptureOK, Of
    <3> QED
      BY <3>1, <3>2
  <2> QED
    BY <2>3, <2>4, <2>7 DEF FactsInv, OneValue
<1>3. ASSUME NEW t \in Statement, InsertsFact(t) PROVE FactsInv'
  <2> DEFINE p == capture[t].predicate
             new == [predicate |-> p, source |-> "transcript", turn |-> t]
  <2>1. CASE Conflicts(t)
    BY <1>3, <2>1, CaptureOverKeeps DEF InsertsFact, FactsInv, FactsTypeOK
  <2>2. CASE ~Conflicts(t)
    <3>1. /\ capture[t].at = "insert" /\ p \in Predicate /\ t \in 1..stated /\ newest[p] < t
          /\ \A q \in Predicate : newest[q] \in 0..MaxStated
      BY <1>3 DEF InsertsFact, FactsInv, FactsTypeOK, CaptureOK, Capturing, Statement
    <3>2. newest' = [newest EXCEPT ![p] = t]
      BY <1>3, <2>2, <3>1, MaxOfTwo DEF InsertsFact, FactsInv, FactsTypeOK, Statement
    <3>3. Of(p) = capture[t].deletes
      BY <1>3, <2>2, <3>1 DEF FactsInv, CaptureOK, Conflicts, Predicate
    <3>4. facts' = (facts \ Of(p)) \cup {new}
      BY <1>3, <2>2, <3>3 DEF InsertsFact
    <3>5. new \in Fact /\ new.predicate = p /\ new.turn = t
      BY <3>1 DEF Fact, FactsInv, FactsTypeOK, Statement
    <3> HIDE DEF new
    <3>6. OneValue'
      BY <3>1, <3>2, <3>4, <3>5 DEF FactsInv, FactsTypeOK, OneValue, Of, Fact
    <3>7. /\ CaptureOver(t) /\ UNCHANGED <<stated, seeding, edits, factFaults>>
          /\ NoCapture \in [at : {"none", "queued", "insert"}, predicate : Predicate, deletes : SUBSET Fact]
      BY <1>3 DEF InsertsFact, NoCapture, Predicate
    <3>8. FactsTypeOK'
      BY <3>1, <3>2, <3>4, <3>5, <3>7 DEF FactsInv, FactsTypeOK, CaptureOver, Statement
    <3>9. \A u \in Statement : capture'[u] = IF u = t THEN NoCapture ELSE capture[u]
      BY <3>7 DEF CaptureOver, FactsInv, FactsTypeOK
    <3>10. \A u \in Statement \ {t} : Capturing(u) => t < u /\ capture[u].at = "queued"
      BY <3>1, OneTransaction DEF Capturing, FactsInv, FactsTypeOK, CaptureOK, Statement
    <3>11. \A u \in Statement : CaptureOK(u)'
      <4>1. ASSUME NEW u \in Statement, u # t, Capturing(u) PROVE CaptureOK(u)'
        BY <3>1, <3>2, <3>7, <3>9, <3>10, <4>1
           DEF FactsInv, FactsTypeOK, CaptureOK, Capturing, Statement
      <4>2. ASSUME NEW u \in Statement, u = t \/ ~Capturing(u) PROVE CaptureOK(u)'
        BY <3>9, <4>2 DEF FactsInv, CaptureOK, Capturing, NoCapture
      <4> QED
        BY <4>1, <4>2
    <3>12. \A q \in Predicate : newest'[q] <= stated'
      BY <3>1, <3>2, <3>7 DEF FactsInv, FactsTypeOK
    <3> QED
      BY <3>6, <3>8, <3>11, <3>12 DEF FactsInv
  <2> QED
    BY <2>1, <2>2
<1>4. ASSUME NEW t \in Statement, CapturesNothing(t) \/ CaptureFails(t) PROVE FactsInv'
  BY <1>4, CaptureOverKeeps DEF CapturesNothing, CaptureFails, FactFault, FactsInv, FactsTypeOK
<1>5. ASSUME CapturesDie PROVE FactsInv'
  <2>1. NoCapture \in [at : {"none", "queued", "insert"}, predicate : Predicate, deletes : SUBSET Fact]
    BY DEF NoCapture, Predicate
  <2>2. FactsTypeOK'
    BY <1>5, <2>1 DEF CapturesDie, FactFault, FactsInv, FactsTypeOK
  <2>3. \A t \in Statement : CaptureOK(t)'
    BY <1>5 DEF CapturesDie, CaptureOK, Capturing, NoCapture
  <2> QED
    BY <1>5, <2>2, <2>3 DEF CapturesDie, FactsInv, OneValue
<1>6. ASSUME NEW s \in Seeder, SeedReads(s) PROVE FactsInv'
  BY <1>6 DEF SeedReads, FactsInv, FactsTypeOK, CaptureOK, Capturing, UserChained, Of, OneValue
<1>7. ASSUME NEW s \in Seeder, SeedInserts(s) PROVE FactsInv'
  <2> DEFINE new == [predicate |-> "name", source |-> "auth_seed", turn |-> 0]
  <2>1. new \in Fact /\ new.predicate = "name" /\ new.source = "auth_seed"
    BY DEF Fact, Predicate
  <2>2. facts' = facts \/ (Of("name") = {} /\ facts' = facts \cup {new})
    BY <1>7 DEF SeedInserts
  <2> HIDE DEF new
  <2>3. UNCHANGED <<capture, stated, newest, edits, factFaults>>
    BY <1>7 DEF SeedInserts
  <2>4. FactsTypeOK'
    BY <1>7, <2>1, <2>2, <2>3 DEF SeedInserts, FactsInv, FactsTypeOK
  <2>5. OneValue'
    BY <2>1, <2>2, <2>3 DEF FactsInv, FactsTypeOK, OneValue, Of, Fact
  <2>6. \A t \in Statement : CaptureOK(t)'
    BY <2>1, <2>2, <2>3 DEF FactsInv, CaptureOK, Capturing, UserChained, Of
  <2> QED
    BY <2>3, <2>4, <2>5, <2>6 DEF FactsInv
<1>8. ASSUME NEW f \in facts, Edited(f) PROVE FactsInv'
  <2> DEFINE new == [f EXCEPT !.source = "user_edit"]
  <2>1. f \in Fact
    BY DEF FactsInv, FactsTypeOK
  <2>2. new \in Fact /\ new.predicate = f.predicate /\ new.source = "user_edit"
    BY <2>1 DEF Fact
  <2>3. facts' = (facts \ {f}) \cup {new} \/ facts' = facts \ {f}
    BY <1>8 DEF Edited
  <2> HIDE DEF new
  <2>4. UNCHANGED <<capture, stated, newest, seeding, factFaults>> /\ f \notin Locked
    BY <1>8 DEF Edited
  <2>5. FactsTypeOK'
    BY <1>8, <2>2, <2>3, <2>4 DEF Edited, FactsInv, FactsTypeOK
  <2>6. OneValue'
    BY <2>2, <2>3, <2>4 DEF FactsInv, FactsTypeOK, OneValue, Fact
  <2>7. \A t \in Statement : f \notin capture[t].deletes
    BY <2>4 DEF Locked
  <2>8. \A t \in Statement : CaptureOK(t)'
    BY <2>2, <2>3, <2>4, <2>7 DEF FactsInv, CaptureOK, Capturing, UserChained, Of
  <2> QED
    BY <2>4, <2>5, <2>6, <2>8 DEF FactsInv
<1>9. ASSUME UNCHANGED factVars PROVE FactsInv'
  BY <1>9 DEF factVars, FactsInv, FactsTypeOK, CaptureOK, Capturing, UserChained, Of, OneValue
<1> QED
  BY <1>1, <1>2, <1>3, <1>4, <1>5, <1>6, <1>7, <1>8, <1>9 DEF FactsNext

\* The rows, the captures and the sign-ins keep their types.
THEOREM FactsTypeCorrect == FactsSpec => []FactsTypeOK
<1>1. FactsInv => FactsTypeOK
  BY DEF FactsInv
<1> QED
  BY <1>1, FactsInitOK, FactsStep, PTL DEF FactsSpec

\* A singular fact has one value, the newest that could be stored, although
\* captures, seeds and edits race (recordTranscriptFact, chainUserFacts).
THEOREM CurrentFactHolds == FactsSpec => []CurrentFact
<1>1. FactsInv => CurrentFact
  <2> SUFFICES ASSUME FactsInv, NEW p \in Predicate
               PROVE  Cardinality(Of(p)) <= 1 /\ \A f \in Of(p) : f.source = "transcript" => f.turn = newest[p]
    BY DEF CurrentFact
  <2>1. \A f, g \in Of(p) : f = g
    BY DEF FactsInv, OneValue, Of
  <2>2. Of(p) = {} \/ \E f : Of(p) = {f}
    BY <2>1
  <2>3. Cardinality(Of(p)) <= 1
    <3>1. CASE Of(p) = {}
      BY <3>1, FS_EmptySet
    <3>2. ASSUME NEW f, Of(p) = {f} PROVE Cardinality(Of(p)) <= 1
      <4>1. Cardinality({f}) = 1
        BY FS_Singleton
      <4> QED
        BY <3>2, <4>1
    <3> QED
      BY <2>2, <3>1, <3>2
  <2> QED
    BY <2>3 DEF FactsInv, OneValue, Of
<1> QED
  BY <1>1, FactsInitOK, FactsStep, PTL DEF FactsSpec

-----------------------------------------------------------------------------
(* Feeding: every food is accounted for *)

\* A request past the seeding has a pantry row to take from.
PantryOK ==
  /\ (\E r \in Feeder : feeder[r].at \in {"consume", "stamina", "energy"}) => pantry # Absent
  /\ pantry # Absent => \A f \in Food : pantry[f] >= 0
  /\ \A f \in Food : pantry[f] + consumed[f] = IF pantry = Absent THEN -1 ELSE InitialFood

\* Of what was consumed, each wallet has been granted all but what is owed and lost.
GrantsOK ==
  \A f \in Food, w \in Wallet : f \in Feeds(w) =>
    consumed[f] - granted[w][f] - Cardinality(Owing(f, w)) \in 0..lostFeeds

FeedingInv == FeedingTypeOK /\ PantryOK /\ GrantsOK

LEMMA OwingFinite == ASSUME NEW f, NEW w PROVE IsFiniteSet(Owing(f, w)) /\ Cardinality(Owing(f, w)) \in Nat
<1>1. Owing(f, w) \in SUBSET Feeder
  BY DEF Owing
<1> QED
  BY <1>1, FeedingConstants, FS_Subset, FS_CardinalityType

\* One request moves: what is owed changes by that request at most.
LEMMA OwingMoves ==
  ASSUME NEW r \in Feeder, \A s \in Feeder \ {r} : feeder'[s] = feeder[s]
  PROVE  \A f, w :
           /\ Cardinality(Owing(f, w)) \in Nat
           /\ r \in Owing(f, w)' /\ r \notin Owing(f, w) => Cardinality(Owing(f, w)') = Cardinality(Owing(f, w)) + 1
           /\ r \notin Owing(f, w)' /\ r \in Owing(f, w) => Cardinality(Owing(f, w)') = Cardinality(Owing(f, w)) - 1
           /\ (r \in Owing(f, w)' <=> r \in Owing(f, w)) => Cardinality(Owing(f, w)') = Cardinality(Owing(f, w))
<1> TAKE f, w
<1>1. CASE r \in Owing(f, w)'
  <2>1. Owing(f, w)' = Owing(f, w) \cup {r}
    BY <1>1 DEF Owing
  <2> QED
    BY <1>1, <2>1, OwingFinite, FS_AddElement
<1>2. CASE r \notin Owing(f, w)'
  <2>1. Owing(f, w)' = Owing(f, w) \ {r}
    BY <1>2 DEF Owing
  <2> QED
    BY <1>2, <2>1, OwingFinite, FS_RemoveElement
<1> QED
  BY <1>1, <1>2

LEMMA FeedingInitOK == FeedingInit => FeedingInv
<1> SUFFICES ASSUME FeedingInit PROVE FeedingInv
  OBVIOUS
<1>1. FeedingTypeOK /\ PantryOK
  BY FeedingConstants DEF FeedingInit, FeedingTypeOK, PantryOK, Absent, Resting, Food
<1>2. \A f, w : Owing(f, w) = {}
  BY DEF FeedingInit, Owing, Resting
<1>3. GrantsOK
  BY <1>2, FS_EmptySet DEF FeedingInit, GrantsOK
<1> QED
  BY <1>1, <1>3 DEF FeedingInv

LEMMA FeedingStep == ASSUME FeedingInv, [FeedingNext]_feedingVars PROVE FeedingInv'
<1> USE FeedingConstants DEF FeedingInv
<1>a. /\ Absent \in [Food -> -1..InitialFood] /\ Seeded \in [Food -> -1..InitialFood]
      /\ Resting \in [at : {"idle", "seed", "consume", "stamina", "energy"}, food : Food]
      /\ Resting.at = "idle"
  BY DEF Absent, Seeded, Resting, Food
<1>1. ASSUME NEW r \in Feeder, NEW f \in Food, FeedBegins(r, f) PROVE FeedingInv'
  <2> DEFINE to == [at |-> IF pantry = Absent THEN "seed" ELSE "consume", food |-> f]
  <2>1. /\ to \in [at : {"idle", "seed", "consume", "stamina", "energy"}, food : Food]
        /\ to.at = (IF pantry = Absent THEN "seed" ELSE "consume")
    OBVIOUS
  <2>2. /\ feeder' = [feeder EXCEPT ![r] = to] /\ feeder[r].at = "idle"
        /\ UNCHANGED <<pantry, wallet, consumed, granted, bills, lostFeeds>>
    BY <1>1 DEF FeedBegins
  <2> HIDE DEF to
  <2>3. FeedingTypeOK'
    BY <1>1, <2>1, <2>2 DEF FeedBegins, FeedingTypeOK
  <2>4. PantryOK'
    BY <2>1, <2>2 DEF PantryOK, FeedingTypeOK
  <2>5. \A g, w : Cardinality(Owing(g, w)') = Cardinality(Owing(g, w))
    <3>1. /\ \A s \in Feeder \ {r} : feeder'[s] = feeder[s]
          /\ feeder[r].at = "idle" /\ feeder'[r].at \in {"seed", "consume"}
      BY <2>1, <2>2 DEF FeedingTypeOK
    <3>2. \A g, w : r \notin Owing(g, w) /\ r \notin Owing(g, w)'
      BY <3>1 DEF Owing
    <3> QED
      BY <3>1, <3>2, OwingMoves
  <2> QED
    BY <2>2, <2>3, <2>4, <2>5 DEF GrantsOK, Feeds
<1>2. ASSUME NEW r \in Feeder, Seeds(r) PROVE FeedingInv'
  <2> DEFINE to == [feeder[r] EXCEPT !.at = "consume"]
  <2>1. /\ to \in [at : {"idle", "seed", "consume", "stamina", "energy"}, food : Food]
        /\ to.at = "consume"
    BY DEF FeedingTypeOK
  <2>2. /\ feeder' = [feeder EXCEPT ![r] = to] /\ feeder[r].at = "seed" /\ SeedRow
        /\ UNCHANGED <<wallet, consumed, granted, feeds, bills, lostFeeds>>
    BY <1>2 DEF Seeds, FeederAt
  <2> HIDE DEF to
  <2>3. FeedingTypeOK'
    BY <1>a, <2>1, <2>2 DEF SeedRow, FeedingTypeOK
  <2>4. PantryOK'
    BY <2>1, <2>2 DEF PantryOK, FeedingTypeOK, SeedRow, Absent, Seeded, Food
  <2>5. \A g, w : Cardinality(Owing(g, w)') = Cardinality(Owing(g, w))
    <3>1. /\ \A s \in Feeder \ {r} : feeder'[s] = feeder[s]
          /\ feeder[r].at = "seed" /\ feeder'[r].at \in {"seed", "consume"}
      BY <2>1, <2>2 DEF FeedingTypeOK
    <3>2. \A g, w : r \notin Owing(g, w) /\ r \notin Owing(g, w)'
      BY <3>1 DEF Owing
    <3> QED
      BY <3>1, <3>2, OwingMoves
  <2> QED
    BY <2>2, <2>3, <2>4, <2>5 DEF GrantsOK, Feeds
<1>3. ASSUME NEW r \in Feeder, Consumes(r) PROVE FeedingInv'
  <2> DEFINE f == feeder[r].food
  <2>1. f \in Food /\ feeder[r].at = "consume" /\ pantry # Absent
    BY <1>3 DEF Consumes, FeedingTypeOK, PantryOK
  <2>2. CASE pantry[f] > 0
    <3> DEFINE to == [feeder[r] EXCEPT !.at = "stamina"]
    <3>1. /\ to \in [at : {"idle", "seed", "consume", "stamina", "energy"}, food : Food]
          /\ to.at = "stamina" /\ to.food = f
      BY DEF FeedingTypeOK
    <3>2. /\ feeder' = [feeder EXCEPT ![r] = to]
          /\ pantry' = [pantry EXCEPT ![f] = @ - 1] /\ consumed' = [consumed EXCEPT ![f] = @ + 1]
          /\ UNCHANGED <<wallet, granted, feeds, bills, lostFeeds>>
      BY <1>3, <2>2 DEF Consumes, FeederAt
    <3> HIDE DEF to
    <3>3. FeedingTypeOK'
      BY <2>1, <2>2, <3>1, <3>2 DEF FeedingTypeOK
    <3>4. pantry' # Absent
      BY <2>1, <2>2, <3>2 DEF FeedingTypeOK, Absent
    <3>5. PantryOK'
      <4>1. \A g \in Food : /\ pantry'[g] = pantry[g] - IF g = f THEN 1 ELSE 0
                            /\ consumed'[g] = consumed[g] + IF g = f THEN 1 ELSE 0
                            /\ pantry[g] \in Int /\ consumed[g] \in Int
        BY <2>1, <3>2 DEF FeedingTypeOK
      <4>2. \A g \in Food : pantry'[g] >= 0
        BY <2>1, <2>2, <4>1 DEF PantryOK
      <4>3. \A g \in Food : pantry'[g] + consumed'[g] = InitialFood
        BY <2>1, <4>1 DEF PantryOK
      <4> QED
        BY <3>4, <4>2, <4>3 DEF PantryOK
    <3>6. \A g, w : Cardinality(Owing(g, w)') = Cardinality(Owing(g, w)) + IF g = f THEN 1 ELSE 0
      <4>1. /\ \A s \in Feeder \ {r} : feeder'[s] = feeder[s]
            /\ feeder[r].at = "consume" /\ feeder'[r].at = "stamina" /\ feeder'[r].food = f
        BY <2>1, <3>1, <3>2 DEF FeedingTypeOK
      <4>2. \A g, w : r \notin Owing(g, w) /\ (r \in Owing(g, w)' <=> g = f)
        BY <4>1 DEF Owing
      <4> QED
        BY <4>1, <4>2, OwingMoves
    <3>7. \A g \in Food : consumed'[g] = consumed[g] + IF g = f THEN 1 ELSE 0
      BY <2>1, <3>2 DEF FeedingTypeOK
    <3>8. GrantsOK'
      BY <3>2, <3>6, <3>7, OwingFinite DEF GrantsOK, Feeds, FeedingTypeOK
    <3> QED
      BY <3>3, <3>5, <3>8
  <2>3. CASE ~(pantry[f] > 0)
    <3>1. feeder' = [feeder EXCEPT ![r] = Resting]
          /\ UNCHANGED <<pantry, wallet, consumed, granted, feeds, bills, lostFeeds>>
      BY <1>3, <2>3 DEF Consumes, FeedEnds
    <3>2. FeedingTypeOK' /\ PantryOK'
      BY <1>a, <3>1 DEF FeedingTypeOK, PantryOK
    <3>3. \A g, w : Cardinality(Owing(g, w)') = Cardinality(Owing(g, w))
      <4>1. /\ \A s \in Feeder \ {r} : feeder'[s] = feeder[s]
            /\ feeder[r].at = "consume" /\ feeder'[r].at = "idle"
        BY <1>a, <2>1, <3>1 DEF FeedingTypeOK
      <4>2. \A g, w : r \notin Owing(g, w) /\ r \notin Owing(g, w)'
        BY <4>1 DEF Owing
      <4> QED
        BY <4>1, <4>2, OwingMoves
    <3> QED
      BY <3>1, <3>2, <3>3 DEF GrantsOK, Feeds
  <2> QED
    BY <2>2, <2>3
<1>4. ASSUME NEW r \in Feeder, AddsStamina(r) PROVE FeedingInv'
  <2> DEFINE f == feeder[r].food
             to == [feeder[r] EXCEPT !.at = "energy"]
  <2>1. f \in Food /\ feeder[r].at = "stamina"
    BY <1>4 DEF AddsStamina, FeedingTypeOK
  <2>2. /\ to \in [at : {"idle", "seed", "consume", "stamina", "energy"}, food : Food]
        /\ to.at = "energy" /\ to.food = f
    BY DEF FeedingTypeOK
  <2>3. /\ feeder' = [feeder EXCEPT ![r] = to] /\ Add("stamina", f)
        /\ UNCHANGED <<pantry, consumed, feeds, bills, lostFeeds>>
    BY <1>4 DEF AddsStamina, FeederAt
  <2> HIDE DEF to
  <2>4. FeedingTypeOK'
    BY <2>1, <2>2, <2>3 DEF FeedingTypeOK, Add, Grant, Food, Wallet
  <2>5. PantryOK'
    BY <2>1, <2>3 DEF PantryOK, FeedingTypeOK
  <2>6. \A g, w : Cardinality(Owing(g, w)') = Cardinality(Owing(g, w)) - IF g = f /\ w = "stamina" THEN 1 ELSE 0
    <3>1. /\ \A s \in Feeder \ {r} : feeder'[s] = feeder[s]
          /\ feeder[r].at = "stamina" /\ feeder[r].food = f /\ feeder'[r].at = "energy" /\ feeder'[r].food = f
      BY <2>1, <2>2, <2>3 DEF FeedingTypeOK
    <3>2. \A g, w : (r \in Owing(g, w) <=> g = f) /\ (r \in Owing(g, w)' <=> g = f /\ w # "stamina")
      BY <3>1 DEF Owing
    <3> QED
      BY <3>1, <3>2, OwingMoves
  <2>7. \A g \in Food, w \in Wallet : g \in Feeds(w) =>
          granted'[w][g] = granted[w][g] + IF g = f /\ w = "stamina" THEN 1 ELSE 0
    BY <2>1, <2>3 DEF Add, FeedingTypeOK, Wallet
  <2>8. GrantsOK'
    BY <2>3, <2>6, <2>7, OwingFinite DEF GrantsOK, Feeds, FeedingTypeOK
  <2> QED
    BY <2>4, <2>5, <2>8
<1>5. ASSUME NEW r \in Feeder, AddsEnergy(r) PROVE FeedingInv'
  <2> DEFINE f == feeder[r].food
  <2>1. f \in Food /\ feeder[r].at = "energy"
    BY <1>5 DEF AddsEnergy, FeedingTypeOK
  <2>2. /\ feeder' = [feeder EXCEPT ![r] = Resting] /\ Add("energy", f)
        /\ UNCHANGED <<pantry, consumed, feeds, bills, lostFeeds>>
    BY <1>5 DEF AddsEnergy, FeedEnds
  <2>3. FeedingTypeOK'
    BY <1>a, <2>1, <2>2 DEF FeedingTypeOK, Add, Grant, Food, Wallet
  <2>4. PantryOK'
    BY <1>a, <2>1, <2>2 DEF PantryOK, FeedingTypeOK
  <2>5. \A g, w : Cardinality(Owing(g, w)') = Cardinality(Owing(g, w)) - IF g = f /\ w # "stamina" THEN 1 ELSE 0
    <3>1. /\ \A s \in Feeder \ {r} : feeder'[s] = feeder[s]
          /\ feeder[r].at = "energy" /\ feeder[r].food = f /\ feeder'[r].at = "idle"
      BY <1>a, <2>1, <2>2 DEF FeedingTypeOK
    <3>2. \A g, w : (r \in Owing(g, w) <=> g = f /\ w # "stamina") /\ r \notin Owing(g, w)'
      BY <3>1 DEF Owing
    <3> QED
      BY <3>1, <3>2, OwingMoves
  <2>6. \A g \in Food, w \in Wallet : g \in Feeds(w) =>
          granted'[w][g] = granted[w][g] + IF g = f /\ w # "stamina" THEN 1 ELSE 0
    BY <2>1, <2>2 DEF Add, FeedingTypeOK, Wallet
  <2>7. GrantsOK'
    BY <2>2, <2>5, <2>6, OwingFinite DEF GrantsOK, Feeds, FeedingTypeOK
  <2> QED
    BY <2>3, <2>4, <2>7
<1>6. ASSUME NEW r \in Feeder, FeedLost(r) PROVE FeedingInv'
  <2>1. /\ feeder' = [feeder EXCEPT ![r] = Resting] /\ lostFeeds' = lostFeeds + 1 /\ lostFeeds < MaxLostFeeds
        /\ UNCHANGED <<pantry, wallet, consumed, granted, feeds, bills>>
    BY <1>6 DEF FeedLost, FeedEnds
  <2>2. FeedingTypeOK' /\ PantryOK'
    BY <1>a, <2>1 DEF FeedingTypeOK, PantryOK
  <2>3. \A g, w : \/ Cardinality(Owing(g, w)') = Cardinality(Owing(g, w))
                  \/ Cardinality(Owing(g, w)') = Cardinality(Owing(g, w)) - 1
    <3>1. (\A s \in Feeder \ {r} : feeder'[s] = feeder[s]) /\ feeder'[r].at = "idle"
      BY <1>a, <2>1 DEF FeedingTypeOK
    <3> SUFFICES ASSUME NEW g, NEW w
                 PROVE  \/ Cardinality(Owing(g, w)') = Cardinality(Owing(g, w))
                        \/ Cardinality(Owing(g, w)') = Cardinality(Owing(g, w)) - 1
      OBVIOUS
    <3>2. r \notin Owing(g, w)'
      BY <3>1 DEF Owing
    <3>3. /\ r \notin Owing(g, w)' /\ r \in Owing(g, w) =>
               Cardinality(Owing(g, w)') = Cardinality(Owing(g, w)) - 1
          /\ (r \in Owing(g, w)' <=> r \in Owing(g, w)) =>
               Cardinality(Owing(g, w)') = Cardinality(Owing(g, w))
      BY <3>1, OwingMoves
    <3>4. CASE r \in Owing(g, w)
      BY <3>2, <3>3, <3>4
    <3>5. CASE r \notin Owing(g, w)
      BY <3>2, <3>3, <3>5
    <3> QED
      BY <3>4, <3>5
  <2>4. ASSUME NEW g \in Food, NEW w \in Wallet, g \in Feeds(w)
        PROVE  consumed'[g] - granted'[w][g] - Cardinality(Owing(g, w)') \in 0..lostFeeds'
    <3>1. /\ consumed[g] - granted[w][g] - Cardinality(Owing(g, w)) \in 0..lostFeeds
          /\ consumed[g] \in Int /\ granted[w][g] \in Int /\ lostFeeds \in Int
          /\ Cardinality(Owing(g, w)) \in Int
      BY <2>4, OwingFinite DEF GrantsOK, FeedingTypeOK
    <3>2. consumed' = consumed /\ granted' = granted /\ lostFeeds' = lostFeeds + 1
      BY <2>1
    <3> QED
      BY <2>3, <3>1, <3>2
  <2>5. GrantsOK'
    BY <2>4 DEF GrantsOK, Feeds
  <2> QED
    BY <2>2, <2>5
<1>7. ASSUME NEW w \in Wallet, Spend(w) PROVE FeedingInv'
  <2>1. FeedingTypeOK'
    BY <1>7 DEF Spend, FeedingTypeOK
  <2> QED
    BY <1>7, <2>1 DEF Spend, PantryOK, GrantsOK, Owing, Feeds
<1>8. ASSUME UNCHANGED feedingVars PROVE FeedingInv'
  <2>1. \A f, w : Owing(f, w)' = Owing(f, w)
    BY <1>8 DEF feedingVars, Owing
  <2>2. FeedingTypeOK' /\ PantryOK'
    BY <1>8 DEF feedingVars, FeedingTypeOK, PantryOK
  <2> QED
    BY <1>8, <2>1, <2>2 DEF feedingVars, GrantsOK, Feeds
<1> QED
  BY <1>1, <1>2, <1>3, <1>4, <1>5, <1>6, <1>7, <1>8 DEF FeedingNext

\* The pantry, the wallets and the requests keep their types: no count of
\* food goes below zero and no wallet into debt.
THEOREM FeedingTypeCorrect == FeedingSpec => []FeedingTypeOK
<1>1. FeedingInv => FeedingTypeOK
  BY DEF FeedingInv
<1> QED
  BY <1>1, FeedingInitOK, FeedingStep, PTL DEF FeedingSpec

\* However many first feeds race to seed the pantry, no food is created and
\* none is granted for free (food-store.ts load and consume, economy.ts feed).
THEOREM FoodAccountedHolds == FeedingSpec => []FoodAccounted
<1>1. FeedingInv => FoodAccounted
  BY DEF FeedingInv, PantryOK, GrantsOK, FoodAccounted
<1> QED
  BY <1>1, FeedingInitOK, FeedingStep, PTL DEF FeedingSpec

-----------------------------------------------------------------------------
(* Growth: a step of the mirror is reflected on once *)

\* The recomputes about to post note n.
Announcing(n) == {r \in Recompute : n \in recompute[r].todo}

\* A band pays for each reflection posted or about to be, and a capability in
\* the row for one.
BandsPaid == \A a \in Axis : notes[a] + Cardinality(Announcing(a)) <= mark.band[a]

CapabilitiesPaid ==
  \A k \in Capability : told[k] + Cardinality(Announcing(k)) <= IF k \in mark.observed THEN 1 ELSE 0

\* A snapshot lists no capability the row does not, and only a recompute that
\* won its advance has notes to post.
SnapshotsOK ==
  \A r \in Recompute :
    /\ recompute[r].from.observed \subseteq mark.observed
    /\ recompute[r].at # "announce" => recompute[r].todo = {}

GrowthInv == GrowthTypeOK /\ BandsPaid /\ CapabilitiesPaid /\ SnapshotsOK

LEMMA AnnouncingFinite ==
  ASSUME NEW n PROVE IsFiniteSet(Announcing(n)) /\ Cardinality(Announcing(n)) \in Nat
<1>1. Announcing(n) \in SUBSET Recompute
  BY DEF Announcing
<1> QED
  BY <1>1, GrowthConstants, FS_Subset, FS_CardinalityType

\* One recompute moves: who is about to post a note changes by it at most.
LEMMA AnnouncingMoves ==
  ASSUME NEW r \in Recompute, \A s \in Recompute \ {r} : recompute'[s] = recompute[s]
  PROVE  \A n :
           /\ Cardinality(Announcing(n)) \in Nat
           /\ n \in recompute'[r].todo /\ n \notin recompute[r].todo =>
                Cardinality(Announcing(n)') = Cardinality(Announcing(n)) + 1
           /\ n \notin recompute'[r].todo /\ n \in recompute[r].todo =>
                Cardinality(Announcing(n)') = Cardinality(Announcing(n)) - 1
           /\ (n \in recompute'[r].todo <=> n \in recompute[r].todo) =>
                Cardinality(Announcing(n)') = Cardinality(Announcing(n))
<1> TAKE n
<1>1. CASE n \in recompute'[r].todo
  <2>1. Announcing(n)' = Announcing(n) \cup {r}
    BY <1>1 DEF Announcing
  <2>2. r \in Announcing(n) <=> n \in recompute[r].todo
    BY DEF Announcing
  <2> QED
    BY <1>1, <2>1, <2>2, AnnouncingFinite, FS_AddElement
<1>2. CASE n \notin recompute'[r].todo
  <2>1. Announcing(n)' = Announcing(n) \ {r}
    BY <1>2 DEF Announcing
  <2>2. r \in Announcing(n) <=> n \in recompute[r].todo
    BY DEF Announcing
  <2> QED
    BY <1>2, <2>1, <2>2, AnnouncingFinite, FS_RemoveElement
<1> QED
  BY <1>1, <1>2


LEMMA TopBandNat == TopBand \in Nat
<1>1. Counted.sources \in Nat /\ Counted.episodes \in Nat /\ Counted.initiations \in Nat
  BY GrowthConstants
<1> QED
  BY <1>1, GrowthConstants DEF TopBand

\* Every reading is a row the mark could hold.
LEMMA ViewTyped == ASSUME NEW s \in [Count -> Nat] PROVE View(s) \in Mark
<1>1. /\ Count = {"sources", "episodes", "initiations", "procedures"}
      /\ BandWidth \in Nat \ {0}
  BY GrowthConstants DEF Count
<1>2. s.sources \in Nat /\ s.episodes \in Nat /\ s.initiations \in Nat
  BY <1>1
<1>3. \A p \in Nat : BandFromPoints(p, TopBand) \in 0..TopBand
  <2> TAKE p \in Nat
  <2>1. p \div BandWidth \in Nat
    BY <1>1
  <2> QED
    BY <2>1, TopBandNat, MinOfTwo DEF BandFromPoints
<1>4. BandFromThresholds(s.initiations, TopBand) \in 0..TopBand
  <2> DEFINE v == s.initiations
             reached == {i \in 0..TopBand : v >= i}
             top == IF v >= TopBand THEN TopBand ELSE v
  <2>1. top \in reached /\ \A j \in reached : top >= j
    BY <1>2, TopBandNat
  <2>2. Max(reached) \in reached
    BY <2>1 DEF Max
  <2> QED
    BY <2>2 DEF BandFromThresholds
<1>5. /\ KnowledgeBand(s) \in 0..TopBand /\ BondBand(s) \in 0..TopBand
      /\ InitiativeBand(s) \in 0..TopBand /\ Observed(s) \in SUBSET Capability
  <2>1. s.sources + s.episodes \in Nat
    BY <1>2
  <2> QED
    BY <1>2, <1>3, <1>4, <2>1 DEF KnowledgeBand, BondBand, InitiativeBand, Observed
<1> QED
  BY <1>5 DEF View, Mark, Axis

\* The target of an advance is above the snapshot by what is news.
LEMMA TargetAhead ==
  ASSUME NEW view \in Mark, NEW from \in Mark
  PROVE  /\ Target(view, from) \in Mark
         /\ \A a \in Axis : /\ Target(view, from).band[a] >= from.band[a]
                            /\ a \in News(view, from) => Target(view, from).band[a] > from.band[a]
         /\ Target(view, from).observed = from.observed \cup view.observed
         /\ \A k \in Capability : k \in News(view, from) => k \in view.observed /\ k \notin from.observed
         /\ News(view, from) \in SUBSET (Axis \cup Capability)
<1>1. \A a \in Axis : view.band[a] \in 0..TopBand /\ from.band[a] \in 0..TopBand
  BY DEF Mark
<1>2. \A a \in Axis : Max({from.band[a], view.band[a]}) = IF from.band[a] >= view.band[a] THEN from.band[a] ELSE view.band[a]
  BY <1>1, MaxOfTwo
<1>3. Target(view, from) \in Mark
  BY <1>1, <1>2 DEF Target, Mark
<1>4. /\ \A a \in Axis : Target(view, from).band[a] = IF from.band[a] >= view.band[a] THEN from.band[a] ELSE view.band[a]
      /\ Target(view, from).observed = from.observed \cup view.observed
  BY <1>2 DEF Target
<1>5. \A a \in Axis, k \in Capability : a # k
  BY DEF Axis, Capability
<1>6. view.observed \subseteq Capability
  BY DEF Mark
<1>7. \A a \in Axis : a \in News(view, from) => view.band[a] > from.band[a]
  BY <1>5, <1>6 DEF News, AxisSteps
<1>8. \A k \in Capability : k \in News(view, from) => k \in view.observed /\ k \notin from.observed
  BY <1>5 DEF News, AxisSteps
<1>9. News(view, from) \in SUBSET (Axis \cup Capability)
  BY <1>6 DEF News, AxisSteps
<1>10. \A a \in Axis : /\ Target(view, from).band[a] >= from.band[a]
                       /\ a \in News(view, from) => Target(view, from).band[a] > from.band[a]
  BY <1>1, <1>4, <1>7
<1> QED
  BY <1>3, <1>4, <1>8, <1>9, <1>10

\* A snapshot with as many capabilities as the row, none of them new, is it.
LEMMA StillAtMeansSame ==
  ASSUME GrowthTypeOK, NEW from \in Mark, from.observed \subseteq mark.observed, StillAt(from)
  PROVE  mark.band = from.band /\ mark.observed = from.observed
<1>1. IsFiniteSet(Capability)
  <2>1. Capability = {"reading_sources"} \cup {"first_routine"}
    BY DEF Capability
  <2>2. IsFiniteSet({"reading_sources"})
    BY FS_Singleton
  <2> QED
    BY <2>1, <2>2, FS_AddElement
<1>2. IsFiniteSet(mark.observed)
  BY <1>1, FS_Subset DEF GrowthTypeOK, Mark
<1> QED
  BY <1>2, FS_Subset DEF StillAt

LEMMA IdleTyped ==
  /\ Idle \in Recomputing /\ EmptyMark \in Mark
  /\ Idle.todo = {} /\ Idle.at = "idle" /\ Idle.from.observed = {} /\ EmptyMark.observed = {}
  /\ \A a \in Axis : EmptyMark.band[a] = 0
BY TopBandNat DEF Idle, Recomputing, EmptyMark, Mark

LEMMA GrowthInitOK == GrowthInit => GrowthInv
<1> SUFFICES ASSUME GrowthInit PROVE GrowthInv
  OBVIOUS
<1>1. GrowthTypeOK
  BY GrowthConstants, IdleTyped DEF GrowthInit, GrowthTypeOK, Count
<1>2. \A n : Announcing(n) = {}
  BY IdleTyped DEF GrowthInit, Announcing
<1>3. \A n : Cardinality(Announcing(n)) = 0
  BY <1>2, FS_EmptySet
<1>4. BandsPaid /\ CapabilitiesPaid
  BY <1>3, IdleTyped DEF GrowthInit, BandsPaid, CapabilitiesPaid
<1> QED
  BY <1>1, <1>4, IdleTyped DEF GrowthInit, GrowthInv, SnapshotsOK

\* A recompute that moves with no note to post, or by one note less, owes the
\* mark nothing more.
LEMMA RecomputeKeeps ==
  ASSUME GrowthInv, NEW r \in Recompute, NEW to \in Recomputing,
         recompute' = [recompute EXCEPT ![r] = to], to.todo \subseteq recompute[r].todo,
         to.at # "announce" => to.todo = {}, to.from.observed \subseteq mark.observed,
         UNCHANGED <<mark, notes, told>>
  PROVE  BandsPaid' /\ CapabilitiesPaid' /\ SnapshotsOK'
<1>1. recompute'[r] = to /\ \A s \in Recompute \ {r} : recompute'[s] = recompute[s]
  BY DEF GrowthInv, GrowthTypeOK
<1>2. \A n : Cardinality(Announcing(n)) \in Nat /\ Cardinality(Announcing(n)') <= Cardinality(Announcing(n))
  <2> TAKE n
  <2>1. /\ Cardinality(Announcing(n)) \in Nat
        /\ n \in recompute'[r].todo => n \in recompute[r].todo
        /\ \/ Cardinality(Announcing(n)') = Cardinality(Announcing(n)) - 1
           \/ Cardinality(Announcing(n)') = Cardinality(Announcing(n))
    BY <1>1, AnnouncingMoves
  <2> QED
    BY <2>1
<1>a. \A n : Cardinality(Announcing(n))' \in Int
  <2> TAKE n
  <2>1. /\ Cardinality(Announcing(n)) \in Nat
        /\ n \in recompute'[r].todo => n \in recompute[r].todo
        /\ \/ Cardinality(Announcing(n)') = Cardinality(Announcing(n)) - 1
           \/ Cardinality(Announcing(n)') = Cardinality(Announcing(n))
    BY <1>1, AnnouncingMoves
  <2> QED
    BY <2>1
<1>3. BandsPaid'
  BY <1>2, <1>a DEF BandsPaid, GrowthInv, GrowthTypeOK, Mark
<1>4. CapabilitiesPaid'
  BY <1>2, <1>a DEF CapabilitiesPaid, GrowthInv, GrowthTypeOK, Mark
<1>5. SnapshotsOK'
  BY <1>1 DEF SnapshotsOK, GrowthInv
<1> QED
  BY <1>3, <1>4, <1>5

LEMMA GrowthStep == ASSUME GrowthInv, [GrowthNext]_growthVars PROVE GrowthInv'
<1> USE GrowthConstants, IdleTyped DEF GrowthInv
<1>1. ASSUME Progress \/ SourceDeleted PROVE GrowthInv'
  <2>1. /\ UNCHANGED <<mark, recompute, notes, told, misses>>
        /\ substrate' \in [Count -> Nat] /\ \A f \in Count : substrate'[f] <= Counted[f]
    BY <1>1 DEF Progress, SourceDeleted, GrowthTypeOK, Count
  <2>2. GrowthTypeOK'
    BY <2>1 DEF GrowthTypeOK
  <2>3. \A n : Announcing(n)' = Announcing(n)
    BY <2>1 DEF Announcing
  <2> QED
    BY <2>1, <2>2, <2>3 DEF BandsPaid, CapabilitiesPaid, SnapshotsOK
<1>2. ASSUME NEW r \in Recompute, ComputeView(r) PROVE GrowthInv'
  <2> DEFINE to == [Idle EXCEPT !.at = "view", !.view = View(substrate)]
  <2>1. to \in Recomputing /\ to.todo = {} /\ to.from.observed = {}
    BY ViewTyped DEF GrowthTypeOK, Idle, Recomputing, EmptyMark
  <2>2. recompute' = [recompute EXCEPT ![r] = to] /\ UNCHANGED <<substrate, mark, notes, told, misses>>
    BY <1>2 DEF ComputeView
  <2> HIDE DEF to
  <2>3. GrowthTypeOK'
    BY <2>1, <2>2 DEF GrowthTypeOK
  <2>4. BandsPaid' /\ CapabilitiesPaid' /\ SnapshotsOK'
    BY <2>1, <2>2, RecomputeKeeps
  <2> QED
    BY <2>3, <2>4
<1>3. ASSUME NEW r \in Recompute, GetSnapshot(r) PROVE GrowthInv'
  <2> DEFINE to == IF News(recompute[r].view, mark) = {} THEN Idle
                   ELSE [recompute[r] EXCEPT !.at = "advance", !.from = mark]
  <2>1. to \in Recomputing /\ to.todo = {} /\ to.from.observed \subseteq mark.observed
    BY <1>3 DEF GetSnapshot, GrowthTypeOK, Recomputing, SnapshotsOK
  <2>2. recompute' = [recompute EXCEPT ![r] = to] /\ UNCHANGED <<substrate, mark, notes, told, misses>>
    BY <1>3 DEF GetSnapshot
  <2> HIDE DEF to
  <2>3. GrowthTypeOK'
    BY <2>1, <2>2 DEF GrowthTypeOK
  <2>4. BandsPaid' /\ CapabilitiesPaid' /\ SnapshotsOK'
    BY <2>1, <2>2, RecomputeKeeps
  <2> QED
    BY <2>3, <2>4
<1>4. ASSUME NEW r \in Recompute, Advance(r) PROVE GrowthInv'
  <2> DEFINE view == recompute[r].view
             from == recompute[r].from
  <2>1. /\ view \in Mark /\ from \in Mark /\ mark \in Mark
        /\ from.observed \subseteq mark.observed /\ recompute[r].todo = {}
        /\ UNCHANGED <<substrate, notes, told, misses>>
    BY <1>4 DEF Advance, GrowthTypeOK, Recomputing, SnapshotsOK
  <2> DEFINE won == [Idle EXCEPT !.at = "announce", !.todo = News(view, from)]
  <2>2. CASE ~StillAt(from)
    <3>1. recompute' = [recompute EXCEPT ![r] = Idle] /\ UNCHANGED mark
      BY <1>4, <2>2 DEF Advance
    <3>2. GrowthTypeOK'
      BY <2>1, <3>1 DEF GrowthTypeOK
    <3>3. BandsPaid' /\ CapabilitiesPaid' /\ SnapshotsOK'
      BY <2>1, <3>1, RecomputeKeeps
    <3> QED
      BY <3>2, <3>3
  <2>3. CASE StillAt(from)
    <3>1. mark' = Target(view, from) /\ recompute' = [recompute EXCEPT ![r] = won]
      BY <1>4, <2>3 DEF Advance
    <3>2. mark.band = from.band /\ mark.observed = from.observed
      BY <2>1, <2>3, StillAtMeansSame
    <3>3. /\ News(view, from) \in SUBSET (Axis \cup Capability) /\ mark' \in Mark
          /\ \A a \in Axis : /\ mark'.band[a] >= mark.band[a]
                             /\ a \in News(view, from) => mark'.band[a] > mark.band[a]
          /\ mark'.observed = mark.observed \cup view.observed
          /\ \A k \in Capability : k \in News(view, from) => k \in mark'.observed /\ k \notin mark.observed
      BY <2>1, <3>1, <3>2, TargetAhead
    <3>4. /\ won \in Recomputing /\ won.at = "announce" /\ won.todo = News(view, from)
          /\ won.from.observed = {}
      BY <3>3 DEF Idle, Recomputing, EmptyMark
    <3> HIDE DEF won, view, from
    <3>5. recompute'[r] = won /\ \A s \in Recompute \ {r} : recompute'[s] = recompute[s]
      BY <3>1 DEF GrowthTypeOK
    <3>6. GrowthTypeOK'
      BY <2>1, <3>1, <3>3, <3>4 DEF GrowthTypeOK
    <3>7. \A n : /\ Cardinality(Announcing(n)) \in Nat
                 /\ n \in News(view, from) => Cardinality(Announcing(n)') = Cardinality(Announcing(n)) + 1
                 /\ n \notin News(view, from) => Cardinality(Announcing(n)') = Cardinality(Announcing(n))
      BY <2>1, <3>4, <3>5, AnnouncingMoves
    <3>8. BandsPaid'
      <4>1. \A a \in Axis : notes[a] \in Nat /\ mark.band[a] \in Int /\ mark'.band[a] \in Int
        BY <3>3 DEF GrowthTypeOK, Mark
      <4> QED
        BY <2>1, <3>3, <3>7, <4>1 DEF BandsPaid
    <3>9. CapabilitiesPaid'
      BY <2>1, <3>3, <3>7 DEF CapabilitiesPaid, GrowthTypeOK
    <3>10. SnapshotsOK'
      BY <3>3, <3>4, <3>5 DEF SnapshotsOK
    <3> QED
      BY <3>6, <3>8, <3>9, <3>10
  <2> QED
    BY <2>2, <2>3
<1>5. ASSUME NEW r \in Recompute, NEW n \in recompute[r].todo, recompute[r].at = "announce", AnnounceDone(r, n)
      PROVE  /\ recompute' \in [Recompute -> Recomputing]
             /\ UNCHANGED <<mark>> => SnapshotsOK'
             /\ \A m : /\ Cardinality(Announcing(m)) \in Nat
                       /\ Cardinality(Announcing(m)') = Cardinality(Announcing(m)) - IF m = n THEN 1 ELSE 0
  <2> DEFINE to == IF recompute[r].todo = {n} THEN Idle ELSE [recompute[r] EXCEPT !.todo = @ \ {n}]
  <2>1. /\ to \in Recomputing /\ to.todo = recompute[r].todo \ {n}
        /\ to.at # "announce" => to.todo = {}
        /\ to.from.observed \subseteq mark.observed
    BY <1>5 DEF GrowthTypeOK, Recomputing, SnapshotsOK
  <2>2. recompute' = [recompute EXCEPT ![r] = to]
    BY <1>5 DEF AnnounceDone
  <2> HIDE DEF to
  <2>3. recompute'[r] = to /\ \A s \in Recompute \ {r} : recompute'[s] = recompute[s]
    BY <2>2 DEF GrowthTypeOK
  <2>4. recompute' \in [Recompute -> Recomputing]
    BY <2>1, <2>2 DEF GrowthTypeOK
  <2>5. UNCHANGED mark => SnapshotsOK'
    BY <2>1, <2>3 DEF SnapshotsOK
  <2>6. \A m : m \in recompute'[r].todo <=> m \in recompute[r].todo /\ m # n
    BY <2>1, <2>3
  <2>7. n \in recompute[r].todo
    BY <1>5
  <2> QED
    BY <2>3, <2>4, <2>5, <2>6, <2>7, AnnouncingMoves
<1>6. ASSUME NEW r \in Recompute, Announce(r) PROVE GrowthInv'
  <2>1. PICK n \in recompute[r].todo :
          /\ AnnounceDone(r, n)
          /\ IF n \in Axis
             THEN notes' = [notes EXCEPT ![n] = @ + 1] /\ UNCHANGED told
             ELSE told' = [told EXCEPT ![n] = @ + 1] /\ UNCHANGED notes
    BY <1>6 DEF Announce
  <2>2. recompute[r].at = "announce" /\ UNCHANGED <<substrate, mark, misses>>
    BY <1>6 DEF Announce
  <2>3. n \in Axis \cup Capability
    BY DEF GrowthTypeOK, Recomputing
  <2>4. /\ recompute' \in [Recompute -> Recomputing] /\ SnapshotsOK'
        /\ \A m : /\ Cardinality(Announcing(m)) \in Nat
                  /\ Cardinality(Announcing(m)') = Cardinality(Announcing(m)) - IF m = n THEN 1 ELSE 0
    BY <1>5, <2>1, <2>2
  <2>5. /\ notes' \in [Axis -> Nat] /\ told' \in [Capability -> Nat]
        /\ \A a \in Axis : notes'[a] = notes[a] + IF a = n THEN 1 ELSE 0
        /\ \A k \in Capability : told'[k] = told[k] + IF k = n THEN 1 ELSE 0
    <3>1. \A a \in Axis, k \in Capability : a # k
      BY DEF Axis, Capability
    <3> QED
      BY <2>1, <2>3, <3>1 DEF GrowthTypeOK
  <2>6. GrowthTypeOK'
    BY <2>2, <2>4, <2>5 DEF GrowthTypeOK
  <2>7. BandsPaid'
    BY <2>2, <2>4, <2>5 DEF BandsPaid, GrowthTypeOK, Mark
  <2>8. CapabilitiesPaid'
    BY <2>2, <2>4, <2>5 DEF CapabilitiesPaid, GrowthTypeOK
  <2> QED
    BY <2>4, <2>6, <2>7, <2>8
<1>7. ASSUME NEW r \in Recompute, AnnounceFails(r) PROVE GrowthInv'
  <2>1. PICK n \in recompute[r].todo : AnnounceDone(r, n)
    BY <1>7 DEF AnnounceFails
  <2>2. /\ recompute[r].at = "announce" /\ misses' = misses + 1 /\ misses < MaxMisses
        /\ UNCHANGED <<substrate, mark, notes, told>>
    BY <1>7 DEF AnnounceFails
  <2>3. /\ recompute' \in [Recompute -> Recomputing] /\ SnapshotsOK'
        /\ \A m : /\ Cardinality(Announcing(m)) \in Nat
                  /\ Cardinality(Announcing(m)') = Cardinality(Announcing(m)) - IF m = n THEN 1 ELSE 0
    BY <1>5, <2>1, <2>2
  <2>4. GrowthTypeOK'
    BY <2>2, <2>3 DEF GrowthTypeOK
  <2>5. BandsPaid'
    BY <2>2, <2>3 DEF BandsPaid, GrowthTypeOK, Mark
  <2>6. CapabilitiesPaid'
    BY <2>2, <2>3 DEF CapabilitiesPaid, GrowthTypeOK
  <2> QED
    BY <2>3, <2>4, <2>5, <2>6
<1>8. ASSUME NEW r \in Recompute, RecomputeLost(r) PROVE GrowthInv'
  <2>1. /\ recompute' = [recompute EXCEPT ![r] = Idle] /\ misses' = misses + 1 /\ misses < MaxMisses
        /\ UNCHANGED <<substrate, mark, notes, told>>
    BY <1>8 DEF RecomputeLost
  <2>2. GrowthTypeOK'
    BY <2>1 DEF GrowthTypeOK
  <2>3. BandsPaid' /\ CapabilitiesPaid' /\ SnapshotsOK'
    BY <2>1, RecomputeKeeps
  <2> QED
    BY <2>2, <2>3
<1>9. ASSUME UNCHANGED growthVars PROVE GrowthInv'
  <2>1. \A n : Announcing(n)' = Announcing(n)
    BY <1>9 DEF growthVars, Announcing
  <2>2. GrowthTypeOK' /\ SnapshotsOK'
    BY <1>9 DEF growthVars, GrowthTypeOK, SnapshotsOK
  <2> QED
    BY <1>9, <2>1, <2>2 DEF growthVars, BandsPaid, CapabilitiesPaid
<1> QED
  BY <1>1, <1>2, <1>3, <1>4, <1>6, <1>7, <1>8, <1>9 DEF GrowthNext

\* The mirror keeps its types, whatever the counts it reads do.
THEOREM GrowthTypeCorrect == GrowthSpec => []GrowthTypeOK
<1>1. GrowthInv => GrowthTypeOK
  BY DEF GrowthInv
<1> QED
  BY <1>1, GrowthInitOK, GrowthStep, PTL DEF GrowthSpec

\* However recomputes overlap, die or miss a post, a band of an axis is behind
\* at most one reflection and a capability is announced at most once
\* (growth/service.ts recompute, growth-store.ts advance).
THEOREM ReflectedOnceHolds == GrowthSpec => []ReflectedOnce
<1>1. GrowthInv => ReflectedOnce
  <2> SUFFICES ASSUME GrowthInv PROVE ReflectedOnce
    OBVIOUS
  <2>1. \A n : Cardinality(Announcing(n)) \in Nat
    BY AnnouncingFinite
  <2> QED
    BY <2>1 DEF GrowthInv, BandsPaid, CapabilitiesPaid, ReflectedOnce, GrowthTypeOK, Mark
<1> QED
  BY <1>1, GrowthInitOK, GrowthStep, PTL DEF GrowthSpec

-----------------------------------------------------------------------------
(* Rewards: an act teaches once *)

\* Each row is of a note that was posted, and a note has one.
RowsOK ==
  /\ \A i \in DOMAIN outcomes : outcomes[i].note <= posted
  /\ \A i, j \in DOMAIN outcomes : outcomes[i].note = outcomes[j].note => i = j

Recorded(n) == \E i \in DOMAIN outcomes : outcomes[i].note = n

\* A note whose outcome is about to be recorded was posted, has no row yet and
\* is nobody else's.
RecordersOK ==
  /\ burst.at = "recording" => burst.note \in 1..posted /\ ~Recorded(burst.note)
  /\ \A g \in Greeter : greeter[g].at = "recording" =>
       /\ greeter[g].note \in 1..posted /\ ~Recorded(greeter[g].note)
       /\ burst.at = "recording" => burst.note # greeter[g].note
       /\ \A h \in Greeter : greeter[h].at = "recording" /\ greeter[h].note = greeter[g].note => g = h

Scored(n, r) ==
  \E i \in DOMAIN outcomes : outcomes[i].note = n /\ outcomes[i].resolved /\ outcomes[i].reward = r

\* Whoever goes on to move the weights for a note claimed its row, alone, and
\* the note has not moved them yet.
NudgersOK ==
  \A s \in Scorer : scoring[s].at = "nudge" /\ scoring[s].note # 0 =>
    /\ moved[scoring[s].note] = 0
    /\ Scored(scoring[s].note, scoring[s].reward)
    /\ \A u \in Scorer : scoring[u].at = "nudge" /\ scoring[u].note = scoring[s].note => u = s

RewardInv == RewardTypeOK /\ RowsOK /\ RecordersOK /\ NudgersOK /\ ScoredOnce

LEMMA RewardInitOK == RewardInit => RewardInv
<1> SUFFICES ASSUME RewardInit PROVE RewardInv
  OBVIOUS
<1>1. RewardTypeOK
  BY RewardConstants DEF RewardInit, RewardTypeOK, NoBurst, NoGreeting, NotScoring, Reward, Note
<1> QED
  BY <1>1
     DEF RewardInit, RewardInv, RowsOK, RecordersOK, NudgersOK, ScoredOnce, NoBurst, NoGreeting,
         NotScoring

LEMMA RewardStep == ASSUME RewardInv, [RewardNext]_rewardVars PROVE RewardInv'
<1> USE RewardConstants DEF RewardInv
<1> DEFINE Burst == [at : {"idle", "reading", "marking", "noting", "recording"},
                     todo : SUBSET Lead, tried : SUBSET Lead, read : SUBSET Lead, note : 0..MaxNotes]
           Greeting == [at : {"idle", "voicing", "recording"}, note : 0..MaxNotes]
           Score == [at : {"idle", "claim", "nudge"}, note : 0..MaxNotes, reward : Reward]
<1>t. /\ leads \in [Lead -> {"new", "ingested", "read"}] /\ outcomes \in Seq(Outcome)
      /\ posted \in 0..MaxNotes /\ burst \in Burst /\ greeter \in [Greeter -> Greeting]
      /\ scoring \in [Scorer -> Score] /\ moved \in [Note -> Int] /\ slips \in 0..MaxSlips
      /\ DOMAIN outcomes = 1..Len(outcomes) /\ Len(outcomes) \in Nat
      /\ \A i \in DOMAIN outcomes : outcomes[i] \in Outcome
  BY LenProperties DEF RewardTypeOK
<1>u. NoBurst \in Burst /\ NoGreeting \in Greeting /\ NotScoring \in Score
  BY DEF NoBurst, NoGreeting, NotScoring, Reward
<1> HIDE DEF Burst, Greeting, Score
\* The steps of a burst before its note and after its record.
<1>1. ASSUME UNCHANGED <<outcomes, posted, greeter, scoring, moved>>,
             leads' \in [Lead -> {"new", "ingested", "read"}], burst' \in Burst, burst'.at # "recording",
             slips' \in 0..MaxSlips
      PROVE  RewardInv'
  <2>1. RewardTypeOK'
    BY <1>1, <1>t DEF RewardTypeOK, Burst, Greeting, Score
  <2>2. RowsOK' /\ RecordersOK'
    BY <1>1 DEF RowsOK, RecordersOK, Recorded
  <2>3. NudgersOK' /\ ScoredOnce'
    BY <1>1 DEF NudgersOK, Scored, ScoredOnce
  <2> QED
    BY <2>1, <2>2, <2>3
<1>2. CASE TickBegins
  <2>1. PICK todo \in SUBSET {l \in Lead : leads[l] = "new"} :
          burst' = [NoBurst EXCEPT !.at = "reading", !.todo = todo]
    BY <1>2 DEF TickBegins
  <2>2. burst' \in Burst /\ burst'.at # "recording"
    BY <1>u, <2>1 DEF Burst, NoBurst
  <2> QED
    BY <1>1, <1>2, <1>t, <2>2 DEF TickBegins
<1>3. ASSUME NEW ok \in BOOLEAN, BurstReads(ok) PROVE RewardInv'
  <2>1. PICK l \in burst.todo :
          burst' = [burst EXCEPT !.todo = @ \ {l}, !.tried = @ \cup {l}, !.read = IF ok THEN @ \cup {l} ELSE @]
    BY <1>3 DEF BurstReads
  <2>2. burst' \in Burst /\ burst'.at # "recording"
    <3>1. /\ burst.at = "reading" /\ l \in Lead
          /\ burst.todo \ {l} \in SUBSET Lead /\ burst.tried \cup {l} \in SUBSET Lead
          /\ (IF ok THEN burst.read \cup {l} ELSE burst.read) \in SUBSET Lead
      BY <1>3, <1>t DEF Burst, BurstReads
    <3> QED
      BY <1>t, <2>1, <3>1 DEF Burst
  <2> QED
    BY <1>1, <1>3, <1>t, <2>2 DEF BurstReads
<1>4. CASE BurstParks
  <2>1. PICK l \in burst.todo :
          /\ burst' = [burst EXCEPT !.todo = @ \ {l}]
          /\ leads' \in {leads, [leads EXCEPT ![l] = "read"]}
    BY <1>4 DEF BurstParks
  <2>2. burst' \in Burst /\ burst'.at # "recording"
    BY <1>4, <1>t, <2>1 DEF Burst, BurstParks
  <2>3. leads' \in [Lead -> {"new", "ingested", "read"}]
    BY <1>t, <2>1
  <2> QED
    BY <1>1, <1>4, <1>t, <2>2, <2>3 DEF BurstParks, Slips
<1>5. CASE BurstStopsReading
  <2>1. burst' \in Burst /\ burst'.at # "recording"
    BY <1>5, <1>t, <1>u DEF Burst, BurstStopsReading, NoBurst
  <2> QED
    BY <1>1, <1>5, <1>t, <2>1 DEF BurstStopsReading
<1>6. CASE BurstMarks
  <2>1. PICK skipped \in SUBSET burst.tried :
          /\ IF skipped = {} THEN UNCHANGED slips ELSE Slips
          /\ leads' = [l \in Lead |-> IF l \notin burst.tried \ skipped THEN leads[l]
                                     ELSE IF l \in burst.read THEN "ingested" ELSE "read"]
    BY <1>6 DEF BurstMarks
  <2>2. burst' \in Burst /\ burst'.at # "recording"
    BY <1>6, <1>u DEF Burst, BurstMarks, NoBurst
  <2>3. leads' \in [Lead -> {"new", "ingested", "read"}]
    BY <1>t, <2>1
  <2>4. slips' \in 0..MaxSlips
    BY <1>t, <2>1 DEF Slips
  <2> QED
    BY <1>1, <1>6, <2>2, <2>3, <2>4 DEF BurstMarks
<1>7. CASE BurstNotes
  <2>1. /\ posted' = posted + 1 /\ posted' \in 0..MaxNotes /\ burst' = [NoBurst EXCEPT !.at = "recording", !.note = posted + 1]
        /\ UNCHANGED <<leads, outcomes, greeter, scoring, moved, slips>>
    BY <1>7, <1>t DEF BurstNotes
  <2>2. burst' \in Burst /\ burst'.at = "recording" /\ burst'.note = posted + 1
    BY <1>u, <2>1 DEF Burst, NoBurst
  <2>3. RewardTypeOK'
    BY <1>t, <2>1, <2>2 DEF RewardTypeOK, Burst, Greeting, Score
  <2>4. \A n : Recorded(n)' <=> Recorded(n)
    BY <2>1 DEF Recorded
  <2>5. ~Recorded(posted + 1)
    BY <1>t DEF Recorded, RowsOK, Outcome, Note
  <2>6. RowsOK'
    BY <1>t, <2>1 DEF RowsOK, Outcome, Note
  <2>7. RecordersOK'
    BY <1>t, <2>1, <2>2, <2>4, <2>5 DEF RecordersOK
  <2>8. NudgersOK' /\ ScoredOnce'
    BY <2>1 DEF NudgersOK, Scored, ScoredOnce
  <2> QED
    BY <2>3, <2>6, <2>7, <2>8
\* A record: the new row is of a fresh note, and what was scored stays so.
<1>8. ASSUME NEW n \in 1..posted, ~Recorded(n), Record(n), UNCHANGED <<leads, posted, scoring, moved, slips>>
      PROVE  /\ outcomes' \in Seq(Outcome) /\ RowsOK' /\ NudgersOK' /\ ScoredOnce'
             /\ \A m : Recorded(m)' => Recorded(m) \/ m = n
  <2> DEFINE verdict == [note |-> n, resolved |-> FALSE, reward |-> 0]
  <2>1. verdict \in Outcome /\ verdict.note = n
    BY <1>t DEF Outcome, Note, Reward
  <2>2. outcomes' = Append(outcomes, verdict)
    BY <1>8 DEF Record
  <2> HIDE DEF verdict
  <2>3. /\ outcomes' \in Seq(Outcome) /\ DOMAIN outcomes' = 1..(Len(outcomes) + 1)
        /\ outcomes'[Len(outcomes) + 1] = verdict
        /\ \A i \in DOMAIN outcomes : i \in DOMAIN outcomes' /\ outcomes'[i] = outcomes[i]
        /\ \A i \in DOMAIN outcomes' : i \in DOMAIN outcomes \/ i = Len(outcomes) + 1
    BY <1>t, <2>1, <2>2
  <2>4. RowsOK'
    BY <1>8, <2>1, <2>3 DEF RowsOK, Recorded
  <2>5. \A m, r : Scored(m, r) => Scored(m, r)'
    BY <2>3 DEF Scored
  <2>6. NudgersOK'
    BY <1>8, <2>5 DEF NudgersOK
  <2>7. ScoredOnce'
    BY <1>8, <2>5 DEF ScoredOnce, Scored
  <2>8. \A m : Recorded(m)' => Recorded(m) \/ m = n
    BY <2>1, <2>3 DEF Recorded
  <2> QED
    BY <2>3, <2>4, <2>6, <2>7, <2>8
<1>9. CASE BurstRecords
  <2>1. /\ burst.at = "recording" /\ Record(burst.note) /\ burst' = NoBurst
        /\ UNCHANGED <<leads, posted, greeter, scoring, moved, slips>>
    BY <1>9 DEF BurstRecords
  <2>2. burst.note \in 1..posted /\ ~Recorded(burst.note)
    BY <2>1 DEF RecordersOK
  <2>3. /\ outcomes' \in Seq(Outcome) /\ RowsOK' /\ NudgersOK' /\ ScoredOnce'
        /\ \A m : Recorded(m)' => Recorded(m) \/ m = burst.note
    BY <1>8, <2>1, <2>2
  <2>4. RewardTypeOK'
    BY <1>t, <1>u, <2>1, <2>3 DEF RewardTypeOK, Burst, Greeting, Score
  <2>5. RecordersOK'
    BY <2>1, <2>3 DEF RecordersOK, NoBurst
  <2> QED
    BY <2>3, <2>4, <2>5
<1>10. CASE BurstLost
  <2>1. burst' \in Burst /\ burst'.at # "recording"
    BY <1>10, <1>u DEF BurstLost, NoBurst
  <2> QED
    BY <1>1, <1>10, <1>t, <2>1 DEF BurstLost, Slips
\* A greeting that records nothing yet, or no more.
<1>11. ASSUME NEW g \in Greeter, NEW to \in Greeting, to.at # "recording", greeter' = [greeter EXCEPT ![g] = to],
              UNCHANGED <<leads, outcomes, burst, scoring, moved>>, posted' \in posted..MaxNotes, slips' \in 0..MaxSlips
       PROVE  RewardInv'
  <2>1. \A h \in Greeter : greeter'[h] = IF h = g THEN to ELSE greeter[h]
    BY <1>11, <1>t
  <2>2. RewardTypeOK'
    BY <1>11, <1>t DEF RewardTypeOK, Burst, Greeting, Score
  <2>3. RowsOK'
    BY <1>11, <1>t DEF RowsOK, Outcome, Note
  <2>4. RecordersOK'
    BY <1>11, <1>t, <2>1 DEF RecordersOK, Recorded
  <2>5. NudgersOK' /\ ScoredOnce'
    BY <1>11 DEF NudgersOK, Scored, ScoredOnce
  <2> QED
    BY <2>2, <2>3, <2>4, <2>5
<1>12. ASSUME NEW g \in Greeter, GreetingPrepares(g) PROVE RewardInv'
  <2> DEFINE to == [greeter[g] EXCEPT !.at = "voicing"]
  <2>1. to \in Greeting /\ to.at # "recording"
    BY <1>t DEF Greeting
  <2>2. /\ greeter' = [greeter EXCEPT ![g] = to]
        /\ UNCHANGED <<leads, outcomes, posted, burst, scoring, moved, slips>>
    BY <1>12 DEF GreetingPrepares
  <2> HIDE DEF to
  <2>3. posted' \in posted..MaxNotes /\ slips' \in 0..MaxSlips
    BY <1>t, <2>2
  <2> QED
    BY <1>11, <2>1, <2>2, <2>3
<1>13. ASSUME NEW g \in Greeter, NEW e \in BOOLEAN, GreetingPosts(g, e) PROVE RewardInv'
  <2>1. /\ posted' = posted + 1 /\ posted' \in 0..MaxNotes /\ posted' \in posted..MaxNotes
        /\ UNCHANGED <<leads, outcomes, burst, scoring, moved, slips>>
    BY <1>13, <1>t DEF GreetingPosts
  <2>2. CASE e
    <3>1. greeter' = [greeter EXCEPT ![g] = NoGreeting]
      BY <1>13, <2>2 DEF GreetingPosts
    <3>2. NoGreeting.at # "recording"
      BY DEF NoGreeting
    <3> QED
      BY <1>11, <1>t, <1>u, <2>1, <3>1, <3>2
  <2>3. CASE ~e
    <3> DEFINE to == [at |-> "recording", note |-> posted + 1]
    <3>1. greeter' = [greeter EXCEPT ![g] = to]
      BY <1>13, <2>3 DEF GreetingPosts
    <3>2. to \in Greeting /\ to.at = "recording" /\ to.note = posted + 1
      BY <2>1 DEF Greeting
    <3> HIDE DEF to
    <3>3. \A h \in Greeter : greeter'[h] = IF h = g THEN to ELSE greeter[h]
      BY <1>t, <3>1
    <3>4. RewardTypeOK'
      BY <1>t, <2>1, <3>1, <3>2 DEF RewardTypeOK, Burst, Greeting, Score
    <3>5. RowsOK'
      BY <1>t, <2>1 DEF RowsOK, Outcome, Note
    <3>6. ~Recorded(posted + 1) /\ \A n : Recorded(n)' <=> Recorded(n)
      BY <1>t, <2>1 DEF Recorded, RowsOK, Outcome, Note
    <3>7. RecordersOK'
      <4>1. /\ burst' = burst /\ outcomes' = outcomes /\ posted' = posted + 1 /\ posted \in Nat
            /\ RecordersOK
        BY <1>t, <2>1
      <4>2. burst.at = "recording" => burst.note \in 1..posted
        BY <4>1 DEF RecordersOK
      <4>3. burst'.at = "recording" => burst'.note \in 1..posted' /\ ~Recorded(burst.note)'
        BY <4>1, <4>2 DEF RecordersOK, Recorded
      <4>4. ASSUME NEW h \in Greeter, greeter'[h].at = "recording"
            PROVE  /\ greeter'[h].note \in 1..posted' /\ ~Recorded(greeter[h].note)'
                   /\ burst'.at = "recording" => burst'.note # greeter'[h].note
        <5>1. CASE h = g
          <6>1. greeter'[h].note = posted + 1
            BY <3>2, <3>3, <5>1
          <6>2. ~Recorded(greeter[h].note)'
            BY <3>6, <4>1, <6>1 DEF Recorded
          <6>3. burst'.at = "recording" => burst'.note # greeter'[h].note
            BY <4>1, <4>2, <6>1
          <6> QED
            BY <4>1, <6>1, <6>2, <6>3
        <5>2. CASE h # g
          <6>1. greeter'[h] = greeter[h]
            BY <3>3, <5>2
          <6>2. /\ greeter[h].note \in 1..posted /\ ~Recorded(greeter[h].note)
                /\ burst.at = "recording" => burst.note # greeter[h].note
            BY <4>1, <4>4, <6>1 DEF RecordersOK
          <6> QED
            BY <4>1, <6>1, <6>2 DEF Recorded
        <5> QED
          BY <5>1, <5>2
      <4>5. \A h, k \in Greeter :
              greeter'[h].at = "recording" /\ greeter'[k].at = "recording" /\ greeter'[h].note = greeter'[k].note
                => h = k
        <5>1. \A h \in Greeter \ {g} : greeter'[h].at = "recording" => greeter'[h].note \in 1..posted
          BY <3>3, <4>1 DEF RecordersOK
        <5>2. greeter'[g].note = posted + 1 /\ \A h \in Greeter \ {g} : greeter'[h] = greeter[h]
          BY <3>2, <3>3
        <5> QED
          BY <4>1, <5>1, <5>2 DEF RecordersOK
      <4> QED
        BY <4>3, <4>4, <4>5 DEF RecordersOK
    <3>8. NudgersOK' /\ ScoredOnce'
      BY <2>1 DEF NudgersOK, Scored, ScoredOnce
    <3> QED
      BY <3>4, <3>5, <3>7, <3>8
  <2> QED
    BY <2>2, <2>3
<1>14. ASSUME NEW g \in Greeter, GreetingRecords(g) PROVE RewardInv'
  <2>1. /\ greeter[g].at = "recording" /\ Record(greeter[g].note) /\ greeter' = [greeter EXCEPT ![g] = NoGreeting]
        /\ UNCHANGED <<leads, posted, burst, scoring, moved, slips>>
    BY <1>14 DEF GreetingRecords
  <2>2. greeter[g].note \in 1..posted /\ ~Recorded(greeter[g].note)
    BY <2>1 DEF RecordersOK
  <2>3. /\ outcomes' \in Seq(Outcome) /\ RowsOK' /\ NudgersOK' /\ ScoredOnce'
        /\ \A m : Recorded(m)' => Recorded(m) \/ m = greeter[g].note
    BY <1>8, <2>1, <2>2
  <2>4. RewardTypeOK'
    BY <1>t, <1>u, <2>1, <2>3 DEF RewardTypeOK, Burst, Greeting, Score
  <2>5. \A h \in Greeter : greeter'[h] = IF h = g THEN NoGreeting ELSE greeter[h]
    BY <1>t, <2>1
  <2>6. RecordersOK'
    BY <2>1, <2>3, <2>5 DEF RecordersOK, NoGreeting
  <2> QED
    BY <2>3, <2>4, <2>6
<1>15. ASSUME NEW g \in Greeter, GreetingLost(g) PROVE RewardInv'
  <2>1. /\ greeter' = [greeter EXCEPT ![g] = NoGreeting] /\ slips' \in 0..MaxSlips
        /\ UNCHANGED <<leads, outcomes, posted, burst, scoring, moved>>
    BY <1>15, <1>t DEF GreetingLost, Slips
  <2>2. NoGreeting.at # "recording" /\ posted' \in posted..MaxNotes
    BY <1>t, <2>1 DEF NoGreeting
  <2> QED
    BY <1>11, <1>u, <2>1, <2>2
\* A reaction that moves no weights of a note yet, or no more.
<1>16. ASSUME NEW s \in Scorer, NEW to \in Score, to.at = "nudge" => to.note = 0,
              scoring' = [scoring EXCEPT ![s] = to],
              UNCHANGED <<leads, outcomes, posted, burst, greeter, moved>>, slips' \in 0..MaxSlips
       PROVE  RewardInv'
  <2>1. \A u \in Scorer : scoring'[u] = IF u = s THEN to ELSE scoring[u]
    BY <1>16, <1>t
  <2>2. RewardTypeOK'
    BY <1>16, <1>t DEF RewardTypeOK, Burst, Greeting, Score
  <2>3. RowsOK' /\ RecordersOK' /\ ScoredOnce'
    BY <1>16 DEF RowsOK, RecordersOK, Recorded, ScoredOnce
  <2>4. \A m, r : Scored(m, r)' <=> Scored(m, r)
    BY <1>16 DEF Scored
  <2>5. NudgersOK'
    BY <1>16, <2>1, <2>4 DEF NudgersOK
  <2> QED
    BY <2>2, <2>3, <2>5
<1>17. ASSUME NEW s \in Ambient, NEW r \in Reward, AmbientFinds(s, r) PROVE RewardInv'
  <2> DEFINE to == [at |-> "claim", note |-> outcomes[Max(Unresolved)].note, reward |-> r]
  <2>1. /\ scoring' = [scoring EXCEPT ![s] = to] /\ Unresolved # {}
        /\ UNCHANGED <<leads, outcomes, posted, burst, greeter, moved, slips>>
    BY <1>17 DEF AmbientFinds
  <2>2. Max(Unresolved) \in Unresolved
    BY <1>t, <2>1, LargestIndex DEF Unresolved
  <2>3. outcomes[Max(Unresolved)].note \in 0..MaxNotes
    BY <1>t, <2>2 DEF Unresolved, Outcome, Note
  <2>4. to \in Score /\ to.at = "claim" /\ s \in Scorer
    BY <2>3 DEF Score, Scorer
  <2> HIDE DEF to
  <2> QED
    BY <1>16, <1>t, <2>1, <2>4
<1>18. ASSUME NEW s \in Addressed, NEW n \in Note, NEW r \in Reward, AddressedReads(s, n, r) PROVE RewardInv'
  <2>1. /\ UNCHANGED <<leads, outcomes, posted, burst, greeter, moved, slips>> /\ s \in Scorer
        /\ \/ scoring' = [scoring EXCEPT ![s] = [at |-> "claim", note |-> n, reward |-> r]]
           \/ scoring' = [scoring EXCEPT ![s] = [at |-> "nudge", note |-> 0, reward |-> r]]
    BY <1>18 DEF AddressedReads, Scorer
  <2>2. /\ [at |-> "claim", note |-> n, reward |-> r] \in Score
        /\ [at |-> "nudge", note |-> 0, reward |-> r] \in Score
    BY DEF Score, Note
  <2>3. PICK to \in Score : (to.at = "nudge" => to.note = 0) /\ scoring' = [scoring EXCEPT ![s] = to]
    <3>1. CASE scoring' = [scoring EXCEPT ![s] = [at |-> "claim", note |-> n, reward |-> r]]
      BY <2>2, <3>1
    <3>2. CASE scoring' = [scoring EXCEPT ![s] = [at |-> "nudge", note |-> 0, reward |-> r]]
      BY <2>2, <3>2
    <3> QED
      BY <2>1, <3>1, <3>2
  <2> QED
    BY <1>16, <1>t, <2>1, <2>3
<1>19. ASSUME NEW s \in Scorer, Claims(s) PROVE RewardInv'
  <2>a. PICK n \in 0..MaxNotes, r \in Reward : n = scoring[s].note /\ r = scoring[s].reward
    BY <1>t DEF Score
  <2>1. /\ scoring[s].at = "claim" /\ UNCHANGED <<leads, posted, burst, greeter, moved, slips>>
        /\ n \in 0..MaxNotes /\ r \in Reward
    BY <1>19 DEF Claims
  <2>2. CASE ~Claimable(n)
    <3>1. scoring' = [scoring EXCEPT ![s] = NotScoring] /\ UNCHANGED outcomes
      BY <1>19, <2>a, <2>2 DEF Claims
    <3>2. NotScoring.at = "idle"
      BY DEF NotScoring
    <3> QED
      BY <1>16, <1>t, <1>u, <2>1, <3>1, <3>2
  <2>3. CASE Claimable(n)
    <3> DEFINE to == IF r # 0 THEN [scoring[s] EXCEPT !.at = "nudge"] ELSE NotScoring
               verdict == [note |-> n, resolved |-> TRUE, reward |-> r]
    <3>1. scoring' = [scoring EXCEPT ![s] = to] /\ SetReward(n, r)
      BY <1>19, <2>a, <2>3 DEF Claims
    <3>2. PICK i \in DOMAIN outcomes : ~outcomes[i].resolved /\ outcomes[i].note = n
      BY <2>3 DEF Claimable, Awaited, Unresolved
    <3>3. n \in Note /\ verdict \in Outcome /\ verdict.note = n /\ verdict.resolved /\ verdict.reward = r
      BY <1>t, <2>1, <3>2 DEF Outcome, Note
    <3>4. /\ to \in Score /\ to.at # "claim"
          /\ to.at = "nudge" => to.note = n /\ to.reward = r
      BY <1>t, <1>u, <2>a, <2>1 DEF Score, NotScoring
    <3>5. outcomes' = [j \in DOMAIN outcomes |-> IF outcomes[j].note = n THEN verdict ELSE outcomes[j]]
      BY <3>1 DEF SetReward
    <3> HIDE DEF to, verdict
    <3>6. DOMAIN outcomes' = DOMAIN outcomes /\ \A j \in DOMAIN outcomes : outcomes'[j] = IF j = i THEN verdict ELSE outcomes[j]
      BY <3>2, <3>5 DEF RowsOK
    <3>7. outcomes' \in Seq(Outcome)
      <4>1. outcomes' \in [1..Len(outcomes) -> Outcome]
        BY <1>t, <3>3, <3>5
      <4> QED
        BY <1>t, <4>1, SeqDef
    <3>8. \A u \in Scorer : scoring'[u] = IF u = s THEN to ELSE scoring[u]
      BY <1>t, <3>1
    <3>9. RewardTypeOK'
      BY <1>t, <2>1, <3>1, <3>4, <3>7 DEF RewardTypeOK, Burst, Greeting, Score
    <3>10. \A j \in DOMAIN outcomes : outcomes'[j].note = outcomes[j].note
      BY <3>2, <3>3, <3>6
    <3>11. RowsOK' /\ RecordersOK'
      <4>1. \A m : Recorded(m)' <=> Recorded(m)
        BY <3>6, <3>10 DEF Recorded
      <4> QED
        BY <2>1, <3>6, <3>10, <4>1 DEF RowsOK, RecordersOK
    <3>12. Scored(n, r)'
      BY <3>3, <3>6 DEF Scored
    <3>13. \A m, q : Scored(m, q) => Scored(m, q)' /\ m # n
      <4> SUFFICES ASSUME NEW m, NEW q, Scored(m, q) PROVE Scored(m, q)' /\ m # n
        OBVIOUS
      <4>1. PICK j \in DOMAIN outcomes : outcomes[j].note = m /\ outcomes[j].resolved /\ outcomes[j].reward = q
        BY DEF Scored
      <4>2. j # i /\ m # n
        BY <3>2, <4>1 DEF RowsOK
      <4> QED
        BY <3>6, <4>1, <4>2 DEF Scored
    <3>14. ScoredOnce'
      BY <2>1, <3>13 DEF ScoredOnce, Scored
    <3>15. moved[n] = 0
      BY <3>3, <3>13 DEF ScoredOnce, Scored
    <3>16. NudgersOK'
      <4>1. \A u \in Scorer : scoring[u].at = "nudge" /\ scoring[u].note # 0 => scoring[u].note # n
        BY <3>13 DEF NudgersOK
      <4>2. n # 0
        BY <3>3 DEF Note
      <4> QED
        BY <2>1, <3>4, <3>8, <3>12, <3>13, <3>15, <4>1, <4>2 DEF NudgersOK
    <3> QED
      BY <3>9, <3>11, <3>14, <3>16
  <2> QED
    BY <2>2, <2>3
<1>20. ASSUME NEW s \in Scorer, Nudges(s) PROVE RewardInv'
  <2> DEFINE n == scoring[s].note
  <2>1. /\ scoring[s].at = "nudge" /\ scoring' = [scoring EXCEPT ![s] = NotScoring]
        /\ moved' = IF n = 0 THEN moved ELSE [moved EXCEPT ![n] = @ + scoring[s].reward]
        /\ UNCHANGED <<leads, outcomes, posted, burst, greeter, slips>>
    BY <1>20 DEF Nudges
  <2>2. NotScoring.at = "idle"
    BY DEF NotScoring
  <2>3. CASE n = 0
    BY <1>16, <1>t, <1>u, <2>1, <2>2, <2>3
  <2>4. CASE n # 0
    <3>1. n \in Note /\ scoring[s].reward \in Int /\ scoring[s].reward \in Reward
      BY <1>t, <2>4 DEF Score, Note, Reward
    <3>2. moved[n] = 0 /\ Scored(n, scoring[s].reward) /\ \A u \in Scorer : scoring[u].at = "nudge" /\ scoring[u].note = n => u = s
      BY <2>1, <2>4 DEF NudgersOK
    <3>3. moved' \in [Note -> Int] /\ moved'[n] = scoring[s].reward /\ \A m \in Note : m # n => moved'[m] = moved[m]
      BY <1>t, <2>1, <2>4, <3>1, <3>2
    <3>4. \A u \in Scorer : scoring'[u] = IF u = s THEN NotScoring ELSE scoring[u]
      BY <1>t, <2>1
    <3>5. RewardTypeOK'
      BY <1>t, <1>u, <2>1, <3>3 DEF RewardTypeOK, Burst, Greeting, Score
    <3>6. RowsOK' /\ RecordersOK'
      BY <2>1 DEF RowsOK, RecordersOK, Recorded
    <3>7. \A m, q : Scored(m, q)' <=> Scored(m, q)
      BY <2>1 DEF Scored
    <3>8. ScoredOnce'
      BY <2>1, <3>2, <3>3 DEF ScoredOnce, Scored
    <3>9. \A u \in Scorer : scoring[u].note \in 0..MaxNotes
      BY <1>t DEF Score
    <3>10. NudgersOK'
      BY SMTT(30), <2>2, <3>2, <3>3, <3>4, <3>7, <3>9 DEF NudgersOK, Note
    <3> QED
      BY <3>5, <3>6, <3>8, <3>10
  <2> QED
    BY <2>3, <2>4
<1>21. ASSUME NEW s \in Scorer, ScoringLost(s) PROVE RewardInv'
  <2>1. /\ scoring' = [scoring EXCEPT ![s] = NotScoring] /\ slips' \in 0..MaxSlips
        /\ UNCHANGED <<leads, outcomes, posted, burst, greeter, moved>>
    BY <1>21, <1>t DEF ScoringLost, Slips
  <2>2. NotScoring.at = "idle"
    BY DEF NotScoring
  <2> QED
    BY <1>16, <1>u, <2>1, <2>2
<1>22. CASE UNCHANGED rewardVars
  <2>1. RewardTypeOK' /\ RowsOK' /\ RecordersOK'
    BY <1>22 DEF rewardVars, RewardTypeOK, RowsOK, RecordersOK, Recorded
  <2>2. NudgersOK' /\ ScoredOnce'
    BY <1>22 DEF rewardVars, NudgersOK, Scored, ScoredOnce
  <2> QED
    BY <2>1, <2>2
<1> QED
  BY <1>2, <1>3, <1>4, <1>5, <1>6, <1>7, <1>9, <1>10, <1>12, <1>13, <1>14, <1>15, <1>17, <1>18,
     <1>19, <1>20, <1>21,
     <1>22 DEF RewardNext

\* The rows, the acts and the reactions keep their types.
THEOREM RewardTypeCorrect == RewardSpec => []RewardTypeOK
<1>1. RewardInv => RewardTypeOK
  BY DEF RewardInv
<1> QED
  BY <1>1, RewardInitOK, RewardStep, PTL DEF RewardSpec

\* An act teaches once, by the reward its outcome row holds, whichever of a
\* mood delta and an emoji came first (rewards.setReward).
THEOREM ScoredOnceHolds == RewardSpec => []ScoredOnce
<1>1. RewardInv => ScoredOnce
  BY DEF RewardInv
<1> QED
  BY <1>1, RewardInitOK, RewardStep, PTL DEF RewardSpec

-----------------------------------------------------------------------------
(* Mood: the changes learned add up *)

\* A read past the queue is alone: the earlier ones are over, and it knows the
\* stored reading and what it may store.
ReadOK(n) ==
  /\ read[n].at \notin {"none", "queued"} => Chained(n)
  /\ UnderWay(n) => n <= reads
  /\ read[n].at \in {"sense", "upsert"} => read[n].prior = Stored
  /\ read[n].at = "upsert" => read[n].senses \in Valence

\* What was learned, lost or is on its way is the way from the first mood to
\* the stored one.
Balanced ==
  taught + untaught + OnItsWay = IF moods = << >> THEN 0 ELSE Last(moods) - Head(moods)

MoodInv == MoodTypeOK /\ (\A n \in Read : ReadOK(n)) /\ Balanced

LEMMA LoneRead ==
  ASSUME MoodInv, NEW n \in Read, NEW m \in Read,
         read[n].at \notin {"none", "queued"}, read[m].at \notin {"none", "queued"}
  PROVE  n = m
<1>1. n \in Int /\ m \in Int /\ 1 <= n /\ 1 <= m
  BY MoodConstants DEF Read
<1>2. Chained(n) /\ Chained(m)
  BY DEF MoodInv, ReadOK
<1>3. CASE n < m
  <2>1. n \in 1..(m - 1)
    BY <1>1, <1>3
  <2> QED
    BY <1>2, <2>1 DEF Chained, UnderWay
<1>4. CASE m < n
  <2>1. m \in 1..(n - 1)
    BY <1>1, <1>4
  <2> QED
    BY <1>2, <2>1 DEF Chained, UnderWay
<1> QED
  BY <1>1, <1>3, <1>4

\* What is on its way belongs to the read that is at its reinforcement.
LEMMA OnItsWayIs ==
  ASSUME MoodInv
  PROVE  /\ \A n \in Read : read[n].at \notin {"none", "queued", "reinforce"} => OnItsWay = 0
         /\ \A n \in Read : read[n].at = "reinforce" => OnItsWay = Delta(n)
         /\ (\A n \in Read : read[n].at # "reinforce") => OnItsWay = 0
<1>1. \A n \in Read : read[n].at \notin {"none", "queued", "reinforce"} => Unlearning = {}
  BY LoneRead DEF Unlearning
<1>2. ASSUME NEW n \in Read, read[n].at = "reinforce" PROVE Unlearning = {n}
  BY <1>2, LoneRead DEF Unlearning
<1>3. \A n \in Read : read[n].at = "reinforce" => OnItsWay = Delta(n)
  BY <1>2 DEF OnItsWay
<1>4. \A n \in Read : read[n].at \notin {"none", "queued", "reinforce"} => OnItsWay = 0
  BY <1>1 DEF OnItsWay
<1>5. (\A n \in Read : read[n].at # "reinforce") => OnItsWay = 0
  BY DEF OnItsWay, Unlearning
<1> QED
  BY <1>3, <1>4, <1>5

LEMMA DeltaInt == ASSUME MoodTypeOK, NEW n \in Read PROVE Delta(n) \in Int /\ Unlearned(n) \in Int
<1>1. read[n].prior \in {<< >>} \cup {<<v>> : v \in Valence} /\ read[n].senses \in Int
  <2>1. read[n] \in [at : {"none", "queued", "sense", "upsert", "reinforce"},
                    prior : {<< >>} \cup {<<v>> : v \in Valence}, senses : Valence \cup {0}]
    BY DEF MoodTypeOK
  <2>2. Valence \cup {0} \subseteq Int
    BY MoodConstants
  <2> HIDE DEF MoodTypeOK
  <2> QED
    BY <2>1, <2>2
<1>2. CASE read[n].prior = << >>
  BY <1>2 DEF Delta, Unlearned
<1>3. CASE read[n].prior # << >>
  <2>1. PICK v \in Valence : read[n].prior = <<v>>
    BY <1>1, <1>3
  <2>2. read[n].prior[1] \in Int
    BY <2>1, MoodConstants
  <2> QED
    BY <1>1, <1>3, <2>2 DEF Delta, Unlearned
<1> QED
  BY <1>2, <1>3

LEMMA MoodInitOK == MoodInit => MoodInv
<1> SUFFICES ASSUME MoodInit PROVE MoodInv
  OBVIOUS
<1>1. MoodTypeOK /\ \A n \in Read : ReadOK(n)
  BY MoodConstants DEF MoodInit, MoodTypeOK, ReadOK, NoRead, UnderWay
<1>2. Unlearning = {} /\ moods = << >> /\ taught = 0 /\ untaught = 0
  BY DEF MoodInit, Unlearning, NoRead
<1> QED
  BY <1>1, <1>2 DEF MoodInv, Balanced, OnItsWay

\* A read moves on or is over while the stored mood stays: the others keep
\* their place.
LEMMA ReadMoves ==
  ASSUME MoodInv, NEW n \in Read,
         NEW to \in [at : {"none", "queued", "sense", "upsert", "reinforce"},
                     prior : {<< >>} \cup {<<v>> : v \in Valence}, senses : Valence \cup {0}],
         read' = [read EXCEPT ![n] = to], UNCHANGED <<reads, moods>>, UnderWay(n),
         to.at \in {"none", "sense", "upsert"}, to.at # "none" => Chained(n) /\ to.prior = Stored,
         to.at = "upsert" => to.senses \in Valence
  PROVE  /\ read' \in [Read -> [at : {"none", "queued", "sense", "upsert", "reinforce"},
                                prior : {<< >>} \cup {<<v>> : v \in Valence}, senses : Valence \cup {0}]]
         /\ \A m \in Read : ReadOK(m)'
         /\ (\A m \in Read \ {n} : read[m].at # "reinforce") => OnItsWay' = 0
<1>1. \A m \in Read : read'[m] = IF m = n THEN to ELSE read[m]
  BY DEF MoodInv, MoodTypeOK
<1>2. \A m \in Read : m \in 1..MaxReads /\ \A k \in 1..(m - 1) : k \in Read
  BY MoodConstants DEF Read
<1>3. \A m \in Read : Chained(m) => Chained(m)'
  BY <1>1, <1>2 DEF Chained, UnderWay
<1>4. \A m \in Read : ReadOK(m)'
  BY <1>1, <1>3 DEF MoodInv, ReadOK, UnderWay, Stored
<1>5. (\A m \in Read \ {n} : read[m].at # "reinforce") => Unlearning' = {}
  BY <1>1 DEF Unlearning
<1> QED
  BY <1>1, <1>4, <1>5 DEF OnItsWay, MoodInv, MoodTypeOK

LEMMA MoodStep == ASSUME MoodInv, [MoodNext]_moodVars PROVE MoodInv'
<1> USE MoodConstants DEF MoodInv
<1> DEFINE Row == [at : {"none", "queued", "sense", "upsert", "reinforce"},
                   prior : {<< >>} \cup {<<v>> : v \in Valence}, senses : Valence \cup {0}]
<1>a. NoRead \in Row /\ NoRead.at = "none"
  BY DEF NoRead
<1>b. read \in [Read -> Row] /\ moods \in Seq(Valence) /\ taught \in Int /\ untaught \in Int
  BY DEF MoodTypeOK
<1>c. Stored \in {<< >>} \cup {<<v>> : v \in Valence}
  <2>1. moods # << >> => Last(moods) \in Valence
    BY <1>b DEF Last
  <2> QED
    BY <2>1 DEF Stored
<1>1. CASE AfterTurn
  <2> DEFINE to == [read[reads + 1] EXCEPT !.at = "queued"]
  <2>1. /\ reads \in 0..MaxReads /\ reads < MaxReads /\ reads + 1 \in Read /\ reads' = reads + 1
        /\ read' = [read EXCEPT ![reads + 1] = to]
        /\ UNCHANGED <<moods, taught, untaught, moodFaults>>
    BY <1>1, <1>b DEF AfterTurn, MoodTypeOK, Read
  <2>2. to \in Row /\ to.at = "queued" /\ ~UnderWay(reads + 1)
    <3>1. ~UnderWay(reads + 1)
      BY <2>1 DEF ReadOK
    <3>2. read[reads + 1] \in Row
      BY <1>b, <2>1
    <3> QED
      BY <3>1, <3>2
  <2> HIDE DEF to
  <2>3. \A m \in Read : read'[m] = IF m = reads + 1 THEN to ELSE read[m]
    BY <1>b, <2>1
  <2>4. MoodTypeOK'
    BY <2>1, <2>2 DEF MoodTypeOK
  <2>5. ASSUME NEW m \in Read PROVE ReadOK(m)'
    <3>1. m \in 1..MaxReads /\ \A k \in 1..(m - 1) : k \in Read
      BY DEF Read
    <3>2. read'[m].at \notin {"none", "queued"} => m <= reads /\ Chained(m)
      BY <2>2, <2>3 DEF ReadOK, UnderWay
    <3>3. Chained(m) /\ m <= reads => Chained(m)'
      BY <2>1, <2>3, <3>1 DEF Chained, UnderWay
    <3> QED
      BY <2>1, <2>2, <2>3, <3>1, <3>2, <3>3 DEF ReadOK, UnderWay, Stored
  <2>6. Unlearning' = Unlearning
    BY <2>2, <2>3 DEF Unlearning, UnderWay
  <2>7. \A m \in Read : m # reads + 1 => Delta(m)' = Delta(m)
    BY <2>3 DEF Delta
  <2>8. reads + 1 \notin Unlearning /\ Unlearning \subseteq Read
    BY <2>2 DEF Unlearning, UnderWay
  <2>9. OnItsWay' = OnItsWay
    <3>1. CASE Unlearning = {}
      BY <2>6, <3>1 DEF OnItsWay
    <3>2. CASE Unlearning # {}
      <4>1. PICK m \in Unlearning : m = CHOOSE k \in Unlearning : TRUE
        BY <3>2
      <4>2. m = CHOOSE k \in Unlearning' : TRUE
        BY <2>6, <4>1
      <4>3. Delta(m)' = Delta(m)
        BY <2>7, <2>8, <4>1
      <4>4. read[m].at = "reinforce" /\ read'[m].at = "reinforce" /\ m \in Read
        BY <2>2, <2>3, <2>8 DEF Unlearning
      <4>5. Unlearning = {m}
        BY <4>4, LoneRead DEF Unlearning
      <4>6. OnItsWay = Delta(m)
        BY <4>5 DEF OnItsWay
      <4>7. OnItsWay' = Delta(m)'
        BY <2>6, <4>5 DEF OnItsWay
      <4> QED
        BY <4>3, <4>6, <4>7
    <3> QED
      BY <3>1, <3>2
  <2>10. Balanced'
    BY <2>1, <2>9 DEF Balanced
  <2> QED
    BY <2>4, <2>5, <2>10
<1>2. ASSUME NEW n \in Read, LoadsPrior(n) PROVE MoodInv'
  <2> DEFINE to == [at |-> "sense", prior |-> Stored, senses |-> 0]
  <2>1. /\ read[n].at = "queued" /\ Chained(n) /\ read' = [read EXCEPT ![n] = to]
        /\ UNCHANGED <<reads, moods, taught, untaught, moodFaults>>
    BY <1>2 DEF LoadsPrior
  <2>2. to \in Row /\ to.at = "sense" /\ to.prior = Stored
    BY <1>c
  <2> HIDE DEF to
  <2>x. \A m \in Read : read[m].at # "reinforce" \/ OnItsWay = Delta(m)
    BY OnItsWayIs
  <2>3. /\ read' \in [Read -> Row] /\ \A m \in Read : ReadOK(m)'
    BY <2>1, <2>2, ReadMoves DEF UnderWay
  <2>4. ~\E m \in Read : read[m].at = "reinforce"
    <3> SUFFICES ASSUME NEW m \in Read, read[m].at = "reinforce" PROVE FALSE
      OBVIOUS
    <3>1. \A k \in Read : read'[k] = IF k = n THEN to ELSE read[k]
      BY <1>b, <2>1
    <3>2. m # n /\ read'[m].at = "reinforce" /\ read'[n].at = "sense"
      BY <2>1, <2>2, <3>1
    <3>3. Chained(m)' /\ Chained(n)'
      BY <2>3, <3>2 DEF ReadOK
    <3>4. n \in Int /\ m \in Int /\ 1 <= n /\ 1 <= m
      BY DEF Read
    <3>5. CASE n < m
      <4>1. n \in 1..(m - 1)
        BY <3>4, <3>5
      <4> QED
        BY <3>2, <3>3, <4>1 DEF Chained, UnderWay
    <3>6. CASE m < n
      <4>1. m \in 1..(n - 1)
        BY <3>4, <3>6
      <4> QED
        BY <3>2, <3>3, <4>1 DEF Chained, UnderWay
    <3> QED
      BY <3>2, <3>4, <3>5, <3>6
  <2>5. OnItsWay = 0 /\ OnItsWay' = 0
    BY <2>1, <2>2, <2>4, OnItsWayIs, ReadMoves DEF UnderWay
  <2>6. MoodTypeOK'
    BY <2>1, <2>3 DEF MoodTypeOK
  <2> QED
    BY <2>1, <2>3, <2>5, <2>6 DEF Balanced
<1>3. ASSUME NEW n \in Read, NEW v \in Valence, Senses(n, v) PROVE MoodInv'
  <2> DEFINE to == [read[n] EXCEPT !.at = "upsert", !.senses = v]
  <2>1. /\ read[n].at = "sense" /\ read' = [read EXCEPT ![n] = to]
        /\ UNCHANGED <<reads, moods, taught, untaught, moodFaults>>
    BY <1>3, <1>b DEF Senses
  <2>2. to \in Row /\ to.at = "upsert" /\ to.prior = Stored /\ to.senses \in Valence
    BY <1>b, <2>1 DEF ReadOK
  <2> HIDE DEF to
  <2>3. Chained(n) /\ UnderWay(n)
    BY <2>1 DEF ReadOK, UnderWay
  <2>4. OnItsWay = 0 /\ \A m \in Read \ {n} : read[m].at # "reinforce"
    BY <2>1, OnItsWayIs, LoneRead
  <2>5. /\ read' \in [Read -> Row] /\ \A m \in Read : ReadOK(m)'
        /\ OnItsWay' = 0
    BY <2>1, <2>2, <2>3, <2>4, ReadMoves
  <2>6. MoodTypeOK'
    BY <2>1, <2>5 DEF MoodTypeOK
  <2> QED
    BY <2>1, <2>4, <2>5, <2>6 DEF Balanced
<1>4. ASSUME NEW n \in Read, read[n].at \notin {"none", "queued"}, ReadOver(n), UNCHANGED <<reads, moods>>
      PROVE  /\ read' \in [Read -> Row] /\ \A m \in Read : ReadOK(m)'
             /\ OnItsWay = Unlearned(n) /\ OnItsWay' = 0 /\ OnItsWay \in Int
  <2>1. read' = [read EXCEPT ![n] = NoRead] /\ UnderWay(n)
    BY <1>4 DEF ReadOver, UnderWay
  <2>2. \A m \in Read \ {n} : read[m].at # "reinforce"
    BY <1>4, LoneRead
  <2>3. OnItsWay = Unlearned(n)
    BY <1>4, OnItsWayIs DEF Unlearned
  <2>4. Unlearned(n) \in Int
    BY DeltaInt
  <2> QED
    BY <1>4, <1>a, <2>1, <2>2, <2>3, <2>4, ReadMoves
<1>5. ASSUME NEW n \in Read, SensesNothing(n) PROVE MoodInv'
  <2>1. /\ read[n].at = "sense" /\ ReadOver(n) /\ UNCHANGED <<reads, moods, taught, untaught, moodFaults>>
    BY <1>5 DEF SensesNothing
  <2>2. /\ read' \in [Read -> Row] /\ \A m \in Read : ReadOK(m)'
        /\ OnItsWay = 0 /\ OnItsWay' = 0
    BY <1>4, <2>1 DEF Unlearned
  <2>3. MoodTypeOK'
    BY <2>1, <2>2 DEF MoodTypeOK
  <2> QED
    BY <2>1, <2>2, <2>3 DEF Balanced
<1>6. ASSUME NEW n \in Read, Upserts(n) PROVE MoodInv'
  <2> DEFINE v == read[n].senses
             to == [read[n] EXCEPT !.at = "reinforce"]
  <2>1. /\ read[n].at = "upsert" /\ read' = [read EXCEPT ![n] = to] /\ moods' = Append(moods, v)
        /\ UNCHANGED <<reads, taught, untaught, moodFaults>>
    BY <1>6, <1>b DEF Upserts
  <2>2. /\ to \in Row /\ to.at = "reinforce" /\ to.prior = Stored /\ to.senses = v
        /\ v \in Valence /\ v \in Int /\ Chained(n) /\ n <= reads
    BY <1>b, <2>1 DEF ReadOK, UnderWay
  <2> HIDE DEF to, v
  <2>3. \A m \in Read : read'[m] = IF m = n THEN to ELSE read[m]
    BY <1>b, <2>1
  <2>4. \A m \in Read : m # n => read[m].at \in {"none", "queued"}
    BY <2>1, LoneRead
  <2>5. moods' \in Seq(Valence) /\ moods' # << >> /\ Last(moods') = v
        /\ Head(moods') = IF moods = << >> THEN v ELSE Head(moods)
    BY <1>b, <2>1, <2>2 DEF Last
  <2>6. MoodTypeOK'
    BY <1>b, <2>1, <2>2, <2>5 DEF MoodTypeOK
  <2>7. ASSUME NEW m \in Read PROVE ReadOK(m)'
    <3>1. m \in 1..MaxReads /\ \A k \in 1..(m - 1) : k \in Read
      BY DEF Read
    <3>2. Chained(m) => Chained(m)'
      BY <2>1, <2>3, <3>1 DEF Chained, UnderWay
    <3>3. CASE m = n
      BY <2>1, <2>2, <2>3, <3>2, <3>3 DEF ReadOK, UnderWay
    <3>4. CASE m # n
      BY <2>1, <2>3, <2>4, <3>4 DEF ReadOK, UnderWay
    <3> QED
      BY <3>3, <3>4
  <2>8. Unlearning' = {n}
    BY <2>2, <2>3, <2>4 DEF Unlearning
  <2>9. OnItsWay' = Delta(n)'
    BY <2>8 DEF OnItsWay
  <2>10. OnItsWay = 0
    BY <2>1, OnItsWayIs
  <2>11. Delta(n)' = IF Stored = << >> THEN 0 ELSE v - Stored[1]
    BY <2>2, <2>3 DEF Delta
  <2>12. CASE moods = << >>
    <3>1. Delta(n)' = 0 /\ Last(moods') = v /\ Head(moods') = v /\ taught + untaught = 0
      BY <1>b, <2>5, <2>10, <2>11, <2>12 DEF Stored, Balanced
    <3> QED
      BY <1>b, <2>1, <2>2, <2>5, <2>6, <2>7, <2>9, <3>1 DEF Balanced
  <2>13. CASE moods # << >>
    <3>1. Last(moods) \in Int /\ Head(moods) \in Int
      <4>1. Len(moods) \in Nat /\ Len(moods) >= 1
        BY <1>b, <2>13
      <4>2. moods[1] \in Valence /\ moods[Len(moods)] \in Valence
        BY <1>b, <4>1
      <4>3. Last(moods) = moods[Len(moods)] /\ Head(moods) = moods[1]
        BY <1>b, <2>13 DEF Last
      <4>4. Valence \subseteq Int
        BY MoodConstants
      <4> QED
        BY <4>2, <4>3, <4>4
    <3>2. Delta(n)' = v - Last(moods)
      BY <2>11, <2>13 DEF Stored
    <3>3. taught + untaught + OnItsWay = Last(moods) - Head(moods)
      BY <1>b, <2>13 DEF Balanced
    <3>4. taught \in Int /\ untaught \in Int /\ taught' = taught /\ untaught' = untaught
      BY <1>b, <2>1
    <3>5. taught' + untaught' + OnItsWay' = Last(moods') - Head(moods')
      BY <2>2, <2>5, <2>9, <2>10, <2>13, <3>1, <3>2, <3>3, <3>4
    <3>6. Balanced'
      BY <2>5, <3>5 DEF Balanced
    <3> QED
      BY <2>6, <2>7, <3>6
  <2> QED
    BY <2>6, <2>7, <2>12, <2>13
<1>7. ASSUME NEW n \in Read, Reinforces(n) PROVE MoodInv'
  <2>1. /\ read[n].at = "reinforce" /\ ReadOver(n) /\ taught' = taught + Delta(n)
        /\ UNCHANGED <<reads, moods, untaught, moodFaults>>
    BY <1>7 DEF Reinforces
  <2>2. /\ read' \in [Read -> Row] /\ \A m \in Read : ReadOK(m)'
        /\ OnItsWay = Delta(n) /\ OnItsWay' = 0 /\ OnItsWay \in Int
    BY <1>4, <2>1 DEF Unlearned
  <2>3. MoodTypeOK'
    BY <1>b, <2>1, <2>2 DEF MoodTypeOK
  <2> QED
    BY <1>b, <2>1, <2>2, <2>3 DEF Balanced
<1>8. ASSUME NEW n \in Read, ReadFails(n) PROVE MoodInv'
  <2>1. /\ read[n].at \notin {"none", "queued"} /\ ReadOver(n) /\ untaught' = untaught + Unlearned(n)
        /\ moodFaults' = moodFaults + 1 /\ moodFaults < MaxMoodFaults
        /\ UNCHANGED <<reads, moods, taught>>
    BY <1>8 DEF ReadFails, MoodFault
  <2>2. /\ read' \in [Read -> Row] /\ \A m \in Read : ReadOK(m)'
        /\ OnItsWay = Unlearned(n) /\ OnItsWay' = 0 /\ OnItsWay \in Int
    BY <1>4, <2>1
  <2>3. MoodTypeOK'
    BY <1>b, <2>1, <2>2 DEF MoodTypeOK
  <2> QED
    BY <1>b, <2>1, <2>2, <2>3 DEF Balanced
<1>9. CASE MoodDies
  <2>1. /\ read' = [n \in Read |-> NoRead] /\ untaught' = untaught + OnItsWay
        /\ moodFaults' = moodFaults + 1 /\ moodFaults < MaxMoodFaults
        /\ UNCHANGED <<reads, moods, taught>>
    BY <1>9 DEF MoodDies, MoodFault
  <2>2. OnItsWay \in Int
    <3>1. CASE \E n \in Read : read[n].at = "reinforce"
      BY <3>1, OnItsWayIs, DeltaInt
    <3>2. CASE ~\E n \in Read : read[n].at = "reinforce"
      BY <3>2, OnItsWayIs
    <3> QED
      BY <3>1, <3>2
  <2>3. OnItsWay' = 0
    BY <1>a, <2>1 DEF OnItsWay, Unlearning
  <2>4. MoodTypeOK' /\ \A n \in Read : ReadOK(n)'
    BY <1>a, <1>b, <2>1, <2>2 DEF MoodTypeOK, ReadOK, UnderWay
  <2> QED
    BY <1>b, <2>1, <2>2, <2>3, <2>4 DEF Balanced
<1>10. CASE UNCHANGED moodVars
  <2>1. OnItsWay' = OnItsWay
    BY <1>10 DEF moodVars, OnItsWay, Unlearning, Delta
  <2> QED
    BY <1>10, <2>1 DEF moodVars, MoodTypeOK, ReadOK, UnderWay, Chained, Stored, Balanced
<1> QED
  BY <1>1, <1>2, <1>3, <1>5, <1>6, <1>7, <1>8, <1>9, <1>10 DEF MoodNext

\* The reads keep their types.
THEOREM MoodTypeCorrect == MoodSpec => []MoodTypeOK
<1>1. MoodInv => MoodTypeOK
  BY DEF MoodInv
<1> QED
  BY <1>1, MoodInitOK, MoodStep, PTL DEF MoodSpec

\* The will learns each change of mood once, of however many turns the reads
\* are under way and wherever they fail (post-turn-perception.ts chainAffect).
THEOREM SwingsAddUpHolds == MoodSpec => []SwingsAddUp
<1>1. MoodInv => SwingsAddUp
  BY DEF MoodInv, Balanced, SwingsAddUp
<1> QED
  BY <1>1, MoodInitOK, MoodStep, PTL DEF MoodSpec

-----------------------------------------------------------------------------
(* The components side by side *)

\* Of each component a behaviour of Companion is a behaviour: the others leave
\* its variables alone.
THEOREM CompanionComposes ==
  CompanionSpec =>
    /\ GrowthSpec /\ RewardSpec /\ FeedingSpec /\ MissionSpec /\ TurnSpec
    /\ MoodSpec /\ FactsSpec /\ ConsolidationSpec /\ IngestionSpec /\ SegmentationSpec
<1>1. CompanionInit =>
        /\ GrowthInit /\ RewardInit /\ FeedingInit /\ MissionInit /\ TurnInit
        /\ MoodInit /\ FactsInit /\ ConsolidationInit /\ IngestionInit /\ SegmentationInit
  BY DEF CompanionInit
<1>2. [CompanionNext]_companionVars =>
        /\ [GrowthNext]_growthVars /\ [RewardNext]_rewardVars /\ [FeedingNext]_feedingVars
        /\ [MissionNext]_missionVars /\ [TurnNext]_turnVars /\ [MoodNext]_moodVars
        /\ [FactsNext]_factVars /\ [ConsolidationNext]_consolidationVars
        /\ [IngestionNext]_ingestionVars /\ [SegmentationNext]_segmentationVars
  BY DEF CompanionNext, companionVars, GrowthMoves, RewardMoves, FeedingMoves, MissionMoves,
         TurnMoves,
         MoodMoves, FactMoves, ConsolidationMoves, IngestionMoves, SegmentationMoves
<1> QED
  BY <1>1, <1>2, PTL
     DEF CompanionSpec, GrowthSpec, RewardSpec, FeedingSpec, MissionSpec, TurnSpec, MoodSpec, FactsSpec,
         ConsolidationSpec, IngestionSpec, SegmentationSpec

\* The invariants of the components hold together, whatever each of them does
\* in the meantime.
THEOREM CompanionCorrect ==
  CompanionSpec =>
    [](/\ ExecutedOnce /\ StopRegates /\ OverlapBounded /\ BilledOnce
       /\ NothingForgotten /\ AnnouncedOnce /\ ReflectedOnce /\ ScoredOnce
       /\ FoodAccounted /\ SwingsAddUp /\ CurrentFact /\ SectionsCover)
BY CompanionComposes, ExecutedOnceHolds, StopRegatesHolds, OverlapBoundedHolds, BilledOnceHolds,
   NothingForgottenHolds, AnnouncedOnceHolds, ReflectedOnceHolds, ScoredOnceHolds, FoodAccountedHolds,
   SwingsAddUpHolds, CurrentFactHolds, SectionsCoverHolds, PTL
=============================================================================
