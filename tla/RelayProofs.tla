---------------------------- MODULE RelayProofs ----------------------------
(***************************************************************************)
(* Theorems about what goes over the connection of an embodiment, for      *)
(* every value of the constants: that every reply is posted once           *)
(* (DiscordRelay), and that the requests beneath are neither lost nor      *)
(* answered twice (WireTransport).                                         *)
(***************************************************************************)
EXTENDS DiscordRelay, WireTransport, FiniteSetTheorems, SequenceTheorems, TLAPS

-----------------------------------------------------------------------------
(* DiscordRelay: who posts a row *)

\* A card is of some row.
Chunk == {c \in [is : {"card", "done", "error", "end", "rejected"}, row : 0..MaxRelayRows] :
            c.is = "card" => c.row # 0}

Stream == [at : {"idle", "marking", "unsent", "open", "closing", "answered", "failed"},
           chunks : Seq(Chunk), final : 0..MaxRelayRows, cards : SUBSET Row, note : BOOLEAN]

RelayTyped == RelayTypeOK /\ stream \in [RelayTurn -> Stream]

\* Replies that stream t has yet to read.
DoneAt(t) == {i \in DOMAIN stream[t].chunks : stream[t].chunks[i].is = "done"}

DoneRows(t) == {stream[t].chunks[i].row : i \in DoneAt(t)}

\* The rows that the turn being served may still reply with.
Draft(t) == IF Taken(t) /\ ~serving.said THEN {serving.words, serving.held} \ {0} ELSE {}

\* The rows that stream t may yet read.
Awaits(t) ==
  IF stream[t].at = "open" THEN DoneRows(t) \cup Draft(t) ELSE {}

\* The rows that are the stream's to post, or not to post.
Keeps(t) == Awaits(t) \cup ({stream[t].final} \ {0})

\* Rows that are not written yet.
Fresh == {r \in Nat : r > written}

Posting(r) == relay.at = "posting" /\ relay.row = r

\* The stream has been given no reply.
Clean(t) == stream[t].final = 0 /\ DoneAt(t) = {}

\* The stream has posted what it read.
HasPosted(t) == t = Arrival \/ (stream[t].at = "answered" /\ RendersWords(t))

\* A stream gets one reply, which no event posts: until it is read the stream is
\* open, and then it is recorded.
StreamOK(t) ==
  /\ Keeps(t) \subseteq 1..written
  /\ \A r \in Awaits(t) : posted[r] = 0 /\ ~Posting(r)
  /\ stream[t].final # 0 =>
       /\ stream[t].final \in produced /\ ~Posting(stream[t].final)
       /\ posted[stream[t].final] = IF HasPosted(t) THEN 1 ELSE 0
  /\ \A i, j \in DoneAt(t) : i = j
  /\ DoneAt(t) # {} => stream[t].final = 0
  /\ Taken(t) /\ ~serving.said => Clean(t)
  /\ stream[t].at = "open" /\ ~Taken(t) /\ t \notin Served => Clean(t)
  /\ stream[t].at \in {"idle", "marking", "unsent"} => stream[t].chunks = <<>> /\ stream[t].final = 0 /\ ~Taken(t)

Apart == \A t, u \in RelayTurn : t # u => Keeps(t) \cap Keeps(u) = {}

\* The greeting has no cards, and is read before the loop subscribes.
ArrivalOK ==
  /\ stream[Arrival].at \in {"idle", "open", "answered"}
  /\ relay.at = "arriving" => stream[Arrival].at = "idle"
  /\ \A i \in DOMAIN stream[Arrival].chunks : stream[Arrival].chunks[i].is # "card"

\* Events come once and in order, and what was posted is not ahead, unless it is
\* recorded.
EventsOK ==
  /\ \A i, j \in DOMAIN inbox : i < j => inbox[i] < inbox[j]
  /\ \A i \in DOMAIN inbox : inbox[i] <= pushed
  /\ relay.at = "posting" =>
       /\ relay.row \in 1..pushed /\ relay.row \notin produced /\ posted[relay.row] = 0
       /\ \A i \in DOMAIN inbox : relay.row < inbox[i]
  /\ \A r \in Row : posted[r] <= 1
  /\ \A r \in Row : posted[r] # 0 =>
       r <= written /\ (r \in produced \/ (r <= pushed /\ \A i \in DOMAIN inbox : inbox[i] # r))
  /\ produced \subseteq 1..written

StreamsFinite == IsFiniteSet({t \in RelayTurn : stream[t].at # "idle"})

RelayInv == RelayTyped /\ (\A t \in RelayTurn : StreamOK(t)) /\ Apart /\ ArrivalOK /\ EventsOK /\ StreamsFinite

LEMMA RelayFacts ==
  ASSUME RelayTyped
  PROVE  /\ written \in Nat /\ pushed \in Nat /\ pushed <= written /\ written <= MaxRelayRows
         /\ MaxRelayRows \in Nat /\ Row = 1..MaxRelayRows /\ Arrival \in RelayTurn
         /\ stream \in [RelayTurn -> Stream]
         /\ produced \subseteq Row /\ posted \in [Row -> Nat] /\ inbox \in Seq(Row)
         /\ socket \in {"up", "givenUp", "down"}
         /\ relay \in [at : {"arriving", "greeting", "waiting", "posting", "ended"}, row : 0..MaxRelayRows]
         /\ relayFaults \in 0..MaxRelayFaults /\ MaxRelayFaults \in Nat
         /\ serving \in [turn : RelayTurn, said : BOOLEAN, words : 0..MaxRelayRows,
                         held : 0..MaxRelayRows] \cup {Nothing}
<1>1. MaxRelayRows \in Nat /\ MaxRelayFaults \in Nat /\ Arrival \in RelayTurn
  BY RelayConstants
<1>2. written \in 0..MaxRelayRows /\ pushed \in 0..written /\ Row = 1..MaxRelayRows
  BY DEF RelayTyped, RelayTypeOK, Row
<1>3. stream \in [RelayTurn -> Stream]
  BY DEF RelayTyped
<1>4. /\ produced \subseteq Row /\ posted \in [Row -> Nat] /\ inbox \in Seq(Row)
      /\ socket \in {"up", "givenUp", "down"} /\ relayFaults \in 0..MaxRelayFaults
  BY DEF RelayTyped, RelayTypeOK
<1>5. relay \in [at : {"arriving", "greeting", "waiting", "posting", "ended"}, row : 0..MaxRelayRows]
  BY DEF RelayTyped, RelayTypeOK
<1>6. serving \in [turn : RelayTurn, said : BOOLEAN, words : 0..MaxRelayRows,
                   held : 0..MaxRelayRows] \cup {Nothing}
  BY DEF RelayTyped, RelayTypeOK
<1> QED
  BY <1>1, <1>2, <1>3, <1>4, <1>5, <1>6

LEMMA StreamFacts ==
  ASSUME RelayTyped, NEW t \in RelayTurn
  PROVE  /\ stream[t] \in Stream
         /\ \A i \in DOMAIN stream[t].chunks :
              stream[t].chunks[i].is = "card" => stream[t].chunks[i].row # 0
         /\ stream[t].at \in {"idle", "marking", "unsent", "open", "closing", "answered", "failed"}
         /\ stream[t].chunks \in Seq(Chunk) /\ Len(stream[t].chunks) \in Nat
         /\ DOMAIN stream[t].chunks = 1..Len(stream[t].chunks)
         /\ \A i \in DOMAIN stream[t].chunks :
              /\ stream[t].chunks[i] \in Chunk /\ stream[t].chunks[i].row \in 0..MaxRelayRows
              /\ stream[t].chunks[i].is \in {"card", "done", "error", "end", "rejected"}
         /\ stream[t].final \in 0..MaxRelayRows /\ stream[t].cards \subseteq Row
         /\ stream[t].note \in BOOLEAN
<1>1. stream[t] \in Stream
  BY RelayFacts
<1>2. stream[t].chunks \in Seq(Chunk)
  BY <1>1 DEF Stream
<1>3. Len(stream[t].chunks) \in Nat /\ DOMAIN stream[t].chunks = 1..Len(stream[t].chunks)
      /\ \A i \in DOMAIN stream[t].chunks : stream[t].chunks[i] \in Chunk
  BY <1>2, LenProperties
<1> QED
  BY <1>1, <1>2, <1>3 DEF Stream, Chunk

\* The turn being served, if it is t.
LEMMA TakenFacts ==
  ASSUME RelayTyped, NEW t \in RelayTurn, Taken(t)
  PROVE  /\ serving \in [turn : RelayTurn, said : BOOLEAN, words : 0..MaxRelayRows,
                         held : 0..MaxRelayRows]
         /\ serving.said \in BOOLEAN /\ serving.words \in 0..MaxRelayRows
         /\ serving.held \in 0..MaxRelayRows
         /\ \A u \in RelayTurn : u # t => ~Taken(u)
<1>1. serving \in [turn : RelayTurn, said : BOOLEAN, words : 0..MaxRelayRows, held : 0..MaxRelayRows]
  BY RelayFacts DEF Taken
<1> QED
  BY <1>1 DEF Taken

\* A stream becomes s.
LEMMA StreamSet ==
  ASSUME RelayTyped, NEW t \in RelayTurn, NEW s \in Stream, stream' = [stream EXCEPT ![t] = s]
  PROVE  /\ stream' \in [RelayTurn -> Stream] /\ stream'[t] = s
         /\ \A u \in RelayTurn : u # t => stream'[u] = stream[u]
<1>1. stream \in [RelayTurn -> Stream]
  BY RelayFacts
<1> QED
  BY <1>1

\* A stream that a step leaves alone.
LEMMA StreamRests ==
  ASSUME RelayTyped, NEW t \in RelayTurn, StreamOK(t), stream'[t] = stream[t],
         Taken(t)' <=> Taken(t), Taken(t) => serving' = serving,
         written' \in Nat, written <= written', produced \subseteq produced',
         \A r \in Keeps(t) : posted'[r] = posted[r] /\ (Posting(r)' => Posting(r))
  PROVE  StreamOK(t)' /\ Keeps(t)' = Keeps(t)
<1>1. DoneAt(t)' = DoneAt(t) /\ DoneRows(t)' = DoneRows(t) /\ Draft(t)' = Draft(t)
  BY DEF DoneAt, DoneRows, Draft
<1>2. Awaits(t)' = Awaits(t) /\ Keeps(t)' = Keeps(t)
  BY <1>1 DEF Awaits, Keeps
<1>3. (Clean(t)' <=> Clean(t)) /\ (HasPosted(t)' <=> HasPosted(t)) /\ (t \in Served' <=> t \in Served)
  BY <1>1 DEF Clean, HasPosted, RendersWords, Served
<1>4. 1..written \subseteq 1..written'
  BY RelayFacts
<1>5. \A r \in Awaits(t) : r \in Keeps(t)
  BY DEF Keeps
<1>6. stream[t].final # 0 => stream[t].final \in Keeps(t)
  BY DEF Keeps
<1>7. Keeps(t)' \subseteq 1..written' /\ \A r \in Awaits(t)' : posted'[r] = 0 /\ ~Posting(r)'
  BY <1>2, <1>4, <1>5 DEF StreamOK
<1>8. stream'[t].final # 0 =>
        /\ stream'[t].final \in produced' /\ ~Posting(stream[t].final)'
        /\ posted'[stream'[t].final] = IF HasPosted(t)' THEN 1 ELSE 0
  BY <1>3, <1>6 DEF StreamOK
<1>9. Posting(stream[t].final)' => Posting(stream[t].final) \/ stream[t].final = 0
  BY <1>6
<1> QED
  BY <1>1, <1>2, <1>3, <1>7, <1>8, <1>9 DEF StreamOK, Posting

\* One stream moves, and keeps what it kept but for rows that are new.
LEMMA OneStream ==
  ASSUME RelayInv, NEW t \in RelayTurn, StreamOK(t)',
         Keeps(t)' \subseteq Keeps(t) \cup Fresh,
         \A u \in RelayTurn : u # t =>
           stream'[u] = stream[u] /\ (Taken(u)' <=> Taken(u)) /\ (Taken(u) => serving' = serving),
         written' \in Nat, written <= written', produced \subseteq produced',
         \A u \in RelayTurn : u # t =>
           \A r \in Keeps(u) : posted'[r] = posted[r] /\ (Posting(r)' => Posting(r))
  PROVE  (\A u \in RelayTurn : StreamOK(u)') /\ Apart'
<1>1. RelayTyped /\ Apart /\ \A u \in RelayTurn : StreamOK(u)
  BY DEF RelayInv
<1>2. \A u \in RelayTurn : u # t => StreamOK(u)' /\ Keeps(u)' = Keeps(u)
  BY <1>1, StreamRests
<1>3. \A u \in RelayTurn : Keeps(u) \subseteq 1..written
  BY <1>1 DEF StreamOK
<1>4. written \in Nat
  BY <1>1, RelayFacts
<1>5. \A u \in RelayTurn : u # t => Keeps(t)' \cap Keeps(u)' = {}
  <2>1. \A u \in RelayTurn : Keeps(u) \cap Fresh = {}
    BY <1>3, <1>4 DEF Fresh
  <2> QED
    BY <1>1, <1>2, <2>1 DEF Apart
<1>6. \A u, v \in RelayTurn : u # v => Keeps(u)' \cap Keeps(v)' = {}
  BY <1>1, <1>2, <1>5 DEF Apart
<1> QED
  BY <1>2, <1>6 DEF Apart

\* A stream that has been given nothing yet keeps nothing.
LEMMA EmptyOK ==
  ASSUME NEW t \in RelayTurn, stream'[t].chunks = <<>>, stream'[t].final = 0, ~Taken(t)'
  PROVE  StreamOK(t)' /\ Keeps(t)' = {}
<1>1. DoneAt(t)' = {} /\ Draft(t)' = {}
  BY DEF DoneAt, Draft
<1>2. DoneRows(t)' = {}
  BY <1>1 DEF DoneRows
<1>3. Awaits(t)' = {} /\ Keeps(t)' = {} /\ Clean(t)'
  BY <1>1, <1>2 DEF Awaits, Keeps, Clean
<1> QED
  BY <1>1, <1>3 DEF StreamOK

\* A stream that has been given no new reply goes on, and nothing is posted.
LEMMA GoesOn ==
  ASSUME RelayInv, NEW t \in RelayTurn, stream'[t].final = stream[t].final,
         \A i, j \in DoneAt(t)' : i = j, DoneRows(t)' \subseteq DoneRows(t),
         stream'[t].at \notin {"idle", "marking", "unsent"},
         stream'[t].at = "open" => stream[t].at = "open",
         Taken(t)' /\ ~serving'.said => Clean(t),
         stream'[t].at = "open" /\ ~Taken(t)' /\ t \notin Served' => Clean(t),
         stream'[t].at = "open" =>
           Draft(t)' \subseteq Draft(t) \cup Fresh /\ Draft(t)' \subseteq 1..written',
         HasPosted(t)' <=> HasPosted(t),
         written' \in Nat, written <= written', written' <= MaxRelayRows,
         produced' = produced, posted' = posted, \A r \in Row : Posting(r)' => Posting(r)
  PROVE  StreamOK(t)' /\ Keeps(t)' \subseteq Keeps(t) \cup Fresh
<1>1. RelayTyped /\ StreamOK(t) /\ EventsOK
  BY DEF RelayInv
<1>2. /\ written \in Nat /\ Row = 1..MaxRelayRows /\ MaxRelayRows \in Nat /\ pushed \in Nat
      /\ pushed <= written /\ posted \in [Row -> Nat]
  BY <1>1, RelayFacts
<1>3. Awaits(t)' \subseteq Awaits(t) \cup (Draft(t)' \cap {r \in 1..written' : r > written})
  BY DEF Awaits, Fresh
<1>4. Keeps(t)' \subseteq Keeps(t) \cup (Draft(t)' \cap {r \in 1..written' : r > written})
  BY <1>3 DEF Keeps
<1>5. Keeps(t) \subseteq 1..written' /\ Keeps(t) \subseteq Row
  BY <1>1, <1>2 DEF StreamOK
<1>6. Keeps(t)' \subseteq 1..written'
  BY <1>4, <1>5
<1>7. ASSUME NEW r \in Awaits(t)' PROVE posted'[r] = 0 /\ ~Posting(r)'
  <2>1. CASE r \in Awaits(t)
    <3>1. r \in Row
      BY <1>5, <2>1 DEF Keeps
    <3> QED
      BY <1>1, <2>1, <3>1 DEF StreamOK
  <2>2. CASE r \in 1..written' /\ r > written
    <3>1. r \in Row
      BY <1>2, <2>2
    <3>2. posted[r] = 0
      BY <1>1, <1>2, <2>2, <3>1 DEF EventsOK
    <3>3. ~Posting(r)
      BY <1>1, <1>2, <2>2 DEF EventsOK, Posting
    <3> QED
      BY <3>1, <3>2, <3>3
  <2> QED
    BY <1>3, <2>1, <2>2
<1>8. stream'[t].final # 0 =>
        /\ stream'[t].final \in produced' /\ ~Posting(stream[t].final)'
        /\ posted'[stream'[t].final] = IF HasPosted(t)' THEN 1 ELSE 0
  <2>1. stream[t].final # 0 => stream[t].final \in Row
    BY <1>5 DEF Keeps
  <2> QED
    BY <1>1, <2>1 DEF StreamOK
<1>9. DoneAt(t)' # {} => DoneAt(t) # {}
  BY DEF DoneRows
<1>10. Clean(t) => Clean(t)'
  BY <1>9 DEF Clean
<1>11. StreamOK(t)'
  <2>1. DoneAt(t)' # {} => stream'[t].final = 0
    BY <1>1, <1>9 DEF StreamOK
  <2> QED
    BY <1>6, <1>7, <1>8, <1>10, <2>1 DEF StreamOK
<1> QED
  BY <1>4, <1>11 DEF Fresh

\* What is sent to a stream: an open one finds it behind what it has.
LEMMA ChunksSent ==
  ASSUME RelayTyped, NEW t \in RelayTurn,
         NEW kinds \in Seq({"card", "done", "error", "end", "rejected"}), NEW row \in 0..MaxRelayRows,
         Sends(t, kinds, row), row # 0 \/ \A i \in DOMAIN kinds : kinds[i] # "card"
  PROVE  /\ stream' \in [RelayTurn -> Stream]
         /\ \A u \in RelayTurn : u # t => stream'[u] = stream[u]
         /\ stream'[t].at = stream[t].at /\ stream'[t].final = stream[t].final
         /\ stream'[t].cards = stream[t].cards /\ stream'[t].note = stream[t].note
         /\ stream[t].at # "open" => stream' = stream
         /\ stream[t].at = "open" =>
              /\ DOMAIN stream'[t].chunks = 1..(Len(stream[t].chunks) + Len(kinds))
              /\ \A i \in DOMAIN stream[t].chunks : stream'[t].chunks[i] = stream[t].chunks[i]
              /\ \A i \in DOMAIN kinds :
                   /\ stream'[t].chunks[Len(stream[t].chunks) + i].is = kinds[i]
                   /\ stream'[t].chunks[Len(stream[t].chunks) + i].row = IF kinds[i] = "end" THEN 0 ELSE row
<1>1. stream \in [RelayTurn -> Stream] /\ stream[t] \in Stream
  BY RelayFacts
<1>2. CASE stream[t].at # "open"
  BY <1>1, <1>2 DEF Sends
<1>3. CASE stream[t].at = "open"
  <2> DEFINE sent == [i \in 1..Len(kinds) |-> [is |-> kinds[i], row |-> IF kinds[i] = "end" THEN 0 ELSE row]]
  <2>1. stream' = [stream EXCEPT ![t].chunks = stream[t].chunks \o sent]
    BY <1>1, <1>3 DEF Sends
  <2>2. /\ Len(kinds) \in Nat /\ DOMAIN kinds = 1..Len(kinds)
        /\ \A i \in 1..Len(kinds) : kinds[i] \in {"card", "done", "error", "end", "rejected"}
    BY LenProperties
  <2>3. 0 \in 0..MaxRelayRows
    BY RelayConstants
  <2>4. \A i \in 1..Len(kinds) : sent[i] \in Chunk /\ sent[i].is = kinds[i]
                                 /\ sent[i].row = IF kinds[i] = "end" THEN 0 ELSE row
    BY <2>2, <2>3 DEF Chunk
  <2>5. sent \in [1..Len(kinds) -> Chunk]
    BY <2>4
  <2> HIDE DEF sent
  <2>6. sent \in Seq(Chunk) /\ Len(sent) = Len(kinds) /\ DOMAIN sent = 1..Len(kinds)
    <3>1. sent \in Seq(Chunk)
      BY <2>2, <2>5, SeqDef
    <3> QED
      BY <2>2, <2>5, <3>1, LenProperties
  <2>7. stream[t].chunks \in Seq(Chunk) /\ Len(stream[t].chunks) \in Nat
        /\ DOMAIN stream[t].chunks = 1..Len(stream[t].chunks)
    BY StreamFacts
  <2> DEFINE m == Len(stream[t].chunks)
  <2>8. PICK all : all = stream[t].chunks \o sent
    OBVIOUS
  <2>9. /\ all \in Seq(Chunk) /\ Len(all) = m + Len(kinds)
        /\ \A i \in 1..(m + Len(sent)) :
             all[i] = IF i <= m THEN stream[t].chunks[i] ELSE sent[i - m]
    <3>1. PICK base : base = stream[t].chunks
      OBVIOUS
    <3>2. base \in Seq(Chunk) /\ all = base \o sent /\ m = Len(base)
      BY <2>7, <2>8, <3>1
    <3>3. /\ base \o sent \in Seq(Chunk) /\ Len(base \o sent) = Len(base) + Len(sent)
          /\ \A i \in 1..(Len(base) + Len(sent)) :
               (base \o sent)[i] = IF i <= Len(base) THEN base[i] ELSE sent[i - Len(base)]
      BY <2>6, <3>2, ConcatProperties
    <3> QED
      BY <2>6, <3>1, <3>2, <3>3
  <2>10. DOMAIN all = 1..(m + Len(kinds))
    BY <2>9, LenProperties
  <2>11. m \in Nat /\ DOMAIN stream[t].chunks = 1..m
    BY <2>7
  <2> HIDE DEF m
  <2>12. /\ \A i \in DOMAIN stream[t].chunks : all[i] = stream[t].chunks[i]
         /\ \A i \in DOMAIN kinds : all[m + i] = sent[i]
    BY <2>2, <2>6, <2>9, <2>11
  <2>13. stream' = [stream EXCEPT ![t] = [stream[t] EXCEPT !.chunks = all]]
    BY <1>1, <2>1, <2>8
  <2>14. [stream[t] EXCEPT !.chunks = all] \in Stream
    BY <1>1, <2>9 DEF Stream
  <2>15. /\ stream' \in [RelayTurn -> Stream] /\ stream'[t] = [stream[t] EXCEPT !.chunks = all]
         /\ \A u \in RelayTurn : u # t => stream'[u] = stream[u]
    BY <2>13, <2>14, StreamSet
  <2>16. stream'[t].chunks = all /\ stream'[t].at = stream[t].at /\ stream'[t].final = stream[t].final
         /\ stream'[t].cards = stream[t].cards /\ stream'[t].note = stream[t].note
    BY <1>1, <2>15 DEF Stream
  <2> QED
    BY <1>3, <2>2, <2>4, <2>10, <2>12, <2>15, <2>16 DEF m
<1> QED
  BY <1>2, <1>3

\* A card, an error or an end is no reply, and only an end closes the queue.
LEMMA QuietSent ==
  ASSUME RelayTyped, NEW t \in RelayTurn, NEW k \in {"card", "error", "end", "rejected"},
         NEW row \in 0..MaxRelayRows, Sends(t, <<k>>, row), row # 0 \/ k # "card"
  PROVE  /\ DoneAt(t)' = DoneAt(t) /\ DoneRows(t)' = DoneRows(t)
         /\ t \in Served => t \in Served'
         /\ k \in {"end", "rejected"} /\ stream[t].at = "open" => t \in Served'
         /\ k \notin {"end", "rejected"} => (t \in Served' <=> t \in Served)
<1> DEFINE kinds == <<k>>
<1>1. /\ kinds \in Seq({"card", "done", "error", "end", "rejected"}) /\ Len(kinds) = 1
      /\ 1 \in DOMAIN kinds /\ kinds[1] = k /\ Sends(t, kinds, row)
      /\ row # 0 \/ \A i \in DOMAIN kinds : kinds[i] # "card"
  OBVIOUS
<1> HIDE DEF kinds
<1>2. CASE stream[t].at # "open"
  <2>1. stream' = stream
    BY <1>1, <1>2, ChunksSent
  <2> QED
    BY <1>2, <2>1 DEF DoneAt, DoneRows, Served
<1>3. CASE stream[t].at = "open"
  <2>1. PICK n : n = Len(stream[t].chunks)
    OBVIOUS
  <2>2. n \in Nat /\ DOMAIN stream[t].chunks = 1..n
    BY <2>1, StreamFacts
  <2>3. /\ DOMAIN stream'[t].chunks = 1..(n + 1)
        /\ \A i \in 1..n : stream'[t].chunks[i] = stream[t].chunks[i]
        /\ stream'[t].chunks[n + 1].is = k
    <3>1. /\ DOMAIN stream'[t].chunks = 1..(Len(stream[t].chunks) + Len(kinds))
          /\ \A i \in DOMAIN stream[t].chunks : stream'[t].chunks[i] = stream[t].chunks[i]
          /\ \A i \in DOMAIN kinds : stream'[t].chunks[Len(stream[t].chunks) + i].is = kinds[i]
      BY <1>1, <1>3, ChunksSent
    <3> QED
      BY <1>1, <2>1, <2>2, <3>1
  <2>4. \A i : i \in DoneAt(t)' <=> i \in DoneAt(t)
    BY <2>2, <2>3 DEF DoneAt
  <2>5. DoneAt(t)' = DoneAt(t) /\ \A i \in DoneAt(t) : stream'[t].chunks[i] = stream[t].chunks[i]
    BY <2>2, <2>3, <2>4 DEF DoneAt
  <2>6. DoneRows(t)' = DoneRows(t)
    BY <2>5 DEF DoneRows
  <2>7. n + 1 \in 1..(n + 1) /\ \A i \in 1..(n + 1) : i \in 1..n \/ i = n + 1
    BY <2>2
  <2>8. /\ t \in Served => t \in Served'
        /\ k \in {"end", "rejected"} => t \in Served'
        /\ k \notin {"end", "rejected"} => (t \in Served' <=> t \in Served)
    <3>1. t \in Served <=> \E i \in 1..n : stream[t].chunks[i].is \in {"end", "rejected"}
      BY <2>2 DEF Served
    <3>2. t \in Served' <=> \E i \in 1..(n + 1) : stream'[t].chunks[i].is \in {"end", "rejected"}
      BY <2>3 DEF Served
    <3>3. \A i \in 1..n : i \in 1..(n + 1) /\ stream'[t].chunks[i].is = stream[t].chunks[i].is
      BY <2>2, <2>3
    <3>4. t \in Served => t \in Served'
      BY <3>1, <3>2, <3>3
    <3>5. k \in {"end", "rejected"} => t \in Served'
      BY <2>3, <2>7, <3>2
    <3>6. k \notin {"end", "rejected"} /\ t \in Served' => t \in Served
      BY <2>3, <2>7, <3>1, <3>2, <3>3
    <3> QED
      BY <3>4, <3>5, <3>6
  <2> QED
    BY <2>5, <2>6, <2>8
<1> QED
  BY <1>2, <1>3

\* A reply.
LEMMA ReplySent ==
  ASSUME RelayTyped, NEW t \in RelayTurn, NEW kinds \in {<<"done">>, <<"done", "end">>},
         NEW row \in 0..MaxRelayRows, Sends(t, kinds, row), Clean(t)
  PROVE  /\ \A i, j \in DoneAt(t)' : i = j
         /\ DoneRows(t)' \subseteq {row}
         /\ kinds = <<"done", "end">> /\ stream[t].at = "open" => t \in Served'
<1>1. /\ kinds \in Seq({"card", "done", "error", "end", "rejected"}) /\ kinds[1] = "done"
      /\ Len(kinds) \in Nat /\ DOMAIN kinds = 1..Len(kinds) /\ 1 \in DOMAIN kinds
      /\ \A i \in DOMAIN kinds : (kinds[i] = "done" => i = 1) /\ kinds[i] # "card"
      /\ kinds = <<"done", "end">> => 2 \in DOMAIN kinds /\ kinds[2] = "end"
  <2>1. CASE kinds = <<"done">>
    BY <2>1
  <2>2. CASE kinds = <<"done", "end">>
    BY <2>2
  <2> QED
    BY <2>1, <2>2
<1>2. CASE stream[t].at # "open"
  <2>1. stream' = stream
    BY <1>1, <1>2, ChunksSent
  <2>2. DoneAt(t)' = {}
    BY <2>1 DEF DoneAt, Clean
  <2> QED
    BY <1>2, <2>2 DEF DoneRows
<1>3. CASE stream[t].at = "open"
  <2> DEFINE n == Len(stream[t].chunks)
  <2>2. n \in Nat /\ DOMAIN stream[t].chunks = 1..n
    BY StreamFacts
  <2>3. /\ DOMAIN stream'[t].chunks = 1..(n + Len(kinds))
        /\ \A i \in 1..n : stream'[t].chunks[i] = stream[t].chunks[i]
        /\ \A i \in DOMAIN kinds :
             /\ stream'[t].chunks[n + i].is = kinds[i]
             /\ stream'[t].chunks[n + i].row = IF kinds[i] = "end" THEN 0 ELSE row
    BY SMTT(30), <1>1, <1>3, <2>2, ChunksSent
  <2> HIDE DEF n
  <2>4. \A i \in 1..n : i \notin DoneAt(t)'
    BY <2>2, <2>3 DEF DoneAt, Clean
  <2>5. ASSUME NEW i \in DoneAt(t)' PROVE i = n + 1
    <3>1. i \in 1..(n + Len(kinds)) /\ i \notin 1..n /\ stream'[t].chunks[i].is = "done"
      BY <2>3, <2>4 DEF DoneAt
    <3>2. PICK j \in DOMAIN kinds : i = n + j
      <4>1. i - n \in DOMAIN kinds /\ i = n + (i - n)
        BY <1>1, <2>2, <3>1
      <4> QED
        BY <4>1
    <3> QED
      BY <1>1, <2>3, <3>1, <3>2
  <2>6. stream'[t].chunks[n + 1].row = row
    BY <1>1, <2>3
  <2>7. DoneRows(t)' \subseteq {row}
    BY <2>5, <2>6 DEF DoneRows
  <2>8. kinds = <<"done", "end">> => t \in Served'
    <3> SUFFICES ASSUME kinds = <<"done", "end">> PROVE t \in Served'
      OBVIOUS
    <3>1. n + 2 \in DOMAIN stream'[t].chunks /\ stream'[t].chunks[n + 2].is = "end"
      BY <1>1, <2>2, <2>3
    <3> QED
      BY <3>1 DEF Served
  <2> QED
    BY <2>5, <2>7, <2>8
<1> QED
  BY <1>2, <1>3

\* The first chunk is read.
LEMMA ChunkRead ==
  ASSUME RelayTyped, NEW t \in RelayTurn, stream[t].chunks # <<>>,
         stream'[t].chunks = Tail(stream[t].chunks)
  PROVE  /\ Tail(stream[t].chunks) \in Seq(Chunk) /\ Head(stream[t].chunks) = stream[t].chunks[1]
         /\ 1 \in DOMAIN stream[t].chunks /\ Head(stream[t].chunks) \in Chunk
         /\ \A i \in DOMAIN stream'[t].chunks :
              i + 1 \in DOMAIN stream[t].chunks /\ stream'[t].chunks[i] = stream[t].chunks[i + 1]
         /\ \A i \in DOMAIN stream[t].chunks : i # 1 =>
              i - 1 \in DOMAIN stream'[t].chunks /\ stream'[t].chunks[i - 1] = stream[t].chunks[i]
         /\ \A i \in DoneAt(t)' : i \in Nat /\ i + 1 \in DoneAt(t)
         /\ DoneRows(t)' \subseteq DoneRows(t)
         /\ Head(stream[t].chunks).is \notin {"end", "rejected"} => (t \in Served' <=> t \in Served)
<1>1. /\ stream[t].chunks \in Seq(Chunk) /\ Len(stream[t].chunks) \in Nat
      /\ DOMAIN stream[t].chunks = 1..Len(stream[t].chunks)
  BY StreamFacts
<1>2. PICK q : q = stream[t].chunks
  OBVIOUS
<1>3. PICK p : p = Tail(q)
  OBVIOUS
<1>4. /\ q \in Seq(Chunk) /\ q # <<>> /\ Len(q) \in Nat /\ DOMAIN q = 1..Len(q)
      /\ Head(q) = q[1] /\ Head(q) \in Chunk /\ p \in Seq(Chunk) /\ Len(p) = Len(q) - 1
      /\ \A i \in 1..(Len(q) - 1) : p[i] = q[i + 1]
  BY <1>1, <1>2, <1>3, HeadTailProperties
<1>5. DOMAIN p = 1..(Len(q) - 1) /\ Len(q) >= 1
  BY <1>4, LenProperties
<1>6. /\ \A i \in DOMAIN p : i \in Nat /\ i + 1 \in DOMAIN q /\ p[i] = q[i + 1]
      /\ \A i \in DOMAIN q : i # 1 => i - 1 \in DOMAIN p /\ p[i - 1] = q[i]
      /\ 1 \in DOMAIN q
  BY <1>4, <1>5
<1>7. stream[t].chunks = q /\ stream'[t].chunks = p
  BY <1>2, <1>3
<1>8. \A i \in DoneAt(t)' : i \in Nat /\ i + 1 \in DoneAt(t) /\ p[i] = q[i + 1]
  BY <1>6, <1>7 DEF DoneAt
<1>9. DoneRows(t)' \subseteq DoneRows(t)
  BY <1>7, <1>8 DEF DoneRows
<1>10. q[1].is \notin {"end", "rejected"} => (t \in Served' <=> t \in Served)
  BY ZenonT(30), <1>6, <1>7 DEF Served
<1> QED
  BY <1>3, <1>4, <1>6, <1>7, <1>8, <1>9, <1>10

LEMMA EventsRest ==
  ASSUME RelayInv, posted' = posted, pushed' = pushed, produced' = produced,
         written' \in Nat, written <= written', inbox' \in {inbox, <<>>},
         relay' = relay \/ relay'.at # "posting"
  PROVE  EventsOK'
<1>1. EventsOK /\ written \in Nat /\ pushed \in Nat
  BY RelayFacts DEF RelayInv
<1>2. 1..written \subseteq 1..written' /\ \A r \in Row : r <= written => r <= written'
  BY <1>1, RelayFacts DEF RelayInv
<1>3. CASE inbox' = inbox
  BY <1>1, <1>2, <1>3 DEF EventsOK
<1>4. CASE inbox' = <<>>
  <2>1. DOMAIN inbox' = {}
    BY <1>4
  <2>2. relay'.at = "posting" => relay' = relay
    OBVIOUS
  <2>3. /\ \A i, j \in DOMAIN inbox' : i < j => inbox'[i] < inbox'[j]
        /\ \A i \in DOMAIN inbox' : inbox'[i] <= pushed'
        /\ relay'.at = "posting" =>
             /\ relay'.row \in 1..pushed' /\ relay'.row \notin produced' /\ posted'[relay'.row] = 0
             /\ \A i \in DOMAIN inbox' : relay'.row < inbox'[i]
    BY <1>1, <2>1, <2>2 DEF EventsOK
  <2>4. /\ \A r \in Row : posted'[r] <= 1
        /\ \A r \in Row : posted'[r] # 0 =>
             r <= written' /\ (r \in produced' \/ (r <= pushed' /\ \A i \in DOMAIN inbox' : inbox'[i] # r))
        /\ produced' \subseteq 1..written'
    BY <1>1, <1>2, <2>1 DEF EventsOK
  <2> QED
    BY <2>3, <2>4 DEF EventsOK
<1> QED
  BY <1>3, <1>4

LEMMA ArrivalRests ==
  ASSUME RelayInv, stream'[Arrival] = stream[Arrival], relay'.at = "arriving" => relay.at = "arriving"
  PROVE  ArrivalOK'
BY DEF RelayInv, ArrivalOK

LEMMA ArrivalSent ==
  ASSUME RelayInv, NEW t \in RelayTurn, NEW kinds \in {<<"done">>, <<"error">>, <<"end">>},
         NEW row \in 0..MaxRelayRows, Sends(t, kinds, row), relay' = relay
  PROVE  ArrivalOK'
<1>1. /\ kinds \in Seq({"card", "done", "error", "end", "rejected"}) /\ Len(kinds) \in Nat
      /\ DOMAIN kinds = 1..Len(kinds) /\ \A i \in DOMAIN kinds : kinds[i] # "card"
  <2>1. CASE kinds = <<"done">>
    BY <2>1
  <2>2. CASE kinds = <<"error">>
    BY <2>2
  <2>3. CASE kinds = <<"end">>
    BY <2>3
  <2> QED
    BY <2>1, <2>2, <2>3
<1>2. RelayTyped /\ ArrivalOK
  BY DEF RelayInv
<1>3. CASE t # Arrival \/ stream[t].at # "open"
  <2>1. stream'[Arrival] = stream[Arrival]
    BY <1>1, <1>2, <1>3, ChunksSent, RelayFacts
  <2> QED
    BY <2>1, ArrivalRests
<1>4. CASE t = Arrival /\ stream[t].at = "open"
  <2> DEFINE n == Len(stream[t].chunks)
  <2>1. n \in Nat /\ DOMAIN stream[t].chunks = 1..n
    BY <1>2, StreamFacts
  <2>2. /\ DOMAIN stream'[t].chunks = 1..(n + Len(kinds)) /\ stream'[t].at = stream[t].at
        /\ \A i \in 1..n : stream'[t].chunks[i] = stream[t].chunks[i]
        /\ \A i \in DOMAIN kinds : stream'[t].chunks[n + i].is = kinds[i]
    <3>1. /\ DOMAIN stream'[t].chunks = 1..(n + Len(kinds)) /\ stream'[t].at = stream[t].at
          /\ \A i \in DOMAIN stream[t].chunks : stream'[t].chunks[i] = stream[t].chunks[i]
          /\ \A i \in DOMAIN kinds : stream'[t].chunks[n + i].is = kinds[i]
      BY SMTT(30), <1>1, <1>2, <1>4, ChunksSent
    <3> QED
      BY <2>1, <3>1
  <2> HIDE DEF n
  <2>3. ASSUME NEW i \in 1..(n + Len(kinds)) PROVE stream'[t].chunks[i].is # "card"
    <3>1. CASE i \in 1..n
      BY <1>2, <1>4, <2>1, <2>2, <3>1 DEF ArrivalOK
    <3>2. CASE i \notin 1..n
      <4>1. i - n \in DOMAIN kinds /\ i = n + (i - n)
        BY <1>1, <2>1, <3>2
      <4>2. PICK j \in DOMAIN kinds : i = n + j
        BY <4>1
      <4> QED
        BY <1>1, <2>2, <4>2
    <3> QED
      BY <3>1, <3>2
  <2> QED
    BY <1>2, <1>4, <2>2, <2>3 DEF ArrivalOK
<1> QED
  BY <1>3, <1>4

LEMMA FiniteStays ==
  ASSUME RelayInv, NEW t \in RelayTurn,
         \A u \in RelayTurn : u # t /\ stream[u].at = "idle" => stream'[u].at = "idle"
  PROVE  StreamsFinite'
<1> DEFINE S == {u \in RelayTurn : stream[u].at # "idle"}
           T == {u \in RelayTurn : stream'[u].at # "idle"}
<1>1. IsFiniteSet(S)
  BY DEF RelayInv, StreamsFinite
<1>2. IsFiniteSet(S \cup {t})
  BY <1>1, FS_AddElement
<1>3. T \subseteq S \cup {t}
  OBVIOUS
<1>4. IsFiniteSet(T)
  BY <1>2, <1>3, FS_Subset
<1> QED
  BY <1>4 DEF StreamsFinite

LEMMA FailCounted == ASSUME RelayTyped, Fails PROVE relayFaults' \in 0..MaxRelayFaults
BY RelayFacts DEF Fails

LEMMA RowCounted ==
  ASSUME RelayTyped, Writes
  PROVE  written' = written + 1 /\ written' \in 1..MaxRelayRows /\ written' > written
BY RelayFacts DEF Writes

LEMMA StaysTyped ==
  ASSUME stream' \in [RelayTurn -> Stream], socket' \in {"up", "givenUp", "down"},
         written' \in 0..MaxRelayRows, pushed' \in 0..written',
         serving' \in [turn : RelayTurn, said : BOOLEAN, words : 0..MaxRelayRows,
                       held : 0..MaxRelayRows] \cup {Nothing},
         produced' \subseteq Row, posted' \in [Row -> Nat], inbox' \in Seq(Row),
         relay' \in [at : {"arriving", "greeting", "waiting", "posting", "ended"}, row : 0..MaxRelayRows],
         relayFaults' \in 0..MaxRelayFaults
  PROVE  RelayTyped'
<1>1. Seq(Chunk) \subseteq Seq([is : {"card", "done", "error", "end", "rejected"}, row : 0..MaxRelayRows])
  <2>1. Chunk \subseteq [is : {"card", "done", "error", "end", "rejected"}, row : 0..MaxRelayRows]
    BY DEF Chunk
  <2> QED
    BY <2>1, SeqMonotonic
<1>2. stream' \in [RelayTurn ->
        [at : {"idle", "marking", "unsent", "open", "closing", "answered", "failed"},
         chunks : Seq([is : {"card", "done", "error", "end", "rejected"}, row : 0..MaxRelayRows]),
         final : 0..MaxRelayRows, cards : SUBSET Row, note : BOOLEAN]]
  BY <1>1 DEF Stream
<1>3. RelayTypeOK'
  BY <1>2 DEF RelayTypeOK
<1> QED
  BY <1>3 DEF RelayTyped

\* A step that moves one stream and leaves the loop and what was posted alone.
LEMMA StreamMoves ==
  ASSUME RelayInv, NEW t \in RelayTurn, StreamOK(t)',
         Keeps(t)' \subseteq Keeps(t) \cup Fresh,
         stream' \in [RelayTurn -> Stream],
         \A u \in RelayTurn : u # t =>
           stream'[u] = stream[u] /\ (Taken(u)' <=> Taken(u)) /\ (Taken(u) => serving' = serving),
         UNCHANGED <<socket, pushed, produced, relay, inbox, posted>>,
         written' \in Nat, written <= written', written' <= MaxRelayRows,
         serving' \in [turn : RelayTurn, said : BOOLEAN, words : 0..MaxRelayRows,
                       held : 0..MaxRelayRows] \cup {Nothing},
         relayFaults' \in 0..MaxRelayFaults, ArrivalOK'
  PROVE  RelayInv'
<1>1. \A r : Posting(r)' <=> Posting(r)
  BY DEF Posting
<1>2. (\A u \in RelayTurn : StreamOK(u)') /\ Apart'
  BY <1>1, OneStream
<1>3. EventsOK'
  BY EventsRest
<1>4. StreamsFinite'
  BY FiniteStays
<1>5. RelayTyped'
  <2>1. RelayTyped /\ written' \in 0..MaxRelayRows /\ pushed' \in 0..written'
    BY RelayFacts DEF RelayInv
  <2>2. /\ socket' \in {"up", "givenUp", "down"} /\ produced' \subseteq Row
        /\ relay' \in [at : {"arriving", "greeting", "waiting", "posting", "ended"}, row : 0..MaxRelayRows]
        /\ inbox' \in Seq(Row) /\ posted' \in [Row -> Nat]
    BY <2>1, RelayFacts
  <2> QED
    BY <2>1, <2>2, StaysTyped
<1> QED
  BY <1>2, <1>3, <1>4, <1>5 DEF RelayInv

\* A stream moves to another place.
LEMMA StreamAt ==
  ASSUME RelayTyped, NEW t \in RelayTurn,
         NEW at \in {"idle", "marking", "unsent", "open", "closing", "answered", "failed"},
         stream' = [stream EXCEPT ![t].at = at]
  PROVE  /\ stream' \in [RelayTurn -> Stream] /\ \A u \in RelayTurn : u # t => stream'[u] = stream[u]
         /\ stream'[t].at = at /\ stream'[t].chunks = stream[t].chunks
         /\ stream'[t].final = stream[t].final /\ stream'[t].cards = stream[t].cards
         /\ stream'[t].note = stream[t].note
<1>1. stream \in [RelayTurn -> Stream] /\ stream[t] \in Stream
  BY RelayFacts
<1> QED
  BY <1>1 DEF Stream

\* The owner asks, or clicks a button.
LEMMA OwnerKeeps ==
  ASSUME RelayInv, NEW t \in RelayTurn, Asks(t) \/ Clicks(t) \/ Marked(t)
  PROVE  RelayInv'
<1>1. RelayTyped /\ StreamOK(t) /\ ArrivalOK
  BY DEF RelayInv
<1>2. /\ UNCHANGED <<socket, written, pushed, serving, produced, relay, inbox, posted>>
      /\ relayFaults' = relayFaults \/ Fails
      /\ stream[t].at \in {"idle", "marking"} /\ t # Arrival
  BY <1>1 DEF Asks, Clicks, Marked, ArrivalOK
<1>3. PICK at \in {"idle", "marking", "unsent", "open", "closing", "answered", "failed"} :
        stream' = [stream EXCEPT ![t].at = at]
  BY DEF Asks, Clicks, Marked
<1>4. /\ stream' \in [RelayTurn -> Stream] /\ \A u \in RelayTurn : u # t => stream'[u] = stream[u]
      /\ stream'[t].chunks = <<>> /\ stream'[t].final = 0 /\ ~Taken(t)
  BY <1>1, <1>2, <1>3, StreamAt DEF StreamOK
<1>5. \A u \in RelayTurn : Taken(u)' <=> Taken(u)
  BY <1>2 DEF Taken
<1>6. StreamOK(t)' /\ Keeps(t)' = {}
  BY <1>4, <1>5, EmptyOK
<1>7. ArrivalOK'
  BY <1>1, <1>2, <1>4, ArrivalRests, RelayFacts
<1>8. relayFaults' \in 0..MaxRelayFaults
  BY <1>1, <1>2, FailCounted, RelayFacts
<1>9. /\ written' \in Nat /\ written <= written' /\ written' <= MaxRelayRows
      /\ serving' \in [turn : RelayTurn, said : BOOLEAN, words : 0..MaxRelayRows,
                       held : 0..MaxRelayRows] \cup {Nothing}
  BY <1>1, <1>2, RelayFacts
<1> QED
  BY <1>2, <1>4, <1>5, <1>6, <1>7, <1>8, <1>9, StreamMoves

\* What the server does for t: no other stream is served.
LEMMA ServingMoves ==
  ASSUME RelayInv, NEW t \in RelayTurn, serving = Nothing \/ Taken(t),
         serving' = Nothing \/ serving'.turn = t
  PROVE  \A u \in RelayTurn : u # t => ~Taken(u) /\ ~Taken(u)'
BY DEF Taken

\* The server takes up a turn.
LEMMA ServesKeeps ==
  ASSUME RelayInv, NEW t \in RelayTurn, Serves(t)
  PROVE  RelayInv'
<1>1. RelayTyped /\ StreamOK(t) /\ EventsOK
  BY DEF RelayInv
<1>2. /\ UNCHANGED <<socket, written, pushed, stream, produced, relay, inbox, posted, relayFaults>>
      /\ serving = Nothing /\ stream[t].at = "open" /\ t \notin Served
      /\ serving' = [turn |-> t, said |-> FALSE, words |-> 0, held |-> 0]
  BY DEF Serves
<1>3. /\ serving' \in [turn : RelayTurn, said : BOOLEAN, words : 0..MaxRelayRows, held : 0..MaxRelayRows]
      /\ serving'.turn = t /\ serving'.words = 0 /\ serving'.held = 0
  BY <1>1, <1>2, RelayFacts
<1>4. \A u \in RelayTurn : u # t => ~Taken(u) /\ ~Taken(u)'
  BY <1>2, <1>3, ServingMoves
<1>5. Clean(t)
  BY <1>1, <1>2 DEF StreamOK, Taken
<1>6. Draft(t)' = {}
  BY <1>3 DEF Draft
<1>7. DoneAt(t)' = DoneAt(t) /\ DoneRows(t)' = DoneRows(t) /\ (HasPosted(t)' <=> HasPosted(t))
  BY <1>2 DEF DoneAt, DoneRows, HasPosted, RendersWords
<1>8. \A r : Posting(r)' <=> Posting(r)
  BY <1>2 DEF Posting
<1>9. /\ written' \in Nat /\ written <= written' /\ written' <= MaxRelayRows
      /\ relayFaults' \in 0..MaxRelayFaults /\ stream' \in [RelayTurn -> Stream]
  BY <1>1, <1>2, RelayFacts
<1>10. \A i, j \in DoneAt(t)' : i = j
  BY <1>1, <1>7 DEF StreamOK
<1>11. StreamOK(t)' /\ Keeps(t)' \subseteq Keeps(t) \cup Fresh
  BY <1>2, <1>5, <1>6, <1>7, <1>8, <1>9, <1>10, GoesOn
<1>12. ArrivalOK'
  BY <1>2, ArrivalRests
<1> QED
  BY <1>2, <1>3, <1>4, <1>9, <1>11, <1>12, StreamMoves

\* What the server says of the turn it runs, and that is no reply.
LEMMA TurnGoesOn ==
  ASSUME RelayInv, NEW t \in RelayTurn, Taken(t),
         UNCHANGED <<socket, pushed, produced, relay, inbox, posted, relayFaults>>,
         stream' \in [RelayTurn -> Stream], \A u \in RelayTurn : u # t => stream'[u] = stream[u],
         stream'[t].at = stream[t].at, stream'[t].final = stream[t].final,
         stream'[t].cards = stream[t].cards, stream'[t].note = stream[t].note,
         DoneAt(t)' = DoneAt(t), DoneRows(t)' = DoneRows(t),
         serving' \in [turn : RelayTurn, said : BOOLEAN, words : 0..MaxRelayRows,
                       held : 0..MaxRelayRows] \cup {Nothing},
         serving' = Nothing \/ serving'.turn = t,
         (Taken(t)' /\ ~serving'.said) \/ (stream[t].at = "open" /\ ~Taken(t)' /\ t \notin Served')
           => Clean(t),
         written' \in Nat, written <= written', written' <= MaxRelayRows,
         stream'[t].at = "open" =>
           Draft(t)' \subseteq Draft(t) \cup Fresh /\ Draft(t)' \subseteq 1..written',
         ArrivalOK'
  PROVE  RelayInv'
<1>1. RelayTyped /\ StreamOK(t)
  BY DEF RelayInv
<1>2. \A u \in RelayTurn : u # t => ~Taken(u) /\ ~Taken(u)'
  BY ServingMoves
<1>3. HasPosted(t)' <=> HasPosted(t)
  BY DEF HasPosted, RendersWords
<1>4. \A r : Posting(r)' <=> Posting(r)
  BY DEF Posting
<1>5. stream'[t].at \notin {"idle", "marking", "unsent"} /\ \A i, j \in DoneAt(t)' : i = j
  BY <1>1 DEF StreamOK
<1>6. StreamOK(t)' /\ Keeps(t)' \subseteq Keeps(t) \cup Fresh
  BY <1>3, <1>4, <1>5, GoesOn
<1>7. relayFaults' \in 0..MaxRelayFaults
  BY <1>1, RelayFacts
<1> QED
  BY <1>2, <1>6, <1>7, StreamMoves

LEMMA WordsKeep ==
  ASSUME RelayInv, NEW t \in RelayTurn, Words(t)
  PROVE  RelayInv'
<1>1. RelayTyped /\ StreamOK(t)
  BY DEF RelayInv
<1>2. /\ Taken(t) /\ ~serving.said /\ serving.words = 0 /\ serving.held = 0 /\ Writes
      /\ serving' = [serving EXCEPT !.words = written']
      /\ UNCHANGED <<socket, pushed, stream, produced, relay, inbox, posted, relayFaults>>
  BY DEF Words, Speaking
<1>3. written' = written + 1 /\ written' \in 1..MaxRelayRows /\ written' > written
      /\ written \in Nat /\ MaxRelayRows \in Nat
  BY <1>1, <1>2, RowCounted, RelayFacts
<1>4. /\ serving' \in [turn : RelayTurn, said : BOOLEAN, words : 0..MaxRelayRows, held : 0..MaxRelayRows]
      /\ serving'.turn = t /\ serving'.words = written' /\ serving'.held = 0
  <2>1. serving \in [turn : RelayTurn, said : BOOLEAN, words : 0..MaxRelayRows, held : 0..MaxRelayRows]
        /\ serving.turn = t
    BY <1>1, <1>2, TakenFacts DEF Taken
  <2> QED
    BY <1>2, <1>3, <2>1
<1>5. Clean(t)
  BY <1>1, <1>2 DEF StreamOK
<1>6. Draft(t)' \subseteq {written'}
  BY <1>4 DEF Draft
<1>7. Draft(t)' \subseteq Draft(t) \cup Fresh /\ Draft(t)' \subseteq 1..written'
  BY <1>3, <1>6 DEF Fresh
<1>8. DoneAt(t)' = DoneAt(t) /\ DoneRows(t)' = DoneRows(t)
  BY <1>2 DEF DoneAt, DoneRows
<1>9. ArrivalOK'
  BY <1>2, ArrivalRests
<1>10. stream' \in [RelayTurn -> Stream]
  BY <1>1, <1>2, RelayFacts
<1> QED
  BY <1>2, <1>3, <1>4, <1>5, <1>7, <1>8, <1>9, <1>10, TurnGoesOn

LEMMA HoldsKeep ==
  ASSUME RelayInv, NEW t \in RelayTurn, Holds(t)
  PROVE  RelayInv'
<1>1. RelayTyped /\ StreamOK(t)
  BY DEF RelayInv
<1>2. /\ Taken(t) /\ ~serving.said /\ Writes /\ t # Arrival
      /\ serving' = [serving EXCEPT !.held = written']
      /\ UNCHANGED <<socket, pushed, produced, relay, inbox, posted, relayFaults>>
  BY DEF Holds, Speaking
<1>3. written' = written + 1 /\ written' \in 1..MaxRelayRows /\ written' > written
      /\ written \in Nat /\ MaxRelayRows \in Nat
  BY <1>1, <1>2, RowCounted, RelayFacts
<1>4. /\ serving' \in [turn : RelayTurn, said : BOOLEAN, words : 0..MaxRelayRows, held : 0..MaxRelayRows]
      /\ serving'.turn = t /\ serving'.words = serving.words /\ serving'.held = written'
      /\ serving.words \in 0..MaxRelayRows
  <2>1. serving \in [turn : RelayTurn, said : BOOLEAN, words : 0..MaxRelayRows, held : 0..MaxRelayRows]
        /\ serving.turn = t
    BY <1>1, <1>2, TakenFacts DEF Taken
  <2> QED
    BY <1>2, <1>3, <2>1
<1>5. PICK row \in 0..MaxRelayRows : row = written'
  BY <1>3
<1>6. Sends(t, <<"card">>, row) /\ row # 0
  BY <1>3, <1>5 DEF Holds
<1>7. Clean(t)
  BY <1>1, <1>2 DEF StreamOK
<1>8. Draft(t)' \subseteq Draft(t) \cup {written'}
  BY <1>2, <1>4 DEF Draft
<1>9. stream[t].at = "open" =>
        Draft(t)' \subseteq Draft(t) \cup Fresh /\ Draft(t)' \subseteq 1..written'
  <2>1. stream[t].at = "open" => Draft(t) \subseteq 1..written
    BY <1>1 DEF StreamOK, Keeps, Awaits
  <2> QED
    BY <1>3, <1>8, <2>1 DEF Fresh
<1>10. DoneAt(t)' = DoneAt(t) /\ DoneRows(t)' = DoneRows(t)
  BY <1>1, <1>6, QuietSent
<1>11. /\ stream' \in [RelayTurn -> Stream] /\ \A u \in RelayTurn : u # t => stream'[u] = stream[u]
       /\ stream'[t].at = stream[t].at /\ stream'[t].final = stream[t].final
       /\ stream'[t].cards = stream[t].cards /\ stream'[t].note = stream[t].note
  <2> DEFINE kinds == <<"card">>
  <2>1. kinds \in Seq({"card", "done", "error", "end", "rejected"}) /\ Sends(t, kinds, row)
    BY <1>6
  <2> HIDE DEF kinds
  <2> QED
    BY <1>1, <1>6, <2>1, ChunksSent
<1>12. ArrivalOK'
  BY <1>1, <1>2, <1>11, ArrivalRests, RelayFacts
<1>13. written' \in Nat /\ written <= written' /\ written' <= MaxRelayRows
  BY <1>3
<1>14. stream'[t].at = "open" =>
         Draft(t)' \subseteq Draft(t) \cup Fresh /\ Draft(t)' \subseteq 1..written'
  BY <1>9, <1>11
<1>15. serving' \in [turn : RelayTurn, said : BOOLEAN, words : 0..MaxRelayRows,
                     held : 0..MaxRelayRows] \cup {Nothing}
  BY <1>4
<1>16. serving' = Nothing \/ serving'.turn = t
  BY <1>4
<1> QED
  BY <1>2, <1>7, <1>10, <1>11, <1>12, <1>13, <1>14, <1>15, <1>16, TurnGoesOn

\* What the server says of the turn it runs: that it failed, or that it is over.
LEMMA TurnSays ==
  ASSUME RelayInv, NEW t \in RelayTurn, Taken(t), NEW k \in {"error", "end"}, Sends(t, <<k>>, 0),
         UNCHANGED <<socket, written, pushed, produced, relay, inbox, posted, relayFaults>>,
         \/ serving' = Nothing /\ k = "end"
         \/ serving' = [serving EXCEPT !.said = TRUE]
  PROVE  RelayInv'
<1> DEFINE kinds == <<k>>
<1>1. kinds \in Seq({"card", "done", "error", "end", "rejected"}) /\ Sends(t, kinds, 0)
      /\ kinds \in {<<"done">>, <<"error">>, <<"end">>} /\ \A i \in DOMAIN kinds : kinds[i] # "card"
  OBVIOUS
<1> HIDE DEF kinds
<1>2. RelayTyped /\ StreamOK(t) /\ 0 \in 0..MaxRelayRows
  BY RelayConstants DEF RelayInv
<1>3. /\ stream' \in [RelayTurn -> Stream] /\ \A u \in RelayTurn : u # t => stream'[u] = stream[u]
      /\ stream'[t].at = stream[t].at /\ stream'[t].final = stream[t].final
      /\ stream'[t].cards = stream[t].cards /\ stream'[t].note = stream[t].note
  BY <1>1, <1>2, ChunksSent
<1>4. DoneAt(t)' = DoneAt(t) /\ DoneRows(t)' = DoneRows(t)
      /\ (k = "end" /\ stream[t].at = "open" => t \in Served')
  BY <1>2, QuietSent
<1>5. ArrivalOK'
  BY <1>1, <1>2, ArrivalSent
<1>6. serving \in [turn : RelayTurn, said : BOOLEAN, words : 0..MaxRelayRows, held : 0..MaxRelayRows]
      /\ serving.turn = t
  BY <1>2, TakenFacts DEF Taken
<1>7. CASE serving' = Nothing /\ k = "end"
  <2>1. ~Taken(t)' /\ Draft(t)' = {}
    BY <1>7 DEF Taken, Draft
  <2>2. (Taken(t)' /\ ~serving'.said) \/ (stream[t].at = "open" /\ ~Taken(t)' /\ t \notin Served')
          => Clean(t)
    BY <1>4, <1>7, <2>1
  <2>3. written' \in Nat /\ written <= written' /\ written' <= MaxRelayRows
    BY <1>2, RelayFacts
  <2> QED
    BY <1>3, <1>4, <1>5, <1>7, <2>1, <2>2, <2>3, TurnGoesOn
<1>8. CASE serving' = [serving EXCEPT !.said = TRUE]
  <2>1. /\ serving' \in [turn : RelayTurn, said : BOOLEAN, words : 0..MaxRelayRows, held : 0..MaxRelayRows]
        /\ serving'.turn = t /\ serving'.said = TRUE
    BY <1>6, <1>8
  <2>2. Draft(t)' = {}
    BY <2>1 DEF Draft
  <2>3. serving' # Nothing
    <3>1. serving # Nothing
      BY DEF Taken
    <3>2. "turn" \in DOMAIN serving' /\ "turn" \notin DOMAIN Nothing
      BY <2>1 DEF Nothing
    <3> QED
      BY <3>2
  <2>4. Taken(t)'
    BY <2>1, <2>3 DEF Taken
  <2>5. written' \in Nat /\ written <= written' /\ written' <= MaxRelayRows
    BY <1>2, RelayFacts
  <2> QED
    BY <1>3, <1>4, <1>5, <2>1, <2>2, <2>4, <2>5, TurnGoesOn
<1> QED
  BY <1>7, <1>8

LEMMA ErrsKeeps ==
  ASSUME RelayInv, NEW t \in RelayTurn, Errs(t)
  PROVE  RelayInv'
BY TurnSays DEF Errs, Speaking

LEMMA FinishesKeeps ==
  ASSUME RelayInv, NEW t \in RelayTurn, Finishes(t)
  PROVE  RelayInv'
BY TurnSays DEF Finishes

\* A stream that waits is clean, and no other is disturbed.
LEMMA WaitsFacts ==
  ASSUME RelayInv, NEW t \in RelayTurn, Waits(t), serving' = serving
  PROVE  /\ Clean(t) /\ ~Taken(t) /\ ~Taken(t)' /\ Draft(t)' = {}
         /\ stream[t].at = "open" /\ t # Arrival
         /\ \A u \in RelayTurn : Taken(u)' <=> Taken(u)
         /\ serving' \in [turn : RelayTurn, said : BOOLEAN, words : 0..MaxRelayRows,
                          held : 0..MaxRelayRows] \cup {Nothing}
<1>1. RelayTyped /\ StreamOK(t)
  BY DEF RelayInv
<1>2. t # Arrival /\ stream[t].at = "open" /\ ~Taken(t) /\ t \notin Served
  BY DEF Waits
<1>3. \A u \in RelayTurn : Taken(u)' <=> Taken(u)
  BY DEF Taken
<1>4. Draft(t)' = {}
  BY <1>2, <1>3 DEF Draft
<1> QED
  BY <1>1, <1>2, <1>3, <1>4, RelayFacts DEF StreamOK

LEMMA RejectedKeeps ==
  ASSUME RelayInv, NEW t \in RelayTurn, Rejected(t)
  PROVE  RelayInv'
<1> DEFINE kinds == <<"rejected">>
<1>1. /\ Waits(t) /\ Sends(t, <<"rejected">>, 0)
      /\ UNCHANGED <<socket, written, pushed, serving, produced, relay, inbox, posted, relayFaults>>
  BY DEF Rejected
<1>2. kinds \in Seq({"card", "done", "error", "end", "rejected"}) /\ Sends(t, kinds, 0)
      /\ \A i \in DOMAIN kinds : kinds[i] # "card"
  BY <1>1
<1> HIDE DEF kinds
<1>3. RelayTyped /\ StreamOK(t) /\ 0 \in 0..MaxRelayRows
  BY RelayConstants DEF RelayInv
<1>4. /\ stream' \in [RelayTurn -> Stream] /\ \A u \in RelayTurn : u # t => stream'[u] = stream[u]
      /\ stream'[t].at = stream[t].at /\ stream'[t].final = stream[t].final
      /\ stream'[t].cards = stream[t].cards /\ stream'[t].note = stream[t].note
  BY <1>2, <1>3, ChunksSent
<1>5. DoneAt(t)' = DoneAt(t) /\ DoneRows(t)' = DoneRows(t)
  BY <1>1, <1>3, QuietSent
<1>6. /\ Clean(t) /\ ~Taken(t) /\ ~Taken(t)' /\ Draft(t)' = {}
      /\ stream[t].at = "open" /\ t # Arrival
      /\ \A u \in RelayTurn : Taken(u)' <=> Taken(u)
      /\ serving' \in [turn : RelayTurn, said : BOOLEAN, words : 0..MaxRelayRows,
                       held : 0..MaxRelayRows] \cup {Nothing}
  BY <1>1, WaitsFacts
<1>7. (HasPosted(t)' <=> HasPosted(t)) /\ \A r : Posting(r)' <=> Posting(r)
  BY <1>1, <1>4 DEF HasPosted, RendersWords, Posting
<1>8. written' \in Nat /\ written <= written' /\ written' <= MaxRelayRows
  BY <1>1, <1>3, RelayFacts
<1>9. \A i, j \in DoneAt(t)' : i = j
  BY <1>3, <1>5 DEF StreamOK
<1>10. StreamOK(t)' /\ Keeps(t)' \subseteq Keeps(t) \cup Fresh
  BY <1>1, <1>4, <1>5, <1>6, <1>7, <1>8, <1>9, GoesOn
<1>11. ArrivalOK'
  BY <1>1, <1>3, <1>4, <1>6, ArrivalRests, RelayFacts
<1>12. relayFaults' \in 0..MaxRelayFaults
  BY <1>1, <1>3, RelayFacts
<1> QED
  BY <1>1, <1>4, <1>6, <1>8, <1>10, <1>11, <1>12, StreamMoves

\* An open stream is sent its reply: what it awaited, or a row that is new.
LEMMA GetsReply ==
  ASSUME RelayInv, NEW t \in RelayTurn, stream[t].at = "open", stream'[t].at = "open",
         Clean(t), stream'[t].final = 0, \A i, j \in DoneAt(t)' : i = j,
         NEW row, DoneRows(t)' \subseteq {row}, row \in Awaits(t) \cup (Fresh \cap 1..written'),
         Draft(t)' = {}, ~(Taken(t)' /\ ~serving'.said), Taken(t)' \/ t \in Served',
         written' \in Nat, written <= written', written' <= MaxRelayRows,
         posted' = posted, \A r : Posting(r)' <=> Posting(r)
  PROVE  StreamOK(t)' /\ Keeps(t)' \subseteq Keeps(t) \cup Fresh
<1>1. RelayTyped /\ StreamOK(t) /\ EventsOK
  BY DEF RelayInv
<1>2. /\ written \in Nat /\ Row = 1..MaxRelayRows /\ MaxRelayRows \in Nat /\ pushed \in Nat
      /\ pushed <= written
  BY <1>1, RelayFacts
<1>3. Awaits(t)' \subseteq {row} /\ Keeps(t)' \subseteq {row}
  BY DEF Awaits, Keeps
<1>4. row \in 1..written' /\ posted[row] = 0 /\ ~Posting(row) /\ row \in Keeps(t) \cup Fresh
  <2>1. CASE row \in Awaits(t)
    <3>1. row \in Keeps(t) /\ row \in 1..written
      BY <1>1, <2>1 DEF Keeps, StreamOK
    <3> QED
      BY <1>1, <1>2, <2>1, <3>1 DEF StreamOK
  <2>2. CASE row \in Fresh \cap 1..written'
    <3>1. row \in Row /\ row > written
      BY <1>2, <2>2 DEF Fresh
    <3>2. posted[row] = 0
      BY <1>1, <1>2, <3>1, RelayFacts DEF EventsOK
    <3>3. ~Posting(row)
      BY <1>1, <1>2, <3>1 DEF EventsOK, Posting
    <3> QED
      BY <2>2, <3>2, <3>3
  <2> QED
    BY <2>1, <2>2
<1>5. Keeps(t)' \subseteq 1..written' /\ \A r \in Awaits(t)' : posted'[r] = 0 /\ ~Posting(r)'
  BY <1>3, <1>4
<1> QED
  BY <1>3, <1>4, <1>5 DEF StreamOK

LEMMA ConfirmedKeeps ==
  ASSUME RelayInv, NEW t \in RelayTurn, Confirmed(t)
  PROVE  RelayInv'
<1> DEFINE kinds == <<"done", "end">>
<1>1. /\ Waits(t) /\ Writes /\ Sends(t, kinds, written')
      /\ UNCHANGED <<socket, pushed, serving, produced, relay, inbox, posted, relayFaults>>
  BY DEF Confirmed
<1>2. kinds \in Seq({"card", "done", "error", "end", "rejected"})
      /\ kinds \in {<<"done">>, <<"done", "end">>} /\ kinds = <<"done", "end">>
  OBVIOUS
<1> HIDE DEF kinds
<1>3. RelayTyped /\ StreamOK(t)
  BY DEF RelayInv
<1>4. /\ written' \in Nat /\ written <= written' /\ written' <= MaxRelayRows /\ written' > written
      /\ written' \in 1..written' /\ written' \in 0..MaxRelayRows /\ written' # 0
  BY <1>1, <1>3, RowCounted, RelayFacts
<1>5. PICK row \in 0..MaxRelayRows : row = written'
  BY <1>4
<1>6. Sends(t, kinds, row) /\ row # 0 /\ row \in Fresh \cap 1..written'
  BY <1>1, <1>4, <1>5 DEF Fresh
<1>7. /\ stream' \in [RelayTurn -> Stream] /\ \A u \in RelayTurn : u # t => stream'[u] = stream[u]
      /\ stream'[t].at = stream[t].at /\ stream'[t].final = stream[t].final
  BY <1>2, <1>3, <1>6, ChunksSent
<1>8. /\ Clean(t) /\ ~Taken(t) /\ ~Taken(t)' /\ Draft(t)' = {}
      /\ stream[t].at = "open" /\ t # Arrival
      /\ \A u \in RelayTurn : Taken(u)' <=> Taken(u)
      /\ serving' \in [turn : RelayTurn, said : BOOLEAN, words : 0..MaxRelayRows,
                       held : 0..MaxRelayRows] \cup {Nothing}
  BY <1>1, WaitsFacts
<1>9. (\A i, j \in DoneAt(t)' : i = j) /\ DoneRows(t)' \subseteq {row} /\ t \in Served'
  BY <1>2, <1>3, <1>6, <1>8, ReplySent
<1>10. stream'[t].final = 0 /\ stream'[t].at = "open" /\ \A r : Posting(r)' <=> Posting(r)
  BY <1>1, <1>7, <1>8 DEF Clean, Posting
<1>11. StreamOK(t)' /\ Keeps(t)' \subseteq Keeps(t) \cup Fresh
  BY <1>1, <1>4, <1>6, <1>8, <1>9, <1>10, GetsReply
<1>12. ArrivalOK'
  BY <1>1, <1>3, <1>7, <1>8, ArrivalRests, RelayFacts
<1>13. relayFaults' \in 0..MaxRelayFaults
  BY <1>1, <1>3, RelayFacts
<1> QED
  BY <1>1, <1>4, <1>7, <1>8, <1>11, <1>12, <1>13, StreamMoves

LEMMA RepliesKeeps ==
  ASSUME RelayInv, NEW t \in RelayTurn, Replies(t)
  PROVE  RelayInv'
<1> DEFINE kinds == <<"done">>
           row   == IF serving.words # 0 THEN serving.words ELSE serving.held
<1>1. /\ Taken(t) /\ ~serving.said /\ row # 0 /\ Sends(t, kinds, row)
      /\ serving' = [serving EXCEPT !.said = TRUE]
      /\ UNCHANGED <<socket, written, pushed, produced, relay, inbox, posted, relayFaults>>
  BY DEF Replies, Speaking
<1>2. kinds \in Seq({"card", "done", "error", "end", "rejected"})
      /\ kinds \in {<<"done">>, <<"done", "end">>} /\ kinds \in {<<"done">>, <<"error">>, <<"end">>}
  OBVIOUS
<1>3. RelayTyped /\ StreamOK(t)
  BY DEF RelayInv
<1>4. serving \in [turn : RelayTurn, said : BOOLEAN, words : 0..MaxRelayRows, held : 0..MaxRelayRows]
      /\ serving.turn = t
  BY <1>1, <1>3, TakenFacts DEF Taken
<1>5. row \in 0..MaxRelayRows /\ row \in Draft(t)
  BY <1>1, <1>4 DEF Draft
<1> HIDE DEF kinds, row
<1>6. Clean(t)
  BY <1>1, <1>3 DEF StreamOK
<1>7. /\ stream' \in [RelayTurn -> Stream] /\ \A u \in RelayTurn : u # t => stream'[u] = stream[u]
      /\ stream'[t].at = stream[t].at /\ stream'[t].final = stream[t].final
      /\ stream'[t].cards = stream[t].cards /\ stream'[t].note = stream[t].note
      /\ stream[t].at # "open" => stream' = stream
  BY <1>1, <1>2, <1>3, <1>5, ChunksSent
<1>8. (\A i, j \in DoneAt(t)' : i = j) /\ DoneRows(t)' \subseteq {row}
  BY <1>1, <1>2, <1>3, <1>5, <1>6, ReplySent
<1>9. ArrivalOK'
  BY <1>1, <1>2, <1>3, <1>5, ArrivalSent
<1>10. /\ serving' \in [turn : RelayTurn, said : BOOLEAN, words : 0..MaxRelayRows, held : 0..MaxRelayRows]
       /\ serving'.turn = t /\ serving'.said = TRUE
  BY <1>1, <1>4
<1>11. Draft(t)' = {}
  BY <1>10 DEF Draft
<1>12. Taken(t)'
  <2>1. "turn" \in DOMAIN serving' /\ "turn" \notin DOMAIN Nothing
    BY <1>10 DEF Nothing
  <2>2. serving' # Nothing
    BY <2>1
  <2> QED
    BY <1>10, <2>2 DEF Taken
<1>13. written' \in Nat /\ written <= written' /\ written' <= MaxRelayRows
  BY <1>1, <1>3, RelayFacts
<1>14. CASE stream[t].at = "open"
  <2>1. row \in Awaits(t)
    BY <1>5, <1>14 DEF Awaits
  <2>2. stream'[t].final = 0 /\ stream'[t].at = "open" /\ \A r : Posting(r)' <=> Posting(r)
    BY <1>1, <1>6, <1>7, <1>14 DEF Clean, Posting
  <2>3. StreamOK(t)' /\ Keeps(t)' \subseteq Keeps(t) \cup Fresh
    BY <1>1, <1>6, <1>8, <1>10, <1>11, <1>12, <1>13, <1>14, <2>1, <2>2, GetsReply
  <2>4. \A u \in RelayTurn : u # t => ~Taken(u) /\ ~Taken(u)'
    BY <1>1, <1>10, ServingMoves
  <2>5. relayFaults' \in 0..MaxRelayFaults
    BY <1>1, <1>3, RelayFacts
  <2> QED
    BY <1>1, <1>7, <1>9, <1>10, <1>13, <2>3, <2>4, <2>5, StreamMoves
<1>15. CASE stream[t].at # "open"
  <2>1. stream' = stream
    BY <1>7, <1>15
  <2>2. DoneAt(t)' = DoneAt(t) /\ DoneRows(t)' = DoneRows(t)
    BY <2>1 DEF DoneAt, DoneRows
  <2> QED
    BY <1>1, <1>7, <1>9, <1>10, <1>11, <1>12, <1>13, <1>15, <2>2, TurnGoesOn
<1> QED
  BY <1>14, <1>15

\* The turn is in nobody's hands but the reader's, who has no reply to record.
LEMMA ReaderMoves ==
  ASSUME RelayInv, NEW t \in RelayTurn, stream[t].at = "open",
         NEW s \in Stream, stream' = [stream EXCEPT ![t] = s],
         s.at \in {"open", "closing"}, s.final = stream[t].final,
         \A i, j \in DoneAt(t)' : i = j, DoneRows(t)' \subseteq DoneRows(t),
         s.at = "open" => (t \in Served' <=> t \in Served), HasPosted(t)' <=> HasPosted(t),
         UNCHANGED <<socket, written, pushed, serving, produced, relay, inbox, posted>>,
         relayFaults' \in 0..MaxRelayFaults, ArrivalOK'
  PROVE  RelayInv'
<1>1. RelayTyped /\ StreamOK(t)
  BY DEF RelayInv
<1>2. /\ stream' \in [RelayTurn -> Stream] /\ stream'[t] = s
      /\ \A u \in RelayTurn : u # t => stream'[u] = stream[u]
  BY <1>1, StreamSet
<1>3. \A u \in RelayTurn : Taken(u)' <=> Taken(u)
  BY DEF Taken
<1>4. Draft(t)' = Draft(t)
  BY <1>3 DEF Draft
<1>5. Draft(t) \subseteq 1..written
  BY <1>1 DEF StreamOK, Keeps, Awaits
<1>6. written' \in Nat /\ written <= written' /\ written' <= MaxRelayRows
  BY <1>1, RelayFacts
<1>7. \A r : Posting(r)' <=> Posting(r)
  BY DEF Posting
<1>8. /\ Taken(t)' /\ ~serving'.said => Clean(t)
      /\ stream'[t].at = "open" /\ ~Taken(t)' /\ t \notin Served' => Clean(t)
  BY <1>1, <1>2, <1>3 DEF StreamOK
<1>9. Draft(t)' \subseteq Draft(t) \cup Fresh /\ Draft(t)' \subseteq 1..written'
  BY <1>4, <1>5
<1>10. StreamOK(t)' /\ Keeps(t)' \subseteq Keeps(t) \cup Fresh
  BY <1>2, <1>6, <1>7, <1>8, <1>9, GoesOn
<1>11. serving' \in [turn : RelayTurn, said : BOOLEAN, words : 0..MaxRelayRows,
                     held : 0..MaxRelayRows] \cup {Nothing}
  BY <1>1, RelayFacts
<1> QED
  BY <1>2, <1>3, <1>6, <1>10, <1>11, StreamMoves

\* What is left of a queue has no more replies than it had, and no cards it had not.
LEMMA RestRead ==
  ASSUME RelayInv, NEW t \in RelayTurn, stream[t].chunks # <<>>,
         stream'[t].chunks = Tail(stream[t].chunks)
  PROVE  /\ \A i, j \in DoneAt(t)' : i = j
         /\ DoneRows(t)' \subseteq DoneRows(t)
         /\ t = Arrival => \A i \in DOMAIN stream'[t].chunks : stream'[t].chunks[i].is # "card"
<1>1. RelayTyped /\ StreamOK(t) /\ ArrivalOK
  BY DEF RelayInv
<1>2. /\ \A i \in DoneAt(t)' : i \in Nat /\ i + 1 \in DoneAt(t)
      /\ DoneRows(t)' \subseteq DoneRows(t)
      /\ \A i \in DOMAIN stream'[t].chunks :
           i + 1 \in DOMAIN stream[t].chunks /\ stream'[t].chunks[i] = stream[t].chunks[i + 1]
  BY <1>1, ChunkRead
<1>3. ASSUME NEW i \in DoneAt(t)', NEW j \in DoneAt(t)' PROVE i = j
  <2>1. i \in Nat /\ j \in Nat /\ i + 1 = j + 1
    BY <1>1, <1>2, <1>3 DEF StreamOK
  <2> QED
    BY <2>1
<1> QED
  BY <1>1, <1>2, <1>3 DEF ArrivalOK

LEMMA ReadsCardKeeps ==
  ASSUME RelayInv, NEW t \in RelayTurn, ReadsCard(t)
  PROVE  RelayInv'
<1> DEFINE chunk == Head(stream[t].chunks)
           read  == [stream[t] EXCEPT !.chunks = Tail(stream[t].chunks),
                                      !.cards = stream[t].cards \cup {chunk.row}]
<1>1. /\ stream[t].at = "open" /\ stream[t].chunks # <<>> /\ chunk.is = "card"
      /\ UNCHANGED <<socket, written, pushed, serving, produced, relay, inbox, posted>>
      /\ \/ stream' = [stream EXCEPT ![t] = read] /\ relayFaults' = relayFaults
         \/ Fails /\ stream' = [stream EXCEPT ![t] = [read EXCEPT !.at = "closing", !.note = TRUE]]
  BY DEF ReadsCard
<1>2. RelayTyped /\ StreamOK(t) /\ ArrivalOK /\ stream[t] \in Stream
  BY RelayFacts DEF RelayInv
<1>3. PICK s : /\ s = read \/ s = [read EXCEPT !.at = "closing", !.note = TRUE]
               /\ stream' = [stream EXCEPT ![t] = s]
  BY <1>1
<1>4. relayFaults' \in 0..MaxRelayFaults
  BY <1>1, <1>2, FailCounted, RelayFacts
<1>5. /\ Tail(stream[t].chunks) \in Seq(Chunk) /\ chunk \in Chunk
      /\ chunk = stream[t].chunks[1] /\ 1 \in DOMAIN stream[t].chunks
  <2>1. /\ stream[t].chunks \in Seq(Chunk) /\ Len(stream[t].chunks) \in Nat
        /\ DOMAIN stream[t].chunks = 1..Len(stream[t].chunks)
    BY <1>2, StreamFacts
  <2> QED
    BY <1>1, <2>1, HeadTailProperties, EmptySeq
<1>6. t # Arrival
  BY <1>1, <1>2, <1>5 DEF ArrivalOK
<1>7. chunk.row \in Row
  BY <1>1, <1>5, RelayConstants DEF Chunk, Row
<1> HIDE DEF chunk
<1>8. /\ s \in Stream /\ s.at \in {"open", "closing"} /\ s.final = stream[t].final
      /\ s.chunks = Tail(stream[t].chunks)
  <2> DEFINE rest == Tail(stream[t].chunks)
             seen == stream[t].cards \cup {chunk.row}
  <2>1. rest \in Seq(Chunk) /\ seen \in SUBSET Row
    BY <1>2, <1>5, <1>7, StreamFacts
  <2> HIDE DEF rest, seen
  <2>2. read = [stream[t] EXCEPT !.chunks = rest, !.cards = seen]
    BY DEF rest, seen
  <2> HIDE DEF read
  <2>3. /\ read \in Stream /\ read.at = stream[t].at /\ read.final = stream[t].final
        /\ read.chunks = rest
    BY <1>2, <2>1, <2>2 DEF Stream
  <2>4. CASE s = read
    BY <1>1, <2>3, <2>4 DEF rest
  <2>5. CASE s = [read EXCEPT !.at = "closing", !.note = TRUE]
    <3>1. s \in Stream /\ s.at = "closing" /\ s.final = read.final /\ s.chunks = read.chunks
      BY <2>3, <2>5 DEF Stream
    <3> QED
      BY <2>3, <3>1 DEF rest
  <2> QED
    BY <1>3, <2>4, <2>5
<1> HIDE DEF read
<1>9. stream'[t] = s /\ \A u \in RelayTurn : u # t => stream'[u] = stream[u]
  BY <1>2, <1>3, <1>8, StreamSet
<1>10. (\A i, j \in DoneAt(t)' : i = j) /\ DoneRows(t)' \subseteq DoneRows(t)
  BY <1>1, <1>8, <1>9, RestRead
<1>11. t \in Served' <=> t \in Served
  BY <1>1, <1>2, <1>8, <1>9, ChunkRead DEF chunk
<1>12. HasPosted(t)' <=> HasPosted(t)
  BY <1>1, <1>6, <1>8, <1>9 DEF HasPosted
<1>13. ArrivalOK'
  BY <1>1, <1>6, <1>9, ArrivalRests, RelayConstants
<1> QED
  BY <1>1, <1>3, <1>4, <1>8, <1>10, <1>11, <1>12, <1>13, ReaderMoves

LEMMA ReadsErrorKeeps ==
  ASSUME RelayInv, NEW t \in RelayTurn, ReadsError(t)
  PROVE  RelayInv'
<1>1. /\ stream[t].at = "open" /\ stream[t].chunks # <<>> /\ Head(stream[t].chunks).is = "error"
      /\ stream' = [stream EXCEPT ![t].chunks = Tail(stream[t].chunks), ![t].note = TRUE]
      /\ UNCHANGED <<socket, written, pushed, serving, produced, relay, inbox, posted, relayFaults>>
  BY DEF ReadsError
<1>2. RelayTyped /\ StreamOK(t) /\ ArrivalOK /\ stream[t] \in Stream /\ stream \in [RelayTurn -> Stream]
  BY RelayFacts DEF RelayInv
<1>3. PICK s : s = [stream[t] EXCEPT !.chunks = Tail(stream[t].chunks), !.note = TRUE]
  OBVIOUS
<1>4. stream' = [stream EXCEPT ![t] = s]
  BY <1>1, <1>2, <1>3
<1>5. Tail(stream[t].chunks) \in Seq(Chunk)
  BY <1>1, <1>2, StreamFacts, HeadTailProperties
<1>6. /\ s \in Stream /\ s.at = "open" /\ s.final = stream[t].final
      /\ s.chunks = Tail(stream[t].chunks)
  BY <1>1, <1>2, <1>3, <1>5 DEF Stream
<1>7. stream'[t] = s /\ \A u \in RelayTurn : u # t => stream'[u] = stream[u]
  BY <1>2, <1>4, <1>6, StreamSet
<1>8. /\ \A i, j \in DoneAt(t)' : i = j
      /\ DoneRows(t)' \subseteq DoneRows(t)
      /\ t = Arrival => \A i \in DOMAIN stream'[t].chunks : stream'[t].chunks[i].is # "card"
  BY <1>1, <1>6, <1>7, RestRead
<1>9. t \in Served' <=> t \in Served
  BY <1>1, <1>2, <1>6, <1>7, ChunkRead
<1>10. HasPosted(t)' <=> HasPosted(t)
  BY <1>1, <1>6, <1>7 DEF HasPosted
<1>11. ArrivalOK'
  <2>1. CASE t = Arrival
    BY <1>1, <1>2, <1>6, <1>7, <1>8, <2>1 DEF ArrivalOK
  <2>2. CASE t # Arrival
    BY <1>1, <1>7, <2>2, ArrivalRests, RelayConstants
  <2> QED
    BY <2>1, <2>2
<1>12. relayFaults' \in 0..MaxRelayFaults
  BY <1>1, <1>2, RelayFacts
<1> QED
  BY <1>1, <1>4, <1>6, <1>8, <1>9, <1>10, <1>11, <1>12, ReaderMoves

\* A queue that is given up, or left with a rejection, has no replies.
LEMMA QueueEmptied ==
  ASSUME NEW t, stream'[t].chunks = <<>> \/ stream'[t].chunks = <<[is |-> "rejected", row |-> 0]>>
  PROVE  /\ DoneAt(t)' = {} /\ DoneRows(t)' = {}
         /\ \A i \in DOMAIN stream'[t].chunks : stream'[t].chunks[i].is # "card"
<1>1. \A i \in DOMAIN stream'[t].chunks : stream'[t].chunks[i].is = "rejected"
  <2>1. CASE stream'[t].chunks = <<>>
    BY <2>1
  <2>2. CASE stream'[t].chunks = <<[is |-> "rejected", row |-> 0]>>
    BY <2>2
  <2> QED
    BY <2>1, <2>2
<1>2. DoneAt(t)' = {}
  BY <1>1 DEF DoneAt
<1> QED
  BY <1>1, <1>2 DEF DoneRows

LEMMA ReadsEndKeeps ==
  ASSUME RelayInv, NEW t \in RelayTurn, ReadsEnd(t)
  PROVE  RelayInv'
<1> DEFINE note == stream[t].note \/ Head(stream[t].chunks).is = "rejected"
<1>1. /\ t # Arrival /\ stream[t].at = "open"
      /\ stream' = [stream EXCEPT ![t].chunks = <<>>, ![t].at = "closing", ![t].note = note]
      /\ UNCHANGED <<socket, written, pushed, serving, produced, relay, inbox, posted, relayFaults>>
  BY DEF ReadsEnd
<1>2. RelayTyped /\ stream[t] \in Stream /\ stream \in [RelayTurn -> Stream] /\ note \in BOOLEAN
  BY RelayFacts DEF RelayInv
<1> HIDE DEF note
<1>3. PICK s : s = [stream[t] EXCEPT !.chunks = <<>>, !.at = "closing", !.note = note]
  OBVIOUS
<1>4. stream' = [stream EXCEPT ![t] = s]
  BY <1>1, <1>2, <1>3
<1>5. /\ s \in Stream /\ s.at = "closing" /\ s.final = stream[t].final /\ s.chunks = <<>>
  <2>1. <<>> \in Seq(Chunk)
    BY EmptySeq
  <2> QED
    BY <1>2, <1>3, <2>1 DEF Stream
<1>6. stream'[t] = s /\ \A u \in RelayTurn : u # t => stream'[u] = stream[u]
  BY <1>2, <1>4, <1>5, StreamSet
<1>7. DoneAt(t)' = {} /\ DoneRows(t)' = {}
  BY <1>5, <1>6, QueueEmptied
<1>8. HasPosted(t)' <=> HasPosted(t)
  BY <1>1, <1>5, <1>6 DEF HasPosted
<1>9. ArrivalOK'
  BY <1>1, <1>6, ArrivalRests, RelayConstants
<1>10. relayFaults' \in 0..MaxRelayFaults
  BY <1>1, <1>2, RelayFacts
<1> QED
  BY <1>1, <1>4, <1>5, <1>7, <1>8, <1>9, <1>10, ReaderMoves

\* The reply in an open stream's queue is its own, and is yet to be posted.
LEMMA ReplyFacts ==
  ASSUME RelayInv, NEW t \in RelayTurn, stream[t].at = "open", NEW i \in DoneAt(t),
         NEW row, row = stream[t].chunks[i].row
  PROVE  /\ row \in 1..written /\ row \in Row /\ row # 0 /\ posted[row] = 0 /\ ~Posting(row)
         /\ row \in Keeps(t) /\ Draft(t) = {} /\ stream[t].final = 0
         /\ ~(Taken(t) /\ ~serving.said)
         /\ \A u \in RelayTurn : u # t => row \notin Keeps(u)
<1>1. RelayTyped /\ StreamOK(t) /\ Apart
  BY DEF RelayInv
<1>2. row \in Awaits(t)
  BY DEF Awaits, DoneRows
<1>3. row \in Keeps(t) /\ row \in 1..written
  BY <1>1, <1>2 DEF Keeps, StreamOK
<1>4. row \in Row /\ row # 0
  BY <1>1, <1>3, RelayFacts
<1>5. posted[row] = 0 /\ ~Posting(row) /\ stream[t].final = 0 /\ ~Clean(t)
  BY <1>1, <1>2 DEF StreamOK, Clean
<1>6. ~(Taken(t) /\ ~serving.said)
  BY <1>1, <1>5 DEF StreamOK
<1> QED
  BY <1>1, <1>3, <1>4, <1>5, <1>6 DEF Draft, Apart

\* The reader takes its reply, records it, and has it or gives it up.
LEMMA ReplyRead ==
  ASSUME RelayInv, NEW t \in RelayTurn, stream[t].at = "open", NEW i \in DoneAt(t),
         NEW row, row = stream[t].chunks[i].row,
         stream' \in [RelayTurn -> Stream], \A u \in RelayTurn : u # t => stream'[u] = stream[u],
         stream'[t].at = "open", DoneAt(t)' = {},
         t \in Served => t \in Served',
         UNCHANGED <<socket, written, pushed, serving, relay, inbox>>,
         produced' = produced \cup {row}, posted' \in [Row -> Nat],
         \A r \in Row : r # row => posted'[r] = posted[r],
         \/ stream'[t].final = row /\ posted'[row] = IF t = Arrival THEN 1 ELSE 0
         \/ stream'[t].final = 0 /\ posted'[row] = 0,
         relayFaults' \in 0..MaxRelayFaults, ArrivalOK'
  PROVE  RelayInv'
<1>1. RelayTyped /\ StreamOK(t) /\ EventsOK
  BY DEF RelayInv
<1>2. /\ row \in 1..written /\ row \in Row /\ row # 0 /\ posted[row] = 0 /\ ~Posting(row)
      /\ row \in Keeps(t) /\ Draft(t) = {} /\ stream[t].final = 0
      /\ ~(Taken(t) /\ ~serving.said)
      /\ \A u \in RelayTurn : u # t => row \notin Keeps(u)
  BY ReplyFacts
<1>3. (\A u \in RelayTurn : Taken(u)' <=> Taken(u)) /\ \A r : Posting(r)' <=> Posting(r)
  BY DEF Taken, Posting
<1>4. Draft(t)' = {} /\ DoneRows(t)' = {}
  BY <1>2, <1>3 DEF Draft, DoneRows
<1>5. Awaits(t)' = {} /\ Keeps(t)' = {stream'[t].final} \ {0}
  BY <1>4 DEF Awaits, Keeps
<1>6. Keeps(t)' \subseteq {row} /\ Keeps(t)' \subseteq Keeps(t) \cup Fresh
  BY <1>2, <1>5
<1>7. HasPosted(t)' <=> t = Arrival
  BY DEF HasPosted
<1>8. StreamOK(t)'
  <2>1. stream'[t].final # 0 =>
          /\ stream'[t].final \in produced' /\ ~Posting(row)' /\ stream'[t].final = row
          /\ posted'[stream'[t].final] = IF HasPosted(t)' THEN 1 ELSE 0
    BY <1>2, <1>3, <1>7
  <2>2. ~(stream'[t].at = "open" /\ ~Taken(t)' /\ t \notin Served')
    <3>1. ~Clean(t)
      BY DEF Clean
    <3> QED
      BY <1>1, <1>3, <3>1 DEF StreamOK
  <2>3. Keeps(t)' \subseteq 1..written'
    BY <1>2, <1>6
  <2> QED
    BY <1>2, <1>3, <1>5, <2>1, <2>2, <2>3 DEF StreamOK
<1>9. /\ written' \in Nat /\ written <= written' /\ written' = written
      /\ serving' \in [turn : RelayTurn, said : BOOLEAN, words : 0..MaxRelayRows,
                       held : 0..MaxRelayRows] \cup {Nothing}
  BY <1>1, RelayFacts
<1>10. (\A u \in RelayTurn : StreamOK(u)') /\ Apart'
  <2>1. ASSUME NEW u \in RelayTurn, u # t, NEW r \in Keeps(u)
        PROVE  posted'[r] = posted[r] /\ (Posting(r)' => Posting(r))
    <3>1. r \in Row /\ r # row
      BY <1>1, <1>2, <2>1, RelayFacts DEF StreamOK, RelayInv
    <3> QED
      BY <1>3, <3>1
  <2> QED
    BY <1>3, <1>6, <1>8, <1>9, <2>1, OneStream
<1>11. EventsOK'
  <2>1. /\ \A m, n \in DOMAIN inbox' : m < n => inbox'[m] < inbox'[n]
        /\ \A m \in DOMAIN inbox' : inbox'[m] <= pushed'
    BY <1>1 DEF EventsOK
  <2>2. relay.at = "posting" => relay.row # row /\ relay.row \in Row
    BY <1>1, <1>2, RelayFacts DEF Posting, EventsOK
  <2>3. relay'.at = "posting" =>
          /\ relay'.row \in 1..pushed' /\ relay'.row \notin produced' /\ posted'[relay'.row] = 0
          /\ \A m \in DOMAIN inbox' : relay'.row < inbox'[m]
    BY <1>1, <2>2 DEF EventsOK
  <2>4. posted'[row] <= 1 /\ row \in produced' /\ row <= written'
    BY <1>2, <1>9
  <2>5. ASSUME NEW r \in Row
        PROVE  /\ posted'[r] <= 1
               /\ posted'[r] # 0 =>
                    r <= written' /\ (r \in produced' \/ (r <= pushed' /\ \A m \in DOMAIN inbox' : inbox'[m] # r))
    <3>1. CASE r = row
      BY <2>4, <3>1
    <3>2. CASE r # row
      BY <1>1, <3>2 DEF EventsOK
    <3> QED
      BY <3>1, <3>2
  <2>6. produced' \subseteq 1..written'
    BY <1>1, <1>2 DEF EventsOK
  <2> QED
    BY <2>1, <2>3, <2>5, <2>6 DEF EventsOK
<1>12. StreamsFinite'
  BY FiniteStays
<1>13. RelayTyped'
  <2>1. /\ socket' \in {"up", "givenUp", "down"} /\ written' \in 0..MaxRelayRows /\ pushed' \in 0..written'
        /\ produced' \subseteq Row /\ inbox' \in Seq(Row)
        /\ relay' \in [at : {"arriving", "greeting", "waiting", "posting", "ended"}, row : 0..MaxRelayRows]
    BY <1>1, <1>2, RelayFacts
  <2> QED
    BY <1>9, <2>1, StaysTyped
<1> QED
  BY <1>10, <1>11, <1>12, <1>13 DEF RelayInv

\* A reply at the head of the queue is the only one.
LEMMA HeadReply ==
  ASSUME RelayInv, NEW t \in RelayTurn, stream[t].chunks # <<>>, Head(stream[t].chunks).is = "done"
  PROVE  1 \in DoneAt(t) /\ Head(stream[t].chunks) = stream[t].chunks[1]
         /\ (stream'[t].chunks = Tail(stream[t].chunks) => DoneAt(t)' = {} /\ (t \in Served => t \in Served'))
<1>1. RelayTyped /\ StreamOK(t)
  BY DEF RelayInv
<1>2. 1 \in DoneAt(t) /\ Head(stream[t].chunks) = stream[t].chunks[1]
  <2>1. /\ stream[t].chunks \in Seq(Chunk) /\ Len(stream[t].chunks) \in Nat
        /\ DOMAIN stream[t].chunks = 1..Len(stream[t].chunks)
    BY <1>1, StreamFacts
  <2>2. Head(stream[t].chunks) = stream[t].chunks[1] /\ 1 \in DOMAIN stream[t].chunks
    BY <2>1, HeadTailProperties, EmptySeq
  <2> QED
    BY <2>2 DEF DoneAt
<1>3. ASSUME stream'[t].chunks = Tail(stream[t].chunks) PROVE DoneAt(t)' = {} /\ (t \in Served => t \in Served')
  <2>1. /\ \A i \in DoneAt(t)' : i \in Nat /\ i + 1 \in DoneAt(t)
        /\ Tail(stream[t].chunks) \in Seq(Chunk)
        /\ t \in Served' <=> t \in Served
    BY <1>1, <1>3, ChunkRead
  <2>2. DOMAIN stream'[t].chunks = 1..Len(stream'[t].chunks)
    BY <1>3, <2>1, LenProperties
  <2>3. ASSUME NEW i \in DoneAt(t)' PROVE FALSE
    <3>1. i + 1 = 1
      BY <1>1, <1>2, <2>1 DEF StreamOK
    <3>2. i \in 1..Len(stream'[t].chunks)
      BY <2>2 DEF DoneAt
    <3> QED
      BY <2>1, <3>1, <3>2
  <2> QED
    BY <2>1, <2>3
<1> QED
  BY <1>2, <1>3

LEMMA ReadsDoneKeeps ==
  ASSUME RelayInv, NEW t \in RelayTurn, ReadsDone(t)
  PROVE  RelayInv'
<1> DEFINE row == Head(stream[t].chunks).row
<1>1. /\ t # Arrival /\ stream[t].at = "open" /\ stream[t].chunks # <<>>
      /\ Head(stream[t].chunks).is = "done"
      /\ stream' = [stream EXCEPT ![t].chunks = Tail(stream[t].chunks), ![t].final = row]
      /\ produced' = produced \cup {row}
      /\ UNCHANGED <<socket, written, pushed, serving, relay, inbox, posted, relayFaults>>
  BY DEF ReadsDone, RecordProduced
<1>2. RelayTyped /\ StreamOK(t) /\ stream[t] \in Stream /\ stream \in [RelayTurn -> Stream]
  BY RelayFacts DEF RelayInv
<1>3. 1 \in DoneAt(t) /\ row = stream[t].chunks[1].row
  BY <1>1, HeadReply
<1> HIDE DEF row
<1>4. row \in Row /\ posted[row] = 0 /\ row \in 0..MaxRelayRows
  <2>1. row \in Row /\ posted[row] = 0
    BY <1>1, <1>3, ReplyFacts
  <2> QED
    BY <1>2, <2>1, RelayFacts
<1>5. PICK s : s = [stream[t] EXCEPT !.chunks = Tail(stream[t].chunks), !.final = row]
  OBVIOUS
<1>6. stream' = [stream EXCEPT ![t] = s]
  BY <1>1, <1>2, <1>5
<1>7. Tail(stream[t].chunks) \in Seq(Chunk)
  BY <1>1, <1>2, StreamFacts, HeadTailProperties
<1>8. s \in Stream /\ s.at = "open" /\ s.final = row /\ s.chunks = Tail(stream[t].chunks)
  BY <1>1, <1>2, <1>4, <1>5, <1>7 DEF Stream
<1>9. stream' \in [RelayTurn -> Stream] /\ stream'[t] = s
      /\ \A u \in RelayTurn : u # t => stream'[u] = stream[u]
  BY <1>2, <1>6, <1>8, StreamSet
<1>10. DoneAt(t)' = {} /\ (t \in Served => t \in Served')
  BY <1>1, <1>8, <1>9, HeadReply
<1>11. ArrivalOK'
  BY <1>1, <1>9, ArrivalRests, RelayConstants
<1>12. relayFaults' \in 0..MaxRelayFaults /\ posted' \in [Row -> Nat]
  BY <1>1, <1>2, RelayFacts
<1>13. stream'[t].final = row /\ posted'[row] = (IF t = Arrival THEN 1 ELSE 0)
       /\ stream'[t].at = "open" /\ \A r \in Row : posted'[r] = posted[r]
  BY <1>1, <1>4, <1>8, <1>9
<1> QED
  BY <1>1, <1>3, <1>9, <1>10, <1>11, <1>12, <1>13, ReplyRead

LEMMA GreetingReadsKeeps ==
  ASSUME RelayInv, GreetingReads
  PROVE  RelayInv'
<1> DEFINE row == Head(stream[Arrival].chunks).row
<1>1. /\ stream[Arrival].at = "open" /\ stream[Arrival].chunks # <<>>
      /\ Head(stream[Arrival].chunks).is = "done"
      /\ produced' = produced \cup {row}
      /\ UNCHANGED <<socket, written, pushed, serving, relay, inbox>>
      /\ \/ /\ posted' = [posted EXCEPT ![row] = posted[row] + 1] /\ relayFaults' = relayFaults
            /\ stream' = [stream EXCEPT ![Arrival].chunks = Tail(stream[Arrival].chunks), ![Arrival].final = row]
         \/ /\ Fails /\ posted' = posted
            /\ stream' = [stream EXCEPT ![Arrival].chunks = <<[is |-> "rejected", row |-> 0]>>]
  BY DEF GreetingReads, RecordProduced
<1>2. RelayTyped /\ Arrival \in RelayTurn /\ stream[Arrival] \in Stream
      /\ stream \in [RelayTurn -> Stream] /\ posted \in [Row -> Nat] /\ ArrivalOK
  BY RelayFacts DEF RelayInv
<1>3. 1 \in DoneAt(Arrival) /\ row = stream[Arrival].chunks[1].row
  BY <1>1, <1>2, HeadReply
<1> HIDE DEF row
<1>4. row \in Row /\ posted[row] = 0 /\ row \in 0..MaxRelayRows /\ stream[Arrival].final = 0
  <2>1. row \in Row /\ posted[row] = 0 /\ stream[Arrival].final = 0
    BY <1>1, <1>2, <1>3, ReplyFacts
  <2> QED
    BY <1>2, <2>1, RelayFacts
<1>5. relay' = relay /\ relayFaults' \in 0..MaxRelayFaults
  BY <1>1, <1>2, FailCounted, RelayFacts
<1>6. CASE /\ posted' = [posted EXCEPT ![row] = posted[row] + 1]
           /\ stream' = [stream EXCEPT ![Arrival].chunks = Tail(stream[Arrival].chunks), ![Arrival].final = row]
  <2>1. PICK s : s = [stream[Arrival] EXCEPT !.chunks = Tail(stream[Arrival].chunks), !.final = row]
    OBVIOUS
  <2>2. stream' = [stream EXCEPT ![Arrival] = s]
    BY <1>2, <1>6, <2>1
  <2>3. Tail(stream[Arrival].chunks) \in Seq(Chunk)
    BY <1>1, <1>2, StreamFacts, HeadTailProperties
  <2>4. s \in Stream /\ s.at = "open" /\ s.final = row /\ s.chunks = Tail(stream[Arrival].chunks)
    BY <1>1, <1>2, <1>4, <2>1, <2>3 DEF Stream
  <2>5. stream' \in [RelayTurn -> Stream] /\ stream'[Arrival] = s
        /\ \A u \in RelayTurn : u # Arrival => stream'[u] = stream[u]
    BY <1>2, <2>2, <2>4, StreamSet
  <2>6. DoneAt(Arrival)' = {} /\ (Arrival \in Served => Arrival \in Served')
    BY <1>1, <1>2, <2>4, <2>5, HeadReply
  <2>7. \A i \in DOMAIN stream'[Arrival].chunks : stream'[Arrival].chunks[i].is # "card"
    BY <1>1, <1>2, <2>4, <2>5, RestRead
  <2>8. ArrivalOK'
    BY <1>1, <1>2, <1>5, <2>4, <2>5, <2>7 DEF ArrivalOK
  <2>9. /\ posted' \in [Row -> Nat] /\ posted'[row] = 1
        /\ \A r \in Row : r # row => posted'[r] = posted[r]
    BY <1>2, <1>4, <1>6
  <2>10. stream'[Arrival].at = "open" /\ stream'[Arrival].final = row
    BY <2>4, <2>5
  <2> QED
    BY <1>1, <1>2, <1>3, <1>5, <2>5, <2>6, <2>8, <2>9, <2>10, ReplyRead
<1>7. CASE /\ posted' = posted
           /\ stream' = [stream EXCEPT ![Arrival].chunks = <<[is |-> "rejected", row |-> 0]>>]
  <2> DEFINE over == <<[is |-> "rejected", row |-> 0]>>
  <2>1. over \in Seq(Chunk) /\ 1 \in DOMAIN over /\ over[1].is = "rejected"
    <3>1. [is |-> "rejected", row |-> 0] \in Chunk
      BY RelayConstants DEF Chunk
    <3> QED
      BY <3>1
  <2>2. stream' = [stream EXCEPT ![Arrival].chunks = over]
    BY <1>7
  <2>3. PICK s : s = [stream[Arrival] EXCEPT !.chunks = over]
    OBVIOUS
  <2> HIDE DEF over
  <2>4. stream' = [stream EXCEPT ![Arrival] = s]
    BY <1>2, <2>2, <2>3
  <2>5. s \in Stream /\ s.at = "open" /\ s.final = 0 /\ s.chunks = over
    BY <1>1, <1>2, <1>4, <2>1, <2>3 DEF Stream
  <2>6. stream' \in [RelayTurn -> Stream] /\ stream'[Arrival] = s
        /\ \A u \in RelayTurn : u # Arrival => stream'[u] = stream[u]
    BY <1>2, <2>4, <2>5, StreamSet
  <2>7. /\ DoneAt(Arrival)' = {}
        /\ \A i \in DOMAIN stream'[Arrival].chunks : stream'[Arrival].chunks[i].is # "card"
    BY <2>5, <2>6, QueueEmptied DEF over
  <2>8. Arrival \in Served'
    BY <1>2, <2>1, <2>5, <2>6 DEF Served
  <2>9. ArrivalOK'
    BY <1>1, <1>2, <1>5, <2>5, <2>6, <2>7 DEF ArrivalOK
  <2>10. posted' \in [Row -> Nat] /\ posted'[row] = 0 /\ \A r \in Row : posted'[r] = posted[r]
    BY <1>2, <1>4, <1>7
  <2>11. stream'[Arrival].at = "open" /\ stream'[Arrival].final = 0
    BY <2>5, <2>6
  <2> QED
    BY <1>1, <1>2, <1>3, <1>5, <2>6, <2>7, <2>8, <2>9, <2>10, <2>11, ReplyRead
<1> QED
  BY <1>1, <1>6, <1>7

\* Nobody has a stream moved.
LEMMA NoneMoves ==
  ASSUME RelayInv, stream' = stream, serving' = serving, produced' = produced,
         written' \in Nat, written <= written', relay'.at = "arriving" => relay.at = "arriving",
         \A u \in RelayTurn : \A r \in Keeps(u) : posted'[r] = posted[r] /\ (Posting(r)' => Posting(r))
  PROVE  (\A u \in RelayTurn : StreamOK(u)') /\ Apart' /\ ArrivalOK' /\ StreamsFinite'
<1>1. RelayTyped /\ Apart /\ \A u \in RelayTurn : StreamOK(u)
  BY DEF RelayInv
<1>2. \A u \in RelayTurn : (Taken(u)' <=> Taken(u)) /\ stream'[u] = stream[u]
  BY DEF Taken
<1>3. \A u \in RelayTurn : StreamOK(u)' /\ Keeps(u)' = Keeps(u)
  BY <1>1, <1>2, StreamRests
<1>4. Apart'
  BY <1>1, <1>3 DEF Apart
<1>5. StreamsFinite'
  BY DEF RelayInv, StreamsFinite
<1> QED
  BY <1>3, <1>4, <1>5, ArrivalRests

\* runBackground is at another place.
LEMMA RelayAt ==
  ASSUME RelayTyped, NEW at \in {"arriving", "greeting", "waiting", "posting", "ended"},
         relay' = [relay EXCEPT !.at = at]
  PROVE  /\ relay' \in [at : {"arriving", "greeting", "waiting", "posting", "ended"}, row : 0..MaxRelayRows]
         /\ relay'.at = at /\ relay'.row = relay.row
<1>1. relay \in [at : {"arriving", "greeting", "waiting", "posting", "ended"}, row : 0..MaxRelayRows]
  BY RelayFacts
<1> QED
  BY <1>1

LEMMA SpeaksKeeps ==
  ASSUME RelayInv, Speaks
  PROVE  RelayInv'
<1>1. Writes /\ UNCHANGED <<socket, pushed, serving, stream, produced, relay, inbox, posted, relayFaults>>
  BY DEF Speaks
<1>2. RelayTyped
  BY DEF RelayInv
<1>3. written' \in 0..MaxRelayRows /\ written' \in Nat /\ written <= written' /\ pushed \in 0..written'
  BY <1>1, <1>2, RowCounted, RelayFacts
<1>4. \A r : Posting(r)' <=> Posting(r)
  BY <1>1 DEF Posting
<1>5. (\A u \in RelayTurn : StreamOK(u)') /\ Apart' /\ ArrivalOK' /\ StreamsFinite'
  BY <1>1, <1>3, <1>4, NoneMoves
<1>6. EventsOK'
  BY <1>1, <1>3, EventsRest
<1>7. RelayTyped'
  BY <1>1, <1>2, <1>3, StaysTyped, RelayFacts
<1> QED
  BY <1>5, <1>6, <1>7 DEF RelayInv

LEMMA PushesKeeps ==
  ASSUME RelayInv, Pushes
  PROVE  RelayInv'
<1>1. /\ pushed < written /\ pushed' = pushed + 1
      /\ inbox' = inbox \/ inbox' = Append(inbox, pushed + 1)
      /\ UNCHANGED <<socket, written, serving, stream, produced, relay, posted, relayFaults>>
  BY DEF Pushes
<1>2. RelayTyped /\ EventsOK
  BY DEF RelayInv
<1>3. /\ pushed \in Nat /\ written \in Nat /\ written <= MaxRelayRows /\ Row = 1..MaxRelayRows
      /\ inbox \in Seq(Row) /\ MaxRelayRows \in Nat
  BY <1>2, RelayFacts
<1>4. pushed' \in 0..written /\ pushed + 1 \in Row
  BY <1>1, <1>3
<1>5. \A r : Posting(r)' <=> Posting(r)
  BY <1>1 DEF Posting
<1>6. (\A u \in RelayTurn : StreamOK(u)') /\ Apart' /\ ArrivalOK' /\ StreamsFinite'
  BY <1>1, <1>3, <1>5, NoneMoves
<1>7. inbox' \in Seq(Row)
  <2>1. Append(inbox, pushed + 1) \in Seq(Row)
    BY <1>3, <1>4, AppendProperties
  <2>2. inbox' = inbox \/ inbox' = Append(inbox, pushed + 1)
    BY <1>1
  <2>3. inbox \in Seq(Row)
    BY <1>3
  <2> QED
    BY <2>1, <2>2, <2>3
<1>8. RelayTyped'
  <2>1. /\ stream' \in [RelayTurn -> Stream] /\ socket' \in {"up", "givenUp", "down"}
        /\ written' \in 0..MaxRelayRows /\ pushed' \in 0..written'
        /\ serving' \in [turn : RelayTurn, said : BOOLEAN, words : 0..MaxRelayRows,
                         held : 0..MaxRelayRows] \cup {Nothing}
        /\ produced' \subseteq Row /\ posted' \in [Row -> Nat] /\ relayFaults' \in 0..MaxRelayFaults
        /\ relay' \in [at : {"arriving", "greeting", "waiting", "posting", "ended"}, row : 0..MaxRelayRows]
    BY <1>1, <1>2, <1>3, <1>4, RelayFacts
  <2> QED
    BY <1>7, <2>1, StaysTyped
<1>9. EventsOK'
  <2>1. /\ \A i \in DOMAIN inbox : inbox[i] \in Nat /\ inbox[i] <= pushed
        /\ DOMAIN inbox = 1..Len(inbox) /\ Len(inbox) \in Nat
    BY <1>2, <1>3, LenProperties DEF EventsOK
  <2>2. \A i \in DOMAIN inbox' :
          \/ i \in DOMAIN inbox /\ inbox'[i] = inbox[i]
          \/ /\ inbox'[i] = pushed + 1 /\ i = Len(inbox) + 1
             /\ inbox' = Append(inbox, pushed + 1)
    <3>1. CASE inbox' = inbox
      BY <3>1
    <3>2. CASE inbox' = Append(inbox, pushed + 1)
      <4>1. /\ \A i \in 1..Len(inbox) : Append(inbox, pushed + 1)[i] = inbox[i]
            /\ Append(inbox, pushed + 1)[Len(inbox) + 1] = pushed + 1
            /\ Append(inbox, pushed + 1) \in Seq(Row)
            /\ Len(Append(inbox, pushed + 1)) = Len(inbox) + 1
        BY <1>3, <1>4, AppendProperties
      <4>2. DOMAIN inbox' = 1..(Len(inbox) + 1)
        BY <3>2, <4>1, LenProperties
      <4> QED
        BY <2>1, <3>2, <4>1, <4>2
    <3> QED
      BY <1>1, <3>1, <3>2
  <2>3. ASSUME NEW i \in DOMAIN inbox', NEW j \in DOMAIN inbox', i < j PROVE inbox'[i] < inbox'[j]
    <3>1. i \in DOMAIN inbox /\ inbox'[i] = inbox[i]
      BY <2>1, <2>2, <2>3
    <3>2. CASE j \in DOMAIN inbox /\ inbox'[j] = inbox[j]
      BY <1>2, <2>3, <3>1, <3>2 DEF EventsOK
    <3>3. CASE inbox'[j] = pushed + 1
      BY <1>3, <2>1, <3>1, <3>3
    <3> QED
      BY <2>2, <3>2, <3>3
  <2>4. \A i \in DOMAIN inbox' : inbox'[i] <= pushed'
    BY <1>1, <1>3, <2>1, <2>2
  <2>5. ASSUME relay'.at = "posting"
        PROVE  /\ relay'.row \in 1..pushed' /\ relay'.row \notin produced' /\ posted'[relay'.row] = 0
               /\ \A i \in DOMAIN inbox' : relay'.row < inbox'[i]
    <3>1. /\ relay.row \in 1..pushed /\ relay.row \notin produced /\ posted[relay.row] = 0
          /\ \A i \in DOMAIN inbox : relay.row < inbox[i]
      BY <1>1, <1>2, <2>5 DEF EventsOK
    <3> QED
      BY <1>1, <1>3, <2>2, <3>1
  <2>6. ASSUME NEW r \in Row, posted'[r] # 0, r \notin produced'
        PROVE  r <= pushed' /\ \A i \in DOMAIN inbox' : inbox'[i] # r
    <3>1. r <= pushed /\ \A i \in DOMAIN inbox : inbox[i] # r
      BY <1>1, <1>2, <2>6 DEF EventsOK
    <3> QED
      BY <1>1, <1>3, <2>2, <3>1
  <2>7. (\A r \in Row : posted'[r] <= 1 /\ (posted'[r] # 0 => r <= written')) /\ produced' \subseteq 1..written'
    BY <1>1, <1>2 DEF EventsOK
  <2> QED
    BY <2>3, <2>4, <2>5, <2>6, <2>7 DEF EventsOK
<1> QED
  BY <1>6, <1>8, <1>9 DEF RelayInv

LEMMA GivenUpKeeps ==
  ASSUME RelayInv, GivenUp
  PROVE  RelayInv'
<1>1. /\ socket' = "givenUp" /\ inbox' = <<>>
      /\ relay' = IF relay.at = "waiting" THEN [relay EXCEPT !.at = "ended"] ELSE relay
      /\ UNCHANGED <<written, pushed, serving, stream, produced, posted, relayFaults>>
  BY DEF GivenUp
<1>2. RelayTyped
  BY DEF RelayInv
<1>3. /\ relay' \in [at : {"arriving", "greeting", "waiting", "posting", "ended"}, row : 0..MaxRelayRows]
      /\ relay' = relay \/ relay'.at = "ended"
  BY <1>1, <1>2, RelayAt, RelayFacts
<1>4. \A r : Posting(r)' => Posting(r)
  BY <1>3 DEF Posting
<1>5. /\ written' \in Nat /\ written <= written' /\ inbox' \in Seq(Row) /\ written' \in 0..MaxRelayRows
      /\ pushed' \in 0..written'
  BY <1>1, <1>2, RelayFacts, EmptySeq
<1>6. (\A u \in RelayTurn : StreamOK(u)') /\ Apart' /\ ArrivalOK' /\ StreamsFinite'
  BY <1>1, <1>3, <1>4, <1>5, NoneMoves
<1>7. EventsOK'
  BY <1>1, <1>3, <1>5, EventsRest
<1>8. RelayTyped'
  BY <1>1, <1>2, <1>3, <1>5, StaysTyped, RelayFacts
<1> QED
  BY <1>6, <1>7, <1>8 DEF RelayInv

\* Streams are open only while turnDepth counts them.
LEMMA NoneOpen ==
  ASSUME RelayInv, ~(TurnDepth > 0), NEW t \in RelayTurn
  PROVE  stream[t].at # "open"
<1> DEFINE S == {u \in RelayTurn : stream[u].at \in {"open", "unsent"}}
<1>1. IsFiniteSet(S)
  <2>1. S \subseteq {u \in RelayTurn : stream[u].at # "idle"}
    OBVIOUS
  <2> QED
    BY <2>1, FS_Subset DEF RelayInv, StreamsFinite
<1>2. Cardinality(S) \in Nat /\ (Cardinality(S) = 0 => S = {})
  BY <1>1, FS_CardinalityType, FS_EmptySet
<1>3. ~(Cardinality(S) > 0)
  BY DEF TurnDepth
<1>4. S = {}
  BY <1>2, <1>3
<1> QED
  BY <1>4

LEMMA TakesKeeps ==
  ASSUME RelayInv, Takes
  PROVE  RelayInv'
<1> DEFINE row == Head(inbox)
<1>1. /\ relay.at = "waiting" /\ inbox # <<>> /\ inbox' = Tail(inbox)
      /\ relay' = IF Suppressed(row) THEN relay ELSE [at |-> "posting", row |-> row]
      /\ UNCHANGED <<socket, written, pushed, serving, stream, produced, posted, relayFaults>>
  BY DEF Takes
<1>2. RelayTyped /\ EventsOK /\ \A u \in RelayTurn : StreamOK(u)
  BY DEF RelayInv
<1>3. /\ pushed \in Nat /\ written \in Nat /\ pushed <= written /\ written <= MaxRelayRows
      /\ Row = 1..MaxRelayRows /\ inbox \in Seq(Row) /\ MaxRelayRows \in Nat
  BY <1>2, RelayFacts
<1>4. /\ inbox' \in Seq(Row) /\ row \in Row /\ row = inbox[1] /\ 1 \in DOMAIN inbox
      /\ \A i \in DOMAIN inbox' : i \in Nat /\ 1 < i + 1 /\ i + 1 \in DOMAIN inbox /\ inbox'[i] = inbox[i + 1]
  <2>1. /\ inbox' \in Seq(Row) /\ row = inbox[1] /\ row \in Row /\ Len(inbox') = Len(inbox) - 1
        /\ \A i \in 1..(Len(inbox) - 1) : inbox'[i] = inbox[i + 1]
        /\ Len(inbox) \in Nat /\ DOMAIN inbox = 1..Len(inbox) /\ Len(inbox) # 0
    BY <1>1, <1>3, HeadTailProperties, EmptySeq, LenProperties
  <2>2. DOMAIN inbox' = 1..(Len(inbox) - 1)
    BY <2>1, LenProperties
  <2> QED
    BY <2>1, <2>2
<1> HIDE DEF row
<1>5. row \in 1..pushed
  BY <1>2, <1>3, <1>4 DEF EventsOK
<1>6. /\ relay' \in [at : {"arriving", "greeting", "waiting", "posting", "ended"}, row : 0..MaxRelayRows]
      /\ \/ relay' = relay
         \/ relay'.at = "posting" /\ relay'.row = row /\ ~Suppressed(row)
  <2>1. CASE relay' = relay
    BY <1>2, <2>1, RelayFacts
  <2>2. CASE relay' = [at |-> "posting", row |-> row] /\ ~Suppressed(row)
    BY <1>3, <1>4, <2>2
  <2> QED
    BY <1>1, <2>1, <2>2
<1>7. ASSUME NEW u \in RelayTurn, NEW r \in Keeps(u)
      PROVE  posted'[r] = posted[r] /\ (Posting(r)' => Posting(r))
  <2>1. CASE relay' = relay
    BY <1>1, <2>1 DEF Posting
  <2>2. CASE relay'.at = "posting" /\ relay'.row = row /\ ~Suppressed(row)
    <3>1. row \notin produced /\ ~(TurnDepth > 0)
      BY <2>2 DEF Suppressed
    <3>2. stream[u].at # "open"
      BY <3>1, NoneOpen
    <3>3. r = stream[u].final /\ stream[u].final # 0
      BY <1>7, <3>2 DEF Keeps, Awaits
    <3>4. r \in produced
      BY <1>2, <3>3 DEF StreamOK
    <3> QED
      BY <1>1, <2>2, <3>1, <3>4 DEF Posting
  <2> QED
    BY <1>6, <2>1, <2>2
<1>8. (\A u \in RelayTurn : StreamOK(u)') /\ Apart' /\ ArrivalOK' /\ StreamsFinite'
  <2>1. relay'.at # "arriving"
    BY <1>1, <1>6
  <2> QED
    BY <1>1, <1>3, <1>7, <2>1, NoneMoves
<1>9. RelayTyped'
  <2>1. /\ stream' \in [RelayTurn -> Stream] /\ socket' \in {"up", "givenUp", "down"}
        /\ written' \in 0..MaxRelayRows /\ pushed' \in 0..written'
        /\ serving' \in [turn : RelayTurn, said : BOOLEAN, words : 0..MaxRelayRows,
                         held : 0..MaxRelayRows] \cup {Nothing}
        /\ produced' \subseteq Row /\ posted' \in [Row -> Nat] /\ relayFaults' \in 0..MaxRelayFaults
    BY <1>1, <1>2, <1>3, RelayFacts
  <2> QED
    BY <1>4, <1>6, <2>1, StaysTyped
<1>10. EventsOK'
  <2>0. \A i \in DOMAIN inbox : inbox[i] \in Nat /\ i \in Nat
    BY <1>3, LenProperties
  <2>1. ASSUME NEW i \in DOMAIN inbox', NEW j \in DOMAIN inbox', i < j PROVE inbox'[i] < inbox'[j]
    <3>1. i + 1 < j + 1
      BY <1>4, <2>1
    <3> QED
      BY <1>2, <1>4, <3>1 DEF EventsOK
  <2>2. \A i \in DOMAIN inbox' : inbox'[i] <= pushed' /\ row < inbox'[i]
    BY <1>1, <1>2, <1>4 DEF EventsOK
  <2>3. ASSUME relay'.at = "posting"
        PROVE  relay'.row \in 1..pushed' /\ relay'.row \notin produced' /\ posted'[relay'.row] = 0
               /\ \A i \in DOMAIN inbox' : relay'.row < inbox'[i]
    <3>1. relay'.row = row /\ row \notin produced
      BY <1>1, <1>6, <2>3 DEF Suppressed
    <3>2. posted[row] = 0
      BY <1>2, <1>4, <3>1 DEF EventsOK
    <3> QED
      BY <1>1, <1>5, <2>2, <3>1, <3>2
  <2>4. ASSUME NEW r \in Row, posted'[r] # 0, r \notin produced'
        PROVE  r <= pushed' /\ \A i \in DOMAIN inbox' : inbox'[i] # r
    <3>1. r <= pushed /\ \A i \in DOMAIN inbox : inbox[i] # r
      BY <1>1, <1>2, <2>4 DEF EventsOK
    <3> QED
      BY <1>1, <1>4, <3>1
  <2>5. (\A r \in Row : posted'[r] <= 1 /\ (posted'[r] # 0 => r <= written')) /\ produced' \subseteq 1..written'
    BY <1>1, <1>2 DEF EventsOK
  <2> QED
    BY <2>1, <2>2, <2>3, <2>4, <2>5 DEF EventsOK
<1> QED
  BY <1>8, <1>9, <1>10 DEF RelayInv

LEMMA ForwardsKeeps ==
  ASSUME RelayInv, Forwards
  PROVE  RelayInv'
<1>1. /\ relay.at = "posting"
      /\ \/ /\ posted' = [posted EXCEPT ![relay.row] = posted[relay.row] + 1]
            /\ relay' = [relay EXCEPT !.at = IF socket = "up" THEN "waiting" ELSE "ended"]
            /\ inbox' = inbox /\ relayFaults' = relayFaults
         \/ /\ Fails /\ posted' = posted
            /\ relay' = [relay EXCEPT !.at = "ended"] /\ inbox' = <<>>
      /\ UNCHANGED <<socket, written, pushed, serving, stream, produced>>
  BY DEF Forwards
<1>2. RelayTyped /\ EventsOK /\ \A u \in RelayTurn : StreamOK(u)
  BY DEF RelayInv
<1>3. /\ relay.row \in 1..pushed /\ relay.row \notin produced /\ posted[relay.row] = 0
      /\ \A i \in DOMAIN inbox : relay.row < inbox[i]
  BY <1>1, <1>2 DEF EventsOK
<1>4. /\ relay.row \in Row /\ pushed \in Nat /\ written \in Nat /\ pushed <= written
      /\ written <= MaxRelayRows /\ MaxRelayRows \in Nat /\ Row = 1..MaxRelayRows
      /\ posted \in [Row -> Nat] /\ inbox \in Seq(Row)
  BY <1>2, <1>3, RelayFacts
<1>5. /\ relay' \in [at : {"arriving", "greeting", "waiting", "posting", "ended"}, row : 0..MaxRelayRows]
      /\ relay'.at # "arriving" /\ relay'.at # "posting"
  BY <1>1, <1>2, RelayAt
<1>6. ASSUME NEW u \in RelayTurn, NEW r \in Keeps(u) PROVE r # relay.row
  <2>1. CASE r \in Awaits(u)
    BY <1>1, <1>2, <2>1 DEF StreamOK, Posting
  <2>2. CASE r = stream[u].final /\ r # 0
    BY <1>2, <1>3, <2>2 DEF StreamOK
  <2> QED
    BY <1>6, <2>1, <2>2 DEF Keeps
<1>7. relayFaults' \in 0..MaxRelayFaults /\ inbox' \in Seq(Row)
  BY ZenonT(30), <1>1, <1>2, <1>4, FailCounted, EmptySeq, RelayFacts
<1>8. /\ posted' \in [Row -> Nat] /\ \A r \in Row : r # relay.row => posted'[r] = posted[r]
      /\ posted'[relay.row] <= 1
  BY SMTT(30), <1>1, <1>3, <1>4
<1>9. (\A u \in RelayTurn : StreamOK(u)') /\ Apart' /\ ArrivalOK' /\ StreamsFinite'
  <2>1. ASSUME NEW u \in RelayTurn, NEW r \in Keeps(u)
        PROVE  posted'[r] = posted[r] /\ (Posting(r)' => Posting(r))
    <3>1. r \in Row /\ r # relay.row
      BY <1>2, <1>4, <1>6 DEF StreamOK
    <3> QED
      BY <1>5, <1>8, <3>1 DEF Posting
  <2> QED
    BY <1>1, <1>4, <1>5, <2>1, NoneMoves
<1>10. RelayTyped'
  <2>1. /\ stream' \in [RelayTurn -> Stream] /\ socket' \in {"up", "givenUp", "down"}
        /\ written' \in 0..MaxRelayRows /\ pushed' \in 0..written'
        /\ serving' \in [turn : RelayTurn, said : BOOLEAN, words : 0..MaxRelayRows,
                         held : 0..MaxRelayRows] \cup {Nothing}
        /\ produced' \subseteq Row
    BY <1>1, <1>2, <1>4, RelayFacts
  <2> QED
    BY <1>5, <1>7, <1>8, <2>1, StaysTyped
<1>11. EventsOK'
  <2>1. CASE posted' = posted
    <3>1. inbox' = inbox \/ inbox' = <<>>
      BY <1>1
    <3> QED
      BY <1>1, <1>4, <1>5, <2>1, <3>1, EventsRest
  <2>2. CASE inbox' = inbox
    <3>1. ASSUME NEW r \in Row
          PROVE  /\ posted'[r] <= 1
                 /\ posted'[r] # 0 =>
                      r <= written' /\ (r \in produced' \/ (r <= pushed' /\ \A i \in DOMAIN inbox' : inbox'[i] # r))
      <4>1. CASE r = relay.row
        <5>1. r <= pushed /\ r <= written
          BY <1>3, <1>4, <4>1
        <5>2. \A i \in DOMAIN inbox : inbox[i] # r
          BY <1>3, <1>4, <4>1
        <5> QED
          BY <1>1, <1>8, <2>2, <4>1, <5>1, <5>2
      <4>2. CASE r # relay.row
        <5>1. posted'[r] = posted[r]
          BY <1>8, <4>2
        <5> QED
          BY <1>1, <1>2, <2>2, <5>1 DEF EventsOK
      <4> QED
        BY <4>1, <4>2
    <3> QED
      BY <1>1, <1>2, <1>5, <2>2, <3>1 DEF EventsOK
  <2> QED
    BY <1>1, <2>1, <2>2
<1> QED
  BY <1>9, <1>10, <1>11 DEF RelayInv

LEMMA ArrivesKeeps ==
  ASSUME RelayInv, Arrives
  PROVE  RelayInv'
<1>1. /\ relay.at = "arriving"
      /\ \/ /\ relay' = [relay EXCEPT !.at = "greeting"]
            /\ stream' = [stream EXCEPT ![Arrival].at = "open"]
         \/ relay' = [relay EXCEPT !.at = "waiting"] /\ stream' = stream
      /\ UNCHANGED <<socket, written, pushed, serving, produced, inbox, posted, relayFaults>>
  BY DEF Arrives
<1>2. RelayTyped /\ ArrivalOK /\ Arrival \in RelayTurn /\ StreamOK(Arrival)
  BY RelayFacts DEF RelayInv
<1>3. /\ relay' \in [at : {"arriving", "greeting", "waiting", "posting", "ended"}, row : 0..MaxRelayRows]
      /\ relay'.at # "arriving" /\ relay'.at # "posting"
  BY <1>1, <1>2, RelayAt
<1>4. \A r : Posting(r)' => Posting(r)
  BY <1>3 DEF Posting
<1>5. written' \in Nat /\ written <= written'
  BY <1>1, <1>2, RelayFacts
<1>6. /\ stream' \in [RelayTurn -> Stream]
      /\ (\A u \in RelayTurn : StreamOK(u)') /\ Apart' /\ ArrivalOK' /\ StreamsFinite'
  <2>1. CASE stream' = [stream EXCEPT ![Arrival].at = "open"]
    <3>1. stream[Arrival].chunks = <<>> /\ stream[Arrival].final = 0 /\ ~Taken(Arrival)
      BY <1>1, <1>2 DEF StreamOK, ArrivalOK
    <3>2. /\ stream' \in [RelayTurn -> Stream]
          /\ \A u \in RelayTurn : u # Arrival => stream'[u] = stream[u]
          /\ stream'[Arrival].chunks = <<>> /\ stream'[Arrival].final = 0
          /\ stream'[Arrival].at = "open"
      BY <1>2, <2>1, <3>1, StreamAt
    <3>3. \A u \in RelayTurn : Taken(u)' <=> Taken(u)
      BY <1>1 DEF Taken
    <3>4. StreamOK(Arrival)' /\ Keeps(Arrival)' = {}
      BY <1>2, <3>1, <3>2, <3>3, EmptyOK
    <3>5. (\A u \in RelayTurn : StreamOK(u)') /\ Apart'
      BY <1>1, <1>2, <1>4, <1>5, <3>2, <3>3, <3>4, OneStream
    <3>6. StreamsFinite'
      BY <1>2, <3>2, FiniteStays
    <3>7. ArrivalOK'
      BY <1>3, <3>2 DEF ArrivalOK
    <3> QED
      BY <3>2, <3>5, <3>6, <3>7
  <2>2. CASE stream' = stream
    <3>1. (\A u \in RelayTurn : StreamOK(u)') /\ Apart' /\ ArrivalOK' /\ StreamsFinite'
      BY <1>1, <1>3, <1>4, <1>5, <2>2, NoneMoves
    <3> QED
      BY <1>2, <2>2, <3>1, RelayFacts
  <2> QED
    BY <1>1, <2>1, <2>2
<1>7. EventsOK'
  BY <1>1, <1>3, <1>5, EventsRest
<1>8. RelayTyped'
  <2>1. /\ socket' \in {"up", "givenUp", "down"}
        /\ written' \in 0..MaxRelayRows /\ pushed' \in 0..written'
        /\ serving' \in [turn : RelayTurn, said : BOOLEAN, words : 0..MaxRelayRows,
                         held : 0..MaxRelayRows] \cup {Nothing}
        /\ produced' \subseteq Row /\ posted' \in [Row -> Nat] /\ inbox' \in Seq(Row)
        /\ relayFaults' \in 0..MaxRelayFaults
    BY <1>1, <1>2, RelayFacts
  <2> QED
    BY <1>3, <1>6, <2>1, StaysTyped
<1> QED
  BY <1>6, <1>7, <1>8 DEF RelayInv

LEMMA GreetingEndsKeeps ==
  ASSUME RelayInv, GreetingEnds
  PROVE  RelayInv'
<1>1. /\ stream[Arrival].at = "open"
      /\ stream' = [stream EXCEPT ![Arrival].chunks = <<>>, ![Arrival].at = "answered"]
      /\ relay' = [relay EXCEPT !.at = IF socket = "up" THEN "waiting" ELSE "ended"]
      /\ UNCHANGED <<socket, written, pushed, serving, produced, inbox, posted, relayFaults>>
  BY DEF GreetingEnds
<1>2. RelayTyped /\ Arrival \in RelayTurn /\ StreamOK(Arrival) /\ stream[Arrival] \in Stream
      /\ stream \in [RelayTurn -> Stream]
  BY RelayFacts DEF RelayInv
<1>3. /\ relay' \in [at : {"arriving", "greeting", "waiting", "posting", "ended"}, row : 0..MaxRelayRows]
      /\ relay'.at # "arriving" /\ relay'.at # "posting"
  BY <1>1, <1>2, RelayAt
<1>4. PICK s : s = [stream[Arrival] EXCEPT !.chunks = <<>>, !.at = "answered"]
  OBVIOUS
<1>5. stream' = [stream EXCEPT ![Arrival] = s]
  BY <1>1, <1>2, <1>4
<1>6. s \in Stream /\ s.at = "answered" /\ s.final = stream[Arrival].final /\ s.chunks = <<>>
  <2>1. <<>> \in Seq(Chunk)
    BY EmptySeq
  <2> QED
    BY <1>2, <1>4, <2>1 DEF Stream
<1>7. stream' \in [RelayTurn -> Stream] /\ stream'[Arrival] = s
      /\ \A u \in RelayTurn : u # Arrival => stream'[u] = stream[u]
  BY <1>2, <1>5, <1>6, StreamSet
<1>8. /\ DoneAt(Arrival)' = {} /\ DoneRows(Arrival)' = {}
      /\ \A i \in DOMAIN stream'[Arrival].chunks : stream'[Arrival].chunks[i].is # "card"
  BY <1>6, <1>7, QueueEmptied
<1>9. (\A u \in RelayTurn : Taken(u)' <=> Taken(u)) /\ \A r : Posting(r)' => Posting(r)
  BY <1>1, <1>3 DEF Taken, Posting
<1>10. (HasPosted(Arrival)' <=> HasPosted(Arrival)) /\ (Taken(Arrival)' /\ ~serving'.said => Clean(Arrival))
  BY <1>1, <1>2, <1>9 DEF HasPosted, StreamOK
<1>11. written' \in Nat /\ written <= written' /\ written' <= MaxRelayRows
  BY <1>1, <1>2, RelayFacts
<1>12. StreamOK(Arrival)' /\ Keeps(Arrival)' \subseteq Keeps(Arrival) \cup Fresh
  BY <1>1, <1>2, <1>6, <1>7, <1>8, <1>9, <1>10, <1>11, GoesOn
<1>13. (\A u \in RelayTurn : StreamOK(u)') /\ Apart'
  BY <1>1, <1>2, <1>7, <1>9, <1>11, <1>12, OneStream
<1>14. ArrivalOK'
  BY <1>3, <1>6, <1>7, <1>8 DEF ArrivalOK
<1>15. EventsOK' /\ StreamsFinite'
  BY <1>1, <1>2, <1>3, <1>7, <1>11, EventsRest, FiniteStays
<1>16. RelayTyped'
  <2>1. /\ socket' \in {"up", "givenUp", "down"}
        /\ written' \in 0..MaxRelayRows /\ pushed' \in 0..written'
        /\ serving' \in [turn : RelayTurn, said : BOOLEAN, words : 0..MaxRelayRows,
                         held : 0..MaxRelayRows] \cup {Nothing}
        /\ produced' \subseteq Row /\ posted' \in [Row -> Nat] /\ inbox' \in Seq(Row)
        /\ relayFaults' \in 0..MaxRelayFaults
    BY <1>1, <1>2, RelayFacts
  <2> QED
    BY <1>3, <1>7, <2>1, StaysTyped
<1> QED
  BY <1>13, <1>14, <1>15, <1>16 DEF RelayInv

LEMMA AnswersKeeps ==
  ASSUME RelayInv, NEW t \in RelayTurn, Answers(t)
  PROVE  RelayInv'
<1> DEFINE row == stream[t].final
<1>1. /\ stream[t].at = "closing"
      /\ \/ /\ stream' = [stream EXCEPT ![t].at = "answered"]
            /\ posted' = IF RendersWords(t) THEN [posted EXCEPT ![row] = posted[row] + 1] ELSE posted
            /\ relayFaults' = relayFaults
         \/ /\ Fails /\ posted' = posted
            /\ stream' = [stream EXCEPT ![t].at = "failed"]
      /\ UNCHANGED <<socket, written, pushed, serving, produced, relay, inbox>>
  BY DEF Answers
<1>2. RelayTyped /\ StreamOK(t) /\ ArrivalOK /\ EventsOK /\ Apart /\ \A u \in RelayTurn : StreamOK(u)
  BY DEF RelayInv
<1>3. /\ Row = 1..MaxRelayRows /\ written \in Nat /\ written <= MaxRelayRows /\ MaxRelayRows \in Nat
      /\ posted \in [Row -> Nat]
  BY <1>2, RelayFacts
<1>4. t # Arrival
  BY <1>1, <1>2 DEF ArrivalOK
<1>5. row # 0 => /\ row \in Row /\ row \in 1..written /\ row \in Keeps(t) /\ row \in produced
                 /\ posted[row] = 0 /\ ~Posting(row)
  <2>1. ~HasPosted(t)
    BY <1>1, <1>4 DEF HasPosted
  <2>2. row # 0 => row \in Keeps(t) /\ row \in 1..written
    BY <1>2 DEF Keeps, StreamOK
  <2> QED
    BY <1>2, <1>3, <2>1, <2>2 DEF StreamOK
<1>6. PICK at \in {"idle", "marking", "unsent", "open", "closing", "answered", "failed"} :
        /\ stream' = [stream EXCEPT ![t].at = at] /\ at \in {"answered", "failed"}
        /\ \/ at = "answered" /\ posted' = (IF RendersWords(t) THEN [posted EXCEPT ![row] = posted[row] + 1] ELSE posted)
           \/ at = "failed" /\ posted' = posted
  BY <1>1
<1>7. /\ stream' \in [RelayTurn -> Stream] /\ \A u \in RelayTurn : u # t => stream'[u] = stream[u]
      /\ stream'[t].at = at /\ stream'[t].chunks = stream[t].chunks
      /\ stream'[t].final = row /\ stream'[t].cards = stream[t].cards
      /\ stream'[t].note = stream[t].note
  BY <1>2, <1>6, StreamAt
<1>8. relayFaults' \in 0..MaxRelayFaults
  BY <1>1, <1>2, FailCounted, RelayFacts
<1>9. (\A u \in RelayTurn : Taken(u)' <=> Taken(u)) /\ \A r : Posting(r)' <=> Posting(r)
  BY <1>1 DEF Taken, Posting
<1>10. RendersWords(t)' <=> RendersWords(t)
  BY <1>7 DEF RendersWords
<1>11. RendersWords(t) => row # 0
  BY DEF RendersWords
<1>12. HasPosted(t)' <=> at = "answered" /\ RendersWords(t)
  BY <1>4, <1>7, <1>10 DEF HasPosted
<1>13. /\ posted' \in [Row -> Nat] /\ \A r \in Row : r # row => posted'[r] = posted[r]
       /\ row # 0 => posted'[row] = IF HasPosted(t)' THEN 1 ELSE 0
       /\ row # 0 \/ posted' = posted
  <2>1. CASE at = "answered" /\ RendersWords(t)
    BY <1>3, <1>5, <1>6, <1>11, <1>12, <2>1
  <2>2. CASE ~(at = "answered" /\ RendersWords(t))
    BY <1>3, <1>5, <1>6, <1>12, <2>2
  <2> QED
    BY <2>1, <2>2
<1>14. DoneAt(t)' = DoneAt(t)
  BY <1>7 DEF DoneAt
<1>15. Awaits(t)' = {} /\ Keeps(t)' = {row} \ {0} /\ Keeps(t)' \subseteq Keeps(t)
  BY <1>1, <1>6, <1>7 DEF Awaits, Keeps
<1> HIDE DEF row
<1>16. StreamOK(t)'
  <2>1. Clean(t)' <=> Clean(t)
    BY <1>7, <1>14 DEF Clean, row
  <2>2. stream'[t].final # 0 =>
          /\ stream'[t].final \in produced'
          /\ ~(relay'.at = "posting" /\ relay'.row = stream'[t].final)
          /\ posted'[stream'[t].final] = IF HasPosted(t)' THEN 1 ELSE 0
    BY <1>1, <1>5, <1>7, <1>13 DEF Posting
  <2>3. Keeps(t)' \subseteq 1..written'
    BY <1>1, <1>5, <1>15
  <2>4. (\A i, j \in DoneAt(t)' : i = j) /\ (DoneAt(t)' # {} => stream'[t].final = 0)
    BY <1>2, <1>7, <1>14 DEF StreamOK, row
  <2>5. Taken(t)' /\ ~serving'.said => Clean(t)'
    BY <1>1, <1>2, <1>9, <2>1 DEF StreamOK
  <2>6. stream'[t].at \notin {"open", "idle", "marking", "unsent"}
    BY <1>6, <1>7
  <2> QED
    BY <1>15, <2>2, <2>3, <2>4, <2>5, <2>6 DEF StreamOK, Posting
<1>17. written' \in Nat /\ written <= written'
  BY <1>1, <1>3
<1>18. (\A u \in RelayTurn : StreamOK(u)') /\ Apart'
  <2>1. ASSUME NEW u \in RelayTurn, u # t, NEW r \in Keeps(u)
        PROVE  posted'[r] = posted[r] /\ (Posting(r)' => Posting(r))
    <3>1. r \in Row
      BY <1>2, <1>3 DEF StreamOK
    <3>2. row # 0 => r # row
      BY <1>2, <1>5, <2>1 DEF Apart
    <3> QED
      BY <1>9, <1>13, <3>1, <3>2
  <2>2. Keeps(t)' \subseteq Keeps(t) \cup Fresh
    BY <1>15
  <2> QED
    BY <1>1, <1>7, <1>9, <1>16, <1>17, <2>1, <2>2, OneStream
<1>19. ArrivalOK'
  BY <1>1, <1>4, <1>7, ArrivalRests, RelayConstants
<1>20. StreamsFinite'
  BY <1>7, FiniteStays
<1>21. EventsOK'
  <2>1. CASE posted' = posted
    BY <1>1, <1>17, <2>1, EventsRest
  <2>2. CASE row # 0
    <3>1. ASSUME NEW r \in Row
          PROVE  /\ posted'[r] <= 1
                 /\ posted'[r] # 0 =>
                      r <= written' /\ (r \in produced' \/ (r <= pushed' /\ \A i \in DOMAIN inbox' : inbox'[i] # r))
      <4>1. CASE r = row
        BY <1>1, <1>5, <1>13, <2>2, <4>1
      <4>2. CASE r # row
        <5>1. posted'[r] = posted[r]
          BY <1>13, <4>2
        <5> QED
          BY <1>1, <1>2, <5>1 DEF EventsOK
      <4> QED
        BY <4>1, <4>2
    <3>2. relay.at = "posting" => posted'[relay.row] = posted[relay.row]
      <4>1. relay.at = "posting" => relay.row \in Row /\ relay.row # row
        BY <1>2, <1>3, <1>5, <2>2, RelayFacts DEF EventsOK, Posting
      <4> QED
        BY <1>13, <4>1
    <3> QED
      BY <1>1, <1>2, <3>1, <3>2 DEF EventsOK
  <2> QED
    BY <1>13, <2>1, <2>2
<1>22. RelayTyped'
  <2>1. /\ socket' \in {"up", "givenUp", "down"}
        /\ written' \in 0..MaxRelayRows /\ pushed' \in 0..written'
        /\ serving' \in [turn : RelayTurn, said : BOOLEAN, words : 0..MaxRelayRows,
                         held : 0..MaxRelayRows] \cup {Nothing}
        /\ produced' \subseteq Row /\ inbox' \in Seq(Row)
        /\ relay' \in [at : {"arriving", "greeting", "waiting", "posting", "ended"}, row : 0..MaxRelayRows]
    BY <1>1, <1>2, RelayFacts
  <2> QED
    BY <1>7, <1>8, <1>13, <2>1, StaysTyped
<1> QED
  BY <1>18, <1>19, <1>20, <1>21, <1>22 DEF RelayInv

\* A queue that has been closed from the outside.
LEMMA RejectionSent ==
  ASSUME RelayTyped, NEW t \in RelayTurn,
         stream'[t].chunks = Append(stream[t].chunks, [is |-> "rejected", row |-> 0])
  PROVE  /\ stream'[t].chunks \in Seq(Chunk)
         /\ DoneAt(t)' = DoneAt(t) /\ DoneRows(t)' = DoneRows(t) /\ t \in Served'
         /\ (\A i \in DOMAIN stream[t].chunks : stream[t].chunks[i].is # "card")
              => \A i \in DOMAIN stream'[t].chunks : stream'[t].chunks[i].is # "card"
<1> DEFINE over == [is |-> "rejected", row |-> 0]
           n    == Len(stream[t].chunks)
<1>1. over \in Chunk /\ over.is = "rejected"
  BY RelayConstants DEF Chunk
<1>2. stream[t].chunks \in Seq(Chunk) /\ n \in Nat /\ DOMAIN stream[t].chunks = 1..n
  BY StreamFacts
<1>3. stream'[t].chunks = Append(stream[t].chunks, over)
  OBVIOUS
<1> HIDE DEF over
<1>4. /\ stream'[t].chunks \in Seq(Chunk) /\ Len(stream'[t].chunks) = n + 1
      /\ \A i \in 1..n : stream'[t].chunks[i] = stream[t].chunks[i]
      /\ stream'[t].chunks[n + 1] = over
  <2>1. PICK q : q = stream[t].chunks
    OBVIOUS
  <2>2. PICK all : all = Append(q, over)
    OBVIOUS
  <2>3. q \in Seq(Chunk) /\ Len(q) = n
    BY <1>2, <2>1
  <2>4. /\ all \in Seq(Chunk) /\ Len(all) = Len(q) + 1
        /\ \A i \in 1..Len(q) : all[i] = q[i]
        /\ all[Len(q) + 1] = over
    BY <1>1, <2>2, <2>3, AppendProperties
  <2> QED
    BY <1>3, <2>1, <2>2, <2>3, <2>4
<1> HIDE DEF n
<1>5. DOMAIN stream'[t].chunks = 1..(n + 1)
  BY <1>4, LenProperties
<1>6. \A i : i \in DoneAt(t)' <=> i \in DoneAt(t)
  BY <1>1, <1>2, <1>4, <1>5 DEF DoneAt
<1>7. DoneAt(t)' = DoneAt(t) /\ \A i \in DoneAt(t) : stream'[t].chunks[i] = stream[t].chunks[i]
  BY <1>2, <1>4, <1>6 DEF DoneAt
<1>8. DoneRows(t)' = DoneRows(t)
  BY <1>7 DEF DoneRows
<1>9. t \in Served'
  <2>1. n + 1 \in DOMAIN stream'[t].chunks /\ stream'[t].chunks[n + 1].is = "rejected"
    BY <1>1, <1>2, <1>4, <1>5
  <2> QED
    BY <2>1 DEF Served
<1>10. (\A i \in DOMAIN stream[t].chunks : stream[t].chunks[i].is # "card")
         => \A i \in DOMAIN stream'[t].chunks : stream'[t].chunks[i].is # "card"
  <2>1. \A i \in 1..(n + 1) : i \in 1..n \/ i = n + 1
    BY <1>2
  <2> QED
    BY <1>1, <1>2, <1>4, <1>5, <2>1
<1> QED
  BY <1>4, <1>7, <1>8, <1>9, <1>10

LEMMA SocketClosesKeeps ==
  ASSUME RelayInv, SocketCloses
  PROVE  RelayInv'
<1> DEFINE CutOff(t) == [stream[t] EXCEPT !.chunks = Append(stream[t].chunks, [is |-> "rejected", row |-> 0])]
           Unsent(t)   == [stream[t] EXCEPT !.at = "closing", !.note = TRUE]
<1>1. /\ socket' = "down" /\ inbox' = <<>>
      /\ relay' = IF relay.at = "waiting" THEN [relay EXCEPT !.at = "ended"] ELSE relay
      /\ stream' = [t \in RelayTurn |->
           IF stream[t].at = "open" /\ t \notin Served THEN CutOff(t)
           ELSE IF stream[t].at = "unsent" THEN Unsent(t) ELSE stream[t]]
      /\ UNCHANGED <<written, pushed, serving, produced, posted, relayFaults>>
  BY DEF SocketCloses
<1>2. /\ RelayTyped /\ Apart /\ ArrivalOK /\ \A u \in RelayTurn : StreamOK(u)
      /\ Arrival \in RelayTurn
  BY RelayFacts DEF RelayInv
<1>3. /\ relay' \in [at : {"arriving", "greeting", "waiting", "posting", "ended"}, row : 0..MaxRelayRows]
      /\ relay' = relay \/ relay'.at = "ended"
  BY <1>1, <1>2, RelayAt, RelayFacts
<1>4. (\A u \in RelayTurn : Taken(u)' <=> Taken(u)) /\ \A r : Posting(r)' => Posting(r)
  BY <1>1, <1>3 DEF Taken, Posting
<1>5. /\ written' \in Nat /\ written <= written' /\ written' <= MaxRelayRows
      /\ inbox' \in Seq(Row) /\ written' \in 0..MaxRelayRows /\ pushed' \in 0..written'
  <2>1. inbox' \in Seq(Row)
    BY <1>1, EmptySeq
  <2>2. written' = written /\ pushed' = pushed
    BY <1>1
  <2> QED
    BY <1>2, <2>1, <2>2, RelayFacts
<1>6. ASSUME NEW u \in RelayTurn
      PROVE  /\ StreamOK(u)' /\ Keeps(u)' \subseteq Keeps(u) /\ stream'[u] \in Stream
             /\ stream[u].at = "idle" => stream'[u].at = "idle"
             /\ u = Arrival =>
                  /\ stream'[u].at = stream[u].at
                  /\ \A i \in DOMAIN stream'[u].chunks : stream'[u].chunks[i].is # "card"
  <2>0. StreamOK(u) /\ stream[u] \in Stream
    BY <1>2, <1>6, RelayFacts
  <2>1. CASE stream[u].at = "open" /\ u \notin Served
    <3>1. stream'[u] = CutOff(u)
      BY <1>1, <2>1
    <3>2. stream'[u].chunks = Append(stream[u].chunks, [is |-> "rejected", row |-> 0])
      BY <2>0, <3>1 DEF Stream
    <3>3. /\ stream'[u].chunks \in Seq(Chunk)
          /\ DoneAt(u)' = DoneAt(u) /\ DoneRows(u)' = DoneRows(u) /\ u \in Served'
          /\ (\A i \in DOMAIN stream[u].chunks : stream[u].chunks[i].is # "card")
               => \A i \in DOMAIN stream'[u].chunks : stream'[u].chunks[i].is # "card"
      BY <1>2, <3>2, RejectionSent
    <3>4. PICK q \in Seq(Chunk) : q = stream'[u].chunks
      BY <3>3
    <3>5. stream'[u] = [stream[u] EXCEPT !.chunks = q]
      BY <3>1, <3>2, <3>4
    <3>6. /\ stream'[u] \in Stream /\ stream'[u].at = stream[u].at /\ stream'[u].final = stream[u].final
          /\ stream'[u].note = stream[u].note /\ stream'[u].cards = stream[u].cards
      BY <2>0, <3>5 DEF Stream
    <3>7. Draft(u)' = Draft(u) /\ (HasPosted(u)' <=> HasPosted(u))
      BY <1>1, <1>4, <3>6 DEF Draft, HasPosted, RendersWords
    <3>8. Awaits(u)' = Awaits(u) /\ Keeps(u)' = Keeps(u)
      BY <3>3, <3>6, <3>7 DEF Awaits, Keeps
    <3>9. Draft(u)' \subseteq Draft(u) \cup Fresh /\ Draft(u)' \subseteq 1..written'
      BY <1>1, <2>0, <2>1, <3>7 DEF StreamOK, Keeps, Awaits
    <3>10. (\A i, j \in DoneAt(u)' : i = j) /\ (Taken(u)' /\ ~serving'.said => Clean(u))
      BY <1>1, <1>4, <2>0, <3>3 DEF StreamOK
    <3>11. StreamOK(u)'
      BY <1>1, <1>4, <1>5, <2>1, <3>3, <3>6, <3>7, <3>9, <3>10, GoesOn
    <3> QED
      BY <1>2, <2>1, <3>3, <3>6, <3>8, <3>11 DEF ArrivalOK
  <2>2. CASE stream[u].at = "unsent"
    <3>1. stream'[u] = Unsent(u)
      BY <1>1, <2>2
    <3>2. /\ stream'[u] \in Stream /\ stream'[u].chunks = stream[u].chunks
          /\ stream'[u].final = stream[u].final
      BY <2>0, <3>1 DEF Stream
    <3>3. stream[u].chunks = <<>> /\ stream[u].final = 0 /\ ~Taken(u)
      BY <2>0, <2>2 DEF StreamOK
    <3>4. StreamOK(u)' /\ Keeps(u)' = {}
      BY <1>4, <3>2, <3>3, EmptyOK
    <3>5. u # Arrival
      BY <1>2, <2>2 DEF ArrivalOK
    <3> QED
      BY <2>2, <3>2, <3>4, <3>5
  <2>3. CASE ~(stream[u].at = "open" /\ u \notin Served) /\ stream[u].at # "unsent"
    <3>1. stream'[u] = stream[u]
      BY <1>1, <2>3
    <3>2. StreamOK(u)' /\ Keeps(u)' = Keeps(u)
      BY <1>1, <1>2, <1>4, <1>5, <2>0, <3>1, StreamRests
    <3> QED
      BY <1>2, <2>0, <3>1, <3>2 DEF ArrivalOK
  <2> QED
    BY <2>1, <2>2, <2>3
<1> HIDE DEF CutOff, Unsent
<1>7. stream' \in [RelayTurn -> Stream]
  <2>1. stream' = [t \in RelayTurn |-> stream'[t]]
    BY <1>1
  <2> QED
    BY <1>6, <2>1
<1>8. Apart'
  BY <1>2, <1>6 DEF Apart
<1>9. ArrivalOK'
  BY <1>2, <1>3, <1>6 DEF ArrivalOK
<1>10. EventsOK'
  BY <1>1, <1>3, <1>5, EventsRest
<1>11. StreamsFinite'
  BY <1>2, <1>6, FiniteStays
<1>12. RelayTyped'
  <2>1. /\ socket' \in {"up", "givenUp", "down"}
        /\ serving' \in [turn : RelayTurn, said : BOOLEAN, words : 0..MaxRelayRows,
                         held : 0..MaxRelayRows] \cup {Nothing}
        /\ produced' \subseteq Row /\ posted' \in [Row -> Nat]
        /\ relayFaults' \in 0..MaxRelayFaults
    BY <1>1, <1>2, RelayFacts
  <2> QED
    BY <1>3, <1>5, <1>7, <2>1, StaysTyped
<1> QED
  BY <1>6, <1>8, <1>9, <1>10, <1>11, <1>12 DEF RelayInv

LEMMA RelayBegins ==
  ASSUME RelayInit
  PROVE  RelayInv
<1>1. /\ socket = "up" /\ written = 0 /\ pushed = 0 /\ serving = Nothing
      /\ stream = [t \in RelayTurn |-> Unread]
      /\ produced = {} /\ relay = [at |-> "arriving", row |-> 0] /\ inbox = <<>>
      /\ posted = [r \in Row |-> 0] /\ relayFaults = 0
  BY DEF RelayInit
<1>2. 0 \in 0..MaxRelayRows /\ 0 \in 0..MaxRelayFaults /\ Arrival \in RelayTurn
  BY RelayConstants
<1>3. /\ Unread \in Stream /\ Unread.at = "idle" /\ Unread.chunks = <<>> /\ Unread.final = 0
      /\ Unread.note = FALSE /\ Unread.cards = {}
      /\ Unread \in
           [at : {"idle", "marking", "unsent", "open", "closing", "answered", "failed"},
            chunks : Seq([is : {"card", "done", "error", "end", "rejected"}, row : 0..MaxRelayRows]),
            final : 0..MaxRelayRows, cards : SUBSET Row, note : BOOLEAN]
  <2>1. \A S : <<>> \in Seq(S)
    BY EmptySeq
  <2> QED
    BY <1>2, <2>1 DEF Unread, Stream
<1>4. RelayTyped
  <2>1. inbox \in Seq(Row) /\ pushed \in 0..written /\ posted \in [Row -> Nat] /\ produced \subseteq Row
        /\ relay \in [at : {"arriving", "greeting", "waiting", "posting", "ended"}, row : 0..MaxRelayRows]
    BY <1>1, <1>2
  <2> QED
    BY <1>1, <1>2, <1>3, <2>1 DEF RelayTyped, RelayTypeOK
<1>5. ASSUME NEW t \in RelayTurn PROVE StreamOK(t) /\ Keeps(t) = {}
  <2>1. stream[t] = Unread /\ ~Taken(t)
    BY <1>1 DEF Taken
  <2>2. DoneAt(t) = {} /\ DoneRows(t) = {}
    BY <1>3, <2>1 DEF DoneAt, DoneRows
  <2>3. Awaits(t) = {} /\ Keeps(t) = {} /\ Clean(t)
    BY <1>3, <2>1, <2>2 DEF Awaits, Keeps, Clean
  <2> QED
    BY <1>3, <2>1, <2>2, <2>3 DEF StreamOK
<1>6. Apart
  BY <1>5 DEF Apart
<1>7. ArrivalOK
  BY <1>1, <1>2, <1>3 DEF ArrivalOK
<1>8. EventsOK
  <2>1. DOMAIN inbox = {}
    BY <1>1
  <2> QED
    BY <1>1, <2>1 DEF EventsOK
<1>9. StreamsFinite
  <2>1. {t \in RelayTurn : stream[t].at # "idle"} = {}
    BY <1>1, <1>3
  <2> QED
    BY <2>1, FS_EmptySet DEF StreamsFinite
<1> QED
  BY <1>4, <1>5, <1>6, <1>7, <1>8, <1>9 DEF RelayInv

LEMMA RelayRests ==
  ASSUME RelayInv, UNCHANGED relayVars
  PROVE  RelayInv'
<1>1. UNCHANGED <<socket, written, pushed, serving, stream, produced, relay, inbox, posted, relayFaults>>
  BY DEF relayVars
<1>2. RelayTyped'
  BY <1>1 DEF RelayInv, RelayTyped, RelayTypeOK, Row
<1>3. written' \in Nat /\ written <= written' /\ \A r : Posting(r)' <=> Posting(r)
  BY <1>1, RelayFacts DEF RelayInv, Posting
<1>4. (\A u \in RelayTurn : StreamOK(u)') /\ Apart' /\ ArrivalOK' /\ StreamsFinite'
  BY <1>1, <1>3, NoneMoves
<1>5. EventsOK'
  BY <1>1, <1>3, EventsRest
<1> QED
  BY <1>2, <1>4, <1>5 DEF RelayInv

LEMMA RelayMovesOn ==
  ASSUME RelayInv, RelayNext
  PROVE  RelayInv'
<1>1. CASE Arrives \/ Speaks \/ Pushes \/ GivenUp \/ SocketCloses
  BY <1>1, ArrivesKeeps, SpeaksKeeps, PushesKeeps, GivenUpKeeps, SocketClosesKeeps
<1>2. CASE GreetingReads \/ GreetingEnds \/ Takes \/ Forwards
  BY <1>2, GreetingReadsKeeps, GreetingEndsKeeps, TakesKeeps, ForwardsKeeps
<1>3. ASSUME NEW t \in RelayTurn, Asks(t) \/ Clicks(t) \/ Marked(t) PROVE RelayInv'
  BY <1>3, OwnerKeeps
<1>4. ASSUME NEW t \in RelayTurn, Serves(t) \/ Words(t) \/ Holds(t) \/ Replies(t) \/ Errs(t) \/ Finishes(t)
      PROVE  RelayInv'
  BY <1>4, ServesKeeps, WordsKeep, HoldsKeep, RepliesKeeps, ErrsKeeps, FinishesKeeps
<1>5. ASSUME NEW t \in RelayTurn, Rejected(t) \/ Confirmed(t) PROVE RelayInv'
  BY <1>5, RejectedKeeps, ConfirmedKeeps
<1>6. ASSUME NEW t \in RelayTurn, ReadsCard(t) \/ ReadsDone(t) \/ ReadsError(t) \/ ReadsEnd(t) \/ Answers(t)
      PROVE  RelayInv'
  BY <1>6, ReadsCardKeeps, ReadsDoneKeeps, ReadsErrorKeeps, ReadsEndKeeps, AnswersKeeps
<1> QED
  BY <1>1, <1>2, <1>3, <1>4, <1>5, <1>6 DEF RelayNext

LEMMA RelayOnceFollows ==
  ASSUME RelayInv
  PROVE  RelayTypeOK /\ RelayOnce
<1>1. RelayTyped /\ EventsOK /\ \A t \in RelayTurn : StreamOK(t)
  BY DEF RelayInv
<1>2. \A r \in Row : posted[r] <= 1
  BY <1>1 DEF EventsOK
<1>3. ASSUME NEW t \in RelayTurn, stream[t].at = "answered", RendersWords(t)
      PROVE  posted[stream[t].final] = 1
  <2>1. HasPosted(t) /\ stream[t].final # 0
    BY <1>3 DEF HasPosted, RendersWords
  <2> QED
    BY <1>1, <2>1 DEF StreamOK
<1> QED
  BY <1>1, <1>2, <1>3 DEF RelayTyped, RelayOnce

LEMMA RelayHolds == RelaySpec => []RelayInv
<1>1. RelayInit => RelayInv
  BY RelayBegins
<1>2. RelayInv /\ [RelayNext]_relayVars => RelayInv'
  BY RelayMovesOn, RelayRests
<1> QED
  BY <1>1, <1>2, PTL DEF RelaySpec

\* Every variable of the relay keeps to its type: rows that are pushed are
\* written, and a stream is read to its end or given up.
THEOREM RelayTypeCorrect == RelaySpec => []RelayTypeOK
<1>1. RelayInv => RelayTypeOK
  BY RelayOnceFollows
<1> QED
  BY <1>1, RelayHolds, PTL

\* Nothing the companion says is posted twice, and a turn that ended in words
\* has posted them: connection.ts records a reply as its stream is read, holds
\* back every event while a stream is open, and drops the recorded ones after.
THEOREM RelayOnceHolds == RelaySpec => []RelayOnce
<1>1. RelayInv => RelayOnce
  BY RelayOnceFollows
<1> QED
  BY <1>1, RelayHolds, PTL

-----------------------------------------------------------------------------
(* WireTransport: the invariant *)

WireFrame ==
  [is : {"ready", "superseded", "chunk", "result", "error"},
   to : Request \cup {NoRequest}, chunk : 0..MaxChunks]

AskRow ==
  [at : {"new", "waiting", "reading", "woken", "settled", "left"},
   buffer : Seq(1..MaxChunks), hand : 0..MaxChunks,
   end : {"none", "finished", "failed"}, read : Seq(1..MaxChunks)]

ServedRow ==
  [at : {"none", "handling", "queued", "turning", "over"},
   after : Request \cup {NoRequest}, said : 0..MaxChunks]

WireTyped ==
  /\ lease \in {"pending", "granted", "refused"}
  /\ near \in {"open", "closing", "closed"} /\ far \in {"open", "closed"}
  /\ uplink \in Seq(Request) /\ downlink \in Seq(WireFrame)
  /\ ask \in [Request -> AskRow] /\ served \in [Request -> ServedRow]
  /\ cap \in 1..MaxInFlight /\ slots \in 0..cap
  /\ tail \in Request \cup {NoRequest}
  /\ streamed \subseteq Request /\ shed \subseteq Request /\ late \subseteq Request

\* The places of the uplink that hold a request, of the downlink that hold its
\* answer, and those that hold what its turn said.
AskedAt(r) == {i \in DOMAIN uplink : uplink[i] = r}

AnswerAt(r) == {i \in DOMAIN downlink : downlink[i].to = r /\ downlink[i].is \in {"result", "error"}}

ChunkAt(r) == {i \in DOMAIN downlink : downlink[i].to = r /\ downlink[i].is = "chunk"}

BusyOnes == {r \in Request : served[r].at \notin {"none", "over"}}

\* A request is sent once, served once and answered once, and one the client
\* awaits over an open socket is somewhere.
PlaceOK(r) ==
  /\ \A i, j \in AskedAt(r) : i = j
  /\ \A i, j \in AnswerAt(r) : i = j
  /\ ask[r].at = "new" => AskedAt(r) = {} /\ r \notin shed /\ served[r].at = "none"
  /\ AskedAt(r) # {} => served[r].at = "none" /\ r \notin shed
  /\ r \in shed => served[r].at = "none"
  /\ AnswerAt(r) # {} => served[r].at = "over"
  /\ near = "open" /\ far = "open" /\ Awaited(r) =>
       AskedAt(r) # {} \/ r \in shed \/ AnswerAt(r) # {} \/ r \in BusyOnes

\* What a stream has been given.
Given(s) == IF s.hand = 0 THEN Len(s.read) ELSE Len(s.read) + 1

Heard(s) == Given(s) + Len(s.buffer)

\* What it was given is numbered from one, and in its hand only while it is woken.
RowOK(s) ==
  /\ \A i \in DOMAIN s.read : s.read[i] = i
  /\ s.hand # 0 => s.at = "woken" /\ s.hand = Len(s.read) + 1
  /\ s.at \in {"reading", "woken"} => \A i \in DOMAIN s.buffer : s.buffer[i] = Given(s) + i
  /\ s.at \in {"new", "waiting"} => s.buffer = <<>> /\ s.end = "none"
  /\ s.at = "woken" /\ s.hand = 0 => s.buffer = <<>> /\ s.end # "none"

\* A stream that has its end has been given the whole turn.
AskOK(r) ==
  /\ RowOK(ask[r])
  /\ ask[r].at = "new" => r \notin streamed /\ Len(ask[r].read) = 0
  /\ r \notin streamed => ask[r].at \in {"new", "waiting", "settled"}
  /\ r \in streamed /\ ask[r].end = "finished" /\ ask[r].at # "left" =>
       /\ served[r].at = "over" /\ Heard(ask[r]) = served[r].said
       /\ ask[r].at = "settled" => Len(ask[r].buffer) = 0

\* What a turn said is under way before its answer, in order, and goes on from
\* what was heard; nothing is missing unless the server's end has closed.
FlowOK(r) ==
  /\ ChunkAt(r) # {} => r \in streamed /\ served[r].at \in {"turning", "over"}
  /\ \A i \in ChunkAt(r) : \A j \in AnswerAt(r) : i < j
  /\ \A i, j \in ChunkAt(r) : i < j => downlink[i].chunk < downlink[j].chunk
  /\ \A i \in ChunkAt(r) : downlink[i].chunk \in 1..served[r].said
  /\ served[r].at \in {"none", "handling", "queued"} => served[r].said = 0
  /\ served[r].at \in {"queued", "turning"} => r \in streamed
  /\ Awaited(r) =>
       /\ Heard(ask[r]) <= served[r].said
       /\ \A i \in ChunkAt(r) :
            /\ Heard(ask[r]) < downlink[i].chunk
            /\ \A k \in (Heard(ask[r]) + 1)..downlink[i].chunk : \E j \in ChunkAt(r) : downlink[j].chunk = k
       /\ far = "open" \/ AnswerAt(r) # {} =>
            \A k \in (Heard(ask[r]) + 1)..served[r].said : \E j \in ChunkAt(r) : downlink[j].chunk = k

\* A frame for a request answers it or tells what its turn said.
FramesOK ==
  \A i \in DOMAIN downlink :
    /\ downlink[i].is \in {"chunk", "result"} => downlink[i].to # NoRequest
    /\ downlink[i].is \in {"ready", "superseded"} => downlink[i].to = NoRequest

SlotsOK == IsFiniteSet(BusyOnes) /\ slots = Cardinality(BusyOnes)

\* The turns have entered the chain one behind another: what runs or is over
\* has everything in front of it over.
Chained(pos) ==
  /\ \A r \in Request : served[r].at \in {"none", "handling"} => pos[r] = 0
  /\ \A r \in Request : served[r].at \in {"queued", "turning"} => pos[r] # 0
  /\ \A r, q \in Request : pos[r] = pos[q] /\ pos[r] # 0 => r = q
  /\ \A r \in Request : pos[r] > 1 =>
       served[r].after \in Request /\ pos[served[r].after] = pos[r] - 1
  /\ \A r, q \in Request :
       0 < pos[q] /\ pos[q] < pos[r] /\ served[r].at \in {"turning", "over"} => served[q].at = "over"
  /\ tail = NoRequest => \A r \in Request : pos[r] = 0
  /\ tail # NoRequest => pos[tail] # 0 /\ \A r \in Request : pos[r] <= pos[tail]

ChainOK == \E pos \in [Request -> Nat] : Chained(pos)

WireInv ==
  /\ WireTyped /\ (\A r \in Request : PlaceOK(r) /\ AskOK(r) /\ FlowOK(r) /\ NoneStranded(r))
  /\ FramesOK /\ SlotsOK /\ ChainOK


LEMMA WireFacts ==
  ASSUME WireTyped
  PROVE  /\ uplink \in Seq(Request) /\ downlink \in Seq(WireFrame)
         /\ ask \in [Request -> AskRow] /\ served \in [Request -> ServedRow]
         /\ cap \in 1..MaxInFlight /\ cap \in Nat /\ slots \in 0..cap /\ slots \in Nat
         /\ tail \in Request \cup {NoRequest} /\ NoRequest \notin Request
         /\ MaxInFlight \in Nat /\ MaxBuffered \in Nat /\ MaxChunks \in Nat
         /\ lease \in {"pending", "granted", "refused"}
         /\ near \in {"open", "closing", "closed"} /\ far \in {"open", "closed"}
         /\ streamed \subseteq Request /\ shed \subseteq Request /\ late \subseteq Request
         /\ DOMAIN uplink = 1..Len(uplink) /\ Len(uplink) \in Nat
         /\ DOMAIN downlink = 1..Len(downlink) /\ Len(downlink) \in Nat
<1>1. MaxInFlight \in Nat \ {0} /\ MaxBuffered \in Nat /\ MaxChunks \in Nat /\ NoRequest \notin Request
  BY WireConstants
<1>2. uplink \in Seq(Request) /\ downlink \in Seq(WireFrame) /\ cap \in 1..MaxInFlight
  BY DEF WireTyped
<1>3. cap \in Nat /\ slots \in 0..cap /\ slots \in Nat
  <2>1. cap \in Nat
    BY <1>1, <1>2
  <2>2. slots \in 0..cap
    BY DEF WireTyped
  <2> QED
    BY <2>1, <2>2
<1>4. /\ DOMAIN uplink = 1..Len(uplink) /\ Len(uplink) \in Nat
      /\ DOMAIN downlink = 1..Len(downlink) /\ Len(downlink) \in Nat
  BY <1>2, LenProperties
<1> QED
  BY <1>1, <1>2, <1>3, <1>4 DEF WireTyped

LEMMA AskFacts ==
  ASSUME WireTyped, NEW r \in Request
  PROVE  /\ ask[r] \in AskRow /\ served[r] \in ServedRow
         /\ ask[r].at \in {"new", "waiting", "reading", "woken", "settled", "left"}
         /\ ask[r].end \in {"none", "finished", "failed"} /\ ask[r].hand \in 0..MaxChunks
         /\ ask[r].buffer \in Seq(1..MaxChunks) /\ ask[r].read \in Seq(1..MaxChunks)
         /\ served[r].at \in {"none", "handling", "queued", "turning", "over"}
         /\ served[r].after \in Request \cup {NoRequest} /\ served[r].said \in 0..MaxChunks
<1>1. ask[r] \in AskRow /\ served[r] \in ServedRow
  BY DEF WireTyped
<1> QED
  BY <1>1 DEF AskRow, ServedRow

\* A row as its type has it.
LEMMA ServedFacts ==
  ASSUME NEW s \in AskRow
  PROVE  /\ s.at \in {"new", "waiting", "reading", "woken", "settled", "left"}
         /\ s.end \in {"none", "finished", "failed"} /\ s.hand \in 0..MaxChunks
         /\ s.buffer \in Seq(1..MaxChunks) /\ s.read \in Seq(1..MaxChunks)
         /\ Len(s.read) \in Nat /\ Len(s.buffer) \in Nat /\ s.hand \in Nat
         /\ DOMAIN s.read = 1..Len(s.read) /\ DOMAIN s.buffer = 1..Len(s.buffer)
         /\ Given(s) \in Nat /\ Heard(s) \in Nat
         /\ Given(s) = IF s.hand = 0 THEN Len(s.read) ELSE Len(s.read) + 1
         /\ Heard(s) = Given(s) + Len(s.buffer)
         /\ MaxChunks \in Nat
<1>1. /\ s.at \in {"new", "waiting", "reading", "woken", "settled", "left"}
      /\ s.end \in {"none", "finished", "failed"} /\ s.hand \in 0..MaxChunks
      /\ s.buffer \in Seq(1..MaxChunks) /\ s.read \in Seq(1..MaxChunks)
  BY DEF AskRow
<1>2. /\ Len(s.read) \in Nat /\ Len(s.buffer) \in Nat
      /\ DOMAIN s.read = 1..Len(s.read) /\ DOMAIN s.buffer = 1..Len(s.buffer)
  BY <1>1, LenProperties
<1>3. MaxChunks \in Nat
  BY WireConstants
<1>4. s.hand \in Nat
  BY <1>1, <1>3
<1>5. Given(s) = IF s.hand = 0 THEN Len(s.read) ELSE Len(s.read) + 1
  BY DEF Given
<1>6. Given(s) \in Nat
  <2>1. CASE s.hand = 0
    BY <1>2, <1>5, <2>1
  <2>2. CASE s.hand # 0
    BY <1>2, <1>5, <2>2
  <2> QED
    BY <2>1, <2>2
<1>7. Heard(s) = Given(s) + Len(s.buffer)
  BY DEF Heard
<1>8. Heard(s) \in Nat
  BY <1>2, <1>7, <1>6
<1> QED
  BY <1>1, <1>2, <1>3, <1>4, <1>5, <1>6, <1>7, <1>8

LEMMA PlaceFacts ==
  ASSUME WireTyped, NEW r \in Request
  PROVE  /\ AskedAt(r) \subseteq 1..Len(uplink) /\ Len(uplink) \in Nat
         /\ AnswerAt(r) \subseteq 1..Len(downlink) /\ ChunkAt(r) \subseteq 1..Len(downlink)
         /\ Len(downlink) \in Nat
         /\ \A i \in ChunkAt(r) : downlink[i].chunk \in Nat
<1>1. \A i \in DOMAIN downlink : downlink[i] \in WireFrame
  BY WireFacts, ElementOfSeq
<1>2. \A i \in DOMAIN downlink : downlink[i].chunk \in 0..MaxChunks /\ MaxChunks \in Nat
  BY <1>1, WireFacts DEF WireFrame
<1>3. \A i \in ChunkAt(r) : i \in DOMAIN downlink
  BY DEF ChunkAt
<1> QED
  BY <1>2, <1>3, WireFacts DEF AskedAt, AnswerAt, ChunkAt

-----------------------------------------------------------------------------
(* WireTransport: what a step leaves as it was *)

\* What is said to r, and its answer, are the same, d places further on.
SameChunks(r, d) ==
  /\ \A i \in ChunkAt(r)' : i + d \in ChunkAt(r) /\ downlink'[i].chunk = downlink[i + d].chunk
  /\ \A i \in ChunkAt(r) : i - d \in ChunkAt(r)' /\ downlink'[i - d].chunk = downlink[i].chunk

SameAnswers(r, d) ==
  /\ \A i \in AnswerAt(r)' : i + d \in AnswerAt(r)
  /\ \A i \in AnswerAt(r) : i - d \in AnswerAt(r)'

SameFrames(r, d) == SameChunks(r, d) /\ SameAnswers(r, d)

LEMMA PlacesAfter ==
  ASSUME NEW r \in Request, downlink' \in Seq(WireFrame)
  PROVE  AnswerAt(r)' \subseteq Int /\ ChunkAt(r)' \subseteq Int
<1>1. DOMAIN downlink' = 1..Len(downlink')
  BY LenProperties
<1> QED
  BY <1>1 DEF AnswerAt, ChunkAt

LEMMA PlaceRests ==
  ASSUME NEW r \in Request, NEW d \in 0..1, WireTyped, WireTyped', PlaceOK(r), SameAnswers(r, d),
         (\A i, j \in AskedAt(r)' : i = j) /\ (AskedAt(r)' = {} <=> AskedAt(r) = {}),
         r \in shed' <=> r \in shed, served'[r].at = served[r].at,
         ask'[r].at = "new" => ask[r].at = "new", Awaited(r)' => Awaited(r),
         near' = "open" => near = "open", far' = "open" => far = "open"
  PROVE  PlaceOK(r)'
<1>1. /\ AnswerAt(r) \subseteq Int /\ AnswerAt(r)' \subseteq Int
  BY PlaceFacts, PlacesAfter DEF WireTyped
<1>2. \A i, j \in AnswerAt(r)' : i = j
  BY <1>1 DEF PlaceOK, SameAnswers
<1>3. AnswerAt(r)' = {} <=> AnswerAt(r) = {}
  BY DEF SameAnswers
<1>4. r \in BusyOnes' <=> r \in BusyOnes
  BY DEF BusyOnes
<1> QED
  BY <1>2, <1>3, <1>4 DEF PlaceOK

LEMMA AskRests ==
  ASSUME NEW r \in Request, AskOK(r), ask'[r] = ask[r], r \in streamed' <=> r \in streamed,
         served[r].at = "over" => served'[r].at = "over" /\ served'[r].said = served[r].said
  PROVE  AskOK(r)'
BY DEF AskOK

LEMMA FlowRests ==
  ASSUME NEW r \in Request, NEW d \in 0..1, WireTyped, WireTyped', FlowOK(r), SameFrames(r, d),
         r \in streamed => r \in streamed',
         served'[r].at = served[r].at /\ served'[r].said = served[r].said,
         Awaited(r)' => Awaited(r) /\ Heard(ask'[r]) = Heard(ask[r]),
         far' = "open" => far = "open"
  PROVE  FlowOK(r)'
<1>1. /\ AnswerAt(r) \subseteq Int /\ AnswerAt(r)' \subseteq Int
      /\ ChunkAt(r) \subseteq Int /\ ChunkAt(r)' \subseteq Int
      /\ d \in Int
  BY PlaceFacts, PlacesAfter DEF WireTyped
<1>2. ChunkAt(r)' # {} => r \in streamed' /\ served'[r].at \in {"turning", "over"}
  BY DEF FlowOK, SameFrames, SameChunks, SameAnswers
<1>3. \A i \in ChunkAt(r)' : \A j \in AnswerAt(r)' : i < j
  BY <1>1 DEF FlowOK, SameFrames, SameChunks, SameAnswers
<1>4. \A i, j \in ChunkAt(r)' : i < j => downlink'[i].chunk < downlink'[j].chunk
  <2>1. SUFFICES ASSUME NEW i \in ChunkAt(r)', NEW j \in ChunkAt(r)', i < j
                 PROVE  downlink'[i].chunk < downlink'[j].chunk
    OBVIOUS
  <2>2. /\ i + d \in ChunkAt(r) /\ j + d \in ChunkAt(r) /\ i + d < j + d
        /\ downlink'[i].chunk = downlink[i + d].chunk /\ downlink'[j].chunk = downlink[j + d].chunk
    BY <1>1, <2>1 DEF SameFrames, SameChunks, SameAnswers
  <2> QED
    BY <2>2 DEF FlowOK
<1>5. \A i \in ChunkAt(r)' : downlink'[i].chunk \in 1..served'[r].said
  BY DEF FlowOK, SameFrames, SameChunks, SameAnswers
<1>6. /\ served'[r].at \in {"none", "handling", "queued"} => served'[r].said = 0
      /\ served'[r].at \in {"queued", "turning"} => r \in streamed'
  BY DEF FlowOK
<1>7. ASSUME Awaited(r)'
      PROVE  /\ Heard(ask'[r]) <= served'[r].said
             /\ \A i \in ChunkAt(r)' :
                  /\ Heard(ask'[r]) < downlink'[i].chunk
                  /\ \A k \in (Heard(ask'[r]) + 1)..downlink'[i].chunk : \E j \in ChunkAt(r)' : downlink'[j].chunk = k
             /\ far' = "open" \/ AnswerAt(r)' # {} =>
                  \A k \in (Heard(ask'[r]) + 1)..served'[r].said : \E j \in ChunkAt(r)' : downlink'[j].chunk = k
  <2>1. PICK h : h = Heard(ask[r])
    OBVIOUS
  <2>2. Heard(ask'[r]) = h /\ Awaited(r)
    BY <1>7, <2>1
  <2>3. /\ h <= served[r].said
        /\ \A i \in ChunkAt(r) :
             /\ h < downlink[i].chunk
             /\ \A k \in (h + 1)..downlink[i].chunk : \E j \in ChunkAt(r) : downlink[j].chunk = k
        /\ far = "open" \/ AnswerAt(r) # {} =>
             \A k \in (h + 1)..served[r].said : \E j \in ChunkAt(r) : downlink[j].chunk = k
    BY <2>1, <2>2 DEF FlowOK
  <2>4. \A k : (\E j \in ChunkAt(r) : downlink[j].chunk = k) => \E j \in ChunkAt(r)' : downlink'[j].chunk = k
    BY DEF SameFrames, SameChunks, SameAnswers
  <2>5. \A i \in ChunkAt(r)' : i + d \in ChunkAt(r) /\ downlink'[i].chunk = downlink[i + d].chunk
    BY DEF SameFrames, SameChunks, SameAnswers
  <2>6. AnswerAt(r)' # {} => AnswerAt(r) # {}
    BY DEF SameFrames, SameChunks, SameAnswers
  <2>7. h <= served'[r].said
    BY <2>3
  <2>8. \A i \in ChunkAt(r)' :
          /\ h < downlink'[i].chunk
          /\ \A k \in (h + 1)..downlink'[i].chunk : \E j \in ChunkAt(r)' : downlink'[j].chunk = k
    <3>1. SUFFICES ASSUME NEW i \in ChunkAt(r)'
                   PROVE  /\ h < downlink'[i].chunk
                          /\ \A k \in (h + 1)..downlink'[i].chunk : \E j \in ChunkAt(r)' : downlink'[j].chunk = k
      OBVIOUS
    <3>2. PICK c : c = downlink'[i].chunk
      OBVIOUS
    <3>3. i + d \in ChunkAt(r) /\ downlink[i + d].chunk = c
      BY <2>5, <3>2
    <3>4. h < c /\ \A k \in (h + 1)..c : \E j \in ChunkAt(r) : downlink[j].chunk = k
      BY <2>3, <3>3
    <3>5. \A k \in (h + 1)..c : \E j \in ChunkAt(r)' : downlink'[j].chunk = k
      BY <2>4, <3>4
    <3> QED
      BY <3>2, <3>4, <3>5
  <2>9. far' = "open" \/ AnswerAt(r)' # {} =>
          \A k \in (h + 1)..served'[r].said : \E j \in ChunkAt(r)' : downlink'[j].chunk = k
    BY <2>3, <2>4, <2>6
  <2> QED
    BY <2>2, <2>7, <2>8, <2>9
<1> QED
  BY <1>2, <1>3, <1>4, <1>5, <1>6, <1>7 DEF FlowOK

LEMMA ChainRests ==
  ASSUME WireTyped, WireTyped', ChainOK, tail' = tail,
         \A q \in Request :
           /\ served'[q].after = served[q].after
           /\ \/ served'[q].at = served[q].at
              \/ served[q].at = "none" /\ served'[q].at = "handling"
              \/ served[q].at \in {"handling", "turning"} /\ served'[q].at = "over"
  PROVE  ChainOK'
<1>1. PICK pos \in [Request -> Nat] : Chained(pos)
  BY DEF ChainOK
<1>2. /\ \A r \in Request : served'[r].at \in {"none", "handling"} => pos[r] = 0
      /\ \A r \in Request : served'[r].at \in {"queued", "turning"} => pos[r] # 0
  BY <1>1 DEF Chained
<1>3. /\ \A r, q \in Request : pos[r] = pos[q] /\ pos[r] # 0 => r = q
      /\ \A r \in Request : pos[r] > 1 =>
           served'[r].after \in Request /\ pos[served'[r].after] = pos[r] - 1
      /\ tail' = NoRequest => \A r \in Request : pos[r] = 0
      /\ tail' # NoRequest => pos[tail'] # 0 /\ \A r \in Request : pos[r] <= pos[tail']
  BY <1>1 DEF Chained
<1>4. ASSUME NEW r \in Request, NEW q \in Request, 0 < pos[q], pos[q] < pos[r],
             served'[r].at \in {"turning", "over"}
      PROVE  served'[q].at = "over"
  <2>1. pos[r] \in Nat /\ pos[q] \in Nat /\ pos[r] # 0 /\ pos[q] # 0
    BY <1>1, <1>4
  <2>2. served[r].at \notin {"none", "handling"}
    BY <1>1, <2>1 DEF Chained
  <2>3. served[r].at \in {"turning", "over"}
    BY <1>4, <2>2
  <2>4. served[q].at = "over"
    BY <1>1, <1>4, <2>3 DEF Chained
  <2> QED
    BY <2>4
<1>5. Chained(pos)'
  BY <1>2, <1>3, <1>4 DEF Chained
<1> QED
  BY <1>1, <1>5 DEF ChainOK

LEMMA SlotsRest ==
  ASSUME SlotsOK, slots' = slots, BusyOnes' = BusyOnes
  PROVE  SlotsOK'
BY DEF SlotsOK


-----------------------------------------------------------------------------
(* WireTransport: what a frame sent or received changes *)

\* SendsFrame: the frame is last, or nothing is sent and the far end is closed.
LEMMA FrameSent ==
  ASSUME WireTyped, NEW frame \in WireFrame, SendsFrame(frame)
  PROVE  /\ \/ downlink' = downlink /\ far' = "closed"
            \/ downlink' = Append(downlink, frame) /\ far = "open" /\ far' = "open"
         /\ far' \in {"open", "closed"} /\ (far' = "open" => far = "open")
         /\ downlink' \in Seq(WireFrame)
<1>1. far \in {"open", "closed"} /\ downlink \in Seq(WireFrame)
  BY WireFacts
<1>2. Append(downlink, frame) \in Seq(WireFrame)
  BY <1>1, AppendProperties
<1>3. CASE far # "open"
  BY <1>1, <1>3 DEF SendsFrame
<1>4. CASE far = "open" /\ Len(downlink) > MaxBuffered
  BY <1>1, <1>4 DEF SendsFrame
<1>5. CASE far = "open" /\ ~(Len(downlink) > MaxBuffered)
  BY <1>1, <1>2, <1>5 DEF SendsFrame
<1> QED
  BY <1>3, <1>4, <1>5

LEMMA NothingSent ==
  ASSUME NEW r \in Request, WireTyped, downlink' = downlink
  PROVE  /\ SameFrames(r, 0) /\ ChunkAt(r)' = ChunkAt(r) /\ AnswerAt(r)' = AnswerAt(r)
         /\ FramesOK => FramesOK'
<1>1. ChunkAt(r)' = ChunkAt(r) /\ AnswerAt(r)' = AnswerAt(r)
  BY DEF ChunkAt, AnswerAt
<1>2. \A i \in ChunkAt(r) \cup AnswerAt(r) : i + 0 = i /\ i - 0 = i
  BY PlaceFacts
<1>3. SameFrames(r, 0)
  BY <1>1, <1>2 DEF SameFrames, SameChunks, SameAnswers
<1>4. FramesOK => FramesOK'
  BY DEF FramesOK
<1> QED
  BY <1>1, <1>3, <1>4

LEMMA FrameAppended ==
  ASSUME NEW r \in Request, NEW frame \in WireFrame, WireTyped, downlink' = Append(downlink, frame)
  PROVE  /\ \A i \in ChunkAt(r) : downlink'[i] = downlink[i]
         /\ downlink'[Len(downlink) + 1] = frame
         /\ ChunkAt(r)' = IF frame.to = r /\ frame.is = "chunk"
                          THEN ChunkAt(r) \cup {Len(downlink) + 1} ELSE ChunkAt(r)
         /\ AnswerAt(r)' = IF frame.to = r /\ frame.is \in {"result", "error"}
                           THEN AnswerAt(r) \cup {Len(downlink) + 1} ELSE AnswerAt(r)
         /\ ~(frame.to = r /\ frame.is = "chunk") => SameChunks(r, 0)
         /\ ~(frame.to = r /\ frame.is \in {"result", "error"}) => SameAnswers(r, 0)
<1>1. PICK n : n = Len(downlink)
  OBVIOUS
<1>2. n \in Nat /\ DOMAIN downlink = 1..n /\ downlink \in Seq(WireFrame)
  BY <1>1, WireFacts
<1>3. /\ downlink' \in Seq(WireFrame) /\ Len(downlink') = n + 1
      /\ \A i \in 1..n : downlink'[i] = downlink[i]
      /\ downlink'[n + 1] = frame
  BY <1>1, <1>2, AppendProperties
<1>4. DOMAIN downlink' = 1..(n + 1)
  BY <1>3, LenProperties
<1>5. \A i : i \in 1..(n + 1) <=> i \in 1..n \/ i = n + 1
  BY <1>2
<1>6. n + 1 \notin 1..n
  BY <1>2
<1>7. \A i : i \in ChunkAt(r)' <=> (i \in ChunkAt(r) \/ (i = n + 1 /\ frame.to = r /\ frame.is = "chunk"))
  BY <1>2, <1>3, <1>4, <1>5, <1>6 DEF ChunkAt
<1>8. \A i : i \in AnswerAt(r)' <=> (i \in AnswerAt(r) \/ (i = n + 1 /\ frame.to = r /\ frame.is \in {"result", "error"}))
  BY <1>2, <1>3, <1>4, <1>5, <1>6 DEF AnswerAt
<1>9. \A i \in ChunkAt(r) : downlink'[i] = downlink[i]
  BY <1>2, <1>3 DEF ChunkAt
<1>10. \A i \in ChunkAt(r) \cup AnswerAt(r) : i + 0 = i /\ i - 0 = i
  BY PlaceFacts
<1>11. /\ ~(frame.to = r /\ frame.is = "chunk") => SameChunks(r, 0)
       /\ ~(frame.to = r /\ frame.is \in {"result", "error"}) => SameAnswers(r, 0)
  BY <1>7, <1>8, <1>9, <1>10 DEF SameChunks, SameAnswers
<1>12. ChunkAt(r)' = IF frame.to = r /\ frame.is = "chunk" THEN ChunkAt(r) \cup {n + 1} ELSE ChunkAt(r)
  BY <1>7
<1>13. AnswerAt(r)' = IF frame.to = r /\ frame.is \in {"result", "error"} THEN AnswerAt(r) \cup {n + 1} ELSE AnswerAt(r)
  BY <1>8
<1> QED
  BY <1>1, <1>3, <1>9, <1>11, <1>12, <1>13

\* A frame of the right form keeps the form of the frames.
LEMMA FormKept ==
  ASSUME NEW frame \in WireFrame, WireTyped, FramesOK,
         downlink' = downlink \/ downlink' = Append(downlink, frame),
         frame.is \in {"chunk", "result"} => frame.to # NoRequest,
         frame.is \in {"ready", "superseded"} => frame.to = NoRequest
  PROVE  FramesOK'
<1>1. CASE downlink' = downlink
  BY <1>1 DEF FramesOK
<1>2. CASE downlink' = Append(downlink, frame)
  <2>1. PICK n : n = Len(downlink)
    OBVIOUS
  <2>2. n \in Nat /\ DOMAIN downlink = 1..n /\ downlink \in Seq(WireFrame)
    BY <2>1, WireFacts
  <2>3. /\ downlink' \in Seq(WireFrame) /\ Len(downlink') = n + 1
        /\ \A i \in 1..n : downlink'[i] = downlink[i]
        /\ downlink'[n + 1] = frame
    BY <1>2, <2>1, <2>2, AppendProperties
  <2>4. DOMAIN downlink' = 1..(n + 1)
    BY <2>3, LenProperties
  <2>5. \A i \in DOMAIN downlink' : i \in 1..n \/ i = n + 1
    BY <2>2, <2>4
  <2> QED
    BY <2>2, <2>3, <2>5 DEF FramesOK
<1> QED
  BY <1>1, <1>2

LEMMA FrameTaken ==
  ASSUME NEW r \in Request, WireTyped, downlink # <<>>, downlink' = Tail(downlink)
  PROVE  /\ downlink' \in Seq(WireFrame) /\ Head(downlink) \in WireFrame /\ Head(downlink) = downlink[1]
         /\ 1 \in DOMAIN downlink
         /\ \A i : i \in ChunkAt(r)' <=> i \in Nat \ {0} /\ i + 1 \in ChunkAt(r)
         /\ \A i : i \in AnswerAt(r)' <=> i \in Nat \ {0} /\ i + 1 \in AnswerAt(r)
         /\ \A i \in ChunkAt(r)' : downlink'[i].chunk = downlink[i + 1].chunk
         /\ 1 \notin ChunkAt(r) => SameChunks(r, 1)
         /\ 1 \notin AnswerAt(r) => SameAnswers(r, 1)
         /\ FramesOK => FramesOK'
<1>1. PICK n : n = Len(downlink)
  OBVIOUS
<1>2. n \in Nat /\ DOMAIN downlink = 1..n /\ downlink \in Seq(WireFrame)
  BY <1>1, WireFacts
<1>3. n # 0
  BY <1>1, <1>2, EmptySeq
<1>4. /\ Head(downlink) \in WireFrame /\ downlink' \in Seq(WireFrame) /\ Len(downlink') = n - 1
      /\ \A i \in 1..Len(downlink') : downlink'[i] = downlink[i + 1]
  BY <1>1, <1>2, HeadTailProperties
<1>5. DOMAIN downlink' = 1..(n - 1)
  BY <1>4, LenProperties
<1>6. \A i \in 1..(n - 1) : downlink'[i] = downlink[i + 1]
  BY <1>4
<1>7. Head(downlink) = downlink[1] /\ 1 \in DOMAIN downlink
  BY <1>2, <1>3
<1>8. \A i : i \in 1..(n - 1) <=> i \in Nat \ {0} /\ i + 1 \in 1..n
  BY <1>2, <1>3
<1>9. \A i : i \in ChunkAt(r)' <=> i \in Nat \ {0} /\ i + 1 \in ChunkAt(r)
  BY <1>2, <1>5, <1>6, <1>8 DEF ChunkAt
<1>10. \A i : i \in AnswerAt(r)' <=> i \in Nat \ {0} /\ i + 1 \in AnswerAt(r)
  BY <1>2, <1>5, <1>6, <1>8 DEF AnswerAt
<1>11. \A i \in ChunkAt(r)' : downlink'[i].chunk = downlink[i + 1].chunk
  BY <1>5, <1>6 DEF ChunkAt
<1>12. ASSUME 1 \notin ChunkAt(r)
       PROVE  SameChunks(r, 1)
  <2>1. \A i \in ChunkAt(r) : i \in 1..n
    BY <1>2 DEF ChunkAt
  <2>2. \A i \in ChunkAt(r) : i - 1 \in Nat \ {0} /\ (i - 1) + 1 = i
    BY <1>2, <1>12, <2>1
  <2>3. \A i \in ChunkAt(r) : i - 1 \in ChunkAt(r)' /\ downlink'[i - 1].chunk = downlink[i].chunk
    BY <1>9, <1>11, <2>2
  <2> QED
    BY <1>9, <1>11, <2>3 DEF SameChunks
<1>13. ASSUME 1 \notin AnswerAt(r)
       PROVE  SameAnswers(r, 1)
  <2>1. \A i \in AnswerAt(r) : i \in 1..n
    BY <1>2 DEF AnswerAt
  <2>2. \A i \in AnswerAt(r) : i - 1 \in Nat \ {0} /\ (i - 1) + 1 = i
    BY <1>2, <1>13, <2>1
  <2> QED
    BY <1>10, <2>2 DEF SameAnswers
<1>14. FramesOK => FramesOK'
  BY <1>2, <1>5, <1>6, <1>8 DEF FramesOK
<1> QED
  BY <1>4, <1>7, <1>9, <1>10, <1>11, <1>12, <1>13, <1>14


-----------------------------------------------------------------------------
(* WireTransport: the queue of a stream *)

Awaiting(s) == s.at \in {"waiting", "reading", "woken"} /\ s.end = "none"

\* The next chunk of the buffer.
LEMMA RowReads ==
  ASSUME NEW s \in AskRow, NEW t, RowOK(s), s.at = "reading", s.buffer # <<>>,
         t = [s EXCEPT !.read = Append(@, Head(s.buffer)), !.buffer = Tail(@)]
  PROVE  /\ t \in AskRow /\ RowOK(t) /\ t.at = "reading" /\ t.end = s.end
         /\ Heard(t) = Heard(s)
<1>1. PICK n, m : n = Len(s.read) /\ m = Len(s.buffer)
  OBVIOUS
<1>2. /\ s.buffer \in Seq(1..MaxChunks) /\ s.read \in Seq(1..MaxChunks)
      /\ n \in Nat /\ m \in Nat /\ DOMAIN s.read = 1..n /\ DOMAIN s.buffer = 1..m
  BY <1>1, ServedFacts
<1>3. m # 0
  BY <1>1, <1>2, EmptySeq
<1>4. /\ Head(s.buffer) \in 1..MaxChunks /\ Tail(s.buffer) \in Seq(1..MaxChunks)
      /\ Len(Tail(s.buffer)) = m - 1
      /\ \A i \in 1..Len(Tail(s.buffer)) : Tail(s.buffer)[i] = s.buffer[i + 1]
  BY <1>1, <1>2, HeadTailProperties
<1>5. Head(s.buffer) = s.buffer[1]
  OBVIOUS
<1>6. PICK c : c = Head(s.buffer)
  OBVIOUS
<1>7. /\ Append(s.read, c) \in Seq(1..MaxChunks) /\ Len(Append(s.read, c)) = n + 1
      /\ \A i \in 1..n : Append(s.read, c)[i] = s.read[i]
      /\ Append(s.read, c)[n + 1] = c
  BY <1>1, <1>2, <1>4, <1>6, AppendProperties
<1>8. /\ t.read = Append(s.read, c) /\ t.buffer = Tail(s.buffer) /\ t.at = "reading"
      /\ t.end = s.end /\ t.hand = s.hand /\ t \in AskRow
  BY <1>4, <1>6, <1>7 DEF AskRow
<1>9. s.hand = 0 /\ t.hand = 0
  BY <1>8 DEF RowOK
<1>10. Given(s) = n /\ Given(t) = n + 1
  BY <1>1, <1>7, <1>8, <1>9 DEF Given
<1>11. \A i \in 1..m : s.buffer[i] = n + i
  BY <1>2, <1>10 DEF RowOK
<1>12. c = n + 1
  BY <1>2, <1>3, <1>5, <1>6, <1>11
<1>13. DOMAIN t.read = 1..(n + 1) /\ DOMAIN t.buffer = 1..(m - 1)
  BY <1>4, <1>7, <1>8, LenProperties
<1>14. \A i \in DOMAIN t.read : t.read[i] = i
  <2>1. \A i \in 1..n : s.read[i] = i
    BY <1>2 DEF RowOK
  <2>2. \A i \in 1..(n + 1) : i \in 1..n \/ i = n + 1
    BY <1>2
  <2> QED
    BY <1>7, <1>8, <1>12, <1>13, <2>1, <2>2
<1>15. \A i \in DOMAIN t.buffer : t.buffer[i] = Given(t) + i
  <2>1. \A i \in 1..(m - 1) : i + 1 \in 1..m /\ t.buffer[i] = s.buffer[i + 1]
    BY <1>2, <1>3, <1>4, <1>8
  <2>2. \A i \in 1..(m - 1) : t.buffer[i] = n + (i + 1)
    BY <1>11, <2>1
  <2>3. \A i \in 1..(m - 1) : n + (i + 1) = (n + 1) + i
    BY <1>2
  <2> QED
    BY <1>10, <1>13, <2>2, <2>3
<1>16. RowOK(t)
  BY <1>8, <1>9, <1>14, <1>15 DEF RowOK
<1>17. Heard(s) = n + m /\ Heard(t) = (n + 1) + (m - 1)
  BY <1>1, <1>4, <1>8, <1>10 DEF Heard
<1> QED
  BY <1>2, <1>8, <1>16, <1>17

\* The chunk in the hand.
LEMMA RowResumes ==
  ASSUME NEW s \in AskRow, NEW t, RowOK(s), s.at = "woken", s.end # "failed", s.hand # 0,
         t = [s EXCEPT !.at = "reading", !.read = Append(@, s.hand), !.hand = 0]
  PROVE  /\ t \in AskRow /\ RowOK(t) /\ t.at = "reading" /\ t.end = s.end
         /\ Heard(t) = Heard(s)
<1>1. PICK n, m : n = Len(s.read) /\ m = Len(s.buffer)
  OBVIOUS
<1>2. /\ s.buffer \in Seq(1..MaxChunks) /\ s.read \in Seq(1..MaxChunks) /\ s.hand \in 0..MaxChunks
      /\ n \in Nat /\ m \in Nat /\ DOMAIN s.read = 1..n /\ DOMAIN s.buffer = 1..m /\ MaxChunks \in Nat
  BY <1>1, ServedFacts
<1>3. s.hand = n + 1 /\ s.hand \in 1..MaxChunks
  BY <1>1, <1>2 DEF RowOK
<1>4. /\ Append(s.read, s.hand) \in Seq(1..MaxChunks) /\ Len(Append(s.read, s.hand)) = n + 1
      /\ \A i \in 1..n : Append(s.read, s.hand)[i] = s.read[i]
      /\ Append(s.read, s.hand)[n + 1] = s.hand
  BY <1>1, <1>2, <1>3, AppendProperties
<1>5. /\ t.read = Append(s.read, s.hand) /\ t.buffer = s.buffer /\ t.at = "reading"
      /\ t.end = s.end /\ t.hand = 0 /\ t \in AskRow
  <2>1. 0 \in 0..MaxChunks
    BY <1>2
  <2>2. /\ t.read = Append(s.read, s.hand) /\ t.buffer = s.buffer /\ t.at = "reading"
        /\ t.end = s.end /\ t.hand = 0
    BY DEF AskRow
  <2> QED
    BY <1>4, <2>1, <2>2 DEF AskRow
<1>6. Given(s) = n + 1 /\ Given(t) = n + 1
  BY <1>1, <1>4, <1>5 DEF Given
<1>7. DOMAIN t.read = 1..(n + 1) /\ \A i \in 1..n : s.read[i] = i
  BY <1>2, <1>4, <1>5, LenProperties DEF RowOK
<1>8. \A i \in 1..(n + 1) : i \in 1..n \/ i = n + 1
  BY <1>2
<1>9. \A i \in DOMAIN t.read : t.read[i] = i
  BY <1>3, <1>4, <1>5, <1>7, <1>8
<1>10. \A i \in DOMAIN t.buffer : t.buffer[i] = Given(t) + i
  BY <1>5, <1>6 DEF RowOK
<1>11. RowOK(t)
  BY <1>5, <1>9, <1>10 DEF RowOK
<1>12. Heard(s) = Heard(t)
  BY <1>5, <1>6 DEF Heard
<1> QED
  BY <1>5, <1>11, <1>12

\* The end or the failure, found before or after a wait.
LEMMA RowSettles ==
  ASSUME NEW s \in AskRow, NEW t, RowOK(s), s.at \in {"reading", "woken"},
         s.at = "reading" => s.buffer = <<>> /\ s.end # "none",
         s.at = "woken" => s.end = "failed" \/ s.hand = 0,
         t \in AskRow, t.at = "settled", t.end = s.end, t.hand = 0, t.read = s.read, t.buffer = s.buffer
  PROVE  /\ t \in AskRow /\ RowOK(t) /\ t.at = "settled" /\ t.end = s.end /\ t.end # "none"
         /\ t.end # "failed" => Heard(t) = Heard(s) /\ Len(t.buffer) = 0
<1>1. /\ t.at = "settled" /\ t.end = s.end /\ t.hand = 0 /\ t.read = s.read /\ t.buffer = s.buffer
      /\ t \in AskRow
  OBVIOUS
<1>2. s.at = "reading" => s.hand = 0
  BY DEF RowOK
<1>3. s.at = "woken" /\ s.hand = 0 => s.buffer = <<>> /\ s.end # "none"
  BY DEF RowOK
<1>4. t.end # "none"
  BY <1>1, <1>3
<1>5. RowOK(t)
  BY <1>1 DEF RowOK
<1>6. ASSUME t.end # "failed"
      PROVE  Heard(t) = Heard(s) /\ Len(t.buffer) = 0
  <2>1. s.hand = 0 /\ s.buffer = <<>>
    BY <1>1, <1>2, <1>3, <1>6
  <2>2. Len(t.buffer) = 0
    BY <1>1, <2>1, EmptySeq
  <2>3. Given(t) = Given(s)
    BY <1>1, <2>1 DEF Given
  <2>4. Heard(t) = Heard(s)
    BY <1>1, <2>3 DEF Heard
  <2> QED
    BY <2>2, <2>4
<1> QED
  BY <1>1, <1>4, <1>5, <1>6

\* StreamQueue.push, of the chunk that comes next.
LEMMA RowPushed ==
  ASSUME NEW s \in AskRow, NEW c \in 1..MaxChunks, NEW t, RowOK(s), t = Pushed(s, c)
  PROVE  /\ ~Awaiting(s) => t = s
         /\ Awaiting(s) /\ c = Heard(s) + 1 =>
              /\ t \in AskRow /\ RowOK(t) /\ t.end = s.end /\ t.at \in {"reading", "woken"}
              /\ Heard(t) = Heard(s) + 1
<1>1. ~Awaiting(s) => t = s
  BY DEF Pushed, Awaiting
<1>2. ASSUME Awaiting(s), c = Heard(s) + 1
      PROVE  /\ t \in AskRow /\ RowOK(t) /\ t.end = s.end /\ t.at \in {"reading", "woken"}
             /\ Heard(t) = Heard(s) + 1
  <2>1. PICK n, m : n = Len(s.read) /\ m = Len(s.buffer)
    OBVIOUS
  <2>2. /\ s.buffer \in Seq(1..MaxChunks) /\ s.read \in Seq(1..MaxChunks) /\ s.hand \in 0..MaxChunks
        /\ n \in Nat /\ m \in Nat /\ DOMAIN s.read = 1..n /\ DOMAIN s.buffer = 1..m /\ MaxChunks \in Nat
    BY <2>1, ServedFacts
  <2>3. CASE s.at = "waiting"
    <3>1. t = [s EXCEPT !.at = "woken", !.hand = c]
      BY <1>2, <2>3 DEF Pushed, Awaiting
    <3>2. /\ t.at = "woken" /\ t.end = s.end /\ t.hand = c /\ t.read = s.read /\ t.buffer = s.buffer
          /\ t \in AskRow
      <4>1. c \in 0..MaxChunks
        BY <2>2
      <4>2. t.at = "woken" /\ t.end = s.end /\ t.hand = c /\ t.read = s.read /\ t.buffer = s.buffer
        BY <3>1 DEF AskRow
      <4> QED
        BY <3>1, <4>1, <4>2 DEF AskRow
    <3>3. s.hand = 0 /\ s.buffer = <<>>
      BY <2>3 DEF RowOK
    <3>4. m = 0 /\ Given(s) = n
      BY <2>1, <3>3, EmptySeq DEF Given
    <3>5. Heard(s) = n
      BY <2>1, <2>2, <3>4 DEF Heard
    <3>6. c = n + 1 /\ c # 0
      BY <1>2, <2>2, <3>5
    <3>7. Given(t) = n + 1
      BY <2>1, <3>2, <3>6 DEF Given
    <3>8. Heard(t) = n + 1
      BY <2>1, <2>2, <3>2, <3>4, <3>7 DEF Heard
    <3>9. DOMAIN t.buffer = {}
      BY <2>2, <3>2, <3>4
    <3>10. RowOK(t)
      BY <2>1, <3>2, <3>6, <3>9 DEF RowOK
    <3> QED
      BY <3>2, <3>5, <3>8, <3>10
  <2>4. CASE s.at # "waiting"
    <3>1. s.at \in {"reading", "woken"} /\ t = [s EXCEPT !.buffer = Append(@, c)]
      BY <1>2, <2>4 DEF Pushed, Awaiting
    <3>2. /\ Append(s.buffer, c) \in Seq(1..MaxChunks) /\ Len(Append(s.buffer, c)) = m + 1
          /\ \A i \in 1..m : Append(s.buffer, c)[i] = s.buffer[i]
          /\ Append(s.buffer, c)[m + 1] = c
      BY <2>1, <2>2, AppendProperties
    <3>3. /\ t.at = s.at /\ t.end = s.end /\ t.hand = s.hand /\ t.read = s.read
          /\ t.buffer = Append(s.buffer, c) /\ t \in AskRow
      BY <2>2, <3>1, <3>2 DEF AskRow
    <3>4. Given(t) = Given(s)
      BY <3>3 DEF Given
    <3>5. Given(s) \in Nat /\ Heard(s) = Given(s) + m
      BY <2>1, ServedFacts
    <3>6. Heard(t) = Given(s) + (m + 1)
      BY <3>2, <3>3, <3>4 DEF Heard
    <3>7. DOMAIN t.buffer = 1..(m + 1) /\ \A i \in 1..(m + 1) : i \in 1..m \/ i = m + 1
      BY <2>2, <3>2, <3>3, LenProperties
    <3>8. c = Given(s) + (m + 1)
      BY <1>2, <2>2, <3>5
    <3>9. \A i \in 1..m : s.buffer[i] = Given(s) + i
      BY <2>2, <3>1 DEF RowOK
    <3>10. \A i \in DOMAIN t.buffer : t.buffer[i] = Given(t) + i
      BY <3>2, <3>3, <3>4, <3>7, <3>8, <3>9
    <3>11. ~(s.at = "woken" /\ s.hand = 0)
      BY <1>2 DEF RowOK, Awaiting
    <3>12. RowOK(t)
      BY <3>1, <3>3, <3>10, <3>11 DEF RowOK
    <3>13. Heard(t) = Heard(s) + 1
      BY <2>2, <3>5, <3>6
    <3> QED
      BY <3>1, <3>3, <3>12, <3>13
  <2> QED
    BY <2>3, <2>4
<1> QED
  BY <1>1, <1>2

\* The end or failure of a request.
LEMMA RowEnded ==
  ASSUME NEW s \in AskRow, NEW r, NEW how \in {"finished", "failed"}, NEW t, RowOK(s),
         t = Ended(r, s, how), r \notin streamed => s.at \in {"new", "waiting", "settled"}
  PROVE  /\ ~Awaiting(s) => t = s
         /\ t \in AskRow /\ RowOK(t) /\ ~Awaiting(t) /\ t.read = s.read /\ Heard(t) = Heard(s)
         /\ t.buffer = s.buffer
         /\ Awaiting(s) => /\ t.end = how
                            /\ t.at = IF r \in streamed THEN Woken(s.at) ELSE "settled"
<1>1. ~Awaiting(s) => t = s
  BY DEF Ended, Awaiting
<1>2. CASE ~Awaiting(s)
  BY <1>1, <1>2
<1>3. CASE Awaiting(s)
  <2>1. PICK at : at = IF r \in streamed THEN Woken(s.at) ELSE "settled"
    OBVIOUS
  <2>2. t = [s EXCEPT !.end = how, !.at = at]
    BY <1>3, <2>1 DEF Ended, Awaiting
  <2>3. at \in {"reading", "woken", "settled"}
    BY <1>3, <2>1 DEF Woken, Awaiting
  <2>4. /\ t.at = at /\ t.end = how /\ t.hand = s.hand /\ t.read = s.read /\ t.buffer = s.buffer
        /\ t \in AskRow
    BY <2>2, <2>3, ServedFacts DEF AskRow
  <2>5. Given(t) = Given(s)
    BY <2>4 DEF Given
  <2>6. Heard(t) = Heard(s)
    BY <2>4, <2>5 DEF Heard
  <2>7. s.hand # 0 => at = "woken"
    BY <1>3, <2>1 DEF RowOK, Woken, Awaiting
  <2>8. at \in {"reading", "woken"} => \A i \in DOMAIN s.buffer : s.buffer[i] = Given(s) + i
    <3>1. CASE s.at = "waiting"
      <4>1. s.buffer = <<>>
        BY <3>1 DEF RowOK
      <4> QED
        BY <4>1
    <3>2. CASE s.at # "waiting"
      BY <1>3, <3>2 DEF RowOK, Awaiting
    <3> QED
      BY <3>1, <3>2
  <2>9. at = "woken" /\ s.hand = 0 => s.buffer = <<>>
    BY <1>3, <2>1 DEF RowOK, Woken, Awaiting
  <2>10. RowOK(t)
    BY <2>3, <2>4, <2>5, <2>7, <2>8, <2>9 DEF RowOK
  <2> QED
    BY <1>3, <2>1, <2>3, <2>4, <2>6, <2>10 DEF Awaiting
<1> QED
  BY <1>2, <1>3


-----------------------------------------------------------------------------
(* WireTransport: the steps of the client *)

WireOK(r) == PlaceOK(r) /\ AskOK(r) /\ FlowOK(r) /\ NoneStranded(r)

LEMMA WireParts ==
  ASSUME WireInv
  PROVE  /\ WireTyped /\ FramesOK /\ SlotsOK /\ ChainOK
         /\ \A r \in Request : WireOK(r) /\ PlaceOK(r) /\ AskOK(r) /\ FlowOK(r) /\ NoneStranded(r)
                               /\ RowOK(ask[r])
BY DEF WireInv, WireOK, AskOK

LEMMA WireWhole ==
  ASSUME WireTyped', FramesOK', SlotsOK', ChainOK', \A r \in Request : WireOK(r)'
  PROVE  WireInv'
BY DEF WireInv, WireOK

\* A step of the server, for a request it does not touch.
LEMMA ServerRests ==
  ASSUME NEW q \in Request, WireTyped, WireTyped', WireOK(q), UNCHANGED clientVars, SameFrames(q, 0),
         served'[q] = served[q], q \in shed' <=> q \in shed, AskedAt(q)' = AskedAt(q),
         far' = "open" => far = "open"
  PROVE  WireOK(q)'
<1>1. ask' = ask /\ near' = near /\ streamed' = streamed /\ late' = late
  BY DEF clientVars
<1>2. PlaceOK(q) /\ AskOK(q) /\ FlowOK(q) /\ NoneStranded(q)
  BY DEF WireOK
<1>3. (Awaited(q)' <=> Awaited(q)) /\ Heard(ask'[q]) = Heard(ask[q]) /\ 0 \in 0..1
  BY <1>1 DEF Awaited
<1>4. \A i, j \in AskedAt(q)' : i = j
  BY <1>2 DEF PlaceOK
<1>5. PlaceOK(q)'
  BY <1>1, <1>2, <1>3, <1>4, PlaceRests DEF SameFrames
<1>6. AskOK(q)'
  BY <1>1, <1>2, AskRests
<1>7. FlowOK(q)'
  BY <1>1, <1>2, <1>3, FlowRests
<1>8. NoneStranded(q)'
  BY <1>1, <1>2, <1>3 DEF NoneStranded
<1> QED
  BY <1>5, <1>6, <1>7, <1>8 DEF WireOK

\* A step of one stream that has been called, while the links and the server rest.
LEMMA ReadMoves ==
  ASSUME WireInv, NEW r \in Request, NEW t \in AskRow, r \in streamed, ask' = [ask EXCEPT ![r] = t],
         RowOK(t), t.at # "new", Awaiting(t) => Awaiting(ask[r]) /\ Heard(t) = Heard(ask[r]),
         t.end = "finished" /\ t.at # "left" =>
           /\ ask[r].end = "finished" /\ ask[r].at # "left" /\ Heard(t) = Heard(ask[r])
           /\ t.at = "settled" => Len(t.buffer) = 0,
         UNCHANGED <<lease, near, streamed, late, uplink, downlink, serverVars>>
  PROVE  WireInv'
<1>1. /\ lease' = lease /\ near' = near /\ streamed' = streamed /\ late' = late /\ uplink' = uplink
      /\ downlink' = downlink /\ far' = far /\ cap' = cap /\ slots' = slots /\ served' = served
      /\ tail' = tail /\ shed' = shed
  BY DEF serverVars
<1>2. WireTyped /\ ask \in [Request -> AskRow]
  BY WireParts, WireFacts
<1>3. ask' \in [Request -> AskRow] /\ ask'[r] = t /\ \A q \in Request : q # r => ask'[q] = ask[q]
  BY <1>2
<1>4. WireTyped'
  BY <1>1, <1>2, <1>3 DEF WireTyped
<1>5. FramesOK'
  BY <1>1, WireParts DEF FramesOK
<1>6. SlotsOK'
  BY <1>1, WireParts DEF SlotsOK, BusyOnes
<1>7. ChainOK'
  BY <1>1, <1>2, <1>4, WireParts, ChainRests
<1>8. ASSUME NEW q \in Request
      PROVE  WireOK(q)'
  <2>1. PlaceOK(q) /\ AskOK(q) /\ FlowOK(q) /\ NoneStranded(q)
    BY WireParts
  <2>2. SameFrames(q, 0) /\ 0 \in 0..1
    BY <1>1, <1>2, NothingSent
  <2>3. AskedAt(q)' = AskedAt(q) /\ \A i, j \in AskedAt(q)' : i = j
    BY <1>1, <2>1 DEF AskedAt, PlaceOK
  <2>4. Awaited(q)' => Awaited(q) /\ Heard(ask'[q]) = Heard(ask[q])
    BY <1>3 DEF Awaited, Awaiting
  <2>5. ask'[q].at = "new" => ask[q].at = "new"
    BY <1>3
  <2>6. PlaceOK(q)'
    BY <1>1, <1>2, <1>4, <2>1, <2>2, <2>3, <2>4, <2>5, PlaceRests DEF SameFrames
  <2>7. FlowOK(q)'
    BY <1>1, <1>2, <1>4, <2>1, <2>2, <2>4, FlowRests
  <2>8. AskOK(q)'
    <3>1. CASE q # r
      BY <1>1, <1>3, <2>1, <3>1, AskRests
    <3>2. CASE q = r
      BY <1>1, <1>3, <2>1, <3>2 DEF AskOK
    <3> QED
      BY <3>1, <3>2
  <2>9. NoneStranded(q)'
    BY <1>1, <2>1, <2>4 DEF NoneStranded
  <2> QED
    BY <2>6, <2>7, <2>8, <2>9 DEF WireOK
<1> QED
  BY <1>4, <1>5, <1>6, <1>7, <1>8, WireWhole

LEMMA IteratesKeeps ==
  ASSUME WireInv, NEW r \in Request, Iterates(r)
  PROVE  WireInv'
<1>1. /\ r \in streamed /\ ask[r].at = "reading" /\ ask[r] \in AskRow /\ RowOK(ask[r])
      /\ ask \in [Request -> AskRow]
      /\ UNCHANGED <<lease, near, streamed, late, uplink, downlink, serverVars>>
  BY WireParts, AskFacts, WireFacts DEF Iterates
<1>2. ask[r].hand = 0
  BY <1>1 DEF RowOK
<1>3. CASE ask[r].buffer # <<>>
  <2>1. PICK t : t = [ask[r] EXCEPT !.read = Append(@, Head(ask[r].buffer)), !.buffer = Tail(@)]
    OBVIOUS
  <2>2. /\ t \in AskRow /\ RowOK(t) /\ t.at = "reading" /\ t.end = ask[r].end
        /\ Heard(t) = Heard(ask[r])
    BY ZenonT(30), <1>1, <1>3, <2>1, RowReads
  <2>3. ask' = [ask EXCEPT ![r] = t]
    <3>1. ask' = [ask EXCEPT ![r] =
            IF ask[r].buffer # <<>>
            THEN [ask[r] EXCEPT !.read = Append(@, Head(ask[r].buffer)), !.buffer = Tail(@)]
            ELSE [ask[r] EXCEPT !.at = IF ask[r].end = "none" THEN "waiting" ELSE "settled"]]
      BY DEF Iterates
    <3> QED
      BY <1>3, <2>1, <3>1
  <2> QED
    BY <1>1, <2>2, <2>3, ReadMoves DEF Awaiting
<1>4. CASE ask[r].buffer = <<>> /\ ask[r].end = "none"
  <2>1. PICK t : t = [ask[r] EXCEPT !.at = "waiting"]
    OBVIOUS
  <2>2. /\ t.at = "waiting" /\ t.end = "none" /\ t.hand = 0 /\ t.read = ask[r].read /\ t.buffer = <<>>
        /\ t.buffer = ask[r].buffer /\ t \in AskRow
    BY <1>1, <1>2, <1>4, <2>1 DEF AskRow
  <2>3. RowOK(t)
    BY <1>1, <2>2 DEF RowOK
  <2>4. Given(t) = Given(ask[r])
    BY <1>2, <2>2 DEF Given
  <2>5. Heard(t) = Heard(ask[r])
    BY <2>2, <2>4 DEF Heard
  <2>6. ask' = [ask EXCEPT ![r] = t]
    BY <1>4, <2>1 DEF Iterates
  <2> QED
    BY <1>1, <1>4, <2>2, <2>3, <2>5, <2>6, ReadMoves DEF Awaiting
<1>5. CASE ask[r].buffer = <<>> /\ ask[r].end # "none"
  <2>1. PICK t : t = [ask[r] EXCEPT !.at = "settled"]
    OBVIOUS
  <2>2. t = [ask[r] EXCEPT !.at = "settled", !.hand = 0]
    BY <1>1, <1>2, <2>1 DEF AskRow
  <2>3. /\ t \in AskRow /\ RowOK(t) /\ t.at = "settled" /\ t.end = ask[r].end /\ t.end # "none"
        /\ t.end # "failed" => Heard(t) = Heard(ask[r]) /\ Len(t.buffer) = 0
    <3>1. PICK s \in AskRow : s = ask[r]
      BY <1>1
    <3>2. /\ RowOK(s) /\ s.at \in {"reading", "woken"} /\ (s.at = "reading" => s.buffer = <<>> /\ s.end # "none")
          /\ (s.at = "woken" => s.end = "failed" \/ s.hand = 0)
      BY <1>1, <1>5, <3>1
    <3>3. 0 \in 0..MaxChunks
      BY ServedFacts, <3>1
    <3>4. t.at = "settled" /\ t.end = s.end /\ t.hand = 0 /\ t.read = s.read /\ t.buffer = s.buffer
      BY <2>2, <3>1 DEF AskRow
    <3>5. t \in AskRow
      BY <2>2, <3>1, <3>3, <3>4 DEF AskRow
    <3>6. /\ t \in AskRow /\ RowOK(t) /\ t.at = "settled" /\ t.end = s.end /\ t.end # "none"
          /\ t.end # "failed" => Heard(t) = Heard(s) /\ Len(t.buffer) = 0
      BY <3>2, <3>4, <3>5, RowSettles
    <3> QED
      BY <3>1, <3>6
  <2>4. ask' = [ask EXCEPT ![r] = t]
    BY <1>5, <2>1 DEF Iterates
  <2> QED
    BY <1>1, <2>3, <2>4, ReadMoves DEF Awaiting
<1> QED
  BY <1>3, <1>4, <1>5

LEMMA ResumesKeeps ==
  ASSUME WireInv, NEW r \in Request, Resumes(r)
  PROVE  WireInv'
<1>1. /\ ask[r].at = "woken" /\ ask[r] \in AskRow /\ RowOK(ask[r]) /\ AskOK(r)
      /\ ask \in [Request -> AskRow]
      /\ UNCHANGED <<lease, near, streamed, late, uplink, downlink, serverVars>>
  BY WireParts, AskFacts, WireFacts DEF Resumes
<1>2. r \in streamed
  BY <1>1 DEF AskOK
<1>3. CASE ask[r].end = "failed" \/ ask[r].hand = 0
  <2>1. PICK t : t = [ask[r] EXCEPT !.at = "settled", !.hand = 0]
    OBVIOUS
  <2>2. /\ t \in AskRow /\ RowOK(t) /\ t.at = "settled" /\ t.end = ask[r].end /\ t.end # "none"
        /\ t.end # "failed" => Heard(t) = Heard(ask[r]) /\ Len(t.buffer) = 0
    <3>1. PICK s \in AskRow : s = ask[r]
      BY <1>1
    <3>2. /\ RowOK(s) /\ s.at \in {"reading", "woken"} /\ (s.at = "reading" => s.buffer = <<>> /\ s.end # "none")
          /\ (s.at = "woken" => s.end = "failed" \/ s.hand = 0)
      BY <1>1, <1>3, <3>1
    <3>3. 0 \in 0..MaxChunks
      BY ServedFacts, <3>1
    <3>4. t.at = "settled" /\ t.end = s.end /\ t.hand = 0 /\ t.read = s.read /\ t.buffer = s.buffer
      BY <2>1, <3>1 DEF AskRow
    <3>5. t \in AskRow
      BY <2>1, <3>1, <3>3, <3>4 DEF AskRow
    <3>6. /\ t \in AskRow /\ RowOK(t) /\ t.at = "settled" /\ t.end = s.end /\ t.end # "none"
          /\ t.end # "failed" => Heard(t) = Heard(s) /\ Len(t.buffer) = 0
      BY <3>2, <3>4, <3>5, RowSettles
    <3> QED
      BY <3>1, <3>6
  <2>3. ask' = [ask EXCEPT ![r] = t]
    BY <1>3, <2>1 DEF Resumes
  <2> QED
    BY <1>1, <1>2, <2>2, <2>3, ReadMoves DEF Awaiting
<1>4. CASE ~(ask[r].end = "failed" \/ ask[r].hand = 0)
  <2>1. PICK t : t = [ask[r] EXCEPT !.at = "reading", !.read = Append(@, ask[r].hand), !.hand = 0]
    OBVIOUS
  <2>2. /\ t \in AskRow /\ RowOK(t) /\ t.at = "reading" /\ t.end = ask[r].end
        /\ Heard(t) = Heard(ask[r])
    <3>1. PICK s \in AskRow : s = ask[r]
      BY <1>1
    <3>2. RowOK(s) /\ s.at = "woken" /\ s.end # "failed" /\ s.hand # 0
      BY <1>1, <1>4, <3>1
    <3>3. t = [s EXCEPT !.at = "reading", !.read = Append(@, s.hand), !.hand = 0]
      BY <2>1, <3>1
    <3>4. /\ t \in AskRow /\ RowOK(t) /\ t.at = "reading" /\ t.end = s.end
          /\ Heard(t) = Heard(s)
      BY ZenonT(30), <3>2, <3>3, RowResumes
    <3> QED
      BY <3>1, <3>4
  <2>3. ask' = [ask EXCEPT ![r] = t]
    <3>1. ask' = [ask EXCEPT ![r] =
            IF ask[r].end = "failed" \/ ask[r].hand = 0
            THEN [ask[r] EXCEPT !.at = "settled", !.hand = 0]
            ELSE [ask[r] EXCEPT !.at = "reading", !.read = Append(@, ask[r].hand), !.hand = 0]]
      BY DEF Resumes
    <3> QED
      BY <1>4, <2>1, <3>1
  <2> QED
    BY <1>1, <1>2, <2>2, <2>3, ReadMoves DEF Awaiting
<1> QED
  BY <1>3, <1>4

LEMMA LeavesKeeps ==
  ASSUME WireInv, NEW r \in Request, Leaves(r)
  PROVE  WireInv'
<1>1. /\ r \in streamed /\ ask[r].at = "reading" /\ ask[r] \in AskRow /\ RowOK(ask[r])
      /\ ask \in [Request -> AskRow]
      /\ UNCHANGED <<lease, near, streamed, late, uplink, downlink, serverVars>>
  BY WireParts, AskFacts, WireFacts DEF Leaves
<1>2. PICK t : t = [ask[r] EXCEPT !.at = "left", !.buffer = <<>>, !.read = <<>>]
  OBVIOUS
<1>3. ask' = [ask EXCEPT ![r] = t]
  BY <1>1, <1>2 DEF Leaves
<1>4. t.at = "left" /\ t.read = <<>> /\ t.hand = ask[r].hand /\ t.buffer = <<>>
  BY <1>1, <1>2 DEF AskRow
<1>5. t \in AskRow
  BY <1>1, <1>2, <1>4, EmptySeq DEF AskRow
<1>6. RowOK(t)
  <2>1. DOMAIN t.read = {}
    BY <1>4, EmptySeq
  <2>2. t.hand = 0
    BY <1>1, <1>4 DEF RowOK
  <2> QED
    BY <1>4, <2>1, <2>2 DEF RowOK
<1> QED
  BY <1>1, <1>3, <1>4, <1>5, <1>6, ReadMoves DEF Awaiting


LEMMA UplinkAppended ==
  ASSUME NEW q \in Request, NEW r \in Request, WireTyped, uplink' = Append(uplink, r)
  PROVE  /\ uplink' \in Seq(Request)
         /\ AskedAt(q)' = IF q = r THEN AskedAt(q) \cup {Len(uplink) + 1} ELSE AskedAt(q)
<1>1. PICK n : n = Len(uplink)
  OBVIOUS
<1>2. n \in Nat /\ DOMAIN uplink = 1..n /\ uplink \in Seq(Request)
  BY <1>1, WireFacts
<1>3. /\ uplink' \in Seq(Request) /\ Len(uplink') = n + 1
      /\ \A i \in 1..n : uplink'[i] = uplink[i]
      /\ uplink'[n + 1] = r
  BY <1>1, <1>2, AppendProperties
<1>4. DOMAIN uplink' = 1..(n + 1)
  BY <1>3, LenProperties
<1>5. \A i : i \in 1..(n + 1) <=> i \in 1..n \/ i = n + 1
  BY <1>2
<1>6. \A i : i \in AskedAt(q)' <=> (i \in AskedAt(q) \/ (i = n + 1 /\ q = r))
  BY <1>2, <1>3, <1>4, <1>5 DEF AskedAt
<1>7. AskedAt(q)' = IF q = r THEN AskedAt(q) \cup {n + 1} ELSE AskedAt(q)
  BY <1>6
<1> QED
  BY <1>1, <1>3, <1>7

LEMMA CallsKeeps ==
  ASSUME WireInv, NEW r \in Request, Calls(r)
  PROVE  WireInv'
<1>1. /\ lease' = lease /\ near' = near /\ downlink' = downlink /\ far' = far /\ cap' = cap
      /\ slots' = slots /\ served' = served /\ tail' = tail /\ shed' = shed
      /\ ask[r].at = "new"
      /\ uplink' = IF near = "open" THEN Append(uplink, r) ELSE uplink
      /\ late' = IF near = "closed" THEN late \union {r} ELSE late
  BY DEF Calls, serverVars
<1>2. WireTyped /\ ask \in [Request -> AskRow] /\ ask[r] \in AskRow /\ RowOK(ask[r])
      /\ PlaceOK(r) /\ FlowOK(r) /\ AskOK(r)
  BY WireParts, WireFacts
<1>3. PICK at \in {"reading", "waiting"} :
        /\ ask' = [ask EXCEPT ![r].at = at]
        /\ streamed' = IF at = "reading" THEN streamed \union {r} ELSE streamed
  BY DEF Calls
<1>4. PICK t : t = [ask[r] EXCEPT !.at = at]
  OBVIOUS
<1>5. /\ t.at = at /\ t.buffer = ask[r].buffer /\ t.hand = ask[r].hand /\ t.end = ask[r].end
      /\ t.read = ask[r].read /\ t \in AskRow
  BY <1>2, <1>4 DEF AskRow
<1>6. ask' \in [Request -> AskRow] /\ ask'[r] = t /\ \A q \in Request : q # r => ask'[q] = ask[q]
  BY <1>2, <1>3, <1>4, <1>5
<1>7. t.buffer = <<>> /\ t.end = "none" /\ t.hand = 0 /\ Len(t.read) = 0 /\ r \notin streamed
  BY <1>1, <1>2, <1>5 DEF RowOK, AskOK
<1>8. RowOK(t)
  <2>1. DOMAIN t.buffer = {}
    BY <1>7, EmptySeq
  <2> QED
    BY <1>2, <1>5, <1>7, <2>1 DEF RowOK
<1>9. Heard(t) = 0
  BY <1>7, EmptySeq DEF Heard, Given
<1>10. /\ AskedAt(r) = {} /\ AnswerAt(r) = {} /\ ChunkAt(r) = {} /\ r \notin shed
       /\ served[r].at = "none" /\ served[r].said = 0
  BY <1>1, <1>2 DEF PlaceOK, FlowOK
<1>11. /\ uplink' \in Seq(Request)
       /\ \A q \in Request : q # r => AskedAt(q)' = AskedAt(q)
       /\ near = "open" => AskedAt(r)' = {Len(uplink) + 1}
       /\ near # "open" => AskedAt(r)' = {}
  <2>1. CASE near = "open"
    <3>1. uplink' = Append(uplink, r)
      BY <1>1, <2>1
    <3>2. /\ uplink' \in Seq(Request)
          /\ \A q \in Request : AskedAt(q)' = IF q = r THEN AskedAt(q) \cup {Len(uplink) + 1} ELSE AskedAt(q)
      BY <1>2, <3>1, UplinkAppended
    <3> QED
      BY <1>10, <2>1, <3>2
  <2>2. CASE near # "open"
    <3>1. uplink' = uplink
      BY <1>1, <2>2
    <3> QED
      BY <1>2, <1>10, <2>2, <3>1, WireFacts DEF AskedAt
  <2> QED
    BY <2>1, <2>2
<1>12. WireTyped'
  BY <1>1, <1>2, <1>3, <1>6, <1>11 DEF WireTyped
<1>13. FramesOK'
  BY <1>1, WireParts DEF FramesOK
<1>14. SlotsOK'
  BY <1>1, WireParts DEF SlotsOK, BusyOnes
<1>15. ChainOK'
  BY <1>1, <1>2, <1>12, WireParts, ChainRests
<1>16. ASSUME NEW q \in Request, q # r
       PROVE  WireOK(q)'
  <2>1. PlaceOK(q) /\ AskOK(q) /\ FlowOK(q) /\ NoneStranded(q) /\ 0 \in 0..1
    BY WireParts
  <2>2. SameFrames(q, 0)
    BY <1>1, <1>2, NothingSent
  <2>3. /\ AskedAt(q)' = AskedAt(q) /\ \A i, j \in AskedAt(q)' : i = j
        /\ ask'[q] = ask[q] /\ (q \in streamed' <=> q \in streamed) /\ (q \in late => q \in late')
    BY <1>1, <1>3, <1>6, <1>11, <1>16, <2>1 DEF PlaceOK
  <2>4. Awaited(q)' <=> Awaited(q)
    BY <2>3 DEF Awaited
  <2>5. PlaceOK(q)'
    BY <1>1, <1>2, <1>12, <2>1, <2>2, <2>3, <2>4, PlaceRests DEF SameFrames
  <2>6. AskOK(q)'
    BY <1>1, <2>1, <2>3, AskRests
  <2>7. FlowOK(q)'
    BY <1>1, <1>2, <1>12, <2>1, <2>2, <2>3, <2>4, FlowRests
  <2>8. NoneStranded(q)'
    BY <1>1, <2>1, <2>3, <2>4 DEF NoneStranded
  <2> QED
    BY <2>5, <2>6, <2>7, <2>8 DEF WireOK
<1>17. WireOK(r)'
  <2>1. AnswerAt(r)' = {} /\ ChunkAt(r)' = {} /\ served'[r].at = "none" /\ served'[r].said = 0 /\ r \notin shed'
    BY <1>1, <1>10 DEF AnswerAt, ChunkAt
  <2>2. PlaceOK(r)'
    <3>1. \A i, j \in AskedAt(r)' : i = j
      BY <1>11
    <3>2. near' = "open" => AskedAt(r)' # {}
      BY <1>1, <1>11
    <3> QED
      BY <1>3, <1>5, <1>6, <2>1, <3>1, <3>2 DEF PlaceOK
  <2>3. AskOK(r)'
    BY <1>3, <1>5, <1>6, <1>7, <1>8 DEF AskOK
  <2>4. FlowOK(r)'
    <3>1. Heard(ask'[r]) = 0
      BY <1>6, <1>9
    <3>2. \A k \in (0 + 1)..0 : FALSE
      OBVIOUS
    <3> QED
      BY <2>1, <3>1, <3>2 DEF FlowOK
  <2>5. NoneStranded(r)'
    BY <1>1 DEF NoneStranded
  <2> QED
    BY <2>2, <2>3, <2>4, <2>5 DEF WireOK
<1> QED
  BY <1>12, <1>13, <1>14, <1>15, <1>16, <1>17, WireWhole

LEMMA ClosesKeeps ==
  ASSUME WireInv, Closes
  PROVE  WireInv'
<1>1. /\ near = "open" /\ near' = "closing"
      /\ lease' = lease /\ ask' = ask /\ streamed' = streamed /\ late' = late /\ uplink' = uplink
      /\ downlink' = downlink /\ far' = far /\ cap' = cap /\ slots' = slots /\ served' = served
      /\ tail' = tail /\ shed' = shed
  BY DEF Closes, serverVars
<1>2. WireTyped
  BY WireParts
<1>3. WireTyped'
  BY <1>1, <1>2 DEF WireTyped
<1>4. FramesOK'
  BY <1>1, WireParts DEF FramesOK
<1>5. SlotsOK'
  BY <1>1, WireParts DEF SlotsOK, BusyOnes
<1>6. ChainOK'
  BY <1>1, <1>2, <1>3, WireParts, ChainRests
<1>7. ASSUME NEW q \in Request
      PROVE  WireOK(q)'
  <2>1. PlaceOK(q) /\ AskOK(q) /\ FlowOK(q) /\ 0 \in 0..1
    BY WireParts
  <2>2. SameFrames(q, 0)
    BY <1>1, <1>2, NothingSent
  <2>3. AskedAt(q)' = AskedAt(q) /\ (Awaited(q)' <=> Awaited(q)) /\ \A i, j \in AskedAt(q)' : i = j
    BY <1>1, <2>1 DEF AskedAt, Awaited, PlaceOK
  <2>4. PlaceOK(q)'
    BY <1>1, <1>2, <1>3, <2>1, <2>2, <2>3, PlaceRests DEF SameFrames
  <2>5. AskOK(q)'
    BY <1>1, <2>1, AskRests
  <2>6. FlowOK(q)'
    BY <1>1, <1>2, <1>3, <2>1, <2>2, <2>3, FlowRests
  <2>7. NoneStranded(q)'
    BY <1>1 DEF NoneStranded
  <2> QED
    BY <2>4, <2>5, <2>6, <2>7 DEF WireOK
<1> QED
  BY <1>3, <1>4, <1>5, <1>6, <1>7, WireWhole

LEMMA SocketEndsKeeps ==
  ASSUME WireInv, SocketEnds
  PROVE  WireInv'
<1>1. /\ near' = "closed" /\ far' = "closed" /\ uplink' = <<>> /\ downlink' = <<>>
      /\ lease' = IF lease = "pending" THEN "refused" ELSE lease
      /\ ask' = [r \in Request |-> Ended(r, ask[r], "failed")]
      /\ streamed' = streamed /\ cap' = cap /\ late' = late /\ slots' = slots /\ served' = served
      /\ tail' = tail /\ shed' = shed
  BY DEF SocketEnds
<1>2. WireTyped /\ \A r \in Request : ask[r] \in AskRow /\ RowOK(ask[r]) /\ AskOK(r)
  BY WireParts, WireFacts
<1>3. ASSUME NEW r \in Request
      PROVE  /\ ask'[r] \in AskRow /\ RowOK(ask'[r]) /\ ~Awaiting(ask'[r])
             /\ Heard(ask'[r]) = Heard(ask[r]) /\ ask'[r].read = ask[r].read
             /\ ask'[r] = ask[r] \/ (/\ Awaiting(ask[r]) /\ ask'[r].end = "failed"
                                     /\ ask'[r].at # "new"
                                     /\ r \notin streamed => ask'[r].at = "settled")
  <2>1. PICK s \in AskRow : s = ask[r]
    BY <1>2
  <2>2. PICK t : t = Ended(r, s, "failed")
    OBVIOUS
  <2>3. ask'[r] = t
    BY <1>1, <2>1, <2>2
  <2>4. RowOK(s) /\ (r \notin streamed => s.at \in {"new", "waiting", "settled"})
    BY <1>2, <2>1 DEF AskOK
  <2>5. /\ ~Awaiting(s) => t = s
        /\ t \in AskRow /\ RowOK(t) /\ ~Awaiting(t) /\ t.read = s.read /\ Heard(t) = Heard(s)
        /\ t.buffer = s.buffer
        /\ Awaiting(s) => /\ t.end = "failed"
                          /\ t.at = IF r \in streamed THEN Woken(s.at) ELSE "settled"
    BY <2>2, <2>4, RowEnded
  <2>6. Awaiting(s) => t.at # "new"
    BY <2>5 DEF Woken, Awaiting
  <2> QED
    BY <2>1, <2>3, <2>5, <2>6
<1>4. ask' \in [Request -> AskRow]
  BY <1>1, <1>3
<1>5. WireTyped'
  BY <1>1, <1>2, <1>4, EmptySeq DEF WireTyped
<1>6. DOMAIN uplink' = {} /\ DOMAIN downlink' = {}
  BY <1>1, EmptySeq
<1>7. FramesOK'
  BY <1>6 DEF FramesOK
<1>8. SlotsOK'
  BY <1>1, WireParts DEF SlotsOK, BusyOnes
<1>9. ChainOK'
  BY <1>1, <1>2, <1>5, WireParts, ChainRests
<1>10. ASSUME NEW r \in Request
       PROVE  WireOK(r)'
  <2>1. AskedAt(r)' = {} /\ AnswerAt(r)' = {} /\ ChunkAt(r)' = {}
    BY <1>6 DEF AskedAt, AnswerAt, ChunkAt
  <2>2. PlaceOK(r) /\ AskOK(r) /\ FlowOK(r)
    BY WireParts
  <2>3. ~Awaited(r)'
    BY <1>3 DEF Awaited, Awaiting
  <2>4. ask'[r].at = "new" => ask[r].at = "new"
    BY <1>3
  <2>5. PlaceOK(r)'
    BY <1>1, <2>1, <2>2, <2>3, <2>4 DEF PlaceOK
  <2>6. AskOK(r)'
    <3>1. CASE ask'[r] = ask[r]
      BY <1>1, <2>2, <3>1, AskRests
    <3>2. CASE /\ Awaiting(ask[r]) /\ ask'[r].end = "failed" /\ ask'[r].at # "new"
               /\ r \notin streamed => ask'[r].at = "settled"
      BY <1>1, <1>3, <3>2 DEF AskOK
    <3> QED
      BY <1>3, <3>1, <3>2
  <2>7. FlowOK(r)'
    BY <1>1, <2>1, <2>2, <2>3 DEF FlowOK
  <2>8. NoneStranded(r)'
    BY <2>3 DEF NoneStranded
  <2> QED
    BY <2>5, <2>6, <2>7, <2>8 DEF WireOK
<1> QED
  BY <1>5, <1>7, <1>8, <1>9, <1>10, WireWhole


\* A chunk comes to the client: it is the one after what was heard.
LEMMA ChunkReceived ==
  ASSUME WireInv, WireTyped', NEW r \in Request, NEW c, downlink # <<>>, downlink' = Tail(downlink),
         1 \in ChunkAt(r), c = downlink[1].chunk, ask'[r] = Pushed(ask[r], c),
         UNCHANGED <<near, streamed, late, uplink, serverVars>>
  PROVE  WireOK(r)'
<1>1. /\ far' = far /\ cap' = cap /\ slots' = slots /\ served' = served /\ tail' = tail /\ shed' = shed
      /\ near' = near /\ streamed' = streamed /\ late' = late /\ uplink' = uplink
  BY DEF serverVars
<1>2. /\ WireTyped /\ PlaceOK(r) /\ AskOK(r) /\ FlowOK(r) /\ NoneStranded(r) /\ 1 \in 0..1
      /\ ask[r] \in AskRow /\ RowOK(ask[r])
  BY WireParts, WireFacts
<1>3. PICK s \in AskRow : s = ask[r]
  BY <1>2
<1>4. PICK said : said = served[r].said
  OBVIOUS
<1>5. /\ said \in 0..MaxChunks /\ MaxChunks \in Nat /\ said \in Nat
  BY <1>2, <1>4, AskFacts, WireFacts
<1>6. PICK t : t = Pushed(s, c)
  OBVIOUS
<1>7. ask'[r] = t
  BY <1>3, <1>6
<1>8. Heard(s) \in Nat /\ RowOK(s)
  BY <1>2, <1>3, ServedFacts
<1>9. c \in 1..said /\ r \in streamed /\ served[r].at \in {"turning", "over"}
  BY <1>2, <1>4 DEF FlowOK
<1>10. c \in Nat /\ c \in 1..MaxChunks
  BY <1>5, <1>9
<1>11. /\ \A i : i \in ChunkAt(r)' <=> i \in Nat \ {0} /\ i + 1 \in ChunkAt(r)
       /\ \A i : i \in AnswerAt(r)' <=> i \in Nat \ {0} /\ i + 1 \in AnswerAt(r)
       /\ \A i \in ChunkAt(r)' : downlink'[i].chunk = downlink[i + 1].chunk
  BY <1>2, FrameTaken
<1>12. 1 \notin AnswerAt(r)
  BY DEF ChunkAt, AnswerAt
<1>13. SameAnswers(r, 1)
  BY <1>2, <1>12, FrameTaken
<1>14. \A i \in ChunkAt(r) : i \in Nat /\ i >= 1
  BY <1>2, PlaceFacts
<1>15. \A i \in AnswerAt(r) : i \in Nat /\ i >= 1
  BY <1>2, PlaceFacts
<1>16. ASSUME Awaiting(s)
       PROVE  /\ Heard(s) < c
              /\ \A k \in (Heard(s) + 1)..c : \E j \in ChunkAt(r) : downlink[j].chunk = k
              /\ \A i \in ChunkAt(r) :
                   \A k \in (Heard(s) + 1)..downlink[i].chunk : \E j \in ChunkAt(r) : downlink[j].chunk = k
              /\ far = "open" \/ AnswerAt(r) # {} =>
                   \A k \in (Heard(s) + 1)..said : \E j \in ChunkAt(r) : downlink[j].chunk = k
  <2>1. Awaited(r)
    BY <1>3, <1>16 DEF Awaited, Awaiting
  <2>2. /\ \A i \in ChunkAt(r) :
             /\ Heard(s) < downlink[i].chunk
             /\ \A k \in (Heard(s) + 1)..downlink[i].chunk : \E j \in ChunkAt(r) : downlink[j].chunk = k
        /\ far = "open" \/ AnswerAt(r) # {} =>
             \A k \in (Heard(s) + 1)..said : \E j \in ChunkAt(r) : downlink[j].chunk = k
    BY <1>2, <1>3, <1>4, <2>1 DEF FlowOK
  <2> QED
    BY <2>2
<1>17. \A j \in ChunkAt(r) : j # 1 => c < downlink[j].chunk
  <2>1. \A j \in ChunkAt(r) : j # 1 => 1 < j
    BY <1>14
  <2> QED
    BY <1>2, <2>1 DEF FlowOK
<1>18. \A j \in ChunkAt(r) : downlink[j].chunk \in Nat
  BY <1>2, PlaceFacts
<1>19. Awaiting(s) => c = Heard(s) + 1
  <2>1. SUFFICES ASSUME Awaiting(s), c # Heard(s) + 1
                 PROVE  FALSE
    OBVIOUS
  <2>2. PICK h : h = Heard(s) + 1
    OBVIOUS
  <2>3. h \in (Heard(s) + 1)..c /\ h < c /\ h \in Nat
    BY <1>8, <1>10, <1>16, <2>1, <2>2
  <2>4. PICK j \in ChunkAt(r) : downlink[j].chunk = h
    BY <1>16, <2>1, <2>3
  <2>5. j = 1 => c = h
    BY <2>4
  <2>6. c < h
    BY <1>17, <2>3, <2>4, <2>5
  <2> QED
    BY <1>10, <2>3, <2>6
<1>20. /\ ~Awaiting(s) => t = s
       /\ Awaiting(s) => /\ t \in AskRow /\ RowOK(t) /\ t.end = s.end /\ t.at \in {"reading", "woken"}
                         /\ Heard(t) = c
  BY <1>6, <1>8, <1>10, <1>19, RowPushed
<1>21. Awaited(r)' <=> Awaited(r)
  BY <1>3, <1>7, <1>20 DEF Awaited, Awaiting
<1>22. PlaceOK(r)'
  <2>1. AskedAt(r)' = AskedAt(r) /\ \A i, j \in AskedAt(r)' : i = j
    BY <1>1, <1>2 DEF AskedAt, PlaceOK
  <2>2. ask'[r].at = "new" => ask[r].at = "new"
    BY <1>3, <1>7, <1>20
  <2> QED
    BY <1>1, <1>2, <1>13, <1>21, <2>1, <2>2, PlaceRests
<1>23. AskOK(r)'
  <2>1. CASE ~Awaiting(s)
    BY <1>1, <1>2, <1>3, <1>7, <1>20, <2>1, AskRests
  <2>2. CASE Awaiting(s)
    <3>1. ask'[r].end = "none" /\ ask'[r].at \in {"reading", "woken"} /\ RowOK(ask'[r])
      BY <1>7, <1>20, <2>2 DEF Awaiting
    <3> QED
      BY <1>1, <1>9, <3>1 DEF AskOK
  <2> QED
    BY <2>1, <2>2
<1>24. FlowOK(r)'
  <2>1. ChunkAt(r)' # {} => r \in streamed' /\ served'[r].at \in {"turning", "over"}
    BY <1>1, <1>9
  <2>2. \A i \in ChunkAt(r)' : \A j \in AnswerAt(r)' : i < j
    <3>1. SUFFICES ASSUME NEW i \in ChunkAt(r)', NEW j \in AnswerAt(r)'
                   PROVE  i < j
      OBVIOUS
    <3>2. i \in Nat /\ j \in Nat /\ i + 1 \in ChunkAt(r) /\ j + 1 \in AnswerAt(r)
      BY <1>11
    <3>3. i + 1 < j + 1
      BY <1>2, <3>2 DEF FlowOK
    <3> QED
      BY <3>2, <3>3
  <2>3. \A i, j \in ChunkAt(r)' : i < j => downlink'[i].chunk < downlink'[j].chunk
    <3>1. SUFFICES ASSUME NEW i \in ChunkAt(r)', NEW j \in ChunkAt(r)', i < j
                   PROVE  downlink'[i].chunk < downlink'[j].chunk
      OBVIOUS
    <3>2. /\ i \in Nat /\ j \in Nat /\ i + 1 \in ChunkAt(r) /\ j + 1 \in ChunkAt(r)
          /\ downlink'[i].chunk = downlink[i + 1].chunk /\ downlink'[j].chunk = downlink[j + 1].chunk
      BY <1>11
    <3>3. i + 1 < j + 1
      BY <3>1, <3>2
    <3> QED
      BY <1>2, <3>2, <3>3 DEF FlowOK
  <2>4. \A i \in ChunkAt(r)' : downlink'[i].chunk \in 1..served'[r].said
    BY <1>1, <1>2, <1>11 DEF FlowOK
  <2>5. /\ served'[r].at \in {"none", "handling", "queued"} => served'[r].said = 0
        /\ served'[r].at \in {"queued", "turning"} => r \in streamed'
    BY <1>1, <1>2 DEF FlowOK
  <2>6. ASSUME Awaited(r)'
        PROVE  /\ Heard(ask'[r]) <= served'[r].said
               /\ \A i \in ChunkAt(r)' :
                    /\ Heard(ask'[r]) < downlink'[i].chunk
                    /\ \A k \in (Heard(ask'[r]) + 1)..downlink'[i].chunk : \E j \in ChunkAt(r)' : downlink'[j].chunk = k
               /\ far' = "open" \/ AnswerAt(r)' # {} =>
                    \A k \in (Heard(ask'[r]) + 1)..served'[r].said : \E j \in ChunkAt(r)' : downlink'[j].chunk = k
    <3>1. Awaiting(s) /\ Heard(ask'[r]) = c /\ c = Heard(s) + 1
      BY <1>3, <1>7, <1>19, <1>20, <1>21, <2>6 DEF Awaited, Awaiting
    <3>2. \A k \in Nat : k > c /\ (\E j \in ChunkAt(r) : downlink[j].chunk = k)
                          => \E j \in ChunkAt(r)' : downlink'[j].chunk = k
      <4>1. SUFFICES ASSUME NEW k \in Nat, k > c, NEW j \in ChunkAt(r), downlink[j].chunk = k
                     PROVE  \E i \in ChunkAt(r)' : downlink'[i].chunk = k
        OBVIOUS
      <4>2. j # 1
        BY <1>10, <4>1
      <4>3. j - 1 \in Nat \ {0} /\ (j - 1) + 1 = j
        BY <1>14, <4>2
      <4>4. j - 1 \in ChunkAt(r)'
        BY <1>11, <4>3
      <4>5. downlink'[j - 1].chunk = downlink[j].chunk
        BY <1>11, <4>3, <4>4
      <4> QED
        BY <4>1, <4>4, <4>5
    <3>3. c <= said
      BY <1>5, <1>9
    <3>4. \A i \in ChunkAt(r)' : c < downlink'[i].chunk
      <4>1. \A i \in ChunkAt(r)' : i + 1 \in ChunkAt(r) /\ i + 1 # 1
        BY <1>11
      <4> QED
        BY <1>11, <1>17, <4>1
    <3>5. \A i \in ChunkAt(r)' : \A k \in (c + 1)..downlink'[i].chunk : \E j \in ChunkAt(r)' : downlink'[j].chunk = k
      <4>1. SUFFICES ASSUME NEW i \in ChunkAt(r)', NEW k \in (c + 1)..downlink'[i].chunk
                     PROVE  \E j \in ChunkAt(r)' : downlink'[j].chunk = k
        OBVIOUS
      <4>2. PICK d : d = downlink'[i].chunk
        OBVIOUS
      <4>3. i + 1 \in ChunkAt(r) /\ downlink[i + 1].chunk = d /\ d \in Nat
        BY <1>11, <1>18, <4>2
      <4>4. k \in (Heard(s) + 1)..d /\ k \in Nat /\ k > c
        <5>1. k \in (c + 1)..d
          BY <4>1, <4>2
        <5>2. PICK h \in Nat : h = Heard(s)
          BY <1>8
        <5>3. k \in (h + 1)..d /\ k \in Nat /\ k > c
          BY <1>10, <3>1, <4>3, <5>1, <5>2
        <5> QED
          BY <5>2, <5>3
      <4>5. \E j \in ChunkAt(r) : downlink[j].chunk = k
        BY <1>16, <3>1, <4>3, <4>4
      <4> QED
        BY <3>2, <4>4, <4>5
    <3>6. far' = "open" \/ AnswerAt(r)' # {} =>
            \A k \in (c + 1)..said : \E j \in ChunkAt(r)' : downlink'[j].chunk = k
      <4>1. SUFFICES ASSUME far' = "open" \/ AnswerAt(r)' # {}, NEW k \in (c + 1)..said
                     PROVE  \E j \in ChunkAt(r)' : downlink'[j].chunk = k
        OBVIOUS
      <4>2. far = "open" \/ AnswerAt(r) # {}
        BY <1>1, <1>11, <4>1
      <4>3. k \in (Heard(s) + 1)..said /\ k \in Nat /\ k > c
        BY <1>5, <1>8, <1>10, <3>1, <4>1
      <4>4. \E j \in ChunkAt(r) : downlink[j].chunk = k
        BY <1>16, <3>1, <4>2, <4>3
      <4> QED
        BY <3>2, <4>3, <4>4
    <3> QED
      BY <1>1, <1>4, <3>1, <3>3, <3>4, <3>5, <3>6
  <2> QED
    BY <2>1, <2>2, <2>3, <2>4, <2>5, <2>6 DEF FlowOK
<1>25. NoneStranded(r)'
  BY <1>1, <1>2, <1>21 DEF NoneStranded
<1> QED
  BY <1>22, <1>23, <1>24, <1>25 DEF WireOK

\* The answer comes to the client, when all that was said has been heard.
LEMMA AnswerReceived ==
  ASSUME WireInv, WireTyped', NEW r \in Request, NEW how \in {"finished", "failed"},
         downlink # <<>>, downlink' = Tail(downlink),
         1 \in AnswerAt(r), ask'[r] = Ended(r, ask[r], how),
         UNCHANGED <<near, streamed, late, uplink, serverVars>>
  PROVE  WireOK(r)'
<1>1. /\ far' = far /\ cap' = cap /\ slots' = slots /\ served' = served /\ tail' = tail /\ shed' = shed
      /\ near' = near /\ streamed' = streamed /\ late' = late /\ uplink' = uplink
  BY DEF serverVars
<1>2. /\ WireTyped /\ PlaceOK(r) /\ AskOK(r) /\ FlowOK(r) /\ NoneStranded(r)
      /\ ask[r] \in AskRow /\ RowOK(ask[r])
  BY WireParts, WireFacts
<1>3. PICK s \in AskRow : s = ask[r]
  BY <1>2
<1>4. PICK t : t = Ended(r, s, how)
  OBVIOUS
<1>5. ask'[r] = t
  BY <1>3, <1>4
<1>6. RowOK(s) /\ (r \notin streamed => s.at \in {"new", "waiting", "settled"})
  BY <1>2, <1>3 DEF AskOK
<1>7. /\ ~Awaiting(s) => t = s
      /\ t \in AskRow /\ RowOK(t) /\ ~Awaiting(t) /\ t.read = s.read /\ Heard(t) = Heard(s)
      /\ t.buffer = s.buffer
      /\ Awaiting(s) => /\ t.end = how
                        /\ t.at = IF r \in streamed THEN Woken(s.at) ELSE "settled"
  BY <1>4, <1>6, RowEnded
<1>8. Awaiting(s) => t.at # "new" /\ (r \in streamed => t.at # "settled") /\ (r \notin streamed => t.at = "settled")
  BY <1>7 DEF Woken, Awaiting
<1>9. /\ \A i : i \in ChunkAt(r)' <=> i \in Nat \ {0} /\ i + 1 \in ChunkAt(r)
      /\ \A i : i \in AnswerAt(r)' <=> i \in Nat \ {0} /\ i + 1 \in AnswerAt(r)
  BY <1>2, FrameTaken
<1>10. served[r].at = "over"
  BY <1>2 DEF PlaceOK
<1>11. AnswerAt(r)' = {}
  <2>1. \A i \in Nat \ {0} : i + 1 # 1
    OBVIOUS
  <2>2. \A i \in AnswerAt(r) : i = 1
    BY <1>2 DEF PlaceOK
  <2> QED
    BY <1>9, <2>1, <2>2
<1>12. ChunkAt(r) = {}
  <2>1. \A i \in ChunkAt(r) : i \in Nat /\ i >= 1
    BY <1>2, PlaceFacts
  <2>2. \A i \in ChunkAt(r) : i < 1
    BY <1>2 DEF FlowOK
  <2> QED
    BY <2>1, <2>2
<1>13. ChunkAt(r)' = {}
  BY <1>9, <1>12
<1>14. Awaiting(s) => Heard(s) = served[r].said
  <2>1. SUFFICES ASSUME Awaiting(s)
                 PROVE  Heard(s) = served[r].said
    OBVIOUS
  <2>2. Awaited(r)
    BY <1>3, <2>1 DEF Awaited, Awaiting
  <2>3. PICK said : said = served[r].said
    OBVIOUS
  <2>4. said \in Nat /\ Heard(s) \in Nat
    <3>1. said \in 0..MaxChunks /\ MaxChunks \in Nat
      BY <1>2, <2>3, AskFacts, WireFacts
    <3> QED
      BY <3>1, ServedFacts
  <2>5. Heard(s) <= said /\ \A k \in (Heard(s) + 1)..said : \E j \in ChunkAt(r) : downlink[j].chunk = k
    BY <1>2, <1>3, <2>2, <2>3 DEF FlowOK
  <2>6. (Heard(s) + 1)..said = {}
    BY <1>12, <2>5
  <2>7. Heard(s) + 1 \notin (Heard(s) + 1)..said
    BY <2>6
  <2> QED
    BY <2>3, <2>4, <2>5, <2>7
<1>15. ~Awaited(r)'
  BY <1>5, <1>7 DEF Awaited, Awaiting
<1>16. PlaceOK(r)'
  <2>1. AskedAt(r)' = AskedAt(r)
    BY <1>1 DEF AskedAt
  <2>2. ask'[r].at = "new" => ask[r].at = "new"
    BY <1>3, <1>5, <1>7, <1>8
  <2> QED
    BY <1>1, <1>2, <1>11, <1>15, <2>1, <2>2 DEF PlaceOK
<1>17. AskOK(r)'
  <2>1. CASE ~Awaiting(s)
    BY <1>1, <1>2, <1>3, <1>5, <1>7, <2>1, AskRests
  <2>2. CASE Awaiting(s)
    BY <1>1, <1>5, <1>7, <1>8, <1>10, <1>14, <2>2 DEF AskOK
  <2> QED
    BY <2>1, <2>2
<1>18. FlowOK(r)'
  BY <1>1, <1>2, <1>11, <1>13, <1>15 DEF FlowOK
<1>19. NoneStranded(r)'
  BY <1>15 DEF NoneStranded
<1> QED
  BY <1>16, <1>17, <1>18, <1>19 DEF WireOK

\* A frame comes that is not for q.
LEMMA NothingReceived ==
  ASSUME WireInv, WireTyped', NEW q \in Request, downlink # <<>>, downlink' = Tail(downlink),
         1 \notin AnswerAt(q), 1 \notin ChunkAt(q), ask'[q] = ask[q],
         UNCHANGED <<near, streamed, late, uplink, serverVars>>
  PROVE  WireOK(q)'
<1>1. /\ far' = far /\ served' = served /\ shed' = shed
      /\ near' = near /\ streamed' = streamed /\ late' = late /\ uplink' = uplink
  BY DEF serverVars
<1>2. WireTyped /\ PlaceOK(q) /\ AskOK(q) /\ FlowOK(q) /\ NoneStranded(q) /\ 1 \in 0..1
  BY WireParts
<1>3. SameFrames(q, 1)
  BY <1>2, FrameTaken DEF SameFrames
<1>4. AskedAt(q)' = AskedAt(q) /\ (Awaited(q)' <=> Awaited(q)) /\ \A i, j \in AskedAt(q)' : i = j
  BY <1>1, <1>2 DEF AskedAt, Awaited, PlaceOK
<1>5. PlaceOK(q)'
  BY <1>1, <1>2, <1>3, <1>4, PlaceRests DEF SameFrames
<1>6. AskOK(q)'
  BY <1>1, <1>2, AskRests
<1>7. FlowOK(q)'
  BY <1>1, <1>2, <1>3, <1>4, FlowRests
<1>8. NoneStranded(q)'
  BY <1>1, <1>2, <1>4 DEF NoneStranded
<1> QED
  BY <1>5, <1>6, <1>7, <1>8 DEF WireOK

LEMMA ReceivesKeeps ==
  ASSUME WireInv, Receives
  PROVE  WireInv'
<1>1. PICK frame : frame = Head(downlink)
  OBVIOUS
<1>2. /\ downlink # <<>> /\ downlink' = Tail(downlink)
      /\ UNCHANGED <<near, streamed, late, uplink, serverVars>>
  BY DEF Receives
<1>3. /\ near' = near /\ streamed' = streamed /\ late' = late /\ uplink' = uplink
      /\ far' = far /\ cap' = cap /\ slots' = slots /\ served' = served /\ tail' = tail /\ shed' = shed
  BY <1>2 DEF serverVars
<1>4. /\ WireTyped /\ FramesOK /\ lease \in {"pending", "granted", "refused"}
      /\ ask \in [Request -> AskRow] /\ NoRequest \notin Request
      /\ downlink \in Seq(WireFrame)
  BY WireParts, WireFacts
<1>5. frame \in WireFrame /\ downlink' \in Seq(WireFrame)
  BY <1>1, <1>2, <1>4, HeadTailProperties
<1>6. frame = downlink[1] /\ 1 \in DOMAIN downlink
  <2>1. Len(downlink) # 0 /\ Len(downlink) \in Nat /\ DOMAIN downlink = 1..Len(downlink)
    BY <1>2, <1>4, EmptySeq, LenProperties
  <2> QED
    BY <1>1, <2>1
<1>7. /\ frame.is \in {"ready", "superseded", "chunk", "result", "error"}
      /\ frame.to \in Request \cup {NoRequest} /\ frame.chunk \in 0..MaxChunks
      /\ frame.is \in {"ready", "superseded"} => frame.to = NoRequest
  BY <1>4, <1>5, <1>6 DEF FramesOK, WireFrame
<1>8. lease' \in {"pending", "granted", "refused"}
  BY <1>1, <1>4 DEF Receives
<1>9. \A q \in Request : /\ 1 \in ChunkAt(q) <=> frame.to = q /\ frame.is = "chunk"
                         /\ 1 \in AnswerAt(q) <=> frame.to = q /\ frame.is \in {"result", "error"}
  BY <1>6 DEF ChunkAt, AnswerAt
<1>10. FramesOK'
  <2>1. CASE Request = {}
    <3>1. \A i \in DOMAIN downlink' : i \in Nat /\ i + 1 \in DOMAIN downlink /\ downlink'[i] = downlink[i + 1]
      <4>1. /\ Len(downlink') = Len(downlink) - 1 /\ Len(downlink) \in Nat /\ DOMAIN downlink = 1..Len(downlink)
            /\ \A i \in 1..Len(downlink') : downlink'[i] = downlink[i + 1]
        BY <1>2, <1>4, HeadTailProperties, LenProperties
      <4>2. DOMAIN downlink' = 1..Len(downlink')
        BY <1>5, LenProperties
      <4> QED
        BY <4>1, <4>2
    <3> QED
      BY <1>4, <3>1 DEF FramesOK
  <2>2. CASE Request # {}
    BY <1>2, <1>4, <2>2, FrameTaken
  <2> QED
    BY <2>1, <2>2
<1>11. SlotsOK'
  BY <1>3, WireParts DEF SlotsOK, BusyOnes
<1>12. CASE frame.to = NoRequest
  <2>1. ask' = ask
    BY <1>1, <1>12 DEF Receives
  <2>2. WireTyped'
    BY <1>3, <1>4, <1>5, <1>8, <2>1 DEF WireTyped
  <2>3. \A q \in Request : WireOK(q)'
    BY <1>2, <1>4, <1>9, <1>12, <2>1, <2>2, NothingReceived
  <2>4. ChainOK'
    BY <1>3, <1>4, <2>2, WireParts, ChainRests
  <2> QED
    BY <1>10, <1>11, <2>2, <2>3, <2>4, WireWhole
<1>13. CASE frame.to # NoRequest
  <2>1. PICK r \in Request : r = frame.to
    BY <1>7, <1>13
  <2>2. PICK s \in AskRow : s = ask[r]
    BY <1>4
  <2>3. frame.is \in {"chunk", "result", "error"}
    BY <1>7, <1>13
  <2>4. PICK t : t = IF frame.is = "chunk" THEN Pushed(s, frame.chunk)
                     ELSE IF frame.is = "result" THEN Ended(r, s, "finished") ELSE Ended(r, s, "failed")
    OBVIOUS
  <2>5. ask' = [ask EXCEPT ![r] = t]
    <3>1. ask' = [ask EXCEPT ![frame.to] =
                    CASE frame.is = "chunk"  -> Pushed(ask[frame.to], frame.chunk)
                      [] frame.is = "result" -> Ended(frame.to, ask[frame.to], "finished")
                      [] frame.is = "error"  -> Ended(frame.to, ask[frame.to], "failed")]
      BY <1>1, <1>13 DEF Receives
    <3>2. CASE frame.is = "chunk"
      BY <2>1, <2>2, <2>4, <3>1, <3>2
    <3>3. CASE frame.is = "result"
      BY <2>1, <2>2, <2>4, <3>1, <3>3
    <3>4. CASE frame.is = "error"
      BY <2>1, <2>2, <2>4, <3>1, <3>4
    <3> QED
      BY <2>3, <3>2, <3>3, <3>4
  <2>6. ask'[r] = t /\ \A q \in Request : q # r => ask'[q] = ask[q]
    BY <1>4, <2>5
  <2>7. RowOK(s) /\ FlowOK(r) /\ AskOK(r)
    BY <2>2, WireParts
  <2>8. t \in AskRow
    <3>1. CASE frame.is = "chunk"
      <4>1. 1 \in ChunkAt(r)
        BY <1>9, <2>1, <3>1
      <4>2. t = Pushed(s, frame.chunk)
        BY <2>4, <3>1
      <4>3. Awaiting(s) => s.at = "waiting" \/ s.at \in {"reading", "woken"}
        BY DEF Awaiting
      <4>4. frame.chunk \in 1..MaxChunks
        <5>1. frame.chunk \in 1..served[r].said /\ served[r].said \in 0..MaxChunks /\ MaxChunks \in Nat
          BY <1>4, <1>6, <2>7, <4>1, AskFacts, WireFacts DEF FlowOK
        <5> QED
          BY <5>1
      <4>5. s.buffer \in Seq(1..MaxChunks)
        BY <2>2, ServedFacts
      <4>6. Append(s.buffer, frame.chunk) \in Seq(1..MaxChunks)
        BY <4>4, <4>5, AppendProperties
      <4>7. \/ t = s
            \/ t = [s EXCEPT !.at = "woken", !.hand = frame.chunk]
            \/ t = [s EXCEPT !.buffer = Append(@, frame.chunk)]
        BY <4>2 DEF Pushed
      <4>8. CASE t = [s EXCEPT !.at = "woken", !.hand = frame.chunk]
        BY <1>7, <2>2, <4>8 DEF AskRow
      <4>9. CASE t = [s EXCEPT !.buffer = Append(@, frame.chunk)]
        BY <2>2, <4>6, <4>9 DEF AskRow
      <4> QED
        BY <2>2, <4>7, <4>8, <4>9
    <3>2. CASE frame.is # "chunk"
      <4>1. PICK how \in {"finished", "failed"} : t = Ended(r, s, how)
        BY <2>4, <3>2
      <4>2. r \notin streamed => s.at \in {"new", "waiting", "settled"}
        BY <2>2, <2>7 DEF AskOK
      <4> QED
        BY <2>2, <2>7, <4>1, <4>2, RowEnded
    <3> QED
      BY <3>1, <3>2
  <2>9. ask' \in [Request -> AskRow]
    BY <1>4, <2>5, <2>8
  <2>10. WireTyped'
    BY <1>3, <1>4, <1>5, <1>8, <2>9 DEF WireTyped
  <2>11. \A q \in Request : q # r => WireOK(q)'
    BY <1>2, <1>9, <2>1, <2>6, <2>10, NothingReceived
  <2>12. WireOK(r)'
    <3>1. CASE frame.is = "chunk"
      <4>1. 1 \in ChunkAt(r) /\ ask'[r] = Pushed(ask[r], frame.chunk) /\ frame.chunk = downlink[1].chunk
        BY <1>6, <1>9, <2>1, <2>2, <2>4, <2>6, <3>1
      <4> QED
        BY <1>2, <2>10, <4>1, ChunkReceived
    <3>2. CASE frame.is # "chunk"
      <4>1. PICK how \in {"finished", "failed"} : ask'[r] = Ended(r, ask[r], how)
        BY <2>2, <2>4, <2>6, <3>2
      <4>2. 1 \in AnswerAt(r)
        BY <1>9, <2>1, <2>3, <3>2
      <4> QED
        BY <1>2, <2>10, <4>1, <4>2, AnswerReceived
    <3> QED
      BY <3>1, <3>2
  <2>13. ChainOK'
    BY <1>3, <1>4, <2>10, WireParts, ChainRests
  <2> QED
    BY <1>10, <1>11, <2>10, <2>11, <2>12, <2>13, WireWhole
<1> QED
  BY <1>12, <1>13


-----------------------------------------------------------------------------
(* WireTransport: the steps of the server *)

LEMMA GrantsKeeps ==
  ASSUME WireInv, Grants
  PROVE  WireInv'
<1>1. /\ lease' = lease /\ near' = near /\ ask' = ask /\ streamed' = streamed /\ late' = late
      /\ uplink' = uplink /\ cap' = cap /\ slots' = slots /\ served' = served /\ tail' = tail
      /\ shed' = shed /\ UNCHANGED clientVars
      /\ SendsFrame(Frame("ready", NoRequest))
  BY DEF Grants, clientVars
<1>2. PICK frame : frame = Frame("ready", NoRequest)
  OBVIOUS
<1>3. WireTyped /\ FramesOK /\ NoRequest \notin Request /\ MaxChunks \in Nat
  BY WireParts, WireFacts
<1>4. frame \in WireFrame /\ frame.is = "ready" /\ frame.to = NoRequest
  BY <1>2, <1>3 DEF Frame, WireFrame
<1>5. /\ downlink' = downlink \/ downlink' = Append(downlink, frame)
      /\ far' \in {"open", "closed"} /\ (far' = "open" => far = "open")
      /\ downlink' \in Seq(WireFrame)
  BY <1>1, <1>2, <1>3, <1>4, FrameSent
<1>6. WireTyped'
  BY <1>1, <1>3, <1>5 DEF WireTyped
<1>7. FramesOK'
  BY <1>3, <1>4, <1>5, FormKept
<1>8. SlotsOK'
  BY <1>1, WireParts DEF SlotsOK, BusyOnes
<1>9. ChainOK'
  BY <1>1, <1>3, <1>6, WireParts, ChainRests
<1>10. ASSUME NEW q \in Request
       PROVE  WireOK(q)'
  <2>1. SameFrames(q, 0)
    BY <1>3, <1>4, <1>5, NothingSent, FrameAppended DEF SameFrames
  <2>2. WireOK(q) /\ AskedAt(q)' = AskedAt(q)
    BY <1>1, WireParts DEF AskedAt
  <2> QED
    BY <1>1, <1>3, <1>5, <1>6, <2>1, <2>2, ServerRests
<1> QED
  BY <1>6, <1>7, <1>8, <1>9, <1>10, WireWhole

LEMMA SupersededKeeps ==
  ASSUME WireInv, Superseded
  PROVE  WireInv'
<1>1. /\ lease' = lease /\ near' = near /\ ask' = ask /\ streamed' = streamed /\ late' = late
      /\ uplink' = uplink /\ cap' = cap /\ slots' = slots /\ served' = served /\ tail' = tail
      /\ shed' = shed /\ far' = "closed" /\ UNCHANGED clientVars
  BY DEF Superseded, clientVars
<1>2. PICK frame : frame = Frame("superseded", NoRequest)
  OBVIOUS
<1>3. WireTyped /\ FramesOK /\ NoRequest \notin Request /\ MaxChunks \in Nat /\ downlink \in Seq(WireFrame)
  BY WireParts, WireFacts
<1>4. frame \in WireFrame /\ frame.is = "superseded" /\ frame.to = NoRequest
  BY <1>2, <1>3 DEF Frame, WireFrame
<1>5. downlink' = downlink \/ downlink' = Append(downlink, frame)
  BY <1>2 DEF Superseded
<1>6. downlink' \in Seq(WireFrame)
  <2>1. Append(downlink, frame) \in Seq(WireFrame)
    BY <1>3, <1>4, AppendProperties
  <2> QED
    BY <1>3, <1>5, <2>1
<1>7. WireTyped'
  BY <1>1, <1>3, <1>6 DEF WireTyped
<1>8. FramesOK'
  BY <1>3, <1>4, <1>5, FormKept
<1>9. SlotsOK'
  BY <1>1, WireParts DEF SlotsOK, BusyOnes
<1>10. ChainOK'
  BY <1>1, <1>3, <1>7, WireParts, ChainRests
<1>11. ASSUME NEW q \in Request
       PROVE  WireOK(q)'
  <2>1. SameFrames(q, 0)
    BY <1>3, <1>4, <1>5, NothingSent, FrameAppended DEF SameFrames
  <2>2. WireOK(q) /\ AskedAt(q)' = AskedAt(q)
    BY <1>1, WireParts DEF AskedAt
  <2> QED
    BY <1>1, <1>3, <1>7, <2>1, <2>2, ServerRests
<1> QED
  BY <1>7, <1>8, <1>9, <1>10, <1>11, WireWhole

\* A request comes to the server.
LEMMA UplinkTaken ==
  ASSUME NEW r \in Request, WireInv, uplink # <<>>, Head(uplink) = r, uplink' = Tail(uplink)
  PROVE  /\ uplink' \in Seq(Request) /\ AskedAt(r) # {} /\ AskedAt(r)' = {}
         /\ \A q \in Request : (\A i, j \in AskedAt(q)' : i = j) /\ (AskedAt(q)' # {} => AskedAt(q) # {})
         /\ \A q \in Request : q # r => (AskedAt(q)' = {} <=> AskedAt(q) = {})
<1>1. PICK n : n = Len(uplink)
  OBVIOUS
<1>2. WireTyped /\ \A q \in Request : PlaceOK(q)
  BY WireParts
<1>3. n \in Nat /\ DOMAIN uplink = 1..n /\ uplink \in Seq(Request)
  BY <1>1, <1>2, WireFacts
<1>4. n # 0
  BY <1>1, <1>3, EmptySeq
<1>5. /\ uplink' \in Seq(Request) /\ Len(uplink') = n - 1
      /\ \A i \in 1..Len(uplink') : uplink'[i] = uplink[i + 1]
  BY <1>1, <1>3, HeadTailProperties
<1>6. DOMAIN uplink' = 1..(n - 1)
  BY <1>5, LenProperties
<1>7. r = uplink[1] /\ 1 \in DOMAIN uplink
  BY <1>3, <1>4
<1>8. \A i : i \in 1..(n - 1) <=> i \in Nat \ {0} /\ i + 1 \in 1..n
  BY <1>3, <1>4
<1>9. \A q \in Request : \A i : i \in AskedAt(q)' <=> i \in Nat \ {0} /\ i + 1 \in AskedAt(q)
  BY <1>3, <1>5, <1>6, <1>8 DEF AskedAt
<1>10. \A q \in Request : \A i, j \in AskedAt(q) : i = j
  BY <1>2 DEF PlaceOK
<1>11. \A q \in Request : \A i, j \in AskedAt(q)' : i = j
  <2>1. SUFFICES ASSUME NEW q \in Request, NEW i \in AskedAt(q)', NEW j \in AskedAt(q)'
                 PROVE  i = j
    OBVIOUS
  <2>2. i \in Nat /\ j \in Nat /\ i + 1 \in AskedAt(q) /\ j + 1 \in AskedAt(q)
    BY <1>9
  <2>3. i + 1 = j + 1
    BY <1>10, <2>2
  <2> QED
    BY <2>2, <2>3
<1>12. 1 \in AskedAt(r)
  BY <1>7 DEF AskedAt
<1>13. AskedAt(r)' = {}
  <2>1. \A i \in Nat \ {0} : i + 1 # 1
    OBVIOUS
  <2> QED
    BY <1>9, <1>10, <1>12, <2>1
<1>14. \A q \in Request : AskedAt(q)' # {} => AskedAt(q) # {}
  BY <1>9
<1>15. ASSUME NEW q \in Request, q # r, AskedAt(q) # {}
       PROVE  AskedAt(q)' # {}
  <2>1. PICK i : i \in AskedAt(q)
    BY <1>15
  <2>2. i \in 1..n /\ i # 1
    BY <1>3, <1>7, <1>15, <2>1 DEF AskedAt
  <2>3. i - 1 \in Nat \ {0} /\ (i - 1) + 1 = i
    BY <1>3, <2>2
  <2>4. i - 1 \in AskedAt(q)'
    BY <1>9, <2>1, <2>3
  <2> QED
    BY <2>4
<1> QED
  BY <1>5, <1>11, <1>12, <1>13, <1>14, <1>15

LEMMA AdmitsKeeps ==
  ASSUME WireInv, NEW r \in Request, Admits(r)
  PROVE  WireInv'
<1>1. /\ lease' = lease /\ near' = near /\ ask' = ask /\ streamed' = streamed /\ late' = late
      /\ cap' = cap /\ tail' = tail /\ UNCHANGED clientVars
      /\ uplink # <<>> /\ Head(uplink) = r /\ uplink' = Tail(uplink)
  BY DEF Admits, clientVars
<1>2. /\ WireTyped /\ FramesOK /\ SlotsOK /\ ChainOK /\ NoRequest \notin Request /\ MaxChunks \in Nat
      /\ served \in [Request -> ServedRow] /\ slots \in Nat /\ far \in {"open", "closed"}
      /\ downlink \in Seq(WireFrame) /\ shed \subseteq Request
  BY WireParts, WireFacts
<1>3. /\ uplink' \in Seq(Request) /\ AskedAt(r) # {} /\ AskedAt(r)' = {}
      /\ \A q \in Request : (\A i, j \in AskedAt(q)' : i = j) /\ (AskedAt(q)' # {} => AskedAt(q) # {})
      /\ \A q \in Request : q # r => (AskedAt(q)' = {} <=> AskedAt(q) = {})
  BY <1>1, UplinkTaken
<1>4. /\ PlaceOK(r) /\ AskOK(r) /\ FlowOK(r) /\ NoneStranded(r) /\ 0 \in 0..1
      /\ served[r] \in ServedRow
  BY <1>2, WireParts
<1>5. served[r].at = "none" /\ r \notin shed /\ served[r].said = 0 /\ AnswerAt(r) = {} /\ ask[r].at # "new"
      /\ ChunkAt(r) = {}
  BY <1>3, <1>4 DEF PlaceOK, FlowOK
<1>6. CASE /\ slots < cap /\ slots' = slots + 1 /\ served' = [served EXCEPT ![r].at = "handling"]
           /\ UNCHANGED <<far, downlink, shed>>
  <2>7. slots' \in 0..cap
    BY <1>2, <1>6, WireFacts
  <2>1. /\ served' \in [Request -> ServedRow] /\ served'[r].at = "handling" /\ served'[r].said = 0
        /\ served'[r].after = served[r].after
        /\ \A q \in Request : q # r => served'[q] = served[q]
    BY <1>2, <1>4, <1>5, <1>6 DEF ServedRow
  <2>2. WireTyped'
    BY <1>1, <1>2, <1>3, <1>6, <2>1, <2>7 DEF WireTyped
  <2>3. FramesOK'
    BY <1>2, <1>6 DEF FramesOK
  <2>4. SlotsOK'
    <3>1. BusyOnes' = BusyOnes \cup {r} /\ r \notin BusyOnes
      BY <1>5, <2>1 DEF BusyOnes
    <3>2. IsFiniteSet(BusyOnes) /\ slots = Cardinality(BusyOnes)
      BY <1>2 DEF SlotsOK
    <3> QED
      BY <1>6, <3>1, <3>2, FS_AddElement DEF SlotsOK
  <2>5. ChainOK'
    BY <1>1, <1>2, <1>5, <2>1, <2>2, ChainRests
  <2>6. ASSUME NEW q \in Request
        PROVE  WireOK(q)'
    <3>1. PlaceOK(q) /\ AskOK(q) /\ FlowOK(q) /\ NoneStranded(q) /\ 0 \in 0..1
      BY WireParts
    <3>2. SameFrames(q, 0) /\ ChunkAt(q)' = ChunkAt(q) /\ AnswerAt(q)' = AnswerAt(q)
      BY <1>2, <1>6, NothingSent
    <3>3. Awaited(q)' <=> Awaited(q)
      BY <1>1 DEF Awaited
    <3>4. AskOK(q)'
      <4>1. served[q].at = "over" => served'[q].at = "over" /\ served'[q].said = served[q].said
        BY <1>5, <2>1
      <4> QED
        BY <1>1, <3>1, <4>1, AskRests
    <3>5. NoneStranded(q)'
      BY <1>1, <3>1, <3>3 DEF NoneStranded
    <3>6. PlaceOK(q)' /\ FlowOK(q)'
      <4>1. CASE q # r
        <5>1. PlaceOK(q)'
          BY <1>1, <1>2, <1>3, <1>6, <2>1, <2>2, <3>1, <3>2, <3>3, <4>1, PlaceRests DEF SameFrames
        <5>2. FlowOK(q)'
          BY <1>1, <1>2, <1>6, <2>1, <2>2, <3>1, <3>2, <3>3, <4>1, FlowRests
        <5> QED
          BY <5>1, <5>2
      <4>2. CASE q = r
        <5>1. r \in BusyOnes'
          BY <2>1 DEF BusyOnes
        <5>2. PlaceOK(r)'
          BY <1>1, <1>3, <1>5, <1>6, <2>1, <3>2, <4>2, <5>1 DEF PlaceOK
        <5>3. /\ ChunkAt(r)' = {} /\ AnswerAt(r)' = {}
          BY <1>5, <3>2, <4>2
        <5>4. Awaited(r)' => Heard(ask'[r]) <= 0 /\ (far' = "open" => \A k \in (Heard(ask'[r]) + 1)..0 : FALSE)
          <6>1. SUFFICES ASSUME Awaited(r)
                         PROVE  Heard(ask[r]) <= 0 /\ \A k \in (Heard(ask[r]) + 1)..0 : FALSE
            BY <1>1, <3>3, <4>2
          <6>2. Heard(ask[r]) <= 0 /\ Heard(ask[r]) \in Nat
            BY <1>2, <1>4, <1>5, <6>1, AskFacts, ServedFacts DEF FlowOK
          <6> QED
            BY <6>2
        <5>5. FlowOK(r)'
          BY <2>1, <5>3, <5>4 DEF FlowOK
        <5> QED
          BY <4>2, <5>2, <5>5
      <4> QED
        BY <4>1, <4>2
    <3> QED
      BY <3>4, <3>5, <3>6 DEF WireOK
  <2> QED
    BY <2>2, <2>3, <2>4, <2>5, <2>6, WireWhole
<1>7. CASE /\ SendsFrame(Frame("error", NoRequest)) /\ shed' = shed \union {r}
           /\ UNCHANGED <<slots, served>>
  <2>1. PICK frame : frame = Frame("error", NoRequest)
    OBVIOUS
  <2>2. frame \in WireFrame /\ frame.is = "error" /\ frame.to = NoRequest
    BY <1>2, <2>1 DEF Frame, WireFrame
  <2>3. /\ downlink' = downlink \/ downlink' = Append(downlink, frame)
        /\ far' \in {"open", "closed"} /\ (far' = "open" => far = "open")
        /\ downlink' \in Seq(WireFrame)
    BY <1>2, <1>7, <2>1, <2>2, FrameSent
  <2>4. WireTyped'
    BY <1>1, <1>2, <1>3, <1>7, <2>3 DEF WireTyped
  <2>5. FramesOK'
    BY <1>2, <2>2, <2>3, FormKept
  <2>6. SlotsOK'
    BY <1>2, <1>7 DEF SlotsOK, BusyOnes
  <2>7. ChainOK'
    BY <1>1, <1>2, <1>7, <2>4, ChainRests
  <2>8. ASSUME NEW q \in Request
        PROVE  WireOK(q)'
    <3>1. PlaceOK(q) /\ AskOK(q) /\ FlowOK(q) /\ NoneStranded(q) /\ 0 \in 0..1
      BY WireParts
    <3>2. SameFrames(q, 0)
      BY <1>2, <2>2, <2>3, NothingSent, FrameAppended DEF SameFrames
    <3>3. Awaited(q)' <=> Awaited(q)
      BY <1>1 DEF Awaited
    <3>4. AskOK(q)'
      BY <1>1, <1>7, <3>1, AskRests
    <3>5. NoneStranded(q)'
      BY <1>1, <3>1, <3>3 DEF NoneStranded
    <3>6. FlowOK(q)'
      BY <1>1, <1>2, <1>7, <2>3, <2>4, <3>1, <3>2, <3>3, FlowRests
    <3>7. PlaceOK(q)'
      <4>1. CASE q # r
        BY <1>1, <1>2, <1>3, <1>7, <2>3, <2>4, <3>1, <3>2, <3>3, <4>1, PlaceRests DEF SameFrames
      <4>2. CASE q = r
        <5>1. AnswerAt(r)' = {}
          BY <1>5, <3>2, <4>2 DEF SameFrames, SameAnswers
        <5> QED
          BY <1>1, <1>3, <1>5, <1>7, <4>2, <5>1 DEF PlaceOK
      <4> QED
        BY <4>1, <4>2
    <3> QED
      BY <3>4, <3>5, <3>6, <3>7 DEF WireOK
  <2> QED
    BY <2>4, <2>5, <2>6, <2>7, <2>8, WireWhole
<1> QED
  BY <1>6, <1>7 DEF Admits


\* A request gets its answer, or finds the socket closed, and leaves its slot.
LEMMA AnswersKeep ==
  ASSUME WireInv, NEW r \in Request, NEW is \in {"result", "error"},
         served[r].at \in {"handling", "turning"}, AnswersById(r, is)
  PROVE  WireInv'
<1>1. /\ lease' = lease /\ near' = near /\ ask' = ask /\ streamed' = streamed /\ late' = late
      /\ uplink' = uplink /\ cap' = cap /\ tail' = tail /\ shed' = shed /\ UNCHANGED clientVars
      /\ served' = [served EXCEPT ![r].at = "over"] /\ slots' = slots - 1
      /\ SendsFrame(Frame(is, r))
  BY DEF AnswersById, clientVars
<1>2. /\ WireTyped /\ FramesOK /\ SlotsOK /\ ChainOK /\ NoRequest \notin Request /\ MaxChunks \in Nat
      /\ served \in [Request -> ServedRow] /\ slots \in Nat
      /\ Len(downlink) \in Nat
  BY WireParts, WireFacts
<1>3. PICK frame : frame = Frame(is, r)
  OBVIOUS
<1>4. frame \in WireFrame /\ frame.is = is /\ frame.to = r
  BY <1>2, <1>3 DEF Frame, WireFrame
<1>5. /\ \/ downlink' = downlink /\ far' = "closed"
         \/ downlink' = Append(downlink, frame) /\ far = "open" /\ far' = "open"
      /\ far' \in {"open", "closed"} /\ (far' = "open" => far = "open")
      /\ downlink' \in Seq(WireFrame)
  BY <1>1, <1>2, <1>3, <1>4, FrameSent
<1>6. /\ PlaceOK(r) /\ AskOK(r) /\ FlowOK(r) /\ NoneStranded(r)
      /\ served[r] \in ServedRow
  BY <1>2, WireParts
<1>7. r \notin shed /\ AnswerAt(r) = {} /\ AskedAt(r) = {} /\ ask[r].at # "new"
  BY <1>6 DEF PlaceOK
<1>8. /\ served' \in [Request -> ServedRow] /\ served'[r].at = "over" /\ served'[r].said = served[r].said
      /\ served'[r].after = served[r].after
      /\ \A q \in Request : q # r => served'[q] = served[q]
  BY <1>1, <1>2, <1>6 DEF ServedRow
<1>9. SlotsOK' /\ slots' \in 0..cap
  <2>1. BusyOnes' = BusyOnes \ {r} /\ r \in BusyOnes
    BY <1>8 DEF BusyOnes
  <2>2. IsFiniteSet(BusyOnes) /\ slots = Cardinality(BusyOnes)
    BY <1>2 DEF SlotsOK
  <2>3. IsFiniteSet(BusyOnes \ {r}) /\ Cardinality(BusyOnes \ {r}) = Cardinality(BusyOnes) - 1
    BY <2>1, <2>2, FS_RemoveElement
  <2>4. Cardinality(BusyOnes \ {r}) \in Nat
    BY <2>3, FS_CardinalityType
  <2>5. slots' \in 0..cap
    BY <1>1, <1>2, <2>2, <2>3, <2>4, WireFacts
  <2> QED
    BY <1>1, <2>1, <2>2, <2>3, <2>5 DEF SlotsOK
<1>10. WireTyped'
  BY <1>1, <1>2, <1>5, <1>8, <1>9 DEF WireTyped
<1>11. FramesOK'
  BY <1>2, <1>4, <1>5, FormKept
<1>12. ChainOK'
  BY <1>1, <1>2, <1>8, <1>10, ChainRests
<1>13. ASSUME NEW q \in Request, q # r
       PROVE  WireOK(q)'
  <2>1. SameFrames(q, 0)
    BY <1>2, <1>4, <1>5, <1>13, NothingSent, FrameAppended DEF SameFrames
  <2>2. WireOK(q) /\ AskedAt(q)' = AskedAt(q)
    BY <1>1, WireParts DEF AskedAt
  <2> QED
    BY <1>1, <1>2, <1>5, <1>8, <1>10, <1>13, <2>1, <2>2, ServerRests
<1>14. /\ ChunkAt(r)' = ChunkAt(r) /\ \A i \in ChunkAt(r) : downlink'[i] = downlink[i]
       /\ \/ AnswerAt(r)' = {} /\ far' = "closed"
          \/ AnswerAt(r)' = {Len(downlink) + 1} /\ far = "open" /\ far' = "open"
  <2>1. CASE downlink' = downlink /\ far' = "closed"
    BY <1>2, <1>7, <2>1, NothingSent
  <2>2. CASE downlink' = Append(downlink, frame) /\ far = "open" /\ far' = "open"
    <3>1. /\ \A i \in ChunkAt(r) : downlink'[i] = downlink[i]
          /\ ChunkAt(r)' = IF frame.to = r /\ frame.is = "chunk"
                           THEN ChunkAt(r) \cup {Len(downlink) + 1} ELSE ChunkAt(r)
          /\ AnswerAt(r)' = IF frame.to = r /\ frame.is \in {"result", "error"}
                            THEN AnswerAt(r) \cup {Len(downlink) + 1} ELSE AnswerAt(r)
      BY <1>2, <1>4, <2>2, FrameAppended
    <3> QED
      BY <1>4, <1>7, <2>2, <3>1
  <2> QED
    BY <1>5, <2>1, <2>2
<1>15. Awaited(r)' <=> Awaited(r)
  BY <1>1 DEF Awaited
<1>16. PlaceOK(r)'
  <2>1. AskedAt(r)' = {}
    BY <1>1, <1>7 DEF AskedAt
  <2> QED
    BY <1>1, <1>7, <1>8, <1>14, <2>1 DEF PlaceOK
<1>17. AskOK(r)'
  BY <1>1, <1>6, AskRests
<1>18. FlowOK(r)'
  <2>1. ChunkAt(r)' # {} => r \in streamed'
    BY <1>1, <1>6, <1>14 DEF FlowOK
  <2>2. \A i \in ChunkAt(r)' : \A j \in AnswerAt(r)' : i < j
    <3>1. \A i \in ChunkAt(r) : i \in 1..Len(downlink)
      BY <1>2, PlaceFacts
    <3> QED
      BY <1>2, <1>14, <3>1
  <2>3. \A i, j \in ChunkAt(r)' : i < j => downlink'[i].chunk < downlink'[j].chunk
    BY <1>6, <1>14 DEF FlowOK
  <2>4. \A i \in ChunkAt(r)' : downlink'[i].chunk \in 1..served'[r].said
    BY <1>6, <1>8, <1>14 DEF FlowOK
  <2>5. ASSUME Awaited(r)'
        PROVE  /\ Heard(ask'[r]) <= served'[r].said
               /\ \A i \in ChunkAt(r)' :
                    /\ Heard(ask'[r]) < downlink'[i].chunk
                    /\ \A k \in (Heard(ask'[r]) + 1)..downlink'[i].chunk : \E j \in ChunkAt(r)' : downlink'[j].chunk = k
               /\ far' = "open" \/ AnswerAt(r)' # {} =>
                    \A k \in (Heard(ask'[r]) + 1)..served'[r].said : \E j \in ChunkAt(r)' : downlink'[j].chunk = k
    <3>1. PICK h : h = Heard(ask[r])
      OBVIOUS
    <3>2. PICK said : said = served[r].said
      OBVIOUS
    <3>3. /\ h <= said
          /\ \A i \in ChunkAt(r) :
               /\ h < downlink[i].chunk
               /\ \A k \in (h + 1)..downlink[i].chunk : \E j \in ChunkAt(r) : downlink[j].chunk = k
          /\ far = "open" => \A k \in (h + 1)..said : \E j \in ChunkAt(r) : downlink[j].chunk = k
      BY <1>6, <1>15, <2>5, <3>1, <3>2 DEF FlowOK
    <3>4. Heard(ask'[r]) = h /\ served'[r].said = said
      BY <1>1, <1>8, <3>1, <3>2
    <3>5. far' = "open" \/ AnswerAt(r)' # {} => far = "open"
      BY <1>14
    <3>6. \A k : (\E j \in ChunkAt(r) : downlink[j].chunk = k) => \E j \in ChunkAt(r)' : downlink'[j].chunk = k
      BY <1>14
    <3>7. \A i \in ChunkAt(r)' :
            /\ h < downlink'[i].chunk
            /\ \A k \in (h + 1)..downlink'[i].chunk : \E j \in ChunkAt(r)' : downlink'[j].chunk = k
      <4>1. \A i \in ChunkAt(r)' : i \in ChunkAt(r) /\ downlink'[i].chunk = downlink[i].chunk
        BY <1>14
      <4> QED
        BY <3>3, <3>6, <4>1
    <3> QED
      BY <3>3, <3>4, <3>5, <3>6, <3>7
  <2> QED
    BY <1>8, <2>1, <2>2, <2>3, <2>4, <2>5 DEF FlowOK
<1>19. NoneStranded(r)'
  BY <1>1, <1>6, <1>15 DEF NoneStranded
<1>20. WireOK(r)'
  BY <1>16, <1>17, <1>18, <1>19 DEF WireOK
<1> QED
  BY <1>9, <1>10, <1>11, <1>12, <1>13, <1>20, WireWhole

\* A turn in its slot goes on: nothing is said yet.
LEMMA TurnMoves ==
  ASSUME WireInv, ChainOK', NEW r \in streamed, NEW row \in ServedRow,
         served[r].at \in {"handling", "queued"}, served' = [served EXCEPT ![r] = row],
         row.at \in {"queued", "turning"}, row.said = served[r].said, tail' \in Request \cup {NoRequest},
         UNCHANGED <<clientVars, uplink, downlink, far, cap, slots, shed>>
  PROVE  WireInv'
<1>1. /\ lease' = lease /\ near' = near /\ ask' = ask /\ streamed' = streamed /\ late' = late
      /\ uplink' = uplink /\ downlink' = downlink /\ far' = far /\ cap' = cap /\ slots' = slots /\ shed' = shed
      /\ UNCHANGED clientVars
  BY DEF clientVars
<1>2. WireTyped /\ FramesOK /\ SlotsOK /\ served \in [Request -> ServedRow] /\ r \in Request
  BY WireParts, WireFacts
<1>3. /\ served' \in [Request -> ServedRow] /\ served'[r] = row
      /\ \A q \in Request : q # r => served'[q] = served[q]
  BY <1>2
<1>4. WireTyped'
  BY <1>1, <1>2, <1>3 DEF WireTyped
<1>5. FramesOK'
  BY <1>1, <1>2 DEF FramesOK
<1>6. BusyOnes' = BusyOnes /\ r \in BusyOnes
  BY <1>2, <1>3 DEF BusyOnes
<1>7. SlotsOK'
  BY <1>1, <1>2, <1>6 DEF SlotsOK
<1>8. ASSUME NEW q \in Request
      PROVE  WireOK(q)'
  <2>1. SameFrames(q, 0) /\ ChunkAt(q)' = ChunkAt(q) /\ AnswerAt(q)' = AnswerAt(q)
    BY <1>1, <1>2, NothingSent
  <2>2. AskedAt(q)' = AskedAt(q) /\ WireOK(q)
    BY <1>1, WireParts DEF AskedAt
  <2>3. CASE q # r
    BY <1>1, <1>2, <1>3, <1>4, <2>1, <2>2, <2>3, ServerRests
  <2>4. CASE q = r
    <3>1. PlaceOK(r) /\ AskOK(r) /\ FlowOK(r) /\ NoneStranded(r)
      BY <1>2, WireParts
    <3>2. Awaited(r)' <=> Awaited(r)
      BY <1>1 DEF Awaited
    <3>3. r \notin shed /\ AnswerAt(r) = {} /\ AskedAt(r) = {} /\ ask[r].at # "new"
          /\ ChunkAt(r) = {} /\ served[r].said = 0
      BY <3>1 DEF PlaceOK, FlowOK
    <3>4. PlaceOK(r)'
      BY <1>1, <1>3, <1>6, <2>1, <2>2, <2>4, <3>3 DEF PlaceOK
    <3>5. AskOK(r)'
      BY <1>1, <1>2, <3>1, AskRests
    <3>6. ChunkAt(r)' = {} /\ AnswerAt(r)' = {} /\ served'[r].said = 0 /\ served'[r].at \in {"queued", "turning"}
      BY <1>3, <2>1, <2>4, <3>3
    <3>7. Awaited(r)' => Heard(ask'[r]) <= 0 /\ (far' = "open" => \A k \in (Heard(ask'[r]) + 1)..0 : FALSE)
      <4>1. SUFFICES ASSUME Awaited(r)
                     PROVE  Heard(ask[r]) <= 0 /\ (far = "open" => \A k \in (Heard(ask[r]) + 1)..0 : FALSE)
        BY <1>1, <3>2
      <4> QED
        BY <3>1, <3>3, <4>1 DEF FlowOK
    <3>8. FlowOK(r)'
      BY <1>1, <3>6, <3>7 DEF FlowOK
    <3>9. NoneStranded(r)'
      BY <1>1, <3>1, <3>2 DEF NoneStranded
    <3> QED
      BY <2>4, <3>4, <3>5, <3>8, <3>9 DEF WireOK
  <2> QED
    BY <2>3, <2>4
<1> QED
  BY <1>4, <1>5, <1>7, <1>8, WireWhole

LEMMA EntersKeeps ==
  ASSUME WireInv, NEW r \in Request, Enters(r)
  PROVE  WireInv'
<1>1. /\ r \in streamed /\ served[r].at = "handling" /\ tail' = r
      /\ served' = [served EXCEPT ![r] = [@ EXCEPT !.at = "queued", !.after = tail]]
      /\ UNCHANGED <<clientVars, uplink, downlink, far, cap, slots, shed>>
  BY DEF Enters
<1>2. /\ WireTyped /\ ChainOK /\ served \in [Request -> ServedRow] /\ tail \in Request \cup {NoRequest}
      /\ NoRequest \notin Request /\ served[r] \in ServedRow
  BY WireParts, WireFacts
<1>3. PICK row : row = [served[r] EXCEPT !.at = "queued", !.after = tail]
  OBVIOUS
<1>4. /\ row \in ServedRow /\ row.at = "queued" /\ row.said = served[r].said /\ row.after = tail
  BY <1>2, <1>3 DEF ServedRow
<1>5. served' = [served EXCEPT ![r] = row]
  BY <1>1, <1>3
<1>6. served'[r] = row /\ \A q \in Request : q # r => served'[q] = served[q]
  BY <1>2, <1>5
<1>7. ChainOK'
  <2>1. PICK pos \in [Request -> Nat] : Chained(pos)
    BY <1>2 DEF ChainOK
  <2>2. PICK last \in Nat : last = IF tail = NoRequest THEN 0 ELSE pos[tail]
    BY <1>2, <2>1
  <2>3. PICK new : new = [pos EXCEPT ![r] = last + 1]
    OBVIOUS
  <2>4. /\ new \in [Request -> Nat] /\ new[r] = last + 1 /\ \A q \in Request : q # r => new[q] = pos[q]
    BY <2>1, <2>2, <2>3
  <2>5. \A q \in Request : pos[q] \in Nat /\ pos[q] <= last
    BY <1>2, <2>1, <2>2 DEF Chained
  <2>6. pos[r] = 0
    BY <1>1, <2>1 DEF Chained
  <2>7. tail # NoRequest => tail \in Request /\ tail # r /\ pos[tail] = last /\ last # 0
    BY <1>2, <2>1, <2>2, <2>6 DEF Chained
  <2>8. /\ \A q \in Request : served'[q].at \in {"none", "handling"} => new[q] = 0
        /\ \A q \in Request : served'[q].at \in {"queued", "turning"} => new[q] # 0
    <3>1. last + 1 # 0
      OBVIOUS
    <3> QED
      BY <1>4, <1>6, <2>1, <2>4, <3>1 DEF Chained
  <2>9. \A p, q \in Request : new[p] = new[q] /\ new[p] # 0 => p = q
    <3>1. \A q \in Request : q # r => new[q] # last + 1
      BY <2>4, <2>5
    <3> QED
      BY <2>1, <2>4, <3>1 DEF Chained
  <2>10. ASSUME NEW q \in Request, new[q] > 1
         PROVE  served'[q].after \in Request /\ new[served'[q].after] = new[q] - 1
    <3>1. CASE q = r
      <4>1. last + 1 > 1 /\ new[q] = last + 1
        BY <2>4, <2>10, <3>1
      <4>2. tail # NoRequest
        BY <2>2, <4>1
      <4>3. served'[q].after = tail /\ new[tail] = last
        BY <1>4, <1>6, <2>4, <2>7, <3>1, <4>2
      <4> QED
        BY <2>7, <4>1, <4>2, <4>3
    <3>2. CASE q # r
      <4>1. pos[q] > 1 /\ new[q] = pos[q] /\ served'[q] = served[q]
        BY <1>6, <2>4, <2>10, <3>2
      <4>2. served[q].after \in Request /\ pos[served[q].after] = pos[q] - 1
        BY <2>1, <4>1 DEF Chained
      <4>3. served[q].after # r
        BY <2>5, <2>6, <4>1, <4>2
      <4> QED
        BY <2>4, <4>1, <4>2, <4>3
    <3> QED
      BY <3>1, <3>2
  <2>11. ASSUME NEW p \in Request, NEW q \in Request, 0 < new[q], new[q] < new[p],
                served'[p].at \in {"turning", "over"}
         PROVE  served'[q].at = "over"
    <3>1. p # r
      BY <1>4, <1>6, <2>11
    <3>2. new[p] = pos[p] /\ served'[p] = served[p]
      BY <1>6, <2>4, <3>1
    <3>3. q # r
      BY <2>2, <2>4, <2>5, <2>11, <3>2
    <3>4. new[q] = pos[q] /\ served'[q] = served[q]
      BY <1>6, <2>4, <3>3
    <3> QED
      BY <2>1, <2>11, <3>2, <3>4 DEF Chained
  <2>12. tail' # NoRequest /\ new[tail'] # 0 /\ \A q \in Request : new[q] <= new[tail']
    <3>1. tail' # NoRequest /\ new[tail'] = last + 1
      BY <1>1, <1>2, <2>4
    <3>2. \A q \in Request : new[q] <= last + 1
      BY <2>2, <2>4, <2>5
    <3> QED
      BY <2>2, <3>1, <3>2
  <2>13. Chained(new)'
    BY <2>8, <2>9, <2>10, <2>11, <2>12 DEF Chained
  <2> QED
    BY <2>4, <2>13 DEF ChainOK
<1> QED
  BY <1>1, <1>4, <1>5, <1>7, TurnMoves

LEMMA BeginsKeeps ==
  ASSUME WireInv, NEW r \in Request, Begins(r)
  PROVE  WireInv'
<1>1. /\ served[r].at = "queued" /\ ChainFree(r) /\ tail' = tail
      /\ served' = [served EXCEPT ![r].at = "turning"]
      /\ UNCHANGED <<clientVars, uplink, downlink, far, cap, slots, shed>>
  BY DEF Begins
<1>2. /\ WireTyped /\ ChainOK /\ served \in [Request -> ServedRow] /\ tail \in Request \cup {NoRequest}
      /\ NoRequest \notin Request /\ served[r] \in ServedRow /\ FlowOK(r)
  BY WireParts, WireFacts
<1>3. PICK row : row = [served[r] EXCEPT !.at = "turning"]
  OBVIOUS
<1>4. /\ row \in ServedRow /\ row.at = "turning" /\ row.said = served[r].said /\ row.after = served[r].after
  BY <1>2, <1>3 DEF ServedRow
<1>5. served' = [served EXCEPT ![r] = row]
  BY <1>1, <1>3
<1>6. served'[r] = row /\ \A q \in Request : q # r => served'[q] = served[q]
  BY <1>2, <1>5
<1>7. r \in streamed
  BY <1>1, <1>2 DEF FlowOK
<1>8. ChainOK'
  <2>1. PICK pos \in [Request -> Nat] : Chained(pos)
    BY <1>2 DEF ChainOK
  <2>2. /\ \A q \in Request : served'[q].at \in {"none", "handling"} => pos[q] = 0
        /\ \A q \in Request : served'[q].at \in {"queued", "turning"} => pos[q] # 0
    BY <1>1, <1>4, <1>6, <2>1 DEF Chained
  <2>3. /\ \A p, q \in Request : pos[p] = pos[q] /\ pos[p] # 0 => p = q
        /\ \A q \in Request : pos[q] > 1 =>
             served'[q].after \in Request /\ pos[served'[q].after] = pos[q] - 1
    BY <1>4, <1>6, <2>1 DEF Chained
  <2>4. ASSUME NEW p \in Request, NEW q \in Request, 0 < pos[q], pos[q] < pos[p],
               served'[p].at \in {"turning", "over"}
        PROVE  served'[q].at = "over"
    <3>1. pos[p] \in Nat /\ pos[q] \in Nat
      BY <2>1
    <3>2. CASE p # r
      <4>1. served[q].at = "over"
        BY <1>6, <2>1, <2>4, <3>2 DEF Chained
      <4> QED
        BY <1>1, <1>6, <4>1
    <3>3. CASE p = r
      <4>1. pos[r] > 1
        BY <2>4, <3>1, <3>3
      <4>2. PICK a : a = served[r].after
        OBVIOUS
      <4>3. a \in Request /\ pos[a] = pos[r] - 1
        BY <2>1, <4>1, <4>2 DEF Chained
      <4>4. served[a].at = "over"
        BY <1>1, <1>2, <4>2, <4>3 DEF ChainFree
      <4>5. CASE pos[q] = pos[a]
        <5>1. q = a
          BY <2>1, <2>4, <3>1, <4>3, <4>5 DEF Chained
        <5> QED
          BY <1>1, <1>6, <4>4, <5>1
      <4>6. CASE pos[q] # pos[a]
        <5>1. pos[q] < pos[a]
          BY <2>4, <3>1, <3>3, <4>3, <4>6
        <5>2. served[q].at = "over"
          BY <2>1, <2>4, <4>3, <4>4, <5>1 DEF Chained
        <5> QED
          BY <1>1, <1>6, <5>2
      <4> QED
        BY <4>5, <4>6
    <3> QED
      BY <3>2, <3>3
  <2>5. /\ tail' = NoRequest => \A q \in Request : pos[q] = 0
        /\ tail' # NoRequest => pos[tail'] # 0 /\ \A q \in Request : pos[q] <= pos[tail']
    BY <1>1, <2>1 DEF Chained
  <2>6. Chained(pos)'
    BY <2>2, <2>3, <2>4, <2>5 DEF Chained
  <2> QED
    BY <2>1, <2>6 DEF ChainOK
<1> QED
  BY <1>1, <1>2, <1>4, <1>5, <1>7, <1>8, TurnMoves


LEMMA EmitsKeeps ==
  ASSUME WireInv, NEW r \in Request, Emits(r)
  PROVE  WireInv'
<1>1. PICK said : said = served[r].said
  OBVIOUS
<1>2. /\ WireTyped /\ FramesOK /\ SlotsOK /\ ChainOK /\ NoRequest \notin Request /\ MaxChunks \in Nat
      /\ served \in [Request -> ServedRow] /\ Len(downlink) \in Nat
      /\ served[r] \in ServedRow /\ ask[r] \in AskRow
  BY WireParts, WireFacts
<1>3. /\ lease' = lease /\ near' = near /\ ask' = ask /\ streamed' = streamed /\ late' = late
      /\ uplink' = uplink /\ cap' = cap /\ tail' = tail /\ shed' = shed /\ slots' = slots
      /\ UNCHANGED clientVars
      /\ far = "open" /\ served[r].at = "turning" /\ served[r].said < MaxChunks
      /\ served' = [served EXCEPT ![r].said = @ + 1]
  BY DEF Emits, clientVars
<1>4. said \in Nat /\ said + 1 \in 0..MaxChunks /\ said < MaxChunks
  BY <1>1, <1>2, <1>3, AskFacts
<1>5. /\ served' \in [Request -> ServedRow] /\ served'[r].at = "turning" /\ served'[r].said = said + 1
      /\ served'[r].after = served[r].after
      /\ \A q \in Request : q # r => served'[q] = served[q]
  BY <1>1, <1>2, <1>3, <1>4 DEF ServedRow
<1>6. PICK frame : frame = [is |-> "chunk", to |-> r, chunk |-> said + 1]
  OBVIOUS
<1>7. frame \in WireFrame /\ frame.is = "chunk" /\ frame.to = r /\ frame.chunk = said + 1
  BY <1>2, <1>4, <1>6 DEF WireFrame
<1>8. SendsFrame(frame)
  BY <1>5, <1>6 DEF Emits, SendsFrame
<1>9. /\ \/ downlink' = downlink /\ far' = "closed"
         \/ downlink' = Append(downlink, frame) /\ far = "open" /\ far' = "open"
      /\ far' \in {"open", "closed"} /\ (far' = "open" => far = "open")
      /\ downlink' \in Seq(WireFrame)
  BY <1>2, <1>7, <1>8, FrameSent
<1>10. WireTyped'
  BY <1>2, <1>3, <1>5, <1>9 DEF WireTyped
<1>11. FramesOK'
  BY <1>2, <1>7, <1>9, FormKept
<1>12. SlotsOK'
  <2>1. BusyOnes' = BusyOnes
    BY <1>3, <1>5 DEF BusyOnes
  <2> QED
    BY <1>2, <1>3, <2>1 DEF SlotsOK
<1>13. ChainOK'
  <2>1. \A q \in Request : served'[q].after = served[q].after /\ served'[q].at = served[q].at
    BY <1>3, <1>5
  <2> QED
    BY <1>2, <1>3, <1>10, <2>1, ChainRests
<1>14. ASSUME NEW q \in Request, q # r
       PROVE  WireOK(q)'
  <2>1. SameFrames(q, 0)
    BY <1>2, <1>7, <1>9, <1>14, NothingSent, FrameAppended DEF SameFrames
  <2>2. WireOK(q) /\ AskedAt(q)' = AskedAt(q)
    BY <1>3, WireParts DEF AskedAt
  <2> QED
    BY <1>2, <1>3, <1>5, <1>9, <1>10, <1>14, <2>1, <2>2, ServerRests
<1>15. PlaceOK(r) /\ AskOK(r) /\ FlowOK(r) /\ NoneStranded(r) /\ 0 \in 0..1
  BY WireParts
<1>16. AnswerAt(r) = {} /\ r \in streamed
  BY <1>3, <1>15 DEF PlaceOK, FlowOK
<1>17. PICK new : new = Len(downlink) + 1
  OBVIOUS
<1>18. /\ SameAnswers(r, 0) /\ AnswerAt(r)' = {}
       /\ \A i \in ChunkAt(r) : downlink'[i] = downlink[i]
       /\ \/ ChunkAt(r)' = ChunkAt(r) /\ far' = "closed"
          \/ ChunkAt(r)' = ChunkAt(r) \cup {new} /\ downlink'[new].chunk = said + 1
  <2>1. CASE downlink' = downlink /\ far' = "closed"
    BY <1>2, <1>16, <2>1, NothingSent DEF SameFrames
  <2>2. CASE downlink' = Append(downlink, frame)
    <3>1. /\ \A i \in ChunkAt(r) : downlink'[i] = downlink[i]
          /\ downlink'[new] = frame
          /\ ChunkAt(r)' = IF frame.to = r /\ frame.is = "chunk"
                           THEN ChunkAt(r) \cup {new} ELSE ChunkAt(r)
          /\ AnswerAt(r)' = IF frame.to = r /\ frame.is \in {"result", "error"}
                            THEN AnswerAt(r) \cup {new} ELSE AnswerAt(r)
          /\ ~(frame.to = r /\ frame.is \in {"result", "error"}) => SameAnswers(r, 0)
      BY <1>2, <1>7, <1>17, <2>2, FrameAppended
    <3>2. ~(frame.is \in {"result", "error"})
      BY <1>7
    <3> QED
      BY <1>7, <1>16, <3>1, <3>2
  <2> QED
    BY <1>9, <2>1, <2>2
<1>19. /\ \A i \in ChunkAt(r) : /\ i \in Nat /\ i < new
                                /\ downlink[i].chunk \in 1..said /\ downlink[i].chunk \in Nat
                                /\ downlink'[i].chunk = downlink[i].chunk
       /\ \A i \in ChunkAt(r)' : i \in ChunkAt(r) \/ (i = new /\ downlink'[i].chunk = said + 1)
       /\ \A i \in ChunkAt(r) : i \in ChunkAt(r)'
  <2>1. \A i \in ChunkAt(r) : i \in Nat /\ i < new
    BY <1>2, <1>17, PlaceFacts
  <2>2. \A i \in ChunkAt(r) : downlink[i].chunk \in 1..said /\ downlink[i].chunk \in Nat
    BY <1>1, <1>4, <1>15 DEF FlowOK
  <2> QED
    BY <1>18, <2>1, <2>2
<1>20. Awaited(r)' <=> Awaited(r)
  BY <1>3 DEF Awaited
<1>21. PlaceOK(r)'
  <2>1. AskedAt(r)' = AskedAt(r) /\ \A i, j \in AskedAt(r)' : i = j
    BY <1>3, <1>15 DEF AskedAt, PlaceOK
  <2> QED
    BY <1>2, <1>3, <1>5, <1>9, <1>10, <1>15, <1>18, <1>20, <2>1, PlaceRests
<1>22. AskOK(r)'
  BY <1>3, <1>15, AskRests
<1>23. FlowOK(r)'
  <2>1. ChunkAt(r)' # {} => r \in streamed' /\ served'[r].at \in {"turning", "over"}
    BY <1>3, <1>5, <1>16
  <2>2. \A i \in ChunkAt(r)' : \A j \in AnswerAt(r)' : i < j
    BY <1>18
  <2>3. \A i, j \in ChunkAt(r)' : i < j => downlink'[i].chunk < downlink'[j].chunk
    <3>1. SUFFICES ASSUME NEW i \in ChunkAt(r)', NEW j \in ChunkAt(r)', i < j
                   PROVE  downlink'[i].chunk < downlink'[j].chunk
      OBVIOUS
    <3>2. new \in Nat
      BY <1>2, <1>17
    <3>3. CASE i \in ChunkAt(r) /\ j \in ChunkAt(r)
      <4>1. downlink[i].chunk < downlink[j].chunk
        BY <1>15, <3>1, <3>3 DEF FlowOK
      <4> QED
        BY <1>19, <3>3, <4>1
    <3>4. CASE i \in ChunkAt(r) /\ j = new /\ downlink'[j].chunk = said + 1
      BY <1>4, <1>19, <3>4
    <3>5. CASE i = new
      <4>1. j = new \/ j < new
        BY <1>19
      <4> QED
        BY <3>1, <3>2, <3>5, <4>1, <1>19
    <3> QED
      BY <1>19, <3>3, <3>4, <3>5
  <2>4. \A i \in ChunkAt(r)' : downlink'[i].chunk \in 1..served'[r].said
    <3>1. \A i \in ChunkAt(r)' : downlink'[i].chunk \in 1..(said + 1)
      BY <1>4, <1>19
    <3> QED
      BY <1>5, <3>1
  <2>5. /\ served'[r].at \in {"none", "handling", "queued"} => served'[r].said = 0
        /\ served'[r].at \in {"queued", "turning"} => r \in streamed'
    BY <1>3, <1>5, <1>16
  <2>6. ASSUME Awaited(r)'
        PROVE  /\ Heard(ask'[r]) <= served'[r].said
               /\ \A i \in ChunkAt(r)' :
                    /\ Heard(ask'[r]) < downlink'[i].chunk
                    /\ \A k \in (Heard(ask'[r]) + 1)..downlink'[i].chunk : \E j \in ChunkAt(r)' : downlink'[j].chunk = k
               /\ far' = "open" \/ AnswerAt(r)' # {} =>
                    \A k \in (Heard(ask'[r]) + 1)..served'[r].said : \E j \in ChunkAt(r)' : downlink'[j].chunk = k
    <3>1. PICK h \in Nat : h = Heard(ask[r])
      BY <1>2, ServedFacts
    <3>2. /\ h <= said
          /\ \A i \in ChunkAt(r) :
               /\ h < downlink[i].chunk
               /\ \A k \in (h + 1)..downlink[i].chunk : \E j \in ChunkAt(r) : downlink[j].chunk = k
          /\ \A k \in (h + 1)..said : \E j \in ChunkAt(r) : downlink[j].chunk = k
      BY <1>1, <1>3, <1>15, <1>20, <2>6, <3>1 DEF FlowOK
    <3>3. Heard(ask'[r]) = h /\ served'[r].said = said + 1
      BY <1>3, <1>5, <3>1
    <3>4. \A k : (\E j \in ChunkAt(r) : downlink[j].chunk = k) => \E j \in ChunkAt(r)' : downlink'[j].chunk = k
      BY <1>19
    <3>5. \A k \in (h + 1)..said : \E j \in ChunkAt(r)' : downlink'[j].chunk = k
      BY <3>2, <3>4
    <3>6. new \in ChunkAt(r)' => downlink'[new].chunk = said + 1
      BY <1>19, <1>18
    <3>7. \A k \in (h + 1)..(said + 1) : k \in (h + 1)..said \/ k = said + 1
      BY <1>4
    <3>8. new \in ChunkAt(r)' =>
            \A k \in (h + 1)..(said + 1) : \E j \in ChunkAt(r)' : downlink'[j].chunk = k
      BY <3>5, <3>6, <3>7
    <3>9. ASSUME NEW i \in ChunkAt(r)'
          PROVE  /\ h < downlink'[i].chunk
                 /\ \A k \in (h + 1)..downlink'[i].chunk : \E j \in ChunkAt(r)' : downlink'[j].chunk = k
      <4>1. CASE i \in ChunkAt(r)
        <5>1. PICK c : c = downlink[i].chunk
          OBVIOUS
        <5>2. h < c /\ \A k \in (h + 1)..c : \E j \in ChunkAt(r) : downlink[j].chunk = k
          BY <3>2, <4>1, <5>1
        <5>3. downlink'[i].chunk = c
          BY <1>19, <4>1, <5>1
        <5> QED
          BY <3>4, <5>2, <5>3
      <4>2. CASE i = new /\ downlink'[i].chunk = said + 1
        <5>1. h < said + 1
          BY <1>4, <3>2
        <5> QED
          BY <3>8, <4>2, <5>1
      <4> QED
        BY <1>19, <4>1, <4>2
    <3>10. far' = "open" \/ AnswerAt(r)' # {} =>
             \A k \in (h + 1)..(said + 1) : \E j \in ChunkAt(r)' : downlink'[j].chunk = k
      BY <1>18, <3>8
    <3>11. h <= said + 1
      BY <1>4, <3>2
    <3> QED
      BY <3>3, <3>9, <3>10, <3>11
  <2> QED
    BY <2>1, <2>2, <2>3, <2>4, <2>5, <2>6 DEF FlowOK
<1>24. NoneStranded(r)'
  BY <1>3, <1>15, <1>20 DEF NoneStranded
<1>25. WireOK(r)'
  BY <1>21, <1>22, <1>23, <1>24 DEF WireOK
<1> QED
  BY <1>10, <1>11, <1>12, <1>13, <1>14, <1>25, WireWhole

-----------------------------------------------------------------------------
(* WireTransport: what follows *)

LEMMA WireStarts == WireInit => WireInv
<1> SUFFICES ASSUME WireInit
             PROVE  WireInv
  OBVIOUS
<1>1. /\ lease = "pending" /\ near = "open" /\ far = "open" /\ uplink = <<>> /\ downlink = <<>>
      /\ ask = [r \in Request |-> Unasked] /\ streamed = {} /\ cap \in 1..MaxInFlight /\ slots = 0
      /\ served = [r \in Request |-> Unserved] /\ tail = NoRequest /\ shed = {} /\ late = {}
  BY DEF WireInit
<1>2. MaxChunks \in Nat
  BY WireConstants
<1>3. Unasked \in AskRow /\ RowOK(Unasked) /\ Unasked.at = "new" /\ Len(Unasked.read) = 0
      /\ Unasked.end = "none"
  <2>1. <<>> \in Seq(1..MaxChunks) /\ Len(<<>>) = 0 /\ DOMAIN <<>> = {}
    BY EmptySeq
  <2> QED
    BY <1>2, <2>1 DEF Unasked, AskRow, RowOK, Given
<1>4. Unserved \in ServedRow /\ Unserved.at = "none" /\ Unserved.said = 0
  BY <1>2 DEF Unserved, ServedRow
<1>5. WireTyped
  <2>1. uplink \in Seq(Request) /\ downlink \in Seq(WireFrame)
    BY <1>1, EmptySeq
  <2> QED
    BY <1>1, <1>2, <1>3, <1>4, <2>1, WireConstants DEF WireTyped
<1>6. DOMAIN uplink = {} /\ DOMAIN downlink = {}
  BY <1>1, EmptySeq
<1>7. FramesOK
  BY <1>6 DEF FramesOK
<1>8. SlotsOK
  <2>1. BusyOnes = {}
    BY <1>1, <1>4 DEF BusyOnes
  <2> QED
    BY <1>1, <2>1, FS_EmptySet DEF SlotsOK
<1>9. ChainOK
  <2>1. PICK pos : pos = [r \in Request |-> 0]
    OBVIOUS
  <2>2. pos \in [Request -> Nat] /\ \A r \in Request : pos[r] = 0
    BY <2>1
  <2>3. Chained(pos)
    BY <1>1, <1>4, <2>2 DEF Chained
  <2> QED
    BY <2>2, <2>3 DEF ChainOK
<1>10. ASSUME NEW r \in Request
       PROVE  PlaceOK(r) /\ AskOK(r) /\ FlowOK(r) /\ NoneStranded(r)
  <2>1. AskedAt(r) = {} /\ AnswerAt(r) = {} /\ ChunkAt(r) = {}
    BY <1>6 DEF AskedAt, AnswerAt, ChunkAt
  <2>2. ask[r] = Unasked /\ served[r] = Unserved
    BY <1>1
  <2>3. ~Awaited(r)
    BY <1>3, <2>2 DEF Awaited
  <2>4. PlaceOK(r)
    BY <1>1, <1>4, <2>1, <2>2, <2>3 DEF PlaceOK
  <2>5. AskOK(r)
    BY <1>1, <1>3, <2>2 DEF AskOK
  <2>6. FlowOK(r)
    BY <1>4, <2>1, <2>2, <2>3 DEF FlowOK
  <2> QED
    BY <2>3, <2>4, <2>5, <2>6 DEF NoneStranded
<1> QED
  BY <1>5, <1>7, <1>8, <1>9, <1>10 DEF WireInv

LEMMA WireStep == WireInv /\ [WireNext]_wireVars => WireInv'
<1> SUFFICES ASSUME WireInv, [WireNext]_wireVars
             PROVE  WireInv'
  OBVIOUS
<1>1. CASE UNCHANGED wireVars
  <2>1. /\ lease' = lease /\ near' = near /\ ask' = ask /\ streamed' = streamed /\ late' = late
        /\ uplink' = uplink /\ downlink' = downlink /\ far' = far /\ cap' = cap /\ slots' = slots
        /\ served' = served /\ tail' = tail /\ shed' = shed
    BY <1>1 DEF wireVars, clientVars, serverVars
  <2>2. WireTyped /\ FramesOK /\ SlotsOK /\ ChainOK
    BY WireParts
  <2>3. WireTyped'
    BY <2>1, <2>2 DEF WireTyped
  <2>4. FramesOK' /\ SlotsOK'
    BY <2>1, <2>2 DEF FramesOK, SlotsOK, BusyOnes
  <2>5. ChainOK'
    BY <2>1, <2>2, <2>3, ChainRests
  <2>6. ASSUME NEW r \in Request
        PROVE  WireOK(r)'
    <3>1. SameFrames(r, 0) /\ AskedAt(r)' = AskedAt(r) /\ WireOK(r)
      BY <2>1, <2>2, NothingSent, WireParts DEF AskedAt
    <3> QED
      BY <2>1, <2>2, <2>3, <3>1, ServerRests DEF clientVars
  <2> QED
    BY <2>3, <2>4, <2>5, <2>6, WireWhole
<1>2. CASE Closes
  BY <1>2, ClosesKeeps
<1>3. CASE Receives
  BY <1>3, ReceivesKeeps
<1>4. CASE SocketEnds
  BY <1>4, SocketEndsKeeps
<1>5. CASE Grants
  BY <1>5, GrantsKeeps
<1>6. CASE Superseded
  BY <1>6, SupersededKeeps
<1>7. CASE \E r \in Request : Calls(r)
  BY <1>7, CallsKeeps
<1>8. CASE \E r \in Request : Iterates(r)
  BY <1>8, IteratesKeeps
<1>9. CASE \E r \in Request : Resumes(r)
  BY <1>9, ResumesKeeps
<1>10. CASE \E r \in Request : Leaves(r)
  BY <1>10, LeavesKeeps
<1>11. CASE \E r \in Request : Admits(r)
  BY <1>11, AdmitsKeeps
<1>12. CASE \E r \in Request : Handles(r)
  BY <1>12, AnswersKeep DEF Handles
<1>13. CASE \E r \in Request : Enters(r)
  BY <1>13, EntersKeeps
<1>14. CASE \E r \in Request : Begins(r)
  BY <1>14, BeginsKeeps
<1>15. CASE \E r \in Request : Emits(r)
  BY <1>15, EmitsKeeps
<1>16. CASE \E r \in Request : TurnEnds(r)
  BY <1>16, AnswersKeep DEF TurnEnds
<1> QED
  BY <1>1, <1>2, <1>3, <1>4, <1>5, <1>6, <1>7, <1>8, <1>9, <1>10, <1>11, <1>12, <1>13, <1>14, <1>15,
     <1>16 DEF WireNext

LEMMA WireHolds == WireSpec => []WireInv
  BY WireStarts, WireStep, PTL DEF WireSpec

\* A set without two members.
LEMMA AtMostOne ==
  ASSUME NEW S, \A i, j \in S : i = j
  PROVE  IsFiniteSet(S) /\ Cardinality(S) = IF S = {} THEN 0 ELSE 1
<1>1. CASE S = {}
  BY <1>1, FS_EmptySet
<1>2. CASE S # {}
  <2>1. PICK x : x \in S
    BY <1>2
  <2>2. S = {x}
    BY <2>1
  <2> QED
    BY <1>2, <2>2, FS_Singleton
<1> QED
  BY <1>1, <1>2

LEMMA WireCounted ==
  ASSUME WireInv
  PROVE  RequestsAccounted
<1>1. WireTyped /\ FramesOK /\ SlotsOK /\ ChainOK
  BY WireParts
<1>2. ASSUME NEW r \in Request
      PROVE  InOnePlace(r) /\ NoneStranded(r) /\ YieldedWhole(r)
  <2>1. PlaceOK(r) /\ AskOK(r) /\ FlowOK(r) /\ NoneStranded(r) /\ RowOK(ask[r]) /\ ask[r] \in AskRow
        /\ served[r] \in ServedRow
    BY <1>1, WireParts, WireFacts
  <2>2. InOnePlace(r)
    <3>1. /\ Occurrences(uplink, LAMBDA q : q = r) = Cardinality(AskedAt(r))
          /\ Occurrences(downlink, LAMBDA f : f.to = r /\ f.is \in {"result", "error"}) = Cardinality(AnswerAt(r))
      BY DEF Occurrences, AskedAt, AnswerAt
    <3>2. /\ Cardinality(AskedAt(r)) = IF AskedAt(r) = {} THEN 0 ELSE 1
          /\ Cardinality(AnswerAt(r)) = IF AnswerAt(r) = {} THEN 0 ELSE 1
      BY <2>1, AtMostOne DEF PlaceOK
    <3>3. r \in BusyOnes <=> served[r].at \notin {"none", "over"}
      BY DEF BusyOnes
    <3> QED
      BY <2>1, <3>1, <3>2, <3>3 DEF InOnePlace, PlaceOK
  <2>3. YieldedWhole(r)
    <3>1. PICK s \in AskRow : s = ask[r]
      BY <2>1
    <3>2. PICK n : n = Len(s.read)
      OBVIOUS
    <3>3. /\ n \in Nat /\ s.read \in [1..n -> 1..MaxChunks] /\ Len(s.buffer) \in Nat
          /\ \A i \in 1..n : s.read[i] = i
      BY <2>1, <3>1, <3>2, ServedFacts, LenProperties DEF RowOK
    <3>4. s.read = [i \in 1..n |-> i]
      BY <3>3
    <3>5. ASSUME r \in streamed, s.at = "settled", s.end = "finished"
          PROVE  n = served[r].said
      <4>1. Heard(s) = served[r].said /\ Len(s.buffer) = 0 /\ s.hand = 0
        BY <2>1, <3>1, <3>5 DEF AskOK, RowOK
      <4>2. Given(s) = n
        BY <3>2, <4>1 DEF Given
      <4>3. Heard(s) = n + 0
        BY <4>1, <4>2 DEF Heard
      <4> QED
        BY <3>3, <4>1, <4>3
    <3> QED
      BY <3>1, <3>2, <3>4, <3>5 DEF YieldedWhole
  <2> QED
    BY <2>1, <2>2, <2>3
<1>3. slots = Cardinality({r \in Request : served[r].at \notin {"none", "over"}})
  BY <1>1 DEF SlotsOK, BusyOnes
<1>4. Cardinality({r \in streamed : served[r].at = "turning"}) <= 1
  <2>1. PICK turning : turning = {r \in streamed : served[r].at = "turning"}
    OBVIOUS
  <2>2. PICK pos \in [Request -> Nat] : Chained(pos)
    BY <1>1 DEF ChainOK
  <2>3. \A p, q \in turning : p = q
    <3>1. SUFFICES ASSUME NEW p \in turning, NEW q \in turning, p # q
                   PROVE  FALSE
      OBVIOUS
    <3>2. /\ p \in Request /\ q \in Request /\ served[p].at = "turning" /\ served[q].at = "turning"
          /\ pos[p] \in Nat /\ pos[q] \in Nat
      BY <1>1, <2>1, <2>2, WireFacts
    <3>3. pos[p] # 0 /\ pos[q] # 0 /\ pos[p] # pos[q]
      BY <2>2, <3>1, <3>2 DEF Chained
    <3>4. CASE pos[p] < pos[q]
      BY <2>2, <3>2, <3>3, <3>4 DEF Chained
    <3>5. CASE pos[q] < pos[p]
      BY <2>2, <3>2, <3>3, <3>5 DEF Chained
    <3> QED
      BY <3>2, <3>3, <3>4, <3>5
  <2>4. Cardinality(turning) = 0 \/ Cardinality(turning) = 1
    BY <2>3, AtMostOne
  <2> QED
    BY <2>1, <2>4
<1> QED
  BY <1>2, <1>3, <1>4 DEF RequestsAccounted

\* The requests that go over one connection are neither lost nor answered twice,
\* their slots come back, their turns run one at a time, and a stream that
\* returns has yielded the whole turn, whatever the limits of the connection
\* (ws-transport.ts, register.ts, dispatch.ts, runSerial).
THEOREM RequestsAreAccounted == WireSpec => []RequestsAccounted
<1>1. WireInv => RequestsAccounted
  BY WireCounted
<1> QED
  BY <1>1, WireHolds, PTL

\* The transport keeps its types: the slots in use never pass wsMaxInFlight.
THEOREM WireTypeCorrect == WireSpec => []WireTypeOK
<1>1. WireInv => WireTypeOK
  BY WireParts DEF WireTyped, WireTypeOK, WireFrame, AskRow, ServedRow
<1> QED
  BY <1>1, WireHolds, PTL
=============================================================================
