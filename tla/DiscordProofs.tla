--------------------------- MODULE DiscordProofs ---------------------------
(***************************************************************************)
(* Theorems about the Discord service, for every value of its constants:   *)
(* the bridge (one connection to the room, what an embodiment is given up  *)
(* for, nobody left waiting), the configuration row and its link code, the *)
(* gateway that the row asks for, and what the parts' theorems (those of   *)
(* the relay are in RelayProofs) say of the service they make up.          *)
(***************************************************************************)
EXTENDS Discord, RelayProofs, NumberLemmas, FiniteSetTheorems, SequenceTheorems

-----------------------------------------------------------------------------
(* DiscordBridge: the invariant *)

\* The wakes that advance over connection i.
Over(i) == {c \in Caller : pc[c] = "advancing" /\ via[c] = i}

\* Callers that have dialled, or been answered.
Past == {c \in Caller : pc[c] \in {"connecting", "advancing", "done"}}

BridgeTyped ==
  /\ conn \in Seq(Connection) /\ Len(conn) <= Cardinality(Past)
  /\ active \in 0..Len(conn)
  /\ queue \in Seq(Caller)
  /\ pc \in [Caller -> {"idle", "config", "dm", "waiting", "connecting", "advancing", "done"}]
  /\ kind \in [Caller -> {"command", "wake"}]
  /\ via \in [Caller -> 0..Len(conn)]
  /\ \A c \in Caller : pc[c] = "advancing" => via[c] # 0
  /\ opened \cup relied \cup advanced \cup skipped \cup failed \subseteq DOMAIN conn

\* The queue holds each caller that waits once, and its head dials.
QueueOK ==
  /\ \A j, k \in DOMAIN queue : queue[j] = queue[k] => j = k
  /\ \A k \in DOMAIN queue : pc[queue[k]] = IF k = 1 THEN "connecting" ELSE "waiting"
  /\ \A c \in Caller : pc[c] \in {"waiting", "connecting"} => c \in Queued
  /\ queue # <<>> => (active = 0 /\ Len(conn) > 0)

\* Only the last connection may be dialling, and only for the queue's head; the
\* registered one is up, and no other is kept; what justifies an embodiment is
\* remembered, and the wakes over it are counted.
ConnRow(i) ==
  /\ conn[i].sock = "connecting" <=> (queue # <<>> /\ i = Len(conn))
  /\ conn[i].sock = "connecting" =>
       (~conn[i].gone /\ ~conn[i].frame /\ ~conn[i].superseded /\ ~conn[i].ours)
  /\ conn[i].frame => conn[i].gone
  /\ i = active => (conn[i].sock = "open" /\ ~conn[i].ours /\ ~conn[i].superseded)
  /\ (conn[i].sock = "open" /\ ~conn[i].gone /\ ~conn[i].ours) => i = active
  /\ conn[i].justified <=> i \in advanced \cup opened
  /\ conn[i].holders = Cardinality(Over(i))
  /\ Over(i) # {} => conn[i].sock = "open"
  /\ (i = active /\ Over(i) = {} /\ i \in skipped) => i \in advanced \cup opened \cup failed

ConnsOK == \A i \in DOMAIN conn : ConnRow(i)

BridgeInv == BridgeTyped /\ QueueOK /\ ConnsOK

-----------------------------------------------------------------------------
(* DiscordBridge: how a step changes the invariant *)

\* Some callers, counted.
LEMMA CallersCounted ==
  ASSUME NEW S \in SUBSET Caller
  PROVE  /\ IsFiniteSet(S) /\ Cardinality(S) \in 0..Cardinality(Caller)
         /\ Cardinality(S) \in Nat /\ Cardinality(Caller) \in Nat
         /\ S = {} <=> Cardinality(S) = 0
<1>1. IsFiniteSet(Caller) /\ Cardinality(Caller) \in Nat
  BY FiniteCallers, FS_CardinalityType
<1>2. IsFiniteSet(S) /\ Cardinality(S) <= Cardinality(Caller)
  BY <1>1, FS_Subset
<1>3. Cardinality(S) \in Nat /\ (S = {} <=> Cardinality(S) = 0)
  BY <1>2, FS_CardinalityType, FS_EmptySet
<1> QED
  BY <1>1, <1>2, <1>3

LEMMA BridgeFacts ==
  ASSUME BridgeInv
  PROVE  /\ conn \in Seq(Connection) /\ Len(conn) \in Nat /\ DOMAIN conn = 1..Len(conn)
         /\ queue \in Seq(Caller) /\ DOMAIN queue = 1..Len(queue) /\ Len(queue) \in Nat
         /\ Queued \subseteq Caller
         /\ \A i \in DOMAIN conn : conn[i] \in Connection /\ ConnRow(i)
<1>1. conn \in Seq(Connection) /\ queue \in Seq(Caller)
  BY DEF BridgeInv, BridgeTyped
<1>2. Len(conn) \in Nat /\ DOMAIN conn = 1..Len(conn) /\ Len(queue) \in Nat /\ DOMAIN queue = 1..Len(queue)
  BY <1>1, LenProperties
<1>3. (\A i \in DOMAIN conn : conn[i] \in Connection) /\ (\A k \in DOMAIN queue : queue[k] \in Caller)
  BY <1>1, <1>2
<1> QED
  BY <1>1, <1>2, <1>3 DEF BridgeInv, ConnsOK, Queued

\* The row of connection i becomes r.
LEMMA RowChanged ==
  ASSUME BridgeInv, NEW i \in DOMAIN conn, NEW r \in Connection, conn' = [conn EXCEPT ![i] = r]
  PROVE  /\ conn' \in Seq(Connection) /\ Len(conn') = Len(conn) /\ DOMAIN conn' = DOMAIN conn
         /\ conn'[i] = r /\ \A j \in DOMAIN conn : j # i => conn'[j] = conn[j]
<1>1. i \in 1..Len(conn) /\ conn \in Seq(Connection) /\ DOMAIN conn = 1..Len(conn)
  BY BridgeFacts
<1>2. conn' \in Seq(Connection) /\ Len(conn') = Len(conn)
  BY <1>1, ExceptSeq
<1>3. DOMAIN conn' = DOMAIN conn
  BY <1>1, <1>2, LenProperties
<1> QED
  BY <1>1, <1>2, <1>3

\* A connection is dialled.
LEMMA RowAdded ==
  ASSUME BridgeInv, NEW cs \in Seq(Connection), Len(cs) = Len(conn), NEW r \in Connection, conn' = Append(cs, r)
  PROVE  /\ conn' \in Seq(Connection) /\ Len(conn') = Len(conn) + 1
         /\ DOMAIN conn' = DOMAIN conn \cup {Len(conn')}
         /\ conn'[Len(conn')] = r /\ \A j \in DOMAIN conn : conn'[j] = cs[j]
<1>1. Len(conn) \in Nat /\ DOMAIN conn = 1..Len(conn)
  BY BridgeFacts
<1>2. conn' \in Seq(Connection) /\ Len(conn') = Len(conn) + 1
  BY <1>1, AppendProperties
<1>3. DOMAIN conn' = 1..(Len(conn) + 1)
  BY <1>2, LenProperties
<1>4. conn'[Len(conn) + 1] = r /\ \A j \in 1..Len(conn) : conn'[j] = cs[j]
  BY <1>1, AppendProperties
<1> QED
  BY <1>1, <1>2, <1>3, <1>4

\* Nobody who has dialled or been answered goes back.
LEMMA PastGrows ==
  ASSUME BridgeInv, pc' \in [Caller -> {"idle", "config", "dm", "waiting", "connecting", "advancing", "done"}],
         \A c \in Past : pc'[c] \in {"connecting", "advancing", "done"}
  PROVE  /\ Len(conn) <= Cardinality(Past')
         /\ \A c \in Caller : (c \notin Past /\ pc'[c] \in {"connecting", "advancing", "done"}) =>
              Len(conn) + 1 <= Cardinality(Past')
<1>1. Past \in SUBSET Caller /\ Past' \in SUBSET Caller /\ Past \subseteq Past'
  BY DEF Past
<1>2. /\ IsFiniteSet(Past) /\ IsFiniteSet(Past')
      /\ Cardinality(Past) \in Nat /\ Cardinality(Past') \in Nat
  BY <1>1, CallersCounted
<1>3. Cardinality(Past) <= Cardinality(Past') /\ Len(conn) <= Cardinality(Past) /\ Len(conn) \in Nat
  BY <1>1, <1>2, FS_Subset, BridgeFacts DEF BridgeInv, BridgeTyped
<1>4. ASSUME NEW c \in Caller, c \notin Past, pc'[c] \in {"connecting", "advancing", "done"}
      PROVE  Len(conn) + 1 <= Cardinality(Past')
  <2>1. Past \cup {c} \subseteq Past' /\ Cardinality(Past \cup {c}) = Cardinality(Past) + 1
    BY <1>1, <1>2, <1>4, FS_AddElement DEF Past
  <2>2. Cardinality(Past \cup {c}) <= Cardinality(Past')
    BY <1>2, <2>1, FS_Subset
  <2> QED
    BY <1>2, <1>3, <2>1, <2>2
<1> QED
  BY <1>2, <1>3, <1>4

\* A connection that a step leaves alone.
LEMMA RowSame ==
  ASSUME NEW j, ConnRow(j), conn'[j] = conn[j], Over(j)' = Over(j), j = active' <=> j = active,
         (queue' # <<>> /\ j = Len(conn')) <=> (queue # <<>> /\ j = Len(conn)),
         j \in advanced' \cup opened' <=> j \in advanced \cup opened,
         j \in skipped' <=> j \in skipped, j \in failed => j \in failed'
  PROVE  ConnRow(j)'
<1>1. PICK e : e = conn[j]
  OBVIOUS
<1>2. PICK o : o = Over(j)
  OBVIOUS
<1>3. Over(j)' = o
  BY <1>2
<1> QED
  BY <1>1, <1>2, <1>3 DEF ConnRow

\* The queue, when a step leaves it alone.
LEMMA QueueSame ==
  ASSUME BridgeInv, queue' = queue, queue # <<>> => (active' = 0 /\ Len(conn') > 0),
         \A c \in Queued : pc'[c] = pc[c],
         \A c \in Caller : c \notin Queued => pc'[c] \notin {"waiting", "connecting"}
  PROVE  QueueOK'
<1>1. QueueOK /\ Queued' = Queued
  BY DEF BridgeInv, Queued
<1>2. \A k \in DOMAIN queue : queue[k] \in Queued
  BY DEF Queued
<1> QED
  BY <1>1, <1>2 DEF QueueOK

\* A caller's place and whether it is queued.
LEMMA QueuedPlaces ==
  ASSUME BridgeInv
  PROVE  /\ \A c \in Caller : c \in Queued <=> pc[c] \in {"waiting", "connecting"}
         /\ queue # <<>> => (active = 0 /\ Len(conn) > 0)
         /\ \A c \in Caller : pc[c] \in {"idle", "config", "dm", "waiting", "connecting", "advancing", "done"}
BY DEF BridgeInv, BridgeTyped, QueueOK, Queued

\* A caller that neither waits, dials nor advances goes on.
LEMMA CallerMoves ==
  ASSUME BridgeInv, NEW c \in Caller, pc[c] \in {"idle", "config", "dm"}, NEW at \in {"config", "dm", "done"},
         pc' = [pc EXCEPT ![c] = at], kind' \in [Caller -> {"command", "wake"}],
         relied' \subseteq DOMAIN conn,
         UNCHANGED <<active, queue, conn, via, opened, advanced, skipped, failed>>
  PROVE  BridgeInv'
<1>1. /\ pc' \in [Caller -> {"idle", "config", "dm", "waiting", "connecting", "advancing", "done"}]
      /\ pc'[c] = at /\ \A d \in Caller : d # c => pc'[d] = pc[d]
  BY DEF BridgeInv, BridgeTyped
<1>2. \A d \in Past : pc'[d] \in {"connecting", "advancing", "done"}
  BY <1>1 DEF Past
<1>3. BridgeTyped'
  BY <1>1, <1>2, PastGrows DEF BridgeInv, BridgeTyped
<1>4. QueueOK'
  BY <1>1, QueuedPlaces, QueueSame
<1>5. ASSUME NEW j \in DOMAIN conn PROVE ConnRow(j)'
  <2>1. Over(j)' = Over(j)
    BY <1>1 DEF Over
  <2> QED
    BY <2>1, BridgeFacts, RowSame
<1> QED
  BY <1>3, <1>4, <1>5 DEF BridgeInv, ConnsOK

\* One connection moves, with the wakes over it, and perhaps is given up.
LEMMA ConnMoves ==
  ASSUME BridgeInv, NEW i \in DOMAIN conn, NEW r \in Connection, conn' = [conn EXCEPT ![i] = r],
         UNCHANGED <<queue, kind, via, opened, relied>>,
         pc' \in [Caller -> {"idle", "config", "dm", "waiting", "connecting", "advancing", "done"}],
         \A c \in Caller :
           pc'[c] = pc[c] \/ (pc[c] = "advancing" /\ via[c] = i /\ pc'[c] = "done"),
         active' = active \/ (active = i /\ active' = 0),
         advanced' = advanced \/ advanced' = advanced \cup {i},
         skipped' = skipped \/ skipped' = skipped \cup {i},
         failed' = failed \/ failed' = failed \cup {i},
         conn[i].sock # "connecting", r.sock # "connecting", r.frame => r.gone,
         i = active' => (r.sock = "open" /\ ~r.ours /\ ~r.superseded),
         (r.sock = "open" /\ ~r.gone /\ ~r.ours) => i = active',
         r.justified <=> i \in advanced' \cup opened,
         r.holders = Cardinality(Over(i)'),
         Over(i)' # {} => r.sock = "open",
         (i = active' /\ Over(i)' = {} /\ i \in skipped') => i \in advanced' \cup opened \cup failed'
  PROVE  BridgeInv'
<1>1. /\ conn' \in Seq(Connection) /\ Len(conn') = Len(conn) /\ DOMAIN conn' = DOMAIN conn
      /\ conn'[i] = r /\ \A j \in DOMAIN conn : j # i => conn'[j] = conn[j]
  BY RowChanged
<1>2. \A c \in Past : pc'[c] \in {"connecting", "advancing", "done"}
  BY DEF Past
<1>3. Len(conn) <= Cardinality(Past')
  BY <1>2, PastGrows
<1>4. BridgeTyped'
  BY <1>1, <1>3, BridgeFacts DEF BridgeInv, BridgeTyped
<1>5. QueueOK'
  BY <1>1, QueuedPlaces, QueueSame, BridgeFacts
<1>6. ASSUME NEW j \in DOMAIN conn, j # i PROVE ConnRow(j)'
  <2>1. Over(j)' = Over(j)
    BY <1>6 DEF Over
  <2>2. j # 0
    BY BridgeFacts
  <2> QED
    BY <1>1, <1>6, <2>1, <2>2, BridgeFacts, RowSame
<1>7. ConnRow(i)'
  <2>1. PICK o : o = Over(i)'
    OBVIOUS
  <2>2. ~(queue # <<>> /\ i = Len(conn))
    BY BridgeFacts DEF ConnRow
  <2> QED
    BY <1>1, <2>1, <2>2 DEF ConnRow
<1> QED
  BY <1>1, <1>4, <1>5, <1>6, <1>7 DEF BridgeInv, ConnsOK

\* teardown of a connection whose row has become e.
LEMMA TearDownRow ==
  ASSUME BridgeInv, NEW i \in DOMAIN conn, NEW e \in Connection, TearDown(i, [conn EXCEPT ![i] = e])
  PROVE  \E r \in Connection :
           /\ conn' = [conn EXCEPT ![i] = r]
           /\ active' = IF active = i THEN 0 ELSE active
           /\ r.ours <=> (active = i \/ e.ours)
           /\ r.sock = e.sock /\ r.gone = e.gone /\ r.frame = e.frame /\ r.superseded = e.superseded
           /\ r.justified = e.justified /\ r.holders = e.holders
<1>1. PICK cs : cs = [conn EXCEPT ![i] = e]
  OBVIOUS
<1>2. cs[i] = e /\ DOMAIN cs = DOMAIN conn /\ i # 0
  BY <1>1, BridgeFacts
<1>3. CASE active = i
  <2> DEFINE r == [e EXCEPT !.ours = TRUE]
  <2>1. /\ r \in Connection /\ r.ours
        /\ r.sock = e.sock /\ r.gone = e.gone /\ r.frame = e.frame /\ r.superseded = e.superseded
        /\ r.justified = e.justified /\ r.holders = e.holders
    BY DEF Connection
  <2>2. conn' = [cs EXCEPT ![i] = r] /\ active' = 0
    BY <1>1, <1>2, <1>3 DEF TearDown, IsRegistered
  <2> HIDE DEF r
  <2>3. conn' = [conn EXCEPT ![i] = r]
    BY <1>1, <2>2
  <2> QED
    BY <1>3, <2>1, <2>2, <2>3
<1>4. CASE active # i
  <2>1. conn' = [conn EXCEPT ![i] = e] /\ active' = active
    BY <1>1, <1>4 DEF TearDown, IsRegistered
  <2> QED
    BY <1>4, <2>1
<1> QED
  BY <1>3, <1>4

\* What is known of a connection that is up.
LEMMA UpFacts ==
  ASSUME BridgeInv, NEW i \in DOMAIN conn, conn[i].sock = "open"
  PROVE  /\ conn[i] \in Connection /\ i # 0 /\ i \in Nat
         /\ conn[i].gone \in BOOLEAN /\ conn[i].frame \in BOOLEAN /\ conn[i].superseded \in BOOLEAN
         /\ conn[i].ours \in BOOLEAN /\ conn[i].justified \in BOOLEAN
         /\ conn[i].holders \in 0..Cardinality(Caller)
         /\ ConnRow(i) /\ active \in Nat
         /\ pc \in [Caller -> {"idle", "config", "dm", "waiting", "connecting", "advancing", "done"}]
<1>1. conn[i] \in Connection /\ i \in 1..Len(conn) /\ Len(conn) \in Nat /\ ConnRow(i)
  BY BridgeFacts
<1> QED
  BY <1>1 DEF Connection, BridgeInv, BridgeTyped

\* The events of a connection that change no caller.
LEMMA EventsKeep ==
  ASSUME BridgeInv, NEW i \in DOMAIN conn, Supersedes(i) \/ Drops(i) \/ SupersededEvent(i)
  PROVE  BridgeInv'
<1>1. conn[i].sock = "open" /\ UNCHANGED <<queue, pc, kind, via, ghosts>>
  BY DEF Supersedes, Drops, SupersededEvent
<1>2. Over(i)' = Over(i)
  BY <1>1 DEF Over
<1>3. PICK n : n = Cardinality(Over(i))
  OBVIOUS
<1>4. Cardinality(Over(i)') = n
  BY <1>2, <1>3
<1>5. CASE Supersedes(i)
  <2> DEFINE r == [conn[i] EXCEPT !.gone = TRUE, !.frame = TRUE]
  <2>1. /\ r \in Connection /\ r.sock = "open" /\ r.gone /\ r.ours = conn[i].ours
        /\ r.superseded = conn[i].superseded /\ r.justified = conn[i].justified
        /\ r.holders = conn[i].holders
    BY <1>1, UpFacts DEF Connection
  <2> HIDE DEF r
  <2>2. conn' = [conn EXCEPT ![i] = r] /\ active' = active
    BY <1>5 DEF Supersedes, r
  <2> QED
    BY <1>1, <1>2, <1>3, <1>4, <2>1, <2>2, UpFacts, ConnMoves DEF ConnRow, ghosts
<1>6. CASE Drops(i)
  <2> DEFINE r == [conn[i] EXCEPT !.gone = TRUE]
  <2>1. /\ r \in Connection /\ r.sock = "open" /\ r.gone /\ r.ours = conn[i].ours
        /\ r.superseded = conn[i].superseded /\ r.justified = conn[i].justified
        /\ r.holders = conn[i].holders
    BY <1>1, UpFacts DEF Connection
  <2> HIDE DEF r
  <2>2. conn' = [conn EXCEPT ![i] = r] /\ active' = active
    BY <1>6 DEF Drops, r
  <2> QED
    BY <1>1, <1>2, <1>3, <1>4, <2>1, <2>2, UpFacts, ConnMoves DEF ConnRow, ghosts
<1>7. CASE SupersededEvent(i)
  <2> DEFINE e == [conn[i] EXCEPT !.frame = FALSE, !.superseded = TRUE]
  <2>1. /\ e \in Connection /\ e.sock = "open" /\ e.gone /\ ~e.frame
        /\ e.superseded /\ e.justified = conn[i].justified /\ e.holders = conn[i].holders
        /\ e.ours = conn[i].ours
    <3>1. conn[i].gone
      BY <1>1, <1>7, UpFacts DEF ConnRow, SupersededEvent
    <3> QED
      BY <1>1, <3>1, UpFacts DEF Connection
  <2>2. TearDown(i, [conn EXCEPT ![i] = e])
    <3>1. [conn EXCEPT ![i] = e] = [conn EXCEPT ![i].frame = FALSE, ![i].superseded = TRUE]
      BY BridgeFacts
    <3> QED
      BY <1>7, <3>1 DEF SupersededEvent
  <2> HIDE DEF e
  <2>3. PICK r \in Connection :
           /\ conn' = [conn EXCEPT ![i] = r]
           /\ active' = IF active = i THEN 0 ELSE active
           /\ r.ours <=> (active = i \/ e.ours)
           /\ r.sock = e.sock /\ r.gone = e.gone /\ r.frame = e.frame /\ r.superseded = e.superseded
           /\ r.justified = e.justified /\ r.holders = e.holders
    BY <2>1, <2>2, TearDownRow
  <2>4. /\ active' = active \/ (active = i /\ active' = 0)
        /\ r.sock # "connecting" /\ (r.frame => r.gone) /\ i # active'
        /\ ~(r.sock = "open" /\ ~r.gone /\ ~r.ours)
    BY <1>1, <2>1, <2>3, UpFacts
  <2>5. /\ r.justified <=> i \in advanced' \cup opened
        /\ r.holders = Cardinality(Over(i)') /\ (Over(i)' # {} => r.sock = "open")
    BY <1>1, <1>2, <1>3, <1>4, <2>1, <2>3, UpFacts DEF ConnRow, ghosts
  <2> QED
    BY <1>1, <2>3, <2>4, <2>5, UpFacts, ConnMoves DEF ghosts
<1> QED
  BY <1>5, <1>6, <1>7

\* The service stops.
LEMMA StopKeeps == ASSUME BridgeInv, Stop PROVE BridgeInv'
<1>1. active \in DOMAIN conn /\ active # 0
  BY BridgeFacts DEF Stop, BridgeInv, BridgeTyped
<1>2. PICK i : i = active
  OBVIOUS
<1>3. i \in DOMAIN conn /\ conn[i].sock = "open"
  BY <1>1, <1>2, BridgeFacts DEF ConnRow
<1>4. Over(i)' = Over(i)
  BY DEF Over, Stop
<1>5. PICK n : n = Cardinality(Over(i))
  OBVIOUS
<1>6. Cardinality(Over(i)') = n
  BY <1>4, <1>5
<1> DEFINE r == [conn[i] EXCEPT !.ours = TRUE]
<1>7. /\ r \in Connection /\ r.sock = "open" /\ r.gone = conn[i].gone /\ r.ours /\ r.frame = conn[i].frame
      /\ r.justified = conn[i].justified /\ r.holders = conn[i].holders
  BY <1>3, UpFacts DEF Connection
<1> HIDE DEF r
<1>8. conn' = [conn EXCEPT ![i] = r] /\ active' = 0
  BY <1>2 DEF Stop, TearDown, IsRegistered, r
<1> QED
  BY <1>2, <1>3, <1>4, <1>5, <1>6, <1>7, <1>8, UpFacts, ConnMoves DEF ConnRow, Stop, ghosts

\* A wake that is over leaves the ones that advance over its connection.
LEMMA WakeLeaves ==
  ASSUME BridgeInv, NEW c \in Caller, NEW i, i = via[c], pc[c] = "advancing", pc' = [pc EXCEPT ![c] = "done"], via' = via
  PROVE  /\ i \in DOMAIN conn /\ conn[i].sock = "open"
         /\ conn[i].holders \in Nat /\ conn[i].holders > 0
         /\ conn[i].holders - 1 \in 0..Cardinality(Caller)
         /\ conn[i].holders - 1 = Cardinality(Over(i)')
         /\ Over(i)' = {} <=> conn[i].holders = 1
         /\ pc' \in [Caller -> {"idle", "config", "dm", "waiting", "connecting", "advancing", "done"}]
         /\ \A d \in Caller : pc'[d] = pc[d] \/ (d = c /\ pc'[d] = "done")
<1>1. i = via[c]
  OBVIOUS
<1>2. /\ pc' \in [Caller -> {"idle", "config", "dm", "waiting", "connecting", "advancing", "done"}]
      /\ pc'[c] = "done" /\ \A d \in Caller : d # c => pc'[d] = pc[d]
  BY DEF BridgeInv, BridgeTyped
<1>3. i \in 0..Len(conn)
  BY <1>1 DEF BridgeInv, BridgeTyped
<1>4. i \in DOMAIN conn
  <2>1. i # 0
    BY <1>1 DEF BridgeInv, BridgeTyped
  <2> QED
    BY <1>3, <2>1, BridgeFacts
<1>5. c \in Over(i) /\ Over(i) \in SUBSET Caller /\ Over(i)' = Over(i) \ {c} /\ Over(i)' \in SUBSET Caller
  BY <1>1, <1>2 DEF Over
<1>6. ConnRow(i) /\ conn[i] \in Connection
  BY <1>4, BridgeFacts
<1>7. conn[i].sock = "open" /\ conn[i].holders = Cardinality(Over(i))
  BY <1>5, <1>6 DEF ConnRow
<1>8. PICK m, n : m = Cardinality(Over(i)) /\ n = Cardinality(Over(i)')
  OBVIOUS
<1>9. n = m - 1 /\ m \in 0..Cardinality(Caller) /\ m \in Nat /\ n \in Nat /\ n \in 0..Cardinality(Caller)
  BY <1>5, <1>8, CallersCounted, FS_RemoveElement
<1>10. Over(i)' = {} <=> n = 0
  BY <1>5, <1>8, CallersCounted
<1>11. conn[i].holders = m /\ m > 0 /\ (m = 1 <=> n = 0)
  BY <1>5, <1>7, <1>8, <1>9, CallersCounted
<1> QED
  BY <1>1, <1>2, <1>4, <1>7, <1>8, <1>9, <1>10, <1>11

\* What an advance that is over does to its connection.
LEMMA AdvancesKeep == ASSUME BridgeInv, NEW c \in Caller, Advances(c) PROVE BridgeInv'
<1>1. pc[c] = "advancing" /\ pc' = [pc EXCEPT ![c] = "done"] /\ UNCHANGED <<queue, kind, via, opened, relied>>
  BY DEF Advances, AdvanceLive, AdvanceSkipped, AdvanceFails
<1>2. PICK i : i = via[c]
  OBVIOUS
<1>3. /\ i \in DOMAIN conn /\ conn[i].sock = "open" /\ conn[i].holders \in Nat
      /\ conn[i].holders - 1 \in 0..Cardinality(Caller)
      /\ conn[i].holders - 1 = Cardinality(Over(i)') /\ (Over(i)' = {} <=> conn[i].holders = 1)
      /\ pc' \in [Caller -> {"idle", "config", "dm", "waiting", "connecting", "advancing", "done"}]
      /\ \A d \in Caller :
           pc'[d] = pc[d] \/ (pc[d] = "advancing" /\ via[d] = i /\ pc'[d] = "done")
  BY <1>1, <1>2, WakeLeaves
<1>4. ConnRow(i) /\ conn[i] \in Connection
  BY <1>3, BridgeFacts
<1>5. PICK h : h = conn[i].holders - 1
  OBVIOUS
<1>6. CASE AdvanceLive(c)
  <2> DEFINE r == [conn[i] EXCEPT !.holders = h, !.justified = TRUE]
  <2>1. /\ r \in Connection /\ r.justified /\ r.holders = h /\ r.sock = "open" /\ r.gone = conn[i].gone
        /\ r.frame = conn[i].frame /\ r.superseded = conn[i].superseded /\ r.ours = conn[i].ours
    BY <1>3, <1>4, <1>5 DEF Connection
  <2>2. conn' = [conn EXCEPT ![i] = r] /\ active' = active /\ advanced' = advanced \cup {i}
        /\ skipped' = skipped /\ failed' = failed
    BY <1>2, <1>5, <1>6 DEF AdvanceLive
  <2> HIDE DEF r
  <2>3. /\ r.sock # "connecting" /\ conn[i].sock # "connecting" /\ (r.frame => r.gone)
        /\ i = active' => (r.sock = "open" /\ ~r.ours /\ ~r.superseded)
        /\ (r.sock = "open" /\ ~r.gone /\ ~r.ours) => i = active'
    BY <1>3, <1>4, <2>1, <2>2 DEF ConnRow
  <2>4. r.justified <=> i \in advanced' \cup opened
    BY <1>4, <2>1, <2>2 DEF ConnRow
  <2>5. /\ r.holders = Cardinality(Over(i)') /\ (Over(i)' # {} => r.sock = "open")
        /\ (i = active' /\ Over(i)' = {} /\ i \in skipped') => i \in advanced' \cup opened \cup failed'
    BY <1>3, <1>5, <2>1, <2>2
  <2> QED
    BY <1>1, <1>3, <2>1, <2>2, <2>3, <2>4, <2>5, ConnMoves
<1>7. CASE AdvanceFails(c)
  <2> DEFINE r == [conn[i] EXCEPT !.holders = h]
  <2>1. /\ r \in Connection /\ r.justified = conn[i].justified /\ r.holders = h /\ r.sock = "open"
        /\ r.gone = conn[i].gone
        /\ r.frame = conn[i].frame /\ r.superseded = conn[i].superseded /\ r.ours = conn[i].ours
    BY <1>3, <1>4, <1>5 DEF Connection
  <2>2. conn' = [conn EXCEPT ![i] = r] /\ active' = active /\ failed' = failed \cup {i}
        /\ skipped' = skipped /\ advanced' = advanced
    BY <1>2, <1>5, <1>7 DEF AdvanceFails
  <2> HIDE DEF r
  <2>3. /\ r.sock # "connecting" /\ conn[i].sock # "connecting" /\ (r.frame => r.gone)
        /\ i = active' => (r.sock = "open" /\ ~r.ours /\ ~r.superseded)
        /\ (r.sock = "open" /\ ~r.gone /\ ~r.ours) => i = active'
    BY <1>3, <1>4, <2>1, <2>2 DEF ConnRow
  <2>4. r.justified <=> i \in advanced' \cup opened
    BY <1>4, <2>1, <2>2 DEF ConnRow
  <2>5. /\ r.holders = Cardinality(Over(i)') /\ (Over(i)' # {} => r.sock = "open")
        /\ (i = active' /\ Over(i)' = {} /\ i \in skipped') => i \in advanced' \cup opened \cup failed'
    BY <1>3, <1>5, <2>1, <2>2
  <2> QED
    BY <1>1, <1>3, <2>1, <2>2, <2>3, <2>4, <2>5, ConnMoves
<1>8. CASE AdvanceSkipped(c)
  <2> DEFINE e == [conn[i] EXCEPT !.holders = h]
  <2>1. /\ e \in Connection /\ e.justified = conn[i].justified /\ e.holders = h /\ e.sock = "open"
        /\ e.gone = conn[i].gone
        /\ e.frame = conn[i].frame /\ e.superseded = conn[i].superseded /\ e.ours = conn[i].ours
    BY <1>3, <1>4, <1>5 DEF Connection
  <2>2. [conn EXCEPT ![i].holders = @ - 1] = [conn EXCEPT ![i] = e]
    BY <1>3, <1>5
  <2>3. /\ skipped' = skipped \cup {i} /\ advanced' = advanced /\ failed' = failed
        /\ IF Retractable(conn[i]) THEN TearDown(i, [conn EXCEPT ![i] = e])
           ELSE conn' = [conn EXCEPT ![i] = e] /\ active' = active
    BY <1>2, <1>8, <2>2 DEF AdvanceSkipped
  <2> HIDE DEF e
  <2>4. CASE Retractable(conn[i])
    <3>1. PICK r \in Connection :
           /\ conn' = [conn EXCEPT ![i] = r]
           /\ active' = IF active = i THEN 0 ELSE active
           /\ r.ours <=> (active = i \/ e.ours)
           /\ r.sock = e.sock /\ r.gone = e.gone /\ r.frame = e.frame /\ r.superseded = e.superseded
           /\ r.justified = e.justified /\ r.holders = e.holders
      BY <1>3, <2>1, <2>3, <2>4, TearDownRow
    <3>2. i # active' /\ (active' = active \/ (active = i /\ active' = 0))
      BY <1>3, <3>1, UpFacts
    <3>3. /\ r.sock = "open" /\ (r.frame => r.gone) /\ ~(~r.gone /\ ~r.ours)
          /\ r.justified <=> i \in advanced' \cup opened
          /\ r.holders = Cardinality(Over(i)')
      BY <1>3, <1>4, <1>5, <2>1, <2>3, <3>1 DEF ConnRow
    <3> QED
      BY <1>1, <1>3, <2>3, <3>1, <3>2, <3>3, ConnMoves
  <2>5. CASE ~Retractable(conn[i])
    <3>1. conn' = [conn EXCEPT ![i] = e] /\ active' = active
      BY <2>3, <2>5
    <3>2. Over(i)' = {} => i \in advanced' \cup opened
      BY <1>3, <1>4, <2>3, <2>5 DEF Retractable, ConnRow
    <3>3. /\ e.sock # "connecting" /\ conn[i].sock # "connecting" /\ (e.frame => e.gone)
          /\ i = active' => (e.sock = "open" /\ ~e.ours /\ ~e.superseded)
          /\ (e.sock = "open" /\ ~e.gone /\ ~e.ours) => i = active'
      BY <1>3, <1>4, <2>1, <3>1 DEF ConnRow
    <3>4. e.justified <=> i \in advanced' \cup opened
      BY <1>4, <2>1, <2>3 DEF ConnRow
    <3>5. e.holders = Cardinality(Over(i)') /\ (Over(i)' # {} => e.sock = "open")
      BY <1>3, <1>5, <2>1
    <3> QED
      BY <1>1, <1>3, <2>1, <2>3, <3>1, <3>2, <3>3, <3>4, <3>5, ConnMoves
  <2> QED
    BY <2>4, <2>5
<1> QED
  BY <1>6, <1>7, <1>8 DEF Advances

\* A close ends what is in flight over the connection.
LEMMA ClosedKeeps == ASSUME BridgeInv, NEW i \in DOMAIN conn, ClosedEvent(i) PROVE BridgeInv'
<1>1. PICK cut : cut = Over(i)
  OBVIOUS
<1>2. /\ conn[i].sock = "open" /\ (conn[i].gone \/ conn[i].ours) /\ ~conn[i].frame
      /\ pc' = [c \in Caller |-> IF c \in cut THEN "done" ELSE pc[c]]
      /\ UNCHANGED <<queue, kind, via, ghosts>>
  BY <1>1 DEF ClosedEvent, Over
<1>3. /\ pc' \in [Caller -> {"idle", "config", "dm", "waiting", "connecting", "advancing", "done"}]
      /\ \A c \in Caller :
           pc'[c] = pc[c] \/ (pc[c] = "advancing" /\ via[c] = i /\ pc'[c] = "done")
      /\ Over(i)' = {}
  BY <1>1, <1>2, UpFacts DEF Over
<1>4. ConnRow(i) /\ conn[i] \in Connection /\ conn[i].holders - Cardinality(cut) = 0
  <2>1. ConnRow(i) /\ conn[i] \in Connection /\ cut \in SUBSET Caller
    BY <1>1, BridgeFacts DEF Over
  <2>2. Cardinality(cut) \in Nat /\ conn[i].holders = Cardinality(cut)
    BY <1>1, <2>1, CallersCounted DEF ConnRow
  <2> QED
    BY <2>1, <2>2
<1>5. Cardinality(Over(i)') = 0
  BY <1>3, FS_EmptySet
<1> DEFINE e == [conn[i] EXCEPT !.sock = "ended", !.holders = 0]
<1>6. /\ e \in Connection /\ e.justified = conn[i].justified /\ e.holders = 0 /\ e.sock = "ended"
      /\ e.gone = conn[i].gone
      /\ e.frame = conn[i].frame /\ e.superseded = conn[i].superseded /\ e.ours = conn[i].ours
  <2>1. 0 \in 0..Cardinality(Caller)
    BY FiniteCallers, FS_CardinalityType
  <2> QED
    BY <1>4, <2>1 DEF Connection
<1>7. [conn EXCEPT ![i].sock = "ended", ![i].holders = @ - Cardinality(cut)] = [conn EXCEPT ![i] = e]
  <2>1. conn[i].holders - Cardinality(cut) = 0
    BY <1>4
  <2> QED
    BY <1>4, <2>1 DEF Connection
<1>8. IF Unexpected(conn[i]) THEN TearDown(i, [conn EXCEPT ![i] = e])
      ELSE conn' = [conn EXCEPT ![i] = e] /\ active' = active
  BY <1>1, <1>7 DEF ClosedEvent, Over
<1> HIDE DEF e
<1>11. UNCHANGED <<queue, kind, via, opened, relied>> /\ advanced' = advanced /\ skipped' = skipped /\ failed' = failed
  BY <1>2 DEF ghosts
<1>9. CASE Unexpected(conn[i])
  <2>1. PICK r \in Connection :
         /\ conn' = [conn EXCEPT ![i] = r]
         /\ active' = IF active = i THEN 0 ELSE active
         /\ r.ours <=> (active = i \/ e.ours)
         /\ r.sock = e.sock /\ r.gone = e.gone /\ r.frame = e.frame /\ r.superseded = e.superseded
         /\ r.justified = e.justified /\ r.holders = e.holders
    BY <1>6, <1>8, <1>9, TearDownRow
  <2>2. i # active' /\ (active' = active \/ (active = i /\ active' = 0))
    BY <1>2, <2>1, UpFacts
  <2>3. r.justified <=> i \in advanced' \cup opened
    BY <1>2, <1>4, <1>6, <2>1 DEF ConnRow, ghosts
  <2>4. /\ r.sock = "ended" /\ ~r.frame /\ r.holders = Cardinality(Over(i)')
        /\ conn[i].sock # "connecting"
    BY <1>2, <1>5, <1>6, <2>1
  <2> QED
    BY <1>3, <1>11, <2>1, <2>2, <2>3, <2>4, ConnMoves
<1>10. CASE ~Unexpected(conn[i])
  <2>1. i # active
    BY <1>4, <1>10 DEF Unexpected, ConnRow
  <2>2. e.justified <=> i \in advanced' \cup opened
    BY <1>2, <1>4, <1>6 DEF ConnRow, ghosts
  <2>3. /\ e.sock = "ended" /\ ~e.frame /\ e.holders = Cardinality(Over(i)')
        /\ conn[i].sock # "connecting" /\ active' = active /\ conn' = [conn EXCEPT ![i] = e]
    BY <1>2, <1>5, <1>6, <1>8, <1>10
  <2> QED
    BY <1>3, <1>6, <1>11, <2>1, <2>2, <2>3, ConnMoves
<1> QED
  BY <1>9, <1>10

LEMMA CallersApart ==
  ASSUME NEW S \in SUBSET Caller, NEW T \in SUBSET Caller, S \cap T = {}
  PROVE  Cardinality(S \cup T) = Cardinality(S) + Cardinality(T)
<1>1. IsFiniteSet(S) /\ IsFiniteSet(T) /\ Cardinality(S) \in Nat /\ Cardinality(T) \in Nat
  BY CallersCounted
<1>2. PICK U : U = S \cap T
  OBVIOUS
<1>3. Cardinality(U) = 0
  BY <1>2, FS_EmptySet
<1>4. Cardinality(S \cup T) = Cardinality(S) + Cardinality(T) - Cardinality(U)
  BY <1>1, <1>2, FS_Union
<1> QED
  BY <1>1, <1>3, <1>4

\* The wakes W join those that advance over connection i, which is, or becomes,
\* the registered one.
LEMMA Embodied ==
  ASSUME BridgeInv, NEW i \in DOMAIN conn, NEW r \in Connection, conn' = [conn EXCEPT ![i] = r],
         NEW W \in SUBSET Caller, \A c \in W : pc[c] # "advancing",
         pc' \in [Caller -> {"idle", "config", "dm", "advancing", "done"}],
         kind' \in [Caller -> {"command", "wake"}],
         via' = [c \in Caller |-> IF c \in W THEN i ELSE via[c]],
         \A c \in Caller : pc'[c] = "advancing" <=> (c \in W \/ pc[c] = "advancing"),
         \A c \in Past : pc'[c] \in {"advancing", "done"},
         queue' = <<>>, queue # <<>> => i = Len(conn), active' = i, active = 0 \/ active = i,
         opened' = opened \/ opened' = opened \cup {i},
         relied' = relied \/ relied' = relied \cup {i},
         UNCHANGED <<advanced, skipped, failed>>,
         r.sock = "open", ~r.ours, ~r.superseded, r.frame => r.gone,
         r.justified <=> i \in advanced \cup opened',
         r.holders = Cardinality(Over(i)) + Cardinality(W),
         W = {} => i \in opened'
  PROVE  BridgeInv'
<1>1. /\ conn' \in Seq(Connection) /\ Len(conn') = Len(conn) /\ DOMAIN conn' = DOMAIN conn
      /\ conn'[i] = r /\ \A j \in DOMAIN conn : j # i => conn'[j] = conn[j]
  BY RowChanged
<1>2. Len(conn) \in Nat /\ DOMAIN conn = 1..Len(conn) /\ i \in 1..Len(conn) /\ i # 0
  BY BridgeFacts
<1>3. BridgeTyped'
  <2>1. pc' \in [Caller -> {"idle", "config", "dm", "waiting", "connecting", "advancing", "done"}]
    OBVIOUS
  <2>2. \A c \in Past : pc'[c] \in {"connecting", "advancing", "done"}
    OBVIOUS
  <2>3. Len(conn) <= Cardinality(Past')
    BY <2>1, <2>2, PastGrows
  <2>4. via' \in [Caller -> 0..Len(conn)] /\ \A c \in Caller : pc'[c] = "advancing" => via'[c] # 0
    BY <1>2 DEF BridgeInv, BridgeTyped
  <2>5. opened' \cup relied' \cup advanced' \cup skipped' \cup failed' \subseteq DOMAIN conn
    BY DEF BridgeInv, BridgeTyped
  <2>6. queue' \in Seq(Caller)
    OBVIOUS
  <2> QED
    BY <1>1, <1>2, <2>1, <2>3, <2>4, <2>5, <2>6 DEF BridgeTyped
<1>4. QueueOK'
  BY DEF QueueOK, Queued
<1>5. ASSUME NEW j \in DOMAIN conn, j # i PROVE ConnRow(j)'
  <2>1. Over(j)' = Over(j)
    BY <1>5 DEF Over
  <2>2. j # 0 /\ ~(queue # <<>> /\ j = Len(conn))
    BY <1>2, <1>5
  <2>3. j \in advanced' \cup opened' <=> j \in advanced \cup opened
    BY <1>5
  <2> QED
    BY <1>1, <1>5, <2>1, <2>2, <2>3, BridgeFacts, RowSame
<1>6. ConnRow(i)'
  <2>1. Over(i)' = Over(i) \cup W /\ Over(i) \cap W = {} /\ Over(i) \in SUBSET Caller
    BY DEF Over
  <2>2. Cardinality(Over(i)') = Cardinality(Over(i)) + Cardinality(W)
    BY <2>1, CallersApart
  <2>3. PICK o : o = Over(i)'
    OBVIOUS
  <2>4. o = {} => W = {}
    BY <2>1, <2>3
  <2> QED
    BY <1>1, <1>2, <2>2, <2>3, <2>4 DEF ConnRow
<1> QED
  BY <1>1, <1>3, <1>5, <1>6, <1>4 DEF BridgeInv, ConnsOK

\* Give, to callers who were waiting for an embodiment.
LEMMA GiveKeeps ==
  ASSUME BridgeInv, NEW i \in DOMAIN conn, NEW e \in Connection, NEW S \in SUBSET Caller, S # {},
         \A c \in S : pc[c] \in {"config", "dm", "waiting", "connecting"},
         \A c \in Caller : pc[c] \in {"waiting", "connecting"} => c \in S,
         Give(S, i, [conn EXCEPT ![i] = e]),
         queue' = <<>>, queue # <<>> => i = Len(conn), active' = i, active = 0 \/ active = i,
         UNCHANGED <<kind, advanced, skipped, failed>>,
         e.sock = "open", ~e.ours, ~e.superseded, e.frame => e.gone,
         e.justified <=> i \in advanced \cup opened, e.holders = Cardinality(Over(i))
  PROVE  BridgeInv'
<1>1. PICK W : W = {c \in S : kind[c] = "wake"}
  OBVIOUS
<1>2. PICK n : n = Cardinality(Over(i)) + Cardinality(W)
  OBVIOUS
<1>3. PICK j \in BOOLEAN : j <=> (e.justified \/ W # S)
  OBVIOUS
<1>4. W \in SUBSET Caller /\ Over(i) \in SUBSET Caller /\ W \in SUBSET S
  BY <1>1 DEF Over
<1>5. n \in 0..Cardinality(Caller)
  <2>1. Over(i) \cup W \in SUBSET Caller /\ Over(i) \cap W = {}
    BY <1>4 DEF Over
  <2>3. Cardinality(Over(i) \cup W) = n
    BY <1>2, <1>4, <2>1, CallersApart
  <2> QED
    BY <2>1, <2>3, CallersCounted
<1> DEFINE r == [e EXCEPT !.holders = n, !.justified = j]
<1>6. /\ r \in Connection /\ r.sock = e.sock /\ r.gone = e.gone /\ r.frame = e.frame /\ r.ours = e.ours
      /\ r.superseded = e.superseded /\ r.holders = n /\ r.justified = j
  BY <1>5 DEF Connection
<1>7. conn' = [conn EXCEPT ![i] = r]
  <2>1. PICK cs : cs = [conn EXCEPT ![i] = e]
    OBVIOUS
  <2>2. cs[i] = e /\ i \in DOMAIN cs
    BY <2>1
  <2>3. JustifiedBy(e.justified, S) <=> j
    BY <1>1, <1>3 DEF JustifiedBy
  <2>4. JustifiedBy(e.justified, S) = j
    <3>1. e.justified \in BOOLEAN
      BY DEF Connection
    <3>2. JustifiedBy(e.justified, S) \in BOOLEAN
      BY <3>1 DEF JustifiedBy
    <3> QED
      BY <2>3, <3>2
  <2>5. conn' = [cs EXCEPT ![i].holders = @ + Cardinality(W), ![i].justified = JustifiedBy(@, S)]
    BY <1>1, <2>1 DEF Give
  <2>6. conn' = [cs EXCEPT ![i] = r]
    BY <1>2, <2>2, <2>4, <2>5 DEF Connection
  <2> HIDE DEF r
  <2> QED
    BY <2>1, <2>6
<1> HIDE DEF r
<1>8. /\ pc' = [c \in Caller |-> IF c \in W THEN "advancing" ELSE IF c \in S THEN "done" ELSE pc[c]]
      /\ via' = [c \in Caller |-> IF c \in W THEN i ELSE via[c]]
      /\ opened' = IF W = S THEN opened ELSE opened \cup {i}
      /\ relied' = IF W = S THEN relied ELSE relied \cup {i}
  BY <1>1 DEF Give
<1>9. /\ pc' \in [Caller -> {"idle", "config", "dm", "advancing", "done"}]
      /\ \A c \in Caller : pc'[c] = "advancing" <=> (c \in W \/ pc[c] = "advancing")
      /\ \A c \in Past : pc'[c] \in {"advancing", "done"}
      /\ \A c \in W : pc[c] # "advancing"
  BY <1>4, <1>8, QueuedPlaces DEF Past
<1>10. kind' \in [Caller -> {"command", "wake"}] /\ (W = {} => W # S)
  BY DEF BridgeInv, BridgeTyped
<1>11. /\ r.justified <=> i \in advanced \cup opened'
       /\ W = {} => i \in opened'
       /\ opened' = opened \/ opened' = opened \cup {i}
       /\ relied' = relied \/ relied' = relied \cup {i}
  BY <1>3, <1>6, <1>8, <1>10
<1>12. /\ r.sock = "open" /\ ~r.ours /\ ~r.superseded /\ (r.frame => r.gone)
       /\ r.holders = Cardinality(Over(i)) + Cardinality(W)
  BY <1>2, <1>6
<1> QED
  BY ZenonT(30), <1>4, <1>6, <1>7, <1>8, <1>9, <1>10, <1>11, <1>12, Embodied

\* A connection that is not dialling while none is registered, as row e.
Kept(j, e) ==
  /\ e \in Connection /\ e.sock # "connecting" /\ (e.frame => e.gone)
  /\ ~(e.sock = "open" /\ ~e.gone /\ ~e.ours)
  /\ e.justified <=> j \in advanced \cup opened
  /\ e.holders = Cardinality(Over(j))
  /\ Over(j) # {} => e.sock = "open"

LEMMA RowsKept ==
  ASSUME BridgeInv, active = 0, NEW j \in DOMAIN conn, conn[j].sock # "connecting"
  PROVE  Kept(j, conn[j])
<1>1. j # 0
  BY BridgeFacts
<1> QED
  BY <1>1, BridgeFacts DEF Kept, ConnRow

LEMMA KeptRow ==
  ASSUME BridgeInv, NEW j \in DOMAIN conn, Kept(j, conn'[j]), Over(j)' = Over(j), active' = 0,
         UNCHANGED ghosts, queue' # <<>> => j # Len(conn')
  PROVE  ConnRow(j)'
<1>1. j # 0
  BY BridgeFacts
<1>2. PICK o, e : o = Over(j) /\ e = conn'[j]
  OBVIOUS
<1>3. Over(j)' = o /\ conn'[j] = e
  BY <1>2
<1> QED
  BY <1>1, <1>2, <1>3 DEF Kept, ConnRow, ghosts

\* A caller becomes the one that dials: the connection is new, and the queue is
\* checked apart.
LEMMA DialKeeps ==
  ASSUME BridgeInv, NEW cs \in Seq(Connection), Len(cs) = Len(conn), conn' = Append(cs, Dialled),
         \A j \in DOMAIN conn : Kept(j, cs[j]),
         active = 0, UNCHANGED <<active, kind, via, ghosts>>,
         QueueOK', queue' \in Seq(Caller), queue' # <<>>,
         pc' \in [Caller -> {"idle", "config", "dm", "waiting", "connecting", "advancing", "done"}],
         \A c \in Caller : pc'[c] = "advancing" <=> pc[c] = "advancing",
         \A c \in Past : pc'[c] \in {"connecting", "advancing", "done"},
         NEW d \in Caller, d \notin Past, pc'[d] = "connecting"
  PROVE  BridgeInv'
<1>1. Dialled \in Connection
  <2>1. 0 \in 0..Cardinality(Caller)
    BY FiniteCallers, FS_CardinalityType
  <2> QED
    BY <2>1 DEF Dialled, Connection
<1>2. PICK D \in Connection : D = Dialled
  BY <1>1
<1>3. /\ conn' \in Seq(Connection) /\ Len(conn') = Len(conn) + 1
      /\ DOMAIN conn' = DOMAIN conn \cup {Len(conn')}
      /\ conn'[Len(conn')] = D /\ \A j \in DOMAIN conn : conn'[j] = cs[j]
  BY <1>2, RowAdded
<1>4. Len(conn) \in Nat /\ DOMAIN conn = 1..Len(conn)
  BY BridgeFacts
<1>5. Len(conn') <= Cardinality(Past')
  BY <1>3, PastGrows
<1>6. BridgeTyped'
  <2>1. via' \in [Caller -> 0..Len(conn')]
    BY <1>3, <1>4 DEF BridgeInv, BridgeTyped
  <2>2. opened' \cup relied' \cup advanced' \cup skipped' \cup failed' \subseteq DOMAIN conn'
    BY <1>3 DEF BridgeInv, BridgeTyped, ghosts
  <2>3. \A c \in Caller : pc'[c] = "advancing" => via'[c] # 0
    BY DEF BridgeInv, BridgeTyped
  <2>4. active' \in 0..Len(conn') /\ kind' \in [Caller -> {"command", "wake"}]
    BY <1>3, <1>4 DEF BridgeInv, BridgeTyped
  <2> QED
    BY <1>3, <1>5, <2>1, <2>2, <2>3, <2>4 DEF BridgeTyped
<1>7. ASSUME NEW j \in DOMAIN conn PROVE ConnRow(j)'
  <2>1. Over(j)' = Over(j)
    BY DEF Over
  <2>2. j # Len(conn')
    BY <1>3, <1>4
  <2> QED
    BY <1>3, <2>1, <2>2, KeptRow
<1>8. PICK n : n = Len(conn')
  OBVIOUS
<1>9. ConnRow(n)'
  <2>1. n \notin DOMAIN conn /\ n # 0 /\ n \notin 0..Len(conn)
    BY <1>3, <1>4, <1>8
  <2>2. Over(n)' = {}
    BY <2>1 DEF Over, BridgeInv, BridgeTyped
  <2>3. n \notin advanced' \cup opened' \cup skipped'
    BY <2>1 DEF BridgeInv, BridgeTyped, ghosts
  <2>4. Cardinality(Over(n)') = 0
    BY <2>2, FS_EmptySet
  <2>5. /\ conn'[n].sock = "connecting" /\ ~conn'[n].gone /\ ~conn'[n].frame /\ ~conn'[n].superseded
        /\ ~conn'[n].ours /\ conn'[n].holders = 0 /\ ~conn'[n].justified
    BY <1>2, <1>3, <1>8 DEF Dialled
  <2> QED
    BY <1>8, <2>1, <2>2, <2>3, <2>4, <2>5 DEF ConnRow
<1>10. ASSUME NEW j \in DOMAIN conn' PROVE ConnRow(j)'
  <2>1. j \in DOMAIN conn \/ j = n
    BY <1>3, <1>8
  <2> QED
    BY <1>7, <1>9, <2>1
<1> QED
  BY <1>6, <1>10 DEF BridgeInv, ConnsOK

\* establishEmbodiment: queue, reuse or dial.
LEMMA EstablishKeeps ==
  ASSUME BridgeInv, NEW c \in Caller, pc[c] \in {"config", "dm"}, Establish(c),
         UNCHANGED <<active, kind, advanced, skipped, failed>>
  PROVE  BridgeInv'
<1>1. c \notin Past /\ c \notin Queued /\ Past \in SUBSET Caller
  BY QueuedPlaces DEF Past
<1>2. queue \in Seq(Caller) /\ Len(queue) \in Nat /\ DOMAIN queue = 1..Len(queue)
  BY BridgeFacts
<1>3. pc \in [Caller -> {"idle", "config", "dm", "waiting", "connecting", "advancing", "done"}]
  BY DEF BridgeInv, BridgeTyped
<1>4. CASE queue # <<>>
  <2>1. queue' = Append(queue, c) /\ pc' = [pc EXCEPT ![c] = "waiting"] /\ UNCHANGED <<conn, via, opened, relied>>
    BY <1>4 DEF Establish, Establishing
  <2>2. pc'[c] = "waiting" /\ \A d \in Caller : d # c => pc'[d] = pc[d]
    BY <1>3, <2>1
  <2>3. /\ queue' \in Seq(Caller) /\ Len(queue') = Len(queue) + 1 /\ queue' # <<>>
        /\ queue'[Len(queue) + 1] = c /\ \A k \in 1..Len(queue) : queue'[k] = queue[k]
    BY <1>2, <2>1, AppendProperties
  <2>4. DOMAIN queue' = 1..(Len(queue) + 1) /\ Len(queue) # 0
    BY <1>2, <1>4, <2>3, LenProperties, EmptySeq
  <2>5. BridgeTyped'
    <3>1. \A d \in Past : pc'[d] \in {"connecting", "advancing", "done"}
      BY <1>1, <2>2 DEF Past
    <3>2. pc' \in [Caller -> {"idle", "config", "dm", "waiting", "connecting", "advancing", "done"}]
      BY <1>3, <2>1
    <3>3. Len(conn) <= Cardinality(Past')
      BY <3>1, <3>2, PastGrows
    <3> QED
      BY <2>1, <2>2, <2>3, <3>2, <3>3 DEF BridgeInv, BridgeTyped
  <2>6. QueueOK'
    <3>1. \A k \in 1..Len(queue) : queue[k] # c /\ queue[k] \in Caller
      BY <1>1, <1>2 DEF Queued
    <3>2. \A j, k \in DOMAIN queue' : queue'[j] = queue'[k] => j = k
      <4>1. \A j, k \in 1..Len(queue) : queue[j] = queue[k] => j = k
        BY <1>2 DEF BridgeInv, QueueOK
      <4>2. \A k \in DOMAIN queue' : k \in 1..Len(queue) \/ k = Len(queue) + 1
        BY <1>2, <2>4
      <4> QED
        BY <2>3, <3>1, <4>1, <4>2
    <3>3. \A k \in DOMAIN queue' : pc'[queue'[k]] = IF k = 1 THEN "connecting" ELSE "waiting"
      <4>1. ASSUME NEW k \in 1..Len(queue) PROVE pc'[queue'[k]] = IF k = 1 THEN "connecting" ELSE "waiting"
        BY <1>2, <2>2, <2>3, <3>1 DEF BridgeInv, QueueOK
      <4>2. pc'[queue'[Len(queue) + 1]] = "waiting" /\ Len(queue) + 1 # 1
        BY <1>2, <2>2, <2>3, <2>4
      <4>3. \A k \in DOMAIN queue' : k \in 1..Len(queue) \/ k = Len(queue) + 1
        BY <1>2, <2>4
      <4> QED
        BY <4>1, <4>2, <4>3
    <3>4. \A d \in Caller : pc'[d] \in {"waiting", "connecting"} => d \in Queued'
      <4>1. Queued \cup {c} \subseteq Queued'
        <5>1. \A k \in 1..Len(queue) : k \in DOMAIN queue' /\ queue'[k] = queue[k]
          BY <1>2, <2>3, <2>4
        <5>2. Len(queue) + 1 \in DOMAIN queue'
          BY <1>2, <2>4
        <5> QED
          BY <1>2, <2>3, <5>1, <5>2 DEF Queued
      <4> QED
        BY <2>2, <4>1, QueuedPlaces
    <3>5. active' = 0 /\ Len(conn') > 0
      BY <1>4, <2>1, QueuedPlaces
    <3> QED
      BY <3>2, <3>3, <3>4, <3>5 DEF QueueOK
  <2>7. ASSUME NEW j \in DOMAIN conn PROVE ConnRow(j)'
    <3>1. Over(j)' = Over(j)
      BY <2>1, <2>2 DEF Over
    <3>2. queue' # <<>> <=> queue # <<>>
      BY <1>4, <2>3
    <3> QED
      BY <2>1, <3>1, <3>2, BridgeFacts, RowSame
  <2> QED
    BY <2>1, <2>5, <2>6, <2>7 DEF BridgeInv, ConnsOK
<1>5. CASE queue = <<>> /\ active # 0
  <2>1. Give({c}, active, conn) /\ queue' = queue
    BY <1>5 DEF Establish, Establishing
  <2>2. PICK i, e, S : i = active /\ e = conn[active] /\ S = {c}
    OBVIOUS
  <2>3. i \in DOMAIN conn /\ e \in Connection /\ e = conn[i] /\ ConnRow(i)
    BY <1>5, <2>2, BridgeFacts DEF BridgeInv, BridgeTyped
  <2>4. /\ e.sock = "open" /\ ~e.ours /\ ~e.superseded /\ (e.frame => e.gone)
        /\ e.justified <=> i \in advanced \cup opened
        /\ e.holders = Cardinality(Over(i))
    BY <2>2, <2>3 DEF ConnRow
  <2>5. conn = [conn EXCEPT ![i] = e]
    BY <2>3, BridgeFacts
  <2>6. Give(S, i, [conn EXCEPT ![i] = e])
    BY <2>1, <2>2, <2>5
  <2>7. \A d \in Caller : pc[d] \notin {"waiting", "connecting"}
    BY <1>5, QueuedPlaces DEF Queued
  <2> QED
    BY <1>5, <2>1, <2>2, <2>3, <2>4, <2>6, <2>7, GiveKeeps
<1>6. CASE queue = <<>> /\ active = 0
  <2>1. /\ queue' = <<c>> /\ pc' = [pc EXCEPT ![c] = "connecting"]
        /\ conn' = Append(conn, Dialled) /\ UNCHANGED <<via, opened, relied>>
    BY <1>6 DEF Establish, Establishing
  <2>2. pc'[c] = "connecting" /\ \A d \in Caller : d # c => pc'[d] = pc[d]
    BY <1>3, <2>1
  <2>3. \A d \in Caller : pc[d] \notin {"waiting", "connecting"}
    BY <1>6, QueuedPlaces DEF Queued
  <2>4. \A j \in DOMAIN conn : Kept(j, conn[j])
    BY <1>6, BridgeFacts, RowsKept DEF ConnRow
  <2>5. conn \in Seq(Connection) /\ Len(conn) \in Nat /\ Len(conn') > 0
    <3>1. conn \in Seq(Connection) /\ Len(conn) \in Nat /\ Dialled \in Connection
      <4>1. 0 \in 0..Cardinality(Caller)
        BY FiniteCallers, FS_CardinalityType
      <4> QED
        BY <4>1, BridgeFacts DEF Dialled, Connection
    <3> QED
      BY <2>1, <3>1, AppendProperties
  <2>6. QueueOK' /\ queue' \in Seq(Caller) /\ queue' # <<>>
    <3>1. queue' \in Seq(Caller) /\ DOMAIN queue' = {1} /\ queue'[1] = c /\ queue' # <<>>
      BY <2>1
    <3>2. Queued' = {c}
      BY <3>1 DEF Queued
    <3> QED
      BY <1>6, <2>2, <2>3, <2>5, <3>1, <3>2 DEF QueueOK
  <2>7. \A d \in Past : pc'[d] \in {"connecting", "advancing", "done"}
    BY <1>1, <2>2 DEF Past
  <2>8. /\ pc' \in [Caller -> {"idle", "config", "dm", "waiting", "connecting", "advancing", "done"}]
        /\ \A d \in Caller : pc'[d] = "advancing" <=> pc[d] = "advancing"
    BY <1>3, <2>1, <2>2
  <2> QED
    BY <1>1, <1>6, <2>1, <2>2, <2>4, <2>5, <2>6, <2>7, <2>8, DialKeeps DEF ghosts
<1> QED
  BY <1>4, <1>5, <1>6

\* connect() resolves.
LEMMA ClaimedKeeps == ASSUME BridgeInv, NEW i \in DOMAIN conn, Claimed(i) PROVE BridgeInv'
<1>1. conn[i] \in Connection /\ ConnRow(i) /\ conn[i].sock = "connecting" /\ i \in Nat /\ i # 0
  BY BridgeFacts DEF Claimed
<1>2. queue # <<>> /\ i = Len(conn) /\ active = 0
  BY <1>1, QueuedPlaces DEF ConnRow
<1>3. Over(i) = {}
  BY <1>1 DEF ConnRow
<1> DEFINE e == [conn[i] EXCEPT !.sock = "open"]
<1>4. /\ e \in Connection /\ e.sock = "open" /\ ~e.ours /\ ~e.superseded /\ ~e.frame
      /\ e.justified = conn[i].justified /\ e.holders = conn[i].holders
  BY <1>1 DEF Connection, ConnRow
<1>5. /\ e.justified <=> i \in advanced \cup opened
      /\ e.holders = Cardinality(Over(i))
  BY <1>1, <1>4 DEF ConnRow
<1>6. [conn EXCEPT ![i].sock = "open"] = [conn EXCEPT ![i] = e]
  BY BridgeFacts
<1> HIDE DEF e
<1>7. PICK S : S = Queued
  OBVIOUS
<1>8. /\ S \in SUBSET Caller /\ S # {}
      /\ \A c \in S : pc[c] \in {"config", "dm", "waiting", "connecting"}
      /\ \A c \in Caller : pc[c] \in {"waiting", "connecting"} => c \in S
  <2>1. S # {}
    <3>1. Len(queue) # 0 /\ Len(queue) \in Nat /\ DOMAIN queue = 1..Len(queue)
      BY <1>2, BridgeFacts, EmptySeq
    <3>2. 1 \in DOMAIN queue
      BY <3>1
    <3>3. queue[1] \in S
      BY <1>7, <3>2 DEF Queued
    <3> QED
      BY <3>3
  <2> QED
    BY <1>7, <2>1, BridgeFacts, QueuedPlaces
<1>9. /\ Give(S, i, [conn EXCEPT ![i] = e]) /\ queue' = <<>> /\ active' = i
      /\ UNCHANGED <<kind, advanced, skipped, failed>>
  BY <1>6, <1>7 DEF Claimed
<1> QED
  BY <1>2, <1>4, <1>5, <1>8, <1>9, GiveKeeps

\* The head of the queue is done: the next one, if any, dials.
LEMMA QueuePasses ==
  ASSUME BridgeInv, queue # <<>>, queue' = Tail(queue), active' = 0, Len(conn') > 0,
         NEW h, h = Head(queue),
         pc' \in [Caller -> {"idle", "config", "dm", "waiting", "connecting", "advancing", "done"}],
         pc'[h] = "done",
         queue' # <<>> => pc'[Head(queue')] = "connecting",
         \A c \in Caller : c # h /\ (queue' # <<>> => c # Head(queue')) => pc'[c] = pc[c]
  PROVE  /\ QueueOK' /\ queue' \in Seq(Caller) /\ h \in Caller /\ pc[h] = "connecting"
         /\ queue' # <<>> => (Head(queue') \in Caller /\ pc[Head(queue')] = "waiting" /\ Head(queue') # h)
<1>1. queue \in Seq(Caller) /\ Len(queue) \in Nat /\ DOMAIN queue = 1..Len(queue)
  BY BridgeFacts
<1>2. /\ queue' \in Seq(Caller) /\ Len(queue') = Len(queue) - 1 /\ Len(queue) > 0
      /\ h = queue[1] /\ \A k \in 1..Len(queue') : queue'[k] = queue[k + 1]
  BY <1>1, HeadTailProperties, EmptySeq
<1>3. DOMAIN queue' = 1..(Len(queue) - 1)
  BY <1>1, <1>2, LenProperties
<1>4. \A k \in DOMAIN queue' : k \in DOMAIN queue /\ k + 1 \in DOMAIN queue /\ k + 1 # 1 /\ queue'[k] = queue[k + 1]
  BY <1>1, <1>2, <1>3
<1>5. /\ \A j, k \in DOMAIN queue : queue[j] = queue[k] => j = k
      /\ \A k \in DOMAIN queue : pc[queue[k]] = IF k = 1 THEN "connecting" ELSE "waiting"
      /\ \A k \in DOMAIN queue : queue[k] \in Caller
      /\ 1 \in DOMAIN queue
  BY <1>1, <1>2 DEF BridgeInv, QueueOK
<1>6. h \in Caller /\ pc[h] = "connecting"
  BY <1>2, <1>5
<1>7. \A k \in DOMAIN queue' : queue'[k] # h /\ pc[queue'[k]] = "waiting" /\ queue'[k] \in Caller
  BY <1>2, <1>4, <1>5
<1>8. queue' # <<>> => (1 \in DOMAIN queue' /\ Head(queue') = queue'[1])
  BY <1>1, <1>2, <1>3, HeadTailProperties, EmptySeq
<1>9. \A j, k \in DOMAIN queue' : queue'[j] = queue'[k] => j = k
  <2> SUFFICES ASSUME NEW j \in DOMAIN queue', NEW k \in DOMAIN queue', queue'[j] = queue'[k] PROVE j = k
    OBVIOUS
  <2>1. j + 1 = k + 1
    BY <1>4, <1>5
  <2> QED
    BY <1>1, <1>3, <2>1
<1>10. \A k \in DOMAIN queue' : queue' # <<>> /\ (k # 1 => queue'[k] # Head(queue'))
  <2>1. \A k \in DOMAIN queue' : queue' # <<>>
    BY <1>3
  <2> QED
    BY <1>8, <1>9, <2>1
<1>11. \A k \in DOMAIN queue' : pc'[queue'[k]] = IF k = 1 THEN "connecting" ELSE "waiting"
  BY <1>7, <1>8, <1>10
<1>12. \A c \in Caller : pc'[c] \in {"waiting", "connecting"} => c \in Queued'
  <2> SUFFICES ASSUME NEW c \in Caller, pc'[c] \in {"waiting", "connecting"} PROVE c \in Queued'
    OBVIOUS
  <2>1. CASE queue' # <<>> /\ c = Head(queue')
    BY <1>8, <2>1 DEF Queued
  <2>2. CASE ~(queue' # <<>> /\ c = Head(queue'))
    <3>1. c # h /\ pc'[c] = pc[c]
      BY <2>2
    <3>2. PICK k \in DOMAIN queue : queue[k] = c
      BY <3>1, QueuedPlaces DEF Queued
    <3>3. k # 1 /\ k - 1 \in DOMAIN queue' /\ k - 1 + 1 = k
      BY <1>1, <1>2, <1>3, <3>1, <3>2
    <3> QED
      BY <1>4, <3>2, <3>3 DEF Queued
  <2> QED
    BY <2>1, <2>2
<1>13. QueueOK'
  BY <1>9, <1>11, <1>12 DEF QueueOK
<1> QED
  BY <1>2, <1>6, <1>7, <1>8, <1>13

\* connect() rejects.
LEMMA RefusedKeeps == ASSUME BridgeInv, NEW i \in DOMAIN conn, Refused(i) PROVE BridgeInv'
<1>1. conn[i] \in Connection /\ ConnRow(i) /\ conn[i].sock = "connecting" /\ i \in Nat /\ i # 0
  BY BridgeFacts DEF Refused
<1>2. queue # <<>> /\ i = Len(conn) /\ active = 0 /\ Len(conn) \in Nat /\ Len(conn) > 0
  BY <1>1, BridgeFacts, QueuedPlaces DEF ConnRow
<1>3. PICK end \in {[sock |-> "ended", ours |-> FALSE], [sock |-> "open", ours |-> FALSE],
                    [sock |-> "open", ours |-> TRUE]} :
        PassesOn([conn EXCEPT ![i].sock = end.sock, ![i].ours = end.ours, ![i].gone = TRUE])
  BY DEF Refused
<1> DEFINE e == [conn[i] EXCEPT !.sock = end.sock, !.ours = end.ours, !.gone = TRUE]
<1>4. /\ e \in Connection /\ e.sock \in {"ended", "open"} /\ e.gone /\ e.justified = conn[i].justified
      /\ e.holders = conn[i].holders
  BY <1>1, <1>3 DEF Connection
<1>5. [conn EXCEPT ![i].sock = end.sock, ![i].ours = end.ours, ![i].gone = TRUE] = [conn EXCEPT ![i] = e]
  BY BridgeFacts
<1> HIDE DEF e
<1>6. PICK cs : cs = [conn EXCEPT ![i] = e]
  OBVIOUS
<1>7. PassesOn(cs) /\ UNCHANGED <<active, kind, via, ghosts>>
  BY <1>3, <1>5, <1>6 DEF Refused
<1>8. Kept(i, e)
  <2>1. Over(i) = {} /\ e.sock # "connecting"
    BY <1>1, <1>4 DEF ConnRow
  <2> QED
    BY <1>1, <1>4, <2>1 DEF ConnRow, Kept
<1>9. /\ cs \in Seq(Connection) /\ Len(cs) = Len(conn) /\ DOMAIN cs = DOMAIN conn
      /\ \A j \in DOMAIN conn : Kept(j, cs[j])
  <2>1. cs \in Seq(Connection) /\ Len(cs) = Len(conn)
    BY <1>4, <1>6, BridgeFacts, ExceptSeq
  <2>2. ASSUME NEW j \in DOMAIN conn, j # i PROVE Kept(j, conn[j])
    BY <1>2, <2>2, BridgeFacts, RowsKept DEF ConnRow
  <2> QED
    BY <1>4, <1>6, <1>8, <2>1, <2>2
<1>10. PICK h : h = Head(queue)
  OBVIOUS
<1>11. pc \in [Caller -> {"idle", "config", "dm", "waiting", "connecting", "advancing", "done"}]
  BY DEF BridgeInv, BridgeTyped
<1>12. /\ queue \in Seq(Caller) /\ h \in Caller /\ pc[h] = "connecting"
  <2>1. queue \in Seq(Caller) /\ Len(queue) # 0 /\ Len(queue) \in Nat /\ DOMAIN queue = 1..Len(queue)
    BY <1>2, BridgeFacts, EmptySeq
  <2>2. h = queue[1] /\ 1 \in DOMAIN queue
    BY <1>10, <2>1
  <2> QED
    BY <2>1, <2>2 DEF BridgeInv, QueueOK
<1>13. CASE Tail(queue) = <<>>
  <2>1. queue' = Tail(queue) /\ queue' = <<>> /\ pc' = [pc EXCEPT ![h] = "done"] /\ conn' = cs
    BY <1>7, <1>10, <1>13 DEF PassesOn
  <2>2. /\ pc' \in [Caller -> {"idle", "config", "dm", "waiting", "connecting", "advancing", "done"}]
        /\ pc'[h] = "done" /\ \A c \in Caller : c # h => pc'[c] = pc[c]
    BY <1>11, <1>12, <2>1
  <2>3. QueueOK' /\ queue' \in Seq(Caller)
    <3>1. active' = 0 /\ Len(conn') > 0
      BY <1>2, <1>7, <1>9, <2>1
    <3> QED
      BY <1>2, <1>10, <2>1, <2>2, <3>1, QueuePasses
  <2>4. \A c \in Past : pc'[c] \in {"connecting", "advancing", "done"}
    BY <2>2 DEF Past
  <2>5. BridgeTyped'
    <3>1. Len(conn) <= Cardinality(Past')
      BY <2>2, <2>4, PastGrows
    <3>2. /\ conn' \in Seq(Connection) /\ Len(conn') = Len(conn) /\ DOMAIN conn' = DOMAIN conn
          /\ UNCHANGED <<active, kind, via, opened, relied, advanced, skipped, failed>>
      BY <1>7, <1>9, <2>1 DEF ghosts
    <3> QED
      BY <2>2, <2>3, <3>1, <3>2 DEF BridgeInv, BridgeTyped
  <2>6. ASSUME NEW j \in DOMAIN conn' PROVE ConnRow(j)'
    <3>1. j \in DOMAIN conn /\ Kept(j, conn'[j]) /\ active' = 0
      BY <1>2, <1>7, <1>9, <2>1
    <3>2. Over(j)' = Over(j)
      BY <1>7, <1>12, <2>2 DEF Over
    <3> QED
      BY <1>7, <2>1, <3>1, <3>2, KeptRow
  <2> QED
    BY <2>3, <2>5, <2>6 DEF BridgeInv, ConnsOK
<1>14. CASE Tail(queue) # <<>>
  <2>1. PICK d : d = Head(Tail(queue))
    OBVIOUS
  <2>2. /\ queue' = Tail(queue) /\ queue' # <<>> /\ conn' = Append(cs, Dialled)
        /\ pc' = [pc EXCEPT ![h] = "done", ![d] = "connecting"]
    BY <1>7, <1>10, <1>14, <2>1 DEF PassesOn
  <2>3. /\ queue \in Seq(Caller) /\ Len(queue) \in Nat /\ DOMAIN queue = 1..Len(queue)
        /\ h = queue[1] /\ d = queue[2] /\ 2 \in DOMAIN queue /\ 1 \in DOMAIN queue
    <3>1. queue \in Seq(Caller) /\ Len(queue) \in Nat /\ DOMAIN queue = 1..Len(queue) /\ queue # <<>>
      BY <1>2, BridgeFacts
    <3>2. PICK q : q = Tail(queue)
      OBVIOUS
    <3>3. q \in Seq(Caller) /\ Len(q) = Len(queue) - 1 /\ \A k \in 1..Len(q) : q[k] = queue[k + 1]
      BY <3>1, <3>2, HeadTailProperties
    <3>4. Len(q) \in Nat /\ Len(q) # 0 /\ Head(q) = q[1] /\ h = queue[1]
      BY <1>10, <1>14, <3>1, <3>2, <3>3, HeadTailProperties, EmptySeq, LenProperties
    <3>5. q[1] = queue[2] /\ Len(queue) >= 2
      BY <3>1, <3>3, <3>4
    <3> QED
      BY <2>1, <3>1, <3>2, <3>4, <3>5
  <2>4. d \in Caller /\ d # h /\ pc[d] = "waiting" /\ d \notin Past
    BY <2>3 DEF BridgeInv, QueueOK, Past
  <2>5. /\ pc' \in [Caller -> {"idle", "config", "dm", "waiting", "connecting", "advancing", "done"}]
        /\ pc'[h] = "done" /\ pc'[d] = "connecting" /\ \A c \in Caller : c # h /\ c # d => pc'[c] = pc[c]
    BY <1>11, <1>12, <2>2, <2>4
  <2>6. Len(conn') > 0 /\ active' = 0
    <3>1. Dialled \in Connection
      <4>1. 0 \in 0..Cardinality(Caller)
        BY FiniteCallers, FS_CardinalityType
      <4> QED
        BY <4>1 DEF Dialled, Connection
    <3>2. Len(conn') = Len(cs) + 1
      BY <1>9, <2>2, <3>1, AppendProperties
    <3> QED
      BY <1>2, <1>7, <1>9, <3>2
  <2>7. QueueOK' /\ queue' \in Seq(Caller)
    <3>1. Head(queue') = d
      BY <2>1, <2>2
    <3> QED
      BY <1>2, <1>10, <2>2, <2>5, <2>6, <3>1, QueuePasses
  <2>8. /\ \A c \in Past : pc'[c] \in {"connecting", "advancing", "done"}
        /\ \A c \in Caller : pc'[c] = "advancing" <=> pc[c] = "advancing"
    BY <1>12, <2>4, <2>5 DEF Past
  <2> QED
    BY <1>2, <1>7, <1>9, <2>2, <2>4, <2>5, <2>7, <2>8, DialKeeps
<1> QED
  BY <1>13, <1>14

\* A mission wake reaches the bridge.
LEMMA TriggerKeeps == ASSUME BridgeInv, NEW c \in Caller, Trigger(c) PROVE BridgeInv'
<1>1. pc[c] = "idle" /\ kind' = [kind EXCEPT ![c] = "wake"] /\ UNCHANGED <<active, queue, ghosts>>
  BY DEF Trigger
<1>2. /\ kind' \in [Caller -> {"command", "wake"}]
      /\ pc \in [Caller -> {"idle", "config", "dm", "waiting", "connecting", "advancing", "done"}]
  BY <1>1 DEF BridgeInv, BridgeTyped
<1>3. CASE active = 0
  <2>1. pc' = [pc EXCEPT ![c] = "config"] /\ UNCHANGED <<conn, via>> /\ relied' \subseteq DOMAIN conn
    BY <1>1, <1>3 DEF Trigger, ghosts, BridgeInv, BridgeTyped
  <2> QED
    BY <1>1, <1>2, <2>1, CallerMoves DEF ghosts
<1>4. CASE active # 0
  <2>1. PICK i : i = active
    OBVIOUS
  <2>2. i \in DOMAIN conn /\ conn[i] \in Connection /\ ConnRow(i)
    BY <1>4, <2>1, BridgeFacts DEF BridgeInv, BridgeTyped
  <2>3. queue = <<>> /\ \A d \in Caller : pc[d] \notin {"waiting", "connecting"}
    BY <1>4, QueuedPlaces DEF Queued
  <2>4. PICK W : W = {c}
    OBVIOUS
  <2>5. W \in SUBSET Caller /\ W # {} /\ Over(i) \in SUBSET Caller /\ Cardinality(W) = 1
    BY <2>4, FS_Singleton DEF Over
  <2>6. PICK n : n = conn[i].holders + 1
    OBVIOUS
  <2>7. n = Cardinality(Over(i)) + Cardinality(W) /\ n \in 0..Cardinality(Caller)
    <3>1. Over(i) \cup W \in SUBSET Caller /\ Over(i) \cap W = {}
      BY <1>1, <2>4, <2>5 DEF Over
    <3>2. Cardinality(Over(i) \cup W) = Cardinality(Over(i)) + Cardinality(W)
      BY <2>5, <3>1, CallersApart
    <3>3. n = Cardinality(Over(i)) + Cardinality(W)
      BY <2>2, <2>5, <2>6 DEF ConnRow
    <3> QED
      BY <3>1, <3>2, <3>3, CallersCounted
  <2> DEFINE r == [conn[i] EXCEPT !.holders = n]
  <2>8. /\ r \in Connection /\ r.holders = n /\ r.sock = conn[i].sock /\ r.gone = conn[i].gone
        /\ r.frame = conn[i].frame /\ r.superseded = conn[i].superseded /\ r.ours = conn[i].ours
        /\ r.justified = conn[i].justified
    BY <2>2, <2>7 DEF Connection
  <2>9. /\ conn' = [conn EXCEPT ![i] = r] /\ pc' = [pc EXCEPT ![c] = "advancing"] /\ via' = [via EXCEPT ![c] = i]
    BY <1>4, <2>1, <2>6 DEF Trigger
  <2> HIDE DEF r
  <2>10. /\ r.sock = "open" /\ ~r.ours /\ ~r.superseded /\ (r.frame => r.gone)
         /\ r.justified <=> i \in advanced \cup opened'
    BY <1>1, <2>1, <2>2, <2>8 DEF ConnRow, ghosts
  <2>11. /\ pc' \in [Caller -> {"idle", "config", "dm", "advancing", "done"}]
         /\ \A d \in Caller : pc'[d] = "advancing" <=> (d \in W \/ pc[d] = "advancing")
         /\ \A d \in Past : pc'[d] \in {"advancing", "done"}
         /\ \A d \in W : pc[d] # "advancing"
    BY <1>1, <1>2, <2>3, <2>4, <2>9 DEF Past
  <2>12. via' = [d \in Caller |-> IF d \in W THEN i ELSE via[d]]
    BY <2>4, <2>9 DEF BridgeInv, BridgeTyped
  <2> QED
    <3>1. /\ queue' = <<>> /\ (queue # <<>> => i = Len(conn)) /\ active' = i /\ (active = 0 \/ active = i)
          /\ (opened' = opened \/ opened' = opened \cup {i}) /\ (relied' = relied \/ relied' = relied \cup {i})
          /\ UNCHANGED <<advanced, skipped, failed>>
          /\ W = {} => i \in opened'
      BY <1>1, <2>1, <2>3, <2>5 DEF ghosts
    <3>2. r.holders = Cardinality(Over(i)) + Cardinality(W)
      BY <2>7, <2>8
    <3>3. /\ i \in DOMAIN conn /\ W \in SUBSET Caller /\ r \in Connection
          /\ conn' = [conn EXCEPT ![i] = r] /\ kind' \in [Caller -> {"command", "wake"}]
      BY <1>2, <2>2, <2>5, <2>8, <2>9
    <3> QED
      BY <2>10, <2>11, <2>12, <3>1, <3>2, <3>3, Embodied
<1> QED
  BY <1>3, <1>4

\* A command, or a read on the way to an embodiment.
LEMMA CommandKeeps == ASSUME BridgeInv, NEW c \in Caller, Command(c) PROVE BridgeInv'
<1>1. kind \in [Caller -> {"command", "wake"}] /\ relied \subseteq DOMAIN conn
  BY DEF BridgeInv, BridgeTyped
<1>2. active # 0 => active \in DOMAIN conn
  BY BridgeFacts DEF BridgeInv, BridgeTyped
<1>3. CASE active # 0
  BY <1>1, <1>2, <1>3, CallerMoves DEF Command
<1>4. CASE active = 0
  BY <1>1, <1>4, CallerMoves DEF Command
<1> QED
  BY <1>3, <1>4

LEMMA ReadsKeep == ASSUME BridgeInv, NEW c \in Caller, Reads(c) PROVE BridgeInv'
<1>1. kind \in [Caller -> {"command", "wake"}] /\ relied \subseteq DOMAIN conn
  BY DEF BridgeInv, BridgeTyped
<1>2. CASE GivesUp(c)
  BY <1>1, <1>2, CallerMoves DEF GivesUp, ghosts
<1>3. CASE DmOpened(c)
  BY <1>3, EstablishKeeps DEF DmOpened
<1>4. CASE ConfigRead(c) /\ kind[c] = "wake"
  BY <1>1, <1>4, CallerMoves DEF ConfigRead
<1>5. CASE ConfigRead(c) /\ kind[c] # "wake"
  BY <1>5, EstablishKeeps DEF ConfigRead
<1> QED
  BY <1>2, <1>3, <1>4, <1>5 DEF Reads

-----------------------------------------------------------------------------
(* DiscordBridge: what holds of every behaviour *)

LEMMA BridgeStarts == Init => BridgeInv
<1> SUFFICES ASSUME Init PROVE BridgeInv
  OBVIOUS
<1>1. conn = <<>> /\ queue = <<>> /\ conn \in Seq(Connection) /\ Len(conn) = 0 /\ queue \in Seq(Caller)
  BY DEF Init
<1>2. DOMAIN conn = {} /\ DOMAIN queue = {}
  BY <1>1
<1>3. Past = {} /\ Cardinality(Past) = 0
  BY FS_EmptySet DEF Init, Past
<1>4. BridgeTyped
  BY <1>1, <1>2, <1>3 DEF Init, BridgeTyped
<1>5. QueueOK /\ ConnsOK
  BY <1>1, <1>2 DEF Init, QueueOK, ConnsOK
<1> QED
  BY <1>4, <1>5 DEF BridgeInv

LEMMA BridgeStep == BridgeInv /\ [Next]_vars => BridgeInv'
<1> SUFFICES ASSUME BridgeInv, [Next]_vars PROVE BridgeInv'
  OBVIOUS
<1>1. CASE UNCHANGED vars
  <2>1. UNCHANGED <<active, queue, conn, pc, kind, via, opened, relied, advanced, skipped, failed>>
    BY <1>1 DEF vars, ghosts
  <2>2. Past' = Past /\ \A j : Over(j)' = Over(j)
    BY <2>1 DEF Past, Over
  <2>3. BridgeTyped' /\ QueueOK'
    BY <2>1, <2>2 DEF BridgeInv, BridgeTyped, QueueOK, Queued
  <2>4. ASSUME NEW j \in DOMAIN conn PROVE ConnRow(j)'
    BY <2>1, <2>2, BridgeFacts, RowSame
  <2> QED
    BY <2>1, <2>3, <2>4 DEF BridgeInv, ConnsOK
<1>2. ASSUME NEW c \in Caller, Command(c) \/ Trigger(c) \/ Reads(c) \/ Advances(c) PROVE BridgeInv'
  BY <1>2, CommandKeeps, TriggerKeeps, ReadsKeep, AdvancesKeep
<1>3. ASSUME NEW i \in DOMAIN conn,
             Connects(i) \/ SupersededEvent(i) \/ ClosedEvent(i) \/ Supersedes(i) \/ Drops(i)
      PROVE  BridgeInv'
  BY <1>3, ClaimedKeeps, RefusedKeeps, EventsKeep, ClosedKeeps DEF Connects
<1>4. CASE Stop
  BY <1>4, StopKeeps
<1> QED
  BY <1>1, <1>2, <1>3, <1>4 DEF Next

\* Every reachable state of the bridge keeps its queue and its connections in
\* order: the invariant the other results rest on.
THEOREM BridgeInvHolds == Spec => []BridgeInv
<1>1. Init => BridgeInv
  BY BridgeStarts
<1>2. BridgeInv /\ [Next]_vars => BridgeInv'
  BY BridgeStep
<1> QED
  BY <1>1, <1>2, PTL DEF Spec

\* The bridge's variables keep their types; no more connections are dialled
\* than there are commands and wakes to dial them.
THEOREM BridgeTypeCorrect == Spec => []TypeOK
<1>1. BridgeInv => TypeOK
  <2> SUFFICES ASSUME BridgeInv PROVE TypeOK
    OBVIOUS
  <2>1. Past \in SUBSET Caller
    BY DEF Past
  <2>2. Cardinality(Past) \in 0..Cardinality(Caller) /\ Cardinality(Caller) \in Nat
    BY <2>1, CallersCounted
  <2>3. Len(conn) <= Cardinality(Caller)
    BY <2>2, BridgeFacts DEF BridgeInv, BridgeTyped
  <2> QED
    BY <2>3 DEF BridgeInv, BridgeTyped, TypeOK
<1> QED
  BY <1>1, BridgeInvHolds, PTL

\* However many commands and wakes arrive during a handshake, the bridge holds
\* at most one connection to the room, so none of its own supersedes another
\* (establishEmbodiment).
THEOREM OneConnectionHolds == Spec => []OneConnection
<1>1. BridgeInv => OneConnection
  <2> SUFFICES ASSUME BridgeInv PROVE OneConnection
    OBVIOUS
  <2> DEFINE Held == {i \in DOMAIN conn : conn[i].sock # "ended" /\ ~conn[i].gone /\ ~conn[i].ours}
  <2>1. PICK n : n = IF queue # <<>> THEN Len(conn) ELSE active
    OBVIOUS
  <2>2. ASSUME NEW i \in Held PROVE i = n
    <3>1. i \in DOMAIN conn /\ conn[i].sock \in {"connecting", "open"} /\ ConnRow(i) /\ i # 0
      BY BridgeFacts DEF Connection
    <3>2. CASE conn[i].sock = "connecting"
      BY <2>1, <3>1, <3>2 DEF ConnRow
    <3>3. CASE conn[i].sock = "open"
      <4>1. i = active
        BY <3>1, <3>3 DEF ConnRow
      <4> QED
        BY <2>1, <3>1, <4>1, QueuedPlaces
    <3> QED
      BY <3>1, <3>2, <3>3
  <2>3. Held \subseteq {n}
    BY <2>2
  <2>4. IsFiniteSet({n}) /\ Cardinality({n}) = 1
    BY FS_Singleton
  <2>5. Cardinality(Held) <= 1
    BY <2>3, <2>4, FS_Subset
  <2> QED
    BY <2>5 DEF OneConnection
<1> QED
  BY <1>1, BridgeInvHolds, PTL

\* Once the wakes over an embodiment are over and one of them was skipped, the
\* embodiment is given up, unless a live mission, a failure that left it up or
\* the user's own command keeps it: the companion is not left in a room it
\* claimed for nothing (handleTrigger, advanceForTrigger).
THEOREM StaleUndoneHolds == Spec => []StaleUndone
<1>1. BridgeInv => StaleUndone
  <2> SUFFICES ASSUME BridgeInv, active # 0, conn[active].holders = 0, active \in skipped
               PROVE  active \in advanced \cup opened \cup failed
    BY DEF StaleUndone
  <2>1. PICK i : i = active
    OBVIOUS
  <2>2. i \in DOMAIN conn /\ ConnRow(i)
    BY <2>1, BridgeFacts DEF BridgeInv, BridgeTyped
  <2>3. Over(i) \in SUBSET Caller /\ Cardinality(Over(i)) = 0
    BY <2>1, <2>2 DEF Over, ConnRow
  <2>4. Over(i) = {}
    BY <2>3, CallersCounted
  <2> QED
    BY <2>1, <2>2, <2>4 DEF ConnRow
<1> QED
  BY <1>1, BridgeInvHolds, PTL

\* An embodiment whose connection is gone has an event on its way that gives it
\* up, so that no /summon is answered over a phantom for good (handleClosed,
\* handleSuperseded).
THEOREM LossReportedHolds == Spec => []LossReported
<1>1. BridgeInv => LossReported
  <2> SUFFICES ASSUME BridgeInv, active # 0
               PROVE  conn[active].sock = "open" /\ Unexpected(conn[active])
    BY DEF LossReported
  <2>1. active \in DOMAIN conn
    BY BridgeFacts DEF BridgeInv, BridgeTyped
  <2> QED
    BY <2>1, BridgeFacts DEF ConnRow, Unexpected
<1> QED
  BY <1>1, BridgeInvHolds, PTL

\* Whoever waits for an establish is in the queue, and the queue's head dials a
\* connection that is there: a handshake that fails strands nobody
\* (establishEmbodiment).
THEOREM SomeoneDialsHolds == Spec => []SomeoneDials
<1>1. BridgeInv => SomeoneDials
  <2> SUFFICES ASSUME BridgeInv PROVE SomeoneDials
    OBVIOUS
  <2>1. \A c \in Caller : pc[c] \in {"waiting", "connecting"} <=> c \in Queued
    BY QueuedPlaces
  <2>2. ASSUME queue # <<>>
        PROVE  active = 0 /\ pc[Head(queue)] = "connecting" /\ \E i \in DOMAIN conn : conn[i].sock = "connecting"
    <3>1. queue \in Seq(Caller) /\ Len(queue) # 0 /\ Len(queue) \in Nat /\ DOMAIN queue = 1..Len(queue)
      BY <2>2, BridgeFacts, EmptySeq
    <3>2. Head(queue) = queue[1] /\ 1 \in DOMAIN queue
      BY <3>1
    <3>3. active = 0 /\ Len(conn) > 0 /\ pc[Head(queue)] = "connecting"
      BY <2>2, <3>2, QueuedPlaces DEF BridgeInv, QueueOK
    <3>4. Len(conn) \in DOMAIN conn
      BY <3>3, BridgeFacts
    <3>5. conn[Len(conn)].sock = "connecting"
      BY <2>2, <3>4, BridgeFacts DEF ConnRow
    <3> QED
      BY <3>3, <3>4, <3>5
  <2> QED
    BY <2>1, <2>2 DEF SomeoneDials
<1> QED
  BY <1>1, BridgeInvHolds, PTL

\* What a step that gives the registered embodiment up must show.
CauseStep ==
  (active # 0 /\ active' # active) =>
    \/ conn[active].gone \/ Stop
    \/ /\ conn'[active].holders < conn[active].holders
       /\ active \notin advanced \cup opened
       /\ \A c \in Caller : pc'[c] = "advancing" => via[c] # active

\* A wake that is skipped gives the embodiment up only as the last one over it,
\* and when nothing else keeps it.
LEMMA SkipsForCause ==
  ASSUME BridgeInv, NEW c \in Caller, AdvanceSkipped(c), active # 0, active' # active
  PROVE  CauseStep
<1>1. pc[c] = "advancing" /\ pc' = [pc EXCEPT ![c] = "done"] /\ via' = via
  BY DEF AdvanceSkipped
<1>2. PICK i : i = via[c]
  OBVIOUS
<1>3. /\ i \in DOMAIN conn /\ conn[i].sock = "open"
      /\ conn[i].holders \in Nat /\ conn[i].holders > 0
      /\ conn[i].holders - 1 \in 0..Cardinality(Caller)
      /\ conn[i].holders - 1 = Cardinality(Over(i)')
      /\ Over(i)' = {} <=> conn[i].holders = 1
      /\ pc' \in [Caller -> {"idle", "config", "dm", "waiting", "connecting", "advancing", "done"}]
      /\ \A d \in Caller : pc'[d] = pc[d] \/ (d = c /\ pc'[d] = "done")
  BY <1>1, <1>2, WakeLeaves
<1>4. ConnRow(i) /\ conn[i] \in Connection
  BY <1>3, BridgeFacts
<1> DEFINE e == [conn[i] EXCEPT !.holders = conn[i].holders - 1]
<1>5. e \in Connection /\ e.holders = conn[i].holders - 1
  BY <1>3, <1>4 DEF Connection
<1>6. [conn EXCEPT ![i].holders = @ - 1] = [conn EXCEPT ![i] = e]
  BY <1>3
<1>7. Retractable(conn[i]) /\ TearDown(i, [conn EXCEPT ![i] = e])
  BY <1>2, <1>6 DEF AdvanceSkipped
<1> HIDE DEF e
<1>8. PICK r \in Connection :
        /\ conn' = [conn EXCEPT ![i] = r]
        /\ active' = IF active = i THEN 0 ELSE active
        /\ r.ours <=> (active = i \/ e.ours)
        /\ r.sock = e.sock /\ r.gone = e.gone /\ r.frame = e.frame /\ r.superseded = e.superseded
        /\ r.justified = e.justified /\ r.holders = e.holders
  BY <1>3, <1>5, <1>7, TearDownRow
<1>9. i = active /\ conn'[i].holders = conn[i].holders - 1
  BY <1>3, <1>5, <1>8
<1>10. conn[i].holders = 1 /\ ~conn[i].justified
  BY <1>7 DEF Retractable
<1>11. i \notin advanced \cup opened /\ conn'[i].holders < conn[i].holders
  BY <1>4, <1>9, <1>10 DEF ConnRow
<1>12. \A d \in Caller : pc'[d] = "advancing" => via[d] # i
  BY <1>1, <1>3, <1>10 DEF Over
<1> QED
  BY <1>9, <1>11, <1>12 DEF CauseStep

\* The registered embodiment is given up for its own connection's sake, at a
\* stop, or because its last wake was skipped while nothing else kept it: never
\* for an event of a connection it replaced (teardown's identity guard).
THEOREM GivenUpForCauseHolds == Spec => GivenUpForCause
<1>1. BridgeInv /\ [Next]_vars => [CauseStep]_vars
  <2> SUFFICES ASSUME BridgeInv, Next, active # 0, active' # active PROVE CauseStep
    BY DEF CauseStep
  <2>1. active \in DOMAIN conn
    BY BridgeFacts DEF BridgeInv, BridgeTyped
  <2>2. ASSUME NEW c \in Caller, Command(c) \/ Trigger(c) \/ Reads(c) PROVE FALSE
    BY <2>2 DEF Command, Trigger, Reads, GivesUp, ConfigRead, DmOpened
  <2>3. ASSUME NEW c \in Caller, Advances(c) PROVE CauseStep
    BY <2>3, SkipsForCause DEF Advances, AdvanceLive, AdvanceFails
  <2>4. ASSUME NEW i \in DOMAIN conn, Connects(i) \/ Supersedes(i) \/ Drops(i) PROVE FALSE
    <3>1. CASE Claimed(i)
      <4>1. conn[i].sock = "connecting" /\ ConnRow(i)
        BY <3>1, BridgeFacts DEF Claimed
      <4>2. queue # <<>>
        BY <4>1 DEF ConnRow
      <4> QED
        BY <4>2, QueuedPlaces
    <3> QED
      BY <2>4, <3>1 DEF Connects, Refused, Supersedes, Drops
  <2>5. ASSUME NEW i \in DOMAIN conn, SupersededEvent(i) PROVE conn[active].gone
    <3>1. i = active /\ conn[i].frame
      BY <2>5 DEF SupersededEvent, TearDown, IsRegistered
    <3> QED
      BY <3>1, BridgeFacts DEF ConnRow
  <2>6. ASSUME NEW i \in DOMAIN conn, ClosedEvent(i) PROVE conn[active].gone
    <3>1. i = active /\ (conn[i].gone \/ conn[i].ours)
      BY <2>6 DEF ClosedEvent, TearDown, IsRegistered
    <3>2. ConnRow(i)
      BY <2>6, BridgeFacts
    <3>3. ~conn[i].ours
      BY <3>1, <3>2 DEF ConnRow
    <3> QED
      BY <3>1, <3>3
  <2> QED
    BY <2>2, <2>3, <2>4, <2>5, <2>6 DEF Next, CauseStep
<1>2. Spec => [][CauseStep]_vars
  BY <1>1, BridgeInvHolds, PTL DEF Spec
<1> QED
  BY <1>2 DEF GivenUpForCause, CauseStep

-----------------------------------------------------------------------------
(* DiscordConfig and GatewayManager: the types *)

Gateway == [token : 1..MaxSaves, state : {"starting", "up", "stopped"}]

\* The connections made are a sequence, besides their types.
GatewayTyped == GatewayTypeOK /\ gateways \in Seq(Gateway)

\* The step leaves the configuration row and its link code alone, but for the
\* wake pair and the bot's id.
LinkSame ==
  /\ UNCHANGED <<linker, saves, reissues, bound, savedCode>>
  /\ botRow'.code = botRow.code /\ botRow'.owner = botRow.owner

\* The types of the state, in parts.
LEMMA CountFacts ==
  ASSUME GatewayTyped
  PROVE  /\ saves \in 0..MaxSaves /\ wakeEdits \in 0..MaxEditsWake
         /\ reissues \in 0..MaxReissues /\ deletes \in 0..MaxDeletes
         /\ version \in Nat /\ owed \in Nat /\ acted \in 0..version
         /\ faults \in 0..MaxGatewayFaults /\ deaths \in 0..MaxServiceDeaths
         /\ MaxSaves \in Nat /\ MaxEditsWake \in Nat /\ MaxReissues \in Nat /\ MaxDeletes \in Nat
         /\ MaxGatewayFaults \in Nat /\ MaxServiceDeaths \in Nat
BY DiscordConstants, GatewayConstants DEF GatewayTyped, GatewayTypeOK, DiscordConfigTypeOK

LEMMA RowFacts ==
  ASSUME GatewayTyped
  PROVE  /\ botRow \in [token : 0..MaxSaves, wake : 0..MaxEditsWake, code : 0..(MaxSaves + MaxReissues),
                        owner : Linker \cup {Nobody}, bot : 0..MaxSaves]
         /\ linker \in [Linker -> 0..(MaxSaves + MaxReissues)]
BY DEF GatewayTyped, GatewayTypeOK, DiscordConfigTypeOK

LEMMA ManagerFacts ==
  ASSUME GatewayTyped
  PROVE  /\ DiscordConfigTypeOK
         /\ service \in {"down", "listing", "starting", "listening"}
         /\ gateways \in Seq(Gateway) /\ Len(gateways) \in Nat /\ DOMAIN gateways = 1..Len(gateways)
         /\ bot \in [gateway : 0..Len(gateways), token : 0..MaxSaves, wake : 0..MaxEditsWake]
         /\ task \in [Task -> [at : Place, token : 0..MaxSaves, wake : 0..MaxEditsWake,
                               version : 0..version, gateway : 0..Len(gateways)]]
         /\ spoilt \in BOOLEAN
<1>1. gateways \in Seq(Gateway) /\ Len(gateways) \in Nat /\ DOMAIN gateways = 1..Len(gateways)
  BY LenProperties DEF GatewayTyped
<1> QED
  BY <1>1 DEF GatewayTyped, GatewayTypeOK

\* The state is typed again when its parts are.
LEMMA GatewayRetyped ==
  ASSUME DiscordConfigTypeOK', gateways' \in Seq(Gateway),
         service' \in {"down", "listing", "starting", "listening"},
         bot' \in [gateway : 0..Len(gateways'), token : 0..MaxSaves, wake : 0..MaxEditsWake],
         task' \in [Task -> [at : Place, token : 0..MaxSaves, wake : 0..MaxEditsWake,
                             version : 0..version', gateway : 0..Len(gateways')]],
         acted' \in 0..version', spoilt' \in BOOLEAN,
         faults' \in 0..MaxGatewayFaults, deaths' \in 0..MaxServiceDeaths
  PROVE  GatewayTyped'
<1>1. DOMAIN gateways' = 1..Len(gateways') /\ \A g \in 1..Len(gateways') : gateways'[g] \in Gateway
  BY LenProperties
<1> QED
  BY <1>1 DEF GatewayTyped, GatewayTypeOK, Gateway

\* The settings and the link handshake, which leave the manager alone.
LEMMA SettingsTyped ==
  ASSUME GatewayTyped, DiscordConfigNext, UNCHANGED managerVars
  PROVE  GatewayTyped'
<1>1. /\ UNCHANGED <<service, gateways, bot, task, acted, spoilt, faults, deaths>>
  BY DEF managerVars
<1>2. DiscordConfigTypeOK' /\ version' \in Nat /\ version' >= version
  <2>1. CASE Saved
    <3>1. /\ saves + 1 \in 0..MaxSaves /\ FreshCode \in 0..(MaxSaves + MaxReissues)
          /\ version' \in Nat /\ version' >= version /\ owed' \in Nat
      BY <2>1, CountFacts DEF Saved, Triggers, FreshCode
    <3>2. botRow' \in [token : 0..MaxSaves, wake : 0..MaxEditsWake, code : 0..(MaxSaves + MaxReissues),
                       owner : Linker \cup {Nobody}, bot : 0..MaxSaves]
      BY <2>1, <3>1, RowFacts DEF Saved
    <3> QED
      BY <2>1, <3>1, <3>2, CountFacts, RowFacts DEF Saved, DiscordConfigTypeOK
  <2>2. CASE Relinked
    <3>1. /\ reissues + 1 \in 0..MaxReissues /\ FreshCode \in 0..(MaxSaves + MaxReissues)
      BY <2>2, CountFacts DEF Relinked, FreshCode
    <3>2. botRow' \in [token : 0..MaxSaves, wake : 0..MaxEditsWake, code : 0..(MaxSaves + MaxReissues),
                       owner : Linker \cup {Nobody}, bot : 0..MaxSaves]
      BY <2>2, <3>1, RowFacts DEF Relinked
    <3> QED
      BY <2>2, <3>1, <3>2, CountFacts, RowFacts DEF Relinked, DiscordConfigTypeOK
  <2>3. CASE WakeSet
    <3>1. wakeEdits + 1 \in 0..MaxEditsWake /\ version' \in Nat /\ version' >= version /\ owed' \in Nat
      BY <2>3, CountFacts DEF WakeSet, WakeStored, Triggers
    <3>2. botRow' \in [token : 0..MaxSaves, wake : 0..MaxEditsWake, code : 0..(MaxSaves + MaxReissues),
                       owner : Linker \cup {Nobody}, bot : 0..MaxSaves]
      BY <2>3, <3>1, RowFacts DEF WakeSet, WakeStored
    <3> QED
      BY <2>3, <3>1, <3>2, CountFacts, RowFacts DEF WakeSet, WakeStored, DiscordConfigTypeOK
  <2>4. CASE Deleted
    <3>1. deletes + 1 \in 0..MaxDeletes /\ version' \in Nat /\ version' >= version /\ owed' \in Nat
      BY <2>4, CountFacts DEF Deleted, Triggers
    <3>2. botRow' \in [token : 0..MaxSaves, wake : 0..MaxEditsWake, code : 0..(MaxSaves + MaxReissues),
                       owner : Linker \cup {Nobody}, bot : 0..MaxSaves]
      BY <2>4, CountFacts DEF Deleted, NoRow
    <3> QED
      BY <2>4, <3>1, <3>2, CountFacts, RowFacts DEF Deleted, DiscordConfigTypeOK
  <2>5. ASSUME NEW u \in Linker, LinkMatches(u) PROVE DiscordConfigTypeOK' /\ version' = version
    <3>1. linker' \in [Linker -> 0..(MaxSaves + MaxReissues)]
      BY <2>5, RowFacts DEF LinkMatches
    <3> QED
      BY <2>5, <3>1, CountFacts, RowFacts DEF LinkMatches, DiscordConfigTypeOK
  <2>6. ASSUME NEW u \in Linker, Binds(u) PROVE DiscordConfigTypeOK' /\ version' = version
    <3>1. linker' \in [Linker -> 0..(MaxSaves + MaxReissues)]
      BY <2>6, CountFacts, RowFacts DEF Binds
    <3>2. botRow' \in [token : 0..MaxSaves, wake : 0..MaxEditsWake, code : 0..(MaxSaves + MaxReissues),
                       owner : Linker \cup {Nobody}, bot : 0..MaxSaves]
      <4>1. 0 \in 0..(MaxSaves + MaxReissues)
        BY CountFacts
      <4> QED
        BY <2>6, <4>1, RowFacts DEF Binds
    <3> QED
      BY <2>6, <3>1, <3>2, CountFacts DEF Binds, DiscordConfigTypeOK
  <2>7. version \in Nat /\ version >= version
    BY CountFacts
  <2> QED
    BY <2>1, <2>2, <2>3, <2>4, <2>5, <2>6, <2>7 DEF DiscordConfigNext, Relinked
<1>3. /\ acted' \in 0..version'
      /\ task' \in [Task -> [at : Place, token : 0..MaxSaves, wake : 0..MaxEditsWake,
                             version : 0..version', gateway : 0..Len(gateways')]]
  <2>1. PICK m, n : m = version /\ n = version'
    OBVIOUS
  <2>2. 0..m \subseteq 0..n
    BY <1>2, <2>1, CountFacts
  <2>3. acted \in 0..n
    BY <2>1, <2>2, CountFacts
  <2>4. task \in [Task -> [at : Place, token : 0..MaxSaves, wake : 0..MaxEditsWake,
                             version : 0..n, gateway : 0..Len(gateways)]]
    BY <2>1, <2>2, ManagerFacts
  <2> QED
    BY <1>1, <2>1, <2>3, <2>4
<1> QED
  BY <1>1, <1>2, <1>3, CountFacts, ManagerFacts, GatewayRetyped

\* The rows of one task, in terms of what is typed.
TaskRow == [at : Place, token : 0..MaxSaves, wake : 0..MaxEditsWake,
            version : 0..version, gateway : 0..Len(gateways)]

BotRow == [gateway : 0..Len(gateways), token : 0..MaxSaves, wake : 0..MaxEditsWake]

\* The configuration is typed when the step leaves its row alone.
LEMMA ConfigKept ==
  ASSUME GatewayTyped, UNCHANGED discordConfigVars
  PROVE  DiscordConfigTypeOK' /\ version' = version
BY ManagerFacts DEF discordConfigVars, DiscordConfigTypeOK

\* A task that is free, and one that has read the row.
LEMMA TaskRows ==
  ASSUME GatewayTyped
  PROVE  /\ Free \in TaskRow /\ NoBot \in BotRow
         /\ \A at \in Place : ReadOf(at) \in TaskRow
         /\ \A t \in Task : task[t] \in TaskRow
<1>1. /\ 0 \in 0..MaxSaves /\ 0 \in 0..MaxEditsWake /\ 0 \in 0..version /\ 0 \in 0..Len(gateways)
      /\ version \in 0..version
  BY CountFacts, ManagerFacts
<1>2. botRow.token \in 0..MaxSaves /\ botRow.wake \in 0..MaxEditsWake
  BY RowFacts
<1>3. Free \in TaskRow /\ NoBot \in BotRow
  BY <1>1 DEF Free, NoBot, TaskRow, BotRow, Place
<1>4. \A at \in Place : ReadOf(at) \in TaskRow
  BY <1>1, <1>2 DEF Free, ReadOf, TaskRow
<1>5. \A t \in Task : task[t] \in TaskRow
  BY ManagerFacts DEF TaskRow
<1> QED
  BY <1>3, <1>4, <1>5

\* A step of the service or of a task that leaves the configuration and the
\* connections alone.
LEMMA QuietTyped ==
  ASSUME GatewayTyped, UNCHANGED <<discordConfigVars, gateways>>,
         service' \in {"down", "listing", "starting", "listening"}, bot' \in BotRow,
         task' \in [Task -> TaskRow], acted' \in 0..version, spoilt' \in BOOLEAN,
         faults' \in 0..MaxGatewayFaults, deaths' \in 0..MaxServiceDeaths
  PROVE  GatewayTyped'
<1>1. DiscordConfigTypeOK' /\ version' = version /\ gateways' = gateways
  BY ConfigKept
<1> QED
  BY <1>1, ManagerFacts, GatewayRetyped DEF TaskRow, BotRow

\* A fault, which is counted.
LEMMA FaultCounted ==
  ASSUME GatewayTyped, GatewayFault
  PROVE  spoilt' \in BOOLEAN /\ faults' \in 0..MaxGatewayFaults
BY CountFacts DEF GatewayFault

LEMMA ServiceTyped ==
  ASSUME GatewayTyped, Boots \/ Lists \/ Listens \/ ServiceDies
  PROVE  GatewayTyped'
<1>1. CASE Boots \/ Listens
  <2>1. UNCHANGED <<bot, task, acted, spoilt, faults, deaths, gateways, discordConfigVars>>
        /\ service' \in {"down", "listing", "starting", "listening"}
    BY <1>1 DEF Boots, Listens
  <2>2. bot \in BotRow /\ task \in [Task -> TaskRow] /\ acted \in 0..version /\ spoilt \in BOOLEAN
        /\ faults \in 0..MaxGatewayFaults /\ deaths \in 0..MaxServiceDeaths
    BY CountFacts, ManagerFacts DEF TaskRow, BotRow
  <2> QED
    BY <2>1, <2>2, QuietTyped
<1>2. CASE Lists
  <2>1. UNCHANGED <<bot, acted, deaths, gateways, discordConfigVars>>
        /\ service' \in {"down", "listing", "starting", "listening"}
    BY <1>2 DEF Lists
  <2>2. bot \in BotRow /\ task \in [Task -> TaskRow] /\ acted \in 0..version /\ spoilt \in BOOLEAN
        /\ faults \in 0..MaxGatewayFaults /\ deaths \in 0..MaxServiceDeaths
    BY CountFacts, ManagerFacts DEF TaskRow, BotRow
  <2>3. ReadOf("read") \in TaskRow
    BY TaskRows DEF Place
  <2>4. task' \in [Task -> TaskRow]
    BY <1>2, <2>2, <2>3 DEF Lists
  <2>5. spoilt' \in BOOLEAN /\ faults' \in 0..MaxGatewayFaults
    BY <1>2, <2>2, FaultCounted DEF Lists
  <2> QED
    BY <2>1, <2>2, <2>4, <2>5, QuietTyped
<1>3. CASE ServiceDies
  <2>1. DiscordConfigTypeOK' /\ version' = version
    BY <1>3, ConfigKept DEF ServiceDies
  <2>2. gateways' \in Seq(Gateway) /\ Len(gateways') = Len(gateways)
    <3>1. \A g \in 1..Len(gateways) : [gateways[g] EXCEPT !.state = "stopped"] \in Gateway
      <4>1. \A g \in 1..Len(gateways) : gateways[g] \in Gateway
        BY ManagerFacts
      <4> QED
        BY <4>1 DEF Gateway
    <3>2. gateways' = [g \in 1..Len(gateways) |-> [gateways[g] EXCEPT !.state = "stopped"]]
      BY <1>3, ManagerFacts DEF ServiceDies
    <3> QED
      BY <3>1, <3>2, ManagerFacts
  <2>3. bot' \in BotRow /\ task' \in [Task -> TaskRow]
    BY <1>3, TaskRows DEF ServiceDies
  <2>4. /\ acted' = 0 /\ spoilt' = FALSE /\ faults' = faults /\ service' = "down"
        /\ deaths < MaxServiceDeaths /\ deaths' = deaths + 1
    BY <1>3 DEF ServiceDies, discordConfigVars
  <2>5. acted' \in 0..version /\ faults' \in 0..MaxGatewayFaults /\ deaths' \in 0..MaxServiceDeaths
    BY <2>4, CountFacts
  <2> QED
    BY <2>1, <2>2, <2>3, <2>4, <2>5, GatewayRetyped DEF TaskRow, BotRow
<1> QED
  BY <1>1, <1>2, <1>3

\* A trigger, or /notifybot.
LEMMA TriggersTyped ==
  ASSUME GatewayTyped, TriggerLost \/ \E t \in Reconciler : Delivered(t) \/ NotifyBot(t)
  PROVE  GatewayTyped'
<1>1. ASSUME NEW t \in Reconciler, Delivered(t) \/ NotifyBot(t)
      PROVE  task' \in [Task -> [at : Place, token : 0..MaxSaves, wake : 0..MaxEditsWake,
                                 version : 0..version', gateway : 0..Len(gateways)]]
             /\ acted \in 0..version' /\ version' \in Nat
  <2>1. PICK m, n : m = version /\ n = version'
    OBVIOUS
  <2>2. n \in Nat /\ n >= m /\ m \in Nat
    BY <1>1, <2>1, CountFacts DEF Delivered, NotifyBot
  <2>3. 0..m \subseteq 0..n
    BY <2>2
  <2>4. task' = [task EXCEPT ![t].at = "reading"] /\ "reading" \in Place
    BY <1>1 DEF Delivered, NotifyBot, TaskAt, Place
  <2>5. task \in [Task -> [at : Place, token : 0..MaxSaves, wake : 0..MaxEditsWake,
                             version : 0..n, gateway : 0..Len(gateways)]]
    BY <2>1, <2>3, ManagerFacts
  <2>6. acted \in 0..n
    BY <2>1, <2>3, CountFacts
  <2> QED
    BY <2>1, <2>2, <2>4, <2>5, <2>6
<1>2. CASE TriggerLost
  <2>1. DiscordConfigTypeOK' /\ version' = version
    BY <1>2, CountFacts, RowFacts DEF TriggerLost, DiscordConfigTypeOK
  <2>2. UNCHANGED <<service, gateways, bot, task, acted, deaths>>
    BY <1>2 DEF TriggerLost
  <2>3. spoilt' \in BOOLEAN /\ faults' \in 0..MaxGatewayFaults
    BY <1>2, CountFacts, ManagerFacts, FaultCounted DEF TriggerLost
  <2> QED
    BY <2>1, <2>2, <2>3, CountFacts, ManagerFacts, GatewayRetyped
<1>3. ASSUME NEW t \in Reconciler, Delivered(t) PROVE GatewayTyped'
  <2>1. DiscordConfigTypeOK'
    BY <1>3, CountFacts, RowFacts DEF Delivered, DiscordConfigTypeOK
  <2>2. UNCHANGED <<service, gateways, bot, acted, spoilt, deaths>> /\ faults' \in 0..MaxGatewayFaults
    BY <1>3, CountFacts DEF Delivered
  <2> QED
    BY <1>1, <1>3, <2>1, <2>2, CountFacts, ManagerFacts, GatewayRetyped
<1>4. ASSUME NEW t \in Reconciler, NotifyBot(t) PROVE GatewayTyped'
  <2>1. DiscordConfigTypeOK'
    <3>1. wakeEdits + 1 \in 0..MaxEditsWake /\ version' \in Nat
      BY <1>4, CountFacts DEF NotifyBot, WakeStored
    <3>2. botRow' \in [token : 0..MaxSaves, wake : 0..MaxEditsWake, code : 0..(MaxSaves + MaxReissues),
                       owner : Linker \cup {Nobody}, bot : 0..MaxSaves]
      BY <1>4, <3>1, RowFacts DEF NotifyBot, WakeStored
    <3> QED
      BY <1>4, <3>1, <3>2, CountFacts, RowFacts DEF NotifyBot, WakeStored, DiscordConfigTypeOK
  <2>2. UNCHANGED <<service, gateways, bot, acted, spoilt, faults, deaths>>
    BY <1>4 DEF NotifyBot
  <2> QED
    BY <1>1, <1>4, <2>1, <2>2, CountFacts, ManagerFacts, GatewayRetyped
<1> QED
  BY <1>2, <1>3, <1>4

\* A bot is started: its connection, its record and the task that starts it.
LEMMA StartTyped ==
  ASSUME GatewayTyped, NEW t \in Task, task[t].token # 0, StartsBot(t), UNCHANGED discordConfigVars,
         service' = service, acted' \in 0..version, spoilt' \in BOOLEAN, faults' = faults, deaths' = deaths
  PROVE  GatewayTyped'
<1>1. DiscordConfigTypeOK' /\ version' = version
  BY ConfigKept
<1>2. task[t] \in TaskRow
  BY TaskRows
<1>3. PICK g : g = Len(gateways) + 1
  OBVIOUS
<1>4. PICK r : r = [token |-> task[t].token, state |-> "starting"]
  OBVIOUS
<1>5. PICK e : e = [task[t] EXCEPT !.at = "starting", !.gateway = g]
  OBVIOUS
<1>6. r \in Gateway /\ g \in Nat
  <2>1. task[t].token \in 0..MaxSaves /\ task[t].token # 0
    BY <1>2 DEF TaskRow
  <2>2. PICK k : k = task[t].token
    OBVIOUS
  <2>3. k \in 1..MaxSaves
    BY <2>1, <2>2, CountFacts
  <2>4. g \in Nat
    BY <1>3, ManagerFacts
  <2> QED
    BY <1>4, <2>2, <2>3, <2>4 DEF Gateway
<1>7. task' = [task EXCEPT ![t] = e]
  <2>1. task' = [task EXCEPT ![t].at = "starting", ![t].gateway = g]
    BY <1>3 DEF StartsBot
  <2>2. t \in DOMAIN task
    BY ManagerFacts
  <2> QED
    BY <1>5, <2>1, <2>2
<1>8. gateways' = Append(gateways, r)
      /\ bot' = [gateway |-> g, token |-> task[t].token, wake |-> task[t].wake]
  BY <1>3, <1>4 DEF StartsBot
<1>9. gateways' \in Seq(Gateway) /\ Len(gateways') = g
  BY <1>3, <1>6, <1>8, ManagerFacts, AppendProperties
<1>10. 0..Len(gateways) \subseteq 0..g /\ g \in 0..g
  BY <1>3, <1>6, ManagerFacts
<1>11. PICK R : R = [at : Place, token : 0..MaxSaves, wake : 0..MaxEditsWake, version : 0..version, gateway : 0..g]
  OBVIOUS
<1>12. e \in R /\ task \in [Task -> R]
  BY <1>2, <1>5, <1>10, <1>11, ManagerFacts DEF TaskRow, Place
<1>13. task' \in [Task -> R]
  BY <1>7, <1>12
<1>14. bot' \in [gateway : 0..g, token : 0..MaxSaves, wake : 0..MaxEditsWake]
  BY <1>2, <1>8, <1>10 DEF TaskRow
<1> QED
  BY <1>1, <1>9, <1>11, <1>13, <1>14, CountFacts, ManagerFacts, GatewayRetyped

\* A task that changes its row, and perhaps the connection it stands for.
LEMMA TaskTyped ==
  ASSUME GatewayTyped, NEW t \in Task, NEW e \in TaskRow, task' = [task EXCEPT ![t] = e],
         DiscordConfigTypeOK', version' = version,
         gateways' = gateways \/ \E g : gateways' = [gateways EXCEPT ![g].state = "up"]
                              \/ gateways' = [gateways EXCEPT ![g].state = "stopped"],
         bot' \in BotRow, service' = service, acted' \in 0..version, spoilt' \in BOOLEAN,
         faults' \in 0..MaxGatewayFaults, deaths' = deaths
  PROVE  GatewayTyped'
<1>1. gateways' \in Seq(Gateway) /\ Len(gateways') = Len(gateways)
  <2>1. CASE gateways' = gateways
    BY <2>1, ManagerFacts
  <2>2. CASE gateways' # gateways
    <3>1. PICK g, st : st \in {"up", "stopped"} /\ gateways' = [gateways EXCEPT ![g].state = st]
      BY <2>2
    <3>2. g \in 1..Len(gateways)
      BY <2>2, <3>1, ManagerFacts
    <3>3. PICK r : r = [gateways[g] EXCEPT !.state = st]
      OBVIOUS
    <3>4. r \in Gateway
      <4>1. gateways[g] \in Gateway
        BY <3>2, ManagerFacts
      <4> QED
        BY <3>1, <3>3, <4>1 DEF Gateway
    <3>5. gateways' = [gateways EXCEPT ![g] = r]
      BY <3>1, <3>2, <3>3, ManagerFacts
    <3> QED
      BY <3>2, <3>4, <3>5, ManagerFacts, ExceptSeq
  <2> QED
    BY <2>1, <2>2
<1>2. task' \in [Task -> TaskRow]
  BY ManagerFacts DEF TaskRow
<1> QED
  BY <1>1, <1>2, CountFacts, ManagerFacts, GatewayRetyped DEF TaskRow, BotRow

\* The steps of a task, one by one.
LEMMA StepsTyped ==
  ASSUME GatewayTyped, NEW t \in Task, Steps(t)
  PROVE  GatewayTyped'
<1>1. /\ Free \in TaskRow /\ NoBot \in BotRow /\ bot \in BotRow /\ task[t] \in TaskRow
      /\ acted \in 0..version /\ task[t].version \in 0..version
      /\ spoilt \in BOOLEAN /\ faults \in 0..MaxGatewayFaults
  BY TaskRows, CountFacts, ManagerFacts DEF BotRow, TaskRow
<1>2. ASSUME NEW at \in Place
      PROVE  [task[t] EXCEPT !.at = at] \in TaskRow
             /\ [task EXCEPT ![t].at = at] = [task EXCEPT ![t] = [task[t] EXCEPT !.at = at]]
  BY <1>1, ManagerFacts DEF TaskRow
<1>3. CASE ReadsRow(t)
  <2>1. DiscordConfigTypeOK' /\ version' = version /\ UNCHANGED <<service, gateways, bot, acted, deaths>>
    BY <1>3, ConfigKept DEF ReadsRow
  <2>2. PICK e \in TaskRow : task' = [task EXCEPT ![t] = e]
    <3>1. ReadOf("read") \in TaskRow
      BY TaskRows DEF Place
    <3> QED
      BY <1>1, <1>3, <3>1 DEF ReadsRow, Ends
  <2>3. spoilt' \in BOOLEAN /\ faults' \in 0..MaxGatewayFaults
    BY <1>1, <1>3, FaultCounted DEF ReadsRow
  <2> QED
    BY <1>1, <2>1, <2>2, <2>3, TaskTyped
<1>4. CASE Decides(t)
  <2>1. DiscordConfigTypeOK' /\ version' = version /\ UNCHANGED <<discordConfigVars, service, faults, deaths>>
    BY <1>4, ConfigKept DEF Decides
  <2>2. acted' \in 0..version /\ spoilt' \in BOOLEAN
    BY <1>1, <1>4 DEF Decides, Late
  <2>3. CASE DecidesWithout(t) /\ task[t].token # 0
    BY <2>1, <2>2, <2>3, StartTyped DEF DecidesWithout
  <2>4. CASE ~(DecidesWithout(t) /\ task[t].token # 0)
    <3>1. PICK e \in TaskRow : task' = [task EXCEPT ![t] = e]
      <4>1. CASE DecidesToStop(t)
        <5>1. [task[t] EXCEPT !.at = "stopping", !.gateway = bot.gateway] \in TaskRow
          BY <1>1 DEF TaskRow, BotRow, Place
        <5>2. task' = [task EXCEPT ![t] = [task[t] EXCEPT !.at = "stopping", !.gateway = bot.gateway]]
          BY <4>1, ManagerFacts DEF DecidesToStop
        <5> QED
          BY <5>1, <5>2
      <4> QED
        BY <1>1, <1>4, <2>4, <4>1 DEF Decides, DecidesWithout, DecidesToKeep, Ends
    <3>2. gateways' = gateways \/ \E g : gateways' = [gateways EXCEPT ![g].state = "stopped"]
      BY <1>4, <2>4 DEF Decides, DecidesWithout, DecidesToStop, DecidesToKeep, Stopping
    <3>3. bot' \in BotRow
      <4>1. [bot EXCEPT !.wake = task[t].wake] \in BotRow
        BY <1>1 DEF BotRow, TaskRow
      <4> QED
        BY <1>1, <1>4, <2>4, <4>1 DEF Decides, DecidesWithout, DecidesToStop, DecidesToKeep
    <3> QED
      BY <1>1, <2>1, <2>2, <3>1, <3>2, <3>3, TaskTyped
  <2> QED
    BY <2>3, <2>4
<1>5. CASE Stopped(t)
  <2>1. DiscordConfigTypeOK' /\ version' = version
        /\ UNCHANGED <<discordConfigVars, service, acted, faults, deaths>>
    BY <1>5, ConfigKept DEF Stopped
  <2>2. spoilt' \in BOOLEAN
    BY <1>1, <1>5 DEF Stopped, Late
  <2>3. CASE task[t].token # 0
    BY <1>1, <1>5, <2>1, <2>2, <2>3, StartTyped DEF Stopped
  <2>4. CASE task[t].token = 0
    BY <1>1, <1>5, <2>1, <2>2, <2>4, TaskTyped DEF Stopped, Ends
  <2> QED
    BY <2>3, <2>4
<1>6. CASE LogsIn(t)
  <2>1. DiscordConfigTypeOK' /\ version' = version /\ UNCHANGED <<service, bot, acted, spoilt, faults, deaths>>
    BY <1>6, ConfigKept DEF LogsIn
  <2>2. PICK e \in TaskRow : task' = [task EXCEPT ![t] = e]
    BY <1>2, <1>6 DEF LogsIn, TaskAt, Place
  <2>3. \E g : gateways' = [gateways EXCEPT ![g].state = "up"]
    BY <1>6 DEF LogsIn
  <2> QED
    BY <1>1, <2>1, <2>2, <2>3, TaskTyped
<1>7. CASE Registers(t)
  <2>1. botRow' \in [token : 0..MaxSaves, wake : 0..MaxEditsWake, code : 0..(MaxSaves + MaxReissues),
                     owner : Linker \cup {Nobody}, bot : 0..MaxSaves]
    <3>1. task[t].token \in 0..MaxSaves
      BY <1>1 DEF TaskRow
    <3> QED
      BY <1>7, <3>1, RowFacts DEF Registers
  <2>2. DiscordConfigTypeOK' /\ version' = version
    BY <1>7, <2>1, CountFacts, RowFacts DEF Registers, DiscordConfigTypeOK
  <2>3. UNCHANGED <<service, gateways, bot, acted, deaths>> /\ task' = [task EXCEPT ![t] = Free]
    BY <1>7 DEF Registers, Ends
  <2>4. spoilt' \in BOOLEAN /\ faults' \in 0..MaxGatewayFaults
    BY <1>1, <1>7, FaultCounted DEF Registers
  <2> QED
    BY <1>1, <2>2, <2>3, <2>4, TaskTyped
<1>8. CASE StartFails(t)
  <2>1. DiscordConfigTypeOK' /\ version' = version /\ UNCHANGED <<service, acted, deaths>>
    BY <1>8, ConfigKept DEF StartFails
  <2>2. bot' = NoBot /\ task' = [task EXCEPT ![t] = Free]
        /\ \E g : gateways' = [gateways EXCEPT ![g].state = "stopped"]
    BY <1>8 DEF StartFails, Ends, Stopping
  <2>3. spoilt' \in BOOLEAN /\ faults' \in 0..MaxGatewayFaults
    BY <1>1, <1>8, FaultCounted DEF StartFails
  <2> QED
    BY <1>1, <2>1, <2>2, <2>3, TaskTyped
<1> QED
  BY <1>3, <1>4, <1>5, <1>6, <1>7, <1>8 DEF Steps

-----------------------------------------------------------------------------
(* DiscordConfig: a link code binds one owner *)

\* Every code was issued before the next one; the pending code was issued by
\* the last save or after it, and has bound nobody; so each code bound one
\* owner, and the owner of the row was bound since the last save.
LinkInv ==
  /\ savedCode \in Nat /\ savedCode < FreshCode
  /\ \A u \in Linker : linker[u] < FreshCode
  /\ botRow.code < FreshCode
  /\ bound \subseteq (1..(FreshCode - 1)) \X Linker
  /\ \A p, q \in bound : p[1] = q[1] => p = q
  /\ botRow.code # 0 => botRow.code >= savedCode
  /\ botRow.code # 0 => \A p \in bound : p[1] # botRow.code
  /\ botRow.owner # Nobody => \E p \in bound : p[1] >= savedCode /\ p[2] = botRow.owner

\* The next code is a number above every code that fits the bounds.
LEMMA CodesTyped ==
  ASSUME GatewayTyped
  PROVE  /\ FreshCode \in Nat /\ FreshCode > 0
         /\ botRow.code \in Nat /\ botRow.owner \in Linker \cup {Nobody}
         /\ linker \in [Linker -> Nat]
         /\ botRow.token \in 0..MaxSaves
<1>1. FreshCode \in Nat /\ FreshCode > 0 /\ 0..(MaxSaves + MaxReissues) \subseteq Nat
  BY CountFacts DEF FreshCode
<1> QED
  BY <1>1, RowFacts

LEMMA LinkKept ==
  ASSUME LinkInv, LinkSame
  PROVE  LinkInv'
BY DEF LinkInv, LinkSame, FreshCode

\* A new code, for a row that keeps its owner or forgets it.
LEMMA LinkStepIssues ==
  ASSUME GatewayTyped, LinkInv, Saved \/ Relinked
  PROVE  LinkInv'
<1>1. PICK n : n = FreshCode
  OBVIOUS
<1>2. n \in Nat /\ n > 0 /\ botRow'.code = n /\ UNCHANGED <<linker, bound>>
  BY <1>1, CodesTyped, RowFacts DEF Saved, Relinked
<1>3. FreshCode' = n + 1
  BY <1>1, CountFacts DEF Saved, Relinked, FreshCode
<1>4. \/ savedCode' = n /\ botRow'.owner = Nobody
      \/ savedCode' = savedCode /\ botRow'.owner = botRow.owner
  BY <1>1, RowFacts DEF Saved, Relinked
<1>5. /\ savedCode \in Nat /\ \A u \in Linker : linker[u] \in Nat /\ linker[u] < n
      /\ bound \subseteq (1..(n - 1)) \X Linker
      /\ \A p, q \in bound : p[1] = q[1] => p = q
      /\ botRow.owner # Nobody => \E p \in bound : p[1] >= savedCode /\ p[2] = botRow.owner
  BY <1>1, CodesTyped DEF LinkInv
<1>6. bound \subseteq (1..((n + 1) - 1)) \X Linker /\ \A p \in bound : p[1] # n
  <2>1. (1..(n - 1)) \X Linker \subseteq (1..((n + 1) - 1)) \X Linker
    BY <1>2
  <2>2. \A p \in bound : p[1] \in 1..(n - 1)
    BY <1>5
  <2> QED
    BY <1>2, <1>5, <2>1, <2>2
<1>7. savedCode' \in Nat /\ n >= savedCode'
  <2>1. savedCode < n
    BY <1>1 DEF LinkInv, FreshCode
  <2> QED
    BY <1>2, <1>4, <1>5, <2>1
<1> QED
  BY <1>2, <1>3, <1>4, <1>5, <1>6, <1>7 DEF LinkInv

\* The handshake takes the pending code, and binds it if it is still pending.
LEMMA LinkStepMatches ==
  ASSUME GatewayTyped, LinkInv, NEW u \in Linker, LinkMatches(u)
  PROVE  LinkInv'
<1>1. /\ UNCHANGED <<botRow, saves, reissues, bound, savedCode>> /\ linker' = [linker EXCEPT ![u] = botRow.code]
  BY DEF LinkMatches
<1>2. \A w \in Linker : linker'[w] < FreshCode
  BY <1>1, CodesTyped DEF LinkInv
<1> QED
  BY <1>1, <1>2 DEF LinkInv, FreshCode

LEMMA LinkStepBinds ==
  ASSUME GatewayTyped, LinkInv, NEW u \in Linker, Binds(u)
  PROVE  LinkInv'
<1>1. UNCHANGED <<saves, reissues, savedCode>> /\ linker[u] # 0 /\ linker' = [linker EXCEPT ![u] = 0]
  BY DEF Binds
<1>2. FreshCode' = FreshCode /\ \A w \in Linker : linker'[w] < FreshCode
  BY <1>1, CodesTyped DEF LinkInv, FreshCode
<1>3. CASE ~Bindable(u)
  BY <1>1, <1>2, <1>3 DEF LinkInv, Binds
<1>4. CASE Bindable(u)
  <2>1. PICK k : k = linker[u]
    OBVIOUS
  <2>2. /\ k = botRow.code /\ k \in Nat /\ k # 0 /\ k < FreshCode /\ k >= savedCode
        /\ bound' = bound \cup {<<k, u>>}
        /\ botRow'.code = 0 /\ botRow'.owner = u /\ \A p \in bound : p[1] # k
    BY <1>1, <1>4, <2>1, CodesTyped, RowFacts DEF Binds, Bindable, LinkInv
  <2>3. <<k, u>> \in (1..(FreshCode - 1)) \X Linker
    BY <2>2, CodesTyped
  <2>4. bound' \subseteq (1..(FreshCode' - 1)) \X Linker
    BY <1>2, <2>2, <2>3 DEF LinkInv
  <2>5. \A p, q \in bound' : p[1] = q[1] => p = q
    BY <2>2 DEF LinkInv
  <2>6. \E p \in bound' : p[1] >= savedCode' /\ p[2] = botRow'.owner
    <3>1. <<k, u>>[1] >= savedCode /\ <<k, u>>[2] = u /\ <<k, u>> \in bound'
      BY <2>2
    <3> QED
      BY <1>1, <2>2, <3>1
  <2>7. 0 < FreshCode /\ savedCode \in Nat /\ savedCode < FreshCode
    BY CodesTyped DEF LinkInv
  <2> QED
    BY <1>1, <1>2, <2>2, <2>4, <2>5, <2>6, <2>7 DEF LinkInv
<1> QED
  BY <1>3, <1>4

LEMMA LinkStepDeletes ==
  ASSUME GatewayTyped, LinkInv, Deleted
  PROVE  LinkInv'
<1>1. UNCHANGED <<linker, saves, reissues, bound, savedCode>> /\ botRow'.code = 0 /\ botRow'.owner = Nobody
  BY DEF Deleted, NoRow
<1>2. FreshCode' = FreshCode /\ 0 < FreshCode
  BY <1>1, CodesTyped DEF FreshCode
<1> QED
  BY <1>1, <1>2 DEF LinkInv

\* The wake pair and everything the manager does leave the link alone.
LEMMA LinkStepRests ==
  ASSUME GatewayTyped, UNCHANGED discordConfigVars
                       \/ WakeSet \/ Boots \/ Lists \/ Listens \/ ServiceDies \/ TriggerLost
                       \/ (\E t \in Reconciler : Delivered(t) \/ NotifyBot(t)) \/ (\E t \in Task : Steps(t))
  PROVE  LinkSame
<1>1. CASE UNCHANGED discordConfigVars \/ Boots \/ Lists \/ Listens \/ ServiceDies \/ TriggerLost
  BY <1>1 DEF discordConfigVars, Boots, Lists, Listens, ServiceDies, TriggerLost, LinkSame
<1>2. CASE WakeSet
  BY <1>2, RowFacts DEF WakeSet, WakeStored, LinkSame
<1>3. ASSUME NEW t \in Reconciler, Delivered(t) \/ NotifyBot(t) PROVE LinkSame
  BY <1>3, RowFacts DEF Delivered, NotifyBot, WakeStored, LinkSame
<1>4. ASSUME NEW t \in Task, Steps(t) PROVE LinkSame
  <2>1. CASE Registers(t)
    BY <2>1, RowFacts DEF Registers, LinkSame
  <2>2. CASE ~Registers(t)
    BY <1>4, <2>2
       DEF Steps, ReadsRow, Decides, Stopped, LogsIn, StartFails, discordConfigVars, LinkSame
  <2> QED
    BY <2>1, <2>2
<1> QED
  BY <1>1, <1>2, <1>3, <1>4

-----------------------------------------------------------------------------
(* What the service keeps *)

LEMMA GatewayStarts == GatewayInit => GatewayTyped /\ LinkInv
<1> SUFFICES ASSUME GatewayInit PROVE GatewayTyped /\ LinkInv
  OBVIOUS
<1>1. /\ 0 \in 0..MaxSaves /\ 0 \in 0..MaxEditsWake /\ 0 \in 0..(MaxSaves + MaxReissues) /\ 0 \in 0..MaxReissues
      /\ 0 \in 0..MaxDeletes /\ 0 \in 0..MaxGatewayFaults /\ 0 \in 0..MaxServiceDeaths
  BY DiscordConstants, GatewayConstants
<1>2. DiscordConfigTypeOK
  BY <1>1 DEF GatewayInit, DiscordConfigInit, NoRow, DiscordConfigTypeOK
<1>3. gateways = <<>> /\ gateways \in Seq(Gateway) /\ Len(gateways) = 0 /\ DOMAIN gateways = {}
  BY DEF GatewayInit
<1>4. /\ bot \in [gateway : 0..Len(gateways), token : 0..MaxSaves, wake : 0..MaxEditsWake]
      /\ task \in [Task -> [at : Place, token : 0..MaxSaves, wake : 0..MaxEditsWake,
                            version : 0..version, gateway : 0..Len(gateways)]]
  BY <1>1, <1>3 DEF GatewayInit, DiscordConfigInit, NoBot, Free, Place
<1>5. /\ acted \in 0..version /\ spoilt \in BOOLEAN /\ service \in {"down", "listing", "starting", "listening"}
      /\ faults \in 0..MaxGatewayFaults /\ deaths \in 0..MaxServiceDeaths
  <2>1. acted = 0 /\ version = 0 /\ spoilt = FALSE /\ service = "down" /\ faults = 0 /\ deaths = 0
    BY DEF GatewayInit, DiscordConfigInit
  <2>2. 0 \in 0..0
    OBVIOUS
  <2> QED
    BY <1>1, <2>1, <2>2
<1>6. GatewayTyped
  BY <1>2, <1>3, <1>4, <1>5 DEF GatewayTyped, GatewayTypeOK
<1>7. LinkInv
  BY DEF GatewayInit, DiscordConfigInit, NoRow, LinkInv, FreshCode
<1> QED
  BY <1>6, <1>7

LEMMA GatewayStepKeeps ==
  ASSUME GatewayTyped, LinkInv, [DiscordNext]_discordVars
  PROVE  GatewayTyped' /\ LinkInv'
<1>1. CASE UNCHANGED gatewayVars
  <2>1. UNCHANGED discordConfigVars /\ UNCHANGED <<service, gateways, bot, task, acted, spoilt, faults, deaths>>
    BY <1>1 DEF gatewayVars, managerVars
  <2>2. GatewayTyped'
    BY <2>1, ConfigKept, CountFacts, ManagerFacts, GatewayRetyped
  <2>3. LinkSame
    BY <2>1, LinkStepRests
  <2> QED
    BY <2>2, <2>3, LinkKept
<1>2. CASE DiscordConfigNext /\ UNCHANGED managerVars
  <2>1. GatewayTyped'
    BY <1>2, SettingsTyped
  <2>2. CASE WakeSet
    BY <2>1, <2>2, LinkStepRests, LinkKept
  <2>3. CASE ~WakeSet
    BY <1>2, <2>1, <2>3, LinkStepIssues, LinkStepMatches, LinkStepBinds, LinkStepDeletes
       DEF DiscordConfigNext
  <2> QED
    BY <2>2, <2>3
<1>3. CASE Boots \/ Lists \/ Listens \/ ServiceDies
  BY <1>3, ServiceTyped, LinkStepRests, LinkKept
<1>4. CASE TriggerLost \/ \E t \in Reconciler : Delivered(t) \/ NotifyBot(t)
  BY <1>4, TriggersTyped, LinkStepRests, LinkKept
<1>5. ASSUME NEW t \in Task, Steps(t) PROVE GatewayTyped' /\ LinkInv'
  BY <1>5, StepsTyped, LinkStepRests, LinkKept
<1>6. CASE GatewayNext
  <2>1. CASE (Saved \/ WakeSet \/ Deleted) /\ UNCHANGED managerVars
    BY <1>2, <2>1 DEF DiscordConfigNext
  <2> QED
    BY <1>3, <1>4, <1>5, <1>6, <2>1 DEF GatewayNext
<1>7. [DiscordNext]_discordVars =>
        UNCHANGED gatewayVars \/ (DiscordConfigNext /\ UNCHANGED managerVars) \/ GatewayNext
  BY DEF DiscordNext, BridgeMoves, RelayMoves, WireMoves, LinkMoves, GatewayMoves, discordVars
<1> QED
  BY <1>1, <1>2, <1>6, <1>7

\* The configuration row and the manager keep their types, and so does the link.
LEMMA GatewayHolds == DiscordSpec => [](GatewayTyped /\ LinkInv)
<1>1. DiscordInit => GatewayTyped /\ LinkInv
  BY GatewayStarts DEF DiscordInit
<1>2. GatewayTyped /\ LinkInv /\ [DiscordNext]_discordVars => (GatewayTyped /\ LinkInv)'
  BY GatewayStepKeeps
<1> QED
  BY <1>1, <1>2, PTL DEF DiscordSpec

\* The variables of the configuration row, of the link handshake, of the
\* gateways and of the tasks that reconcile them keep their types, through
\* faults, restarts and overlapping reconciles.
THEOREM GatewayTypeCorrect == DiscordSpec => []GatewayTypeOK
<1>1. GatewayTyped /\ LinkInv => GatewayTypeOK
  BY DEF GatewayTyped
<1> QED
  BY <1>1, GatewayHolds, PTL

\* A code binds one owner, though two users send it at once, and the owner was
\* bound by a code of the last save or a later one, although the settings may be
\* saved, deleted or issued a new code in the middle of a handshake (upsert,
\* bindOwner).
THEOREM LinkOnceHolds == DiscordSpec => []LinkOnce
<1>1. GatewayTyped /\ LinkInv => LinkOnce
  BY DEF LinkInv, LinkOnce
<1> QED
  BY <1>1, GatewayHolds, PTL

-----------------------------------------------------------------------------
(* GatewayManager: what a reconcile leaves behind *)

\* H tells what the row held at each version.  A token that was replaced or
\* deleted does not come back.
History(H) ==
  /\ H \in [0..version -> [token : Nat, wake : Nat]]
  /\ H[0].token = 0 /\ H[0].wake = 0
  /\ H[version].token = botRow.token /\ H[version].wake = botRow.wake
  /\ \A v \in 0..version : H[v].token <= saves /\ (H[v].token = 0 => H[v].wake = 0)
  /\ \A i, j, k \in 0..version :
       (i <= j /\ j <= k /\ H[i].token = H[k].token /\ H[i].token # 0) => H[j].token = H[i].token

\* A task goes on with the row at the version it read.
ReadsOK(H) ==
  \A t \in Task : task[t].at \in {"read", "stopping"} =>
    task[t].token = H[task[t].version].token /\ task[t].wake = H[task[t].version].wake

\* A service that has yet to read the row runs nothing.
Dormant ==
  service \in {"down", "listing"} =>
    /\ \A t \in Task : task[t].at = "idle"
    /\ \A g \in DOMAIN gateways : gateways[g].state = "stopped"
    /\ bot = NoBot /\ acted = 0 /\ ~spoilt

RowGone == botRow.token = 0 => botRow.bot = 0

\* Whatever changed last is acted on, or will be.
Due ==
  \/ acted = version \/ owed > 0 \/ service \in {"down", "listing"}
  \/ \E t \in Task : task[t].at = "reading" \/ (task[t].at = "read" /\ task[t].version = version)

OnlyBot == \A g \in DOMAIN gateways : gateways[g].state # "stopped" => g = bot.gateway

\* The record is of a connection on the token of a version acted on.
BotOK(H) ==
  /\ bot.gateway = 0 => bot = NoBot
  /\ bot.gateway # 0 =>
       /\ bot.token = gateways[bot.gateway].token /\ bot.token # 0
       /\ \E v \in 0..acted : bot.token = H[v].token

\* A task that stops a connection has cut it, and wants another token.
StopsOK ==
  \A t \in Task : task[t].at = "stopping" =>
    /\ task[t].gateway # 0 /\ gateways[task[t].gateway].state = "stopped"
    /\ task[t].version <= acted
    /\ task[t].gateway = bot.gateway => task[t].token # bot.token

StartsOK ==
  \A t \in Task : task[t].at \in {"starting", "registering"} =>
    task[t].gateway # 0 /\ task[t].token = gateways[task[t].gateway].token

\* A task is about to make the record what the latest version asks for.
Replaces(t) == task[t].at = "stopping" /\ task[t].version = acted

BotCut ==
  (bot.gateway # 0 /\ gateways[bot.gateway].state = "stopped") =>
    \E t \in Task : Replaces(t) /\ task[t].gateway = bot.gateway

BotCurrent(H) ==
  (bot.token = H[acted].token /\ bot.wake = H[acted].wake) \/ \E t \in Task : Replaces(t)

\* Whoever started the connection is at it until it is up and its id is stored.
LogsInNext ==
  (bot.gateway # 0 /\ gateways[bot.gateway].state = "starting") =>
    \E t \in Task : task[t].at = "starting" /\ task[t].gateway = bot.gateway

IdStored ==
  (bot.gateway # 0 /\ gateways[bot.gateway].state = "up" /\ bot.token = botRow.token) =>
    \/ botRow.bot = botRow.token
    \/ \E t \in Task : task[t].at = "registering" /\ task[t].gateway = bot.gateway

BotFits(H) ==
  OnlyBot /\ BotOK(H) /\ StopsOK /\ StartsOK /\ BotCut /\ BotCurrent(H) /\ LogsInNext /\ IdStored

\* The invariant for a history that is given.
ManagerTells(H) == History(H) /\ ReadsOK(H) /\ (~spoilt => Due /\ BotFits(H))

ManagerInv == Dormant /\ RowGone /\ \E H : ManagerTells(H)

\* What the types say of a task, of the bot and of the counters.
LEMMA TaskFacts ==
  ASSUME GatewayTyped
  PROVE  /\ version \in Nat /\ acted \in Nat /\ acted <= version /\ saves \in Nat /\ owed \in Nat
         /\ bot.gateway \in 0..Len(gateways) /\ bot.token \in Nat /\ bot.wake \in Nat
         /\ \A t \in Task : /\ task[t].version \in Nat /\ task[t].version <= version
                            /\ task[t].token \in Nat /\ task[t].wake \in Nat
                            /\ task[t].gateway \in 0..Len(gateways) /\ task[t].at \in Place
         /\ botRow.token \in Nat /\ botRow.wake \in Nat /\ botRow.bot \in Nat
         /\ Len(gateways) \in Nat /\ DOMAIN gateways = 1..Len(gateways)
         /\ bot.gateway # 0 => bot.gateway \in DOMAIN gateways
         /\ \A t \in Task : task[t].gateway # 0 => task[t].gateway \in DOMAIN gateways
<1>1. /\ version \in Nat /\ acted \in 0..version /\ saves \in 0..MaxSaves /\ owed \in Nat
      /\ MaxSaves \in Nat /\ MaxEditsWake \in Nat
  BY CountFacts
<1>2. bot \in [gateway : 0..Len(gateways), token : 0..MaxSaves, wake : 0..MaxEditsWake]
      /\ Len(gateways) \in Nat /\ DOMAIN gateways = 1..Len(gateways)
  BY ManagerFacts
<1>3. \A t \in Task : task[t] \in [at : Place, token : 0..MaxSaves, wake : 0..MaxEditsWake,
                                   version : 0..version, gateway : 0..Len(gateways)]
  BY ManagerFacts
<1>4. \A t \in Task : /\ task[t].version \in 0..version /\ task[t].token \in 0..MaxSaves
                      /\ task[t].wake \in 0..MaxEditsWake
                      /\ task[t].gateway \in 0..Len(gateways) /\ task[t].at \in Place
  BY <1>3
<1>5. botRow.token \in 0..MaxSaves /\ botRow.wake \in 0..MaxEditsWake /\ botRow.bot \in 0..MaxSaves
  BY RowFacts
<1>6. bot.gateway \in 0..Len(gateways) /\ bot.token \in 0..MaxSaves /\ bot.wake \in 0..MaxEditsWake
  BY <1>2
<1> QED
  BY SMTT(30), <1>1, <1>2, <1>4, <1>5, <1>6

\* A new version of the row continues its history.
LEMMA HistoryGrows ==
  ASSUME GatewayTyped, NEW H, History(H), version' = version + 1,
         saves' \in Nat, saves' >= saves,
         botRow'.token \in Nat, botRow'.wake \in Nat, botRow'.token <= saves',
         botRow'.token = 0 => botRow'.wake = 0,
         botRow'.token \in {0, botRow.token} \/ botRow'.token > saves
  PROVE  \E G : History(G)' /\ \A v \in 0..version : G[v] = H[v]
<1> DEFINE row == [token |-> botRow'.token, wake |-> botRow'.wake]
<1>0. PICK G : G = [v \in 0..version' |-> IF v = version' THEN row ELSE H[v]]
  OBVIOUS
<1>1. version \in Nat /\ saves \in Nat /\ saves' \in Nat /\ botRow'.token \in Nat /\ botRow'.wake \in Nat
      /\ version' = version + 1
  BY TaskFacts
<1>2. row \in [token : Nat, wake : Nat] /\ row.token = botRow'.token /\ row.wake = botRow'.wake
  BY <1>1
<1> HIDE DEF row
<1>3. /\ \A v \in 0..version : H[v] \in [token : Nat, wake : Nat]
      /\ H[0].token = 0 /\ H[0].wake = 0
      /\ H[version].token = botRow.token
      /\ \A v \in 0..version : H[v].token <= saves /\ (H[v].token = 0 => H[v].wake = 0)
      /\ \A i, j, k \in 0..version :
           (i <= j /\ j <= k /\ H[i].token = H[k].token /\ H[i].token # 0) => H[j].token = H[i].token
  BY DEF History
<1>4. \A v \in 0..version : v \in 0..version' /\ v # version' /\ G[v] = H[v]
  BY <1>0, <1>1
<1>5. G[version'] = row /\ version' \in 0..version'
  BY <1>0, <1>1
<1>6. \A v \in 0..version' : v \in 0..version \/ v = version'
  BY <1>1
<1>7. G \in [0..version' -> [token : Nat, wake : Nat]]
  BY <1>0, <1>2, <1>3, <1>6
<1>8. G[0].token = 0 /\ G[0].wake = 0
  BY <1>1, <1>3, <1>4
<1>9. \A v \in 0..version' : G[v].token <= saves' /\ (G[v].token = 0 => G[v].wake = 0)
  <2>1. \A v \in 0..version : H[v].token \in Nat /\ H[v].token <= saves'
    BY <1>1, <1>3
  <2>2. G[version'].token <= saves' /\ (G[version'].token = 0 => G[version'].wake = 0)
    BY <1>2, <1>5
  <2> QED
    BY <1>3, <1>4, <1>6, <2>1, <2>2
<1>10. ASSUME NEW i \in 0..version', NEW j \in 0..version', NEW k \in 0..version',
              i <= j, j <= k, G[i].token = G[k].token, G[i].token # 0
       PROVE  G[j].token = G[i].token
  <2>1. CASE k \in 0..version
    <3>1. i \in 0..version /\ j \in 0..version
      BY <1>1, <1>10, <2>1
    <3>2. G[i] = H[i] /\ G[j] = H[j] /\ G[k] = H[k]
      BY <1>4, <2>1, <3>1
    <3> QED
      BY <1>3, <1>10, <2>1, <3>1, <3>2
  <2>2. CASE k = version' /\ i = version'
    <3>1. j = version'
      BY <1>1, <1>10, <2>2
    <3> QED
      BY <2>2, <3>1
  <2>3. CASE k = version' /\ i # version'
    <3>1. i \in 0..version /\ G[i] = H[i] /\ H[i].token \in Nat /\ H[i].token <= saves
      BY <1>3, <1>4, <1>6, <2>3
    <3>2. botRow'.token = H[i].token /\ botRow'.token = botRow.token
      BY <1>1, <1>2, <1>5, <1>10, <2>3, <3>1
    <3>3. H[version].token = H[i].token /\ version \in 0..version
      BY <1>1, <1>3, <3>2
    <3>4. CASE j = version'
      BY <1>2, <1>5, <3>1, <3>2, <3>4
    <3>5. CASE j # version'
      <4>1. j \in 0..version /\ j <= version /\ G[j] = H[j]
        BY <1>1, <1>4, <1>6, <3>5
      <4> QED
        BY <1>3, <1>10, <3>1, <3>3, <4>1
    <3> QED
      BY <3>4, <3>5
  <2> QED
    BY <1>6, <2>1, <2>2, <2>3
<1>11. History(G)'
  <2>1. \A i, j, k \in 0..version' :
           (i <= j /\ j <= k /\ G[i].token = G[k].token /\ G[i].token # 0) => G[j].token = G[i].token
    BY <1>10
  <2>2. G[version'].token = botRow'.token /\ G[version'].wake = botRow'.wake
    BY <1>2, <1>5
  <2> QED
    BY <1>7, <1>8, <1>9, <2>1, <2>2 DEF History
<1> QED
  BY <1>4, <1>11

\* A step that leaves the connections, the record and the tasks at work on them
\* alone.
LEMMA BotRests ==
  ASSUME GatewayTyped, NEW H, NEW G, BotFits(H), UNCHANGED <<gateways, bot, acted>>,
         \A v \in 0..acted : G[v] = H[v],
         \A t \in Task : (task[t].at \in {"stopping", "starting", "registering"} \/
                          task'[t].at \in {"stopping", "starting", "registering"})
                         => task'[t] = task[t],
         bot.gateway # 0 /\ bot.token = botRow'.token =>
           botRow'.token = botRow.token /\ botRow'.bot = botRow.bot
  PROVE  BotFits(G)'
<1>1. gateways' = gateways /\ bot' = bot /\ acted' = acted
  OBVIOUS
<1>2. acted \in 0..acted
  BY TaskFacts
<1>3. OnlyBot' /\ LogsInNext' /\ IdStored'
  BY <1>1 DEF BotFits, OnlyBot, LogsInNext, IdStored
<1>4. BotOK(G)' /\ BotCurrent(G)' /\ BotCut'
  BY <1>1, <1>2 DEF BotFits, BotOK, BotCurrent, BotCut, Replaces
<1>5. StopsOK' /\ StartsOK'
  BY <1>1 DEF BotFits, StopsOK, StartsOK
<1> QED
  BY <1>3, <1>4, <1>5 DEF BotFits

\* A service at rest fits its row.
LEMMA DormantFits ==
  ASSUME NEW H, History(H), bot = NoBot, acted = 0, \A t \in Task : task[t].at = "idle",
         \A g \in DOMAIN gateways : gateways[g].state = "stopped"
  PROVE  BotFits(H)
BY DEF History, BotFits, OnlyBot, BotOK, StopsOK, StartsOK, BotCut, BotCurrent, LogsInNext,
       IdStored,
       NoBot

\* A write of the row that the gateway depends on.
LEMMA RowWritten ==
  ASSUME GatewayTyped, ManagerInv, UNCHANGED <<gateways, bot, acted, service, spoilt>>,
         version' = version + 1, saves' \in Nat, saves' >= saves,
         botRow'.token \in Nat, botRow'.wake \in Nat, botRow'.token <= saves',
         botRow'.token = 0 => (botRow'.wake = 0 /\ botRow'.bot = 0),
         botRow'.token \in {0, botRow.token} \/ botRow'.token > saves,
         botRow'.token = botRow.token => botRow'.bot = botRow.bot,
         \A t \in Task : task'[t] = task[t] \/ (task[t].at = "idle" /\ task'[t].at = "reading"),
         service \in {"down", "listing"} => task' = task,
         owed' > 0 \/ \E t \in Task : task'[t].at = "reading"
  PROVE  ManagerInv'
<1>1. PICK H : ManagerTells(H)
  BY DEF ManagerInv
<1>2. PICK G : History(G)' /\ \A v \in 0..version : G[v] = H[v]
  <2>1. History(H)
    BY <1>1 DEF ManagerTells
  <2> QED
    BY <2>1, HistoryGrows
<1>3. ReadsOK(G)'
  <2> SUFFICES ASSUME NEW t \in Task, task'[t].at \in {"read", "stopping"}
               PROVE  /\ task'[t].token = G[task'[t].version].token
                      /\ task'[t].wake = G[task'[t].version].wake
    BY DEF ReadsOK
  <2>1. task'[t] = task[t]
    OBVIOUS
  <2>2. task[t].version \in 0..version
    <3>1. task[t].version \in Nat /\ task[t].version <= version /\ version \in Nat
      BY TaskFacts
    <3> QED
      BY <3>1
  <2> QED
    BY <1>1, <1>2, <2>1, <2>2 DEF ManagerTells, ReadsOK
<1>4. ~spoilt' => BotFits(G)'
  <2> SUFFICES ASSUME ~spoilt PROVE BotFits(G)'
    OBVIOUS
  <2>1. BotFits(H)
    BY <1>1 DEF ManagerTells
  <2>2. \A v \in 0..acted : G[v] = H[v]
    BY <1>2, TaskFacts
  <2>3. \A t \in Task : (task[t].at \in {"stopping", "starting", "registering"} \/
                         task'[t].at \in {"stopping", "starting", "registering"})
                        => task'[t] = task[t]
    OBVIOUS
  <2>4. bot.gateway # 0 /\ bot.token = botRow'.token =>
          botRow'.token = botRow.token /\ botRow'.bot = botRow.bot
    <3> SUFFICES ASSUME bot.gateway # 0, bot.token = botRow'.token PROVE botRow'.token = botRow.token
      OBVIOUS
    <3>1. PICK v \in 0..acted : bot.token = H[v].token
      BY <2>1 DEF BotFits, BotOK
    <3>2. v \in 0..version
      BY TaskFacts
    <3>3. H[v].token <= saves /\ bot.token # 0
      BY <1>1, <2>1, <3>2 DEF ManagerTells, History, BotFits, BotOK
    <3> QED
      BY <3>1, <3>3, TaskFacts
  <2> QED
    BY <2>1, <2>2, <2>3, <2>4, BotRests
<1>5. Due'
  BY DEF Due
<1>6. Dormant' /\ RowGone'
  BY DEF ManagerInv, Dormant, RowGone
<1> QED
  BY <1>2, <1>3, <1>4, <1>5, <1>6 DEF ManagerInv, ManagerTells

LEMMA WritesFit ==
  ASSUME GatewayTyped, ManagerInv, (Saved \/ WakeSet \/ Deleted) /\ UNCHANGED managerVars
  PROVE  ManagerInv'
<1>1. UNCHANGED <<service, gateways, bot, task, acted, spoilt>>
  BY DEF managerVars
<1>2. /\ version \in Nat /\ saves \in Nat /\ owed \in Nat /\ wakeEdits \in Nat
      /\ botRow \in [token : 0..MaxSaves, wake : 0..MaxEditsWake, code : 0..(MaxSaves + MaxReissues),
                     owner : Linker \cup {Nobody}, bot : 0..MaxSaves]
      /\ botRow.token \in Nat /\ botRow.wake \in Nat
  BY CountFacts, RowFacts, TaskFacts
<1>3. botRow.token <= saves /\ (botRow.token = 0 => botRow.wake = 0 /\ botRow.bot = 0)
  <2>1. PICK H : History(H)
    BY DEF ManagerInv, ManagerTells
  <2>2. version \in 0..version
    BY <1>2
  <2> QED
    BY <2>1, <2>2 DEF History, ManagerInv, RowGone
<1>4. CASE Saved
  <2>1. /\ version' = version + 1 /\ owed' = owed + 1 /\ saves' = saves + 1
        /\ botRow'.token = saves + 1 /\ botRow'.wake = botRow.wake
    BY <1>2, <1>4 DEF Saved, Triggers
  <2> QED
    BY <1>1, <1>2, <1>3, <2>1, RowWritten
<1>5. CASE WakeSet
  <2>1. /\ version' = version + 1 /\ owed' = owed + 1 /\ saves' = saves
        /\ botRow'.token = botRow.token /\ botRow.token # 0 /\ botRow'.wake = wakeEdits + 1
        /\ botRow'.bot = botRow.bot
    BY <1>2, <1>5 DEF WakeSet, WakeStored, Triggers
  <2> QED
    BY <1>1, <1>2, <1>3, <2>1, RowWritten
<1>6. CASE Deleted
  <2>1. /\ version' = version + 1 /\ owed' = owed + 1 /\ saves' = saves
        /\ botRow'.token = 0 /\ botRow.token # 0 /\ botRow'.wake = 0 /\ botRow'.bot = 0
    BY <1>6 DEF Deleted, NoRow, Triggers
  <2> QED
    BY <1>1, <1>2, <1>3, <2>1, RowWritten
<1> QED
  BY <1>4, <1>5, <1>6

\* What a task is at, after a step of its own.
LEMMA TaskMoves ==
  ASSUME GatewayTyped, NEW t \in Task, NEW r, task' = [task EXCEPT ![t] = r]
  PROVE  task'[t] = r /\ \A u \in Task : u # t => task'[u] = task[u]
<1>1. task \in [Task -> TaskRow]
  BY ManagerFacts DEF TaskRow
<1> QED
  BY <1>1

LEMMA TaskGoes ==
  ASSUME GatewayTyped, NEW t \in Task, NEW at, TaskAt(t, at)
  PROVE  /\ task'[t] = [task[t] EXCEPT !.at = at]
         /\ task'[t].at = at /\ task'[t].token = task[t].token /\ task'[t].wake = task[t].wake
         /\ task'[t].version = task[t].version /\ task'[t].gateway = task[t].gateway
         /\ \A u \in Task : u # t => task'[u] = task[u]
<1>1. task \in [Task -> TaskRow]
  BY ManagerFacts DEF TaskRow
<1>2. task[t] \in TaskRow
  BY <1>1
<1> QED
  BY <1>1, <1>2 DEF TaskAt, TaskRow

LEMMA NotifyFits ==
  ASSUME GatewayTyped, ManagerInv, NEW t \in Reconciler, NotifyBot(t)
  PROVE  ManagerInv'
<1>1. /\ version \in Nat /\ saves \in Nat /\ owed \in Nat /\ wakeEdits \in Nat
      /\ botRow \in [token : 0..MaxSaves, wake : 0..MaxEditsWake, code : 0..(MaxSaves + MaxReissues),
                     owner : Linker \cup {Nobody}, bot : 0..MaxSaves]
      /\ botRow.token \in Nat /\ botRow.wake \in Nat
  BY CountFacts, RowFacts, TaskFacts
<1>2. botRow.token <= saves
  <2>1. PICK H : History(H)
    BY DEF ManagerInv, ManagerTells
  <2>2. version \in 0..version
    BY <1>1
  <2> QED
    BY <2>1, <2>2 DEF History
<1>3. service \notin {"down", "listing"}
  BY DEF NotifyBot, ManagerInv, Dormant
<1>4. /\ UNCHANGED <<gateways, bot, acted, service, spoilt>>
      /\ version' = version + 1 /\ saves' = saves
      /\ botRow'.token = botRow.token /\ botRow.token # 0 /\ botRow'.wake = wakeEdits + 1
      /\ botRow'.bot = botRow.bot
      /\ task[t].at = "idle" /\ TaskAt(t, "reading")
  BY <1>1 DEF NotifyBot, WakeStored
<1>5. t \in Task
  BY DEF Task
<1>6. task'[t].at = "reading" /\ \A u \in Task : u # t => task'[u] = task[u]
  BY <1>4, <1>5, TaskGoes
<1> QED
  BY <1>1, <1>2, <1>3, <1>4, <1>5, <1>6, RowWritten

\* A step that leaves the row and the bot alone, and no task at work on it.
LEMMA QuietFits ==
  ASSUME GatewayTyped, NEW H, ManagerTells(H), UNCHANGED <<version, saves, gateways, bot, acted>>,
         botRow'.token = botRow.token, botRow'.wake = botRow.wake, botRow'.bot = botRow.bot,
         \A t \in Task : (task[t].at \in {"stopping", "starting", "registering"} \/
                          task'[t].at \in {"stopping", "starting", "registering"})
                         => task'[t] = task[t],
         ReadsOK(H)', ~spoilt' => ~spoilt /\ Due'
  PROVE  ManagerTells(H)'
<1>1. History(H)'
  BY DEF ManagerTells, History
<1>2. ASSUME ~spoilt' PROVE BotFits(H)'
  BY <1>2, BotRests DEF ManagerTells
<1> QED
  BY <1>1, <1>2 DEF ManagerTells

\* The link handshake touches neither, and a step that does nothing either.
LEMMA LinksFit ==
  ASSUME GatewayTyped, ManagerInv,
         \/ (Relinked \/ \E u \in Linker : LinkMatches(u) \/ Binds(u)) /\ UNCHANGED managerVars
         \/ UNCHANGED gatewayVars
  PROVE  ManagerInv'
<1>1. /\ UNCHANGED <<version, saves, owed, service, gateways, bot, task, acted, spoilt>>
      /\ botRow'.token = botRow.token /\ botRow'.wake = botRow.wake /\ botRow'.bot = botRow.bot
  <2>1. CASE Relinked /\ UNCHANGED managerVars
    BY <2>1, RowFacts DEF Relinked, managerVars
  <2>2. ASSUME NEW u \in Linker, LinkMatches(u), UNCHANGED managerVars
        PROVE  /\ UNCHANGED <<version, saves, owed, service, gateways, bot, task, acted, spoilt>>
               /\ botRow'.token = botRow.token /\ botRow'.wake = botRow.wake
               /\ botRow'.bot = botRow.bot
    BY <2>2 DEF LinkMatches, managerVars
  <2>3. ASSUME NEW u \in Linker, Binds(u), UNCHANGED managerVars
        PROVE  /\ UNCHANGED <<version, saves, owed, service, gateways, bot, task, acted, spoilt>>
               /\ botRow'.token = botRow.token /\ botRow'.wake = botRow.wake
               /\ botRow'.bot = botRow.bot
    BY <2>3, RowFacts DEF Binds, managerVars
  <2>4. CASE UNCHANGED gatewayVars
    BY <2>4 DEF gatewayVars, discordConfigVars, managerVars
  <2> QED
    BY <2>1, <2>2, <2>3, <2>4
<1>2. PICK H : ManagerTells(H)
  BY DEF ManagerInv
<1>3. ReadsOK(H)' /\ Due' = Due /\ Dormant' /\ RowGone'
  BY <1>1, <1>2 DEF ManagerTells, ReadsOK, Due, ManagerInv, Dormant, RowGone
<1>4. ManagerTells(H)'
  <2>1. ~spoilt' => ~spoilt /\ Due'
    BY <1>1, <1>2, <1>3 DEF ManagerTells
  <2> QED
    BY <1>1, <1>2, <1>3, <2>1, QuietFits
<1> QED
  BY <1>3, <1>4 DEF ManagerInv

LEMMA ServiceFits ==
  ASSUME GatewayTyped, ManagerInv, Boots \/ Lists \/ Listens \/ ServiceDies
  PROVE  ManagerInv'
<1>1. PICK H : ManagerTells(H)
  BY DEF ManagerInv
<1>2. CASE Boots \/ Listens
  <2>1. /\ UNCHANGED <<discordConfigVars, gateways, bot, task, acted, spoilt>>
        /\ service' \in {"down", "listing"} <=> service \in {"down", "listing"}
    BY <1>2 DEF Boots, Listens
  <2>2. UNCHANGED <<botRow, version, saves, owed>>
    BY <2>1 DEF discordConfigVars
  <2>3. ReadsOK(H)' /\ (Due <=> Due') /\ Dormant' /\ RowGone'
    BY <1>1, <2>1, <2>2 DEF ManagerTells, ReadsOK, Due, ManagerInv, Dormant, RowGone
  <2>4. ManagerTells(H)'
    <3>1. ~spoilt' => ~spoilt /\ Due'
      BY <1>1, <2>1, <2>3 DEF ManagerTells
    <3> QED
      BY <1>1, <2>1, <2>2, <2>3, <3>1, QuietFits
  <2> QED
    BY <2>3, <2>4 DEF ManagerInv
<1>3. CASE Lists
  <2>1. /\ UNCHANGED <<discordConfigVars, gateways, bot, acted>> /\ service' = "starting"
        /\ \A t \in Task : task[t].at = "idle"
    BY <1>3 DEF Lists, ManagerInv, Dormant
  <2>2. UNCHANGED <<botRow, version, saves, owed>>
    BY <2>1 DEF discordConfigVars
  <2>3. Startup \in Task
    BY DEF Task
  <2>4. \/ task' = [task EXCEPT ![Startup] = ReadOf("read")] /\ spoilt' = spoilt
        \/ task' = task /\ spoilt' = TRUE
    BY <1>3 DEF Lists, GatewayFault
  <2>5. /\ ReadOf("read").at = "read" /\ ReadOf("read").version = version
        /\ ReadOf("read").token = botRow.token /\ ReadOf("read").wake = botRow.wake
    BY DEF ReadOf, Free
  <2>6. \A t \in Task : task'[t] = task[t] \/ (t = Startup /\ task'[t] = ReadOf("read"))
    BY <2>3, <2>4, TaskMoves
  <2>7. ReadsOK(H)'
    BY <1>1, <2>1, <2>2, <2>5, <2>6 DEF ManagerTells, ReadsOK, History
  <2>8. spoilt' \/ task'[Startup] = ReadOf("read")
    BY <2>3, <2>4, TaskMoves
  <2>9. ~spoilt' => ~spoilt /\ Due'
    <3>1. ~spoilt' => ~spoilt
      BY <2>4, ManagerFacts
    <3>2. ~spoilt' => Due'
      BY <2>2, <2>3, <2>5, <2>8 DEF Due
    <3> QED
      BY <3>1, <3>2
  <2>10. \A t \in Task : (task[t].at \in {"stopping", "starting", "registering"} \/
                          task'[t].at \in {"stopping", "starting", "registering"})
                         => task'[t] = task[t]
    BY <2>1, <2>5, <2>6
  <2>11. ManagerTells(H)'
    BY <1>1, <2>1, <2>2, <2>7, <2>9, <2>10, QuietFits
  <2>12. Dormant' /\ RowGone'
    BY <2>1, <2>2 DEF ManagerInv, Dormant, RowGone
  <2> QED
    BY <2>11, <2>12 DEF ManagerInv
<1>4. CASE ServiceDies
  <2>1. /\ UNCHANGED discordConfigVars /\ service' = "down" /\ bot' = NoBot /\ acted' = 0
        /\ spoilt' = FALSE /\ task' = [t \in Task |-> Free]
        /\ gateways' = [g \in DOMAIN gateways |-> [gateways[g] EXCEPT !.state = "stopped"]]
    BY <1>4 DEF ServiceDies
  <2>2. UNCHANGED <<botRow, version, saves, owed>>
    BY <2>1 DEF discordConfigVars
  <2>3. \A g \in DOMAIN gateways' : gateways'[g].state = "stopped"
    <3>1. DOMAIN gateways' = DOMAIN gateways
      BY <2>1
    <3>2. \A g \in DOMAIN gateways : gateways[g] \in Gateway
      BY ManagerFacts
    <3> QED
      BY <2>1, <3>1, <3>2 DEF Gateway
  <2>4. \A t \in Task : task'[t].at = "idle"
    BY <2>1 DEF Free
  <2>5. Dormant' /\ RowGone' /\ Due' /\ ReadsOK(H)'
    BY <2>1, <2>2, <2>3, <2>4 DEF ManagerInv, Dormant, RowGone, Due, ReadsOK
  <2>6. History(H)'
    BY <1>1, <2>2 DEF ManagerTells, History
  <2>7. BotFits(H)'
    BY <2>1, <2>3, <2>4, <2>6
       DEF History, BotFits, OnlyBot, BotOK, StopsOK, StartsOK, BotCut, BotCurrent, LogsInNext,
           IdStored, NoBot
  <2> QED
    BY <2>5, <2>6, <2>7 DEF ManagerInv, ManagerTells
<1> QED
  BY <1>2, <1>3, <1>4

LEMMA TriggersFit ==
  ASSUME GatewayTyped, ManagerInv, TriggerLost \/ \E t \in Reconciler : Delivered(t)
  PROVE  ManagerInv'
<1>1. PICK H : ManagerTells(H)
  BY DEF ManagerInv
<1>2. /\ UNCHANGED <<botRow, version, saves, service, gateways, bot, acted>>
      /\ owed \in Nat
  BY TaskFacts DEF TriggerLost, Delivered
<1>3. Dormant' /\ RowGone'
  <2>1. CASE TriggerLost
    <3>1. task' = task /\ (service \in {"down", "listing"} => spoilt' = spoilt)
      BY <2>1 DEF TriggerLost
    <3> QED
      BY <1>2, <3>1 DEF ManagerInv, Dormant, RowGone
  <2>2. CASE service = "listening"
    BY <1>2, <2>2 DEF ManagerInv, Dormant, RowGone
  <2> QED
    BY <2>1, <2>2 DEF Delivered
<1>4. CASE TriggerLost
  <2>1. task' = task
    BY <1>4 DEF TriggerLost
  <2>2. ReadsOK(H)'
    BY <1>1, <1>2, <2>1 DEF ManagerTells, ReadsOK
  <2>3. ~spoilt' => ~spoilt /\ service \in {"down", "listing"}
    BY <1>4, ManagerFacts DEF TriggerLost, GatewayFault
  <2>4. ~spoilt' => ~spoilt /\ Due'
    BY <1>2, <2>3 DEF Due
  <2>5. ManagerTells(H)'
    BY <1>1, <1>2, <2>1, <2>2, <2>4, QuietFits
  <2> QED
    BY <1>3, <2>5 DEF ManagerInv
<1>5. ASSUME NEW t \in Reconciler, Delivered(t) PROVE ManagerInv'
  <2>1. t \in Task
    BY DEF Task
  <2>2. /\ task[t].at = "idle" /\ TaskAt(t, "reading") /\ spoilt' = spoilt
    BY <1>5 DEF Delivered
  <2>3. task'[t].at = "reading" /\ \A u \in Task : u # t => task'[u] = task[u]
    BY <2>1, <2>2, TaskGoes
  <2>4. ReadsOK(H)'
    BY <1>1, <1>2, <2>3 DEF ManagerTells, ReadsOK
  <2>5. Due'
    BY <2>1, <2>3 DEF Due
  <2>6. \A u \in Task : (task[u].at \in {"stopping", "starting", "registering"} \/
                         task'[u].at \in {"stopping", "starting", "registering"})
                        => task'[u] = task[u]
    BY <2>2, <2>3
  <2>7. ManagerTells(H)'
    BY <1>1, <1>2, <2>2, <2>4, <2>5, <2>6, QuietFits
  <2> QED
    BY <1>3, <2>7 DEF ManagerInv
<1> QED
  BY <1>4, <1>5

\* A task that is under way keeps the service from being dormant.
LEMMA BusyAwake ==
  ASSUME ManagerInv, NEW t \in Task, task[t].at # "idle"
  PROVE  service \notin {"down", "listing"}
BY DEF ManagerInv, Dormant

LEMMA ReadsFit ==
  ASSUME GatewayTyped, ManagerInv, NEW t \in Task, ReadsRow(t)
  PROVE  ManagerInv'
<1>1. PICK H : ManagerTells(H)
  BY DEF ManagerInv
<1>2. /\ UNCHANGED <<discordConfigVars, service, gateways, bot, acted>> /\ task[t].at = "reading"
  BY DEF ReadsRow
<1>3. UNCHANGED <<botRow, version, saves, owed>>
  BY <1>2 DEF discordConfigVars
<1>4. PICK r : /\ task' = [task EXCEPT ![t] = r]
               /\ (r = ReadOf("read") /\ spoilt' = spoilt) \/ (r = Free /\ spoilt' = TRUE)
  BY DEF ReadsRow, GatewayFault, Ends
<1>5. task'[t] = r /\ \A u \in Task : u # t => task'[u] = task[u]
  BY <1>4, TaskMoves
<1>6. /\ ReadOf("read").at = "read" /\ ReadOf("read").version = version
      /\ ReadOf("read").token = botRow.token /\ ReadOf("read").wake = botRow.wake
      /\ Free.at = "idle"
  BY DEF ReadOf, Free
<1>7. ReadsOK(H)'
  BY <1>1, <1>3, <1>4, <1>5, <1>6 DEF ManagerTells, ReadsOK, History
<1>8. ~spoilt' => ~spoilt /\ Due'
  <2>1. ~spoilt' => ~spoilt /\ r = ReadOf("read")
    BY <1>4, ManagerFacts
  <2>2. r = ReadOf("read") => Due'
    BY <1>3, <1>5, <1>6 DEF Due
  <2> QED
    BY <2>1, <2>2
<1>9. \A u \in Task : (task[u].at \in {"stopping", "starting", "registering"} \/
                       task'[u].at \in {"stopping", "starting", "registering"})
                      => task'[u] = task[u]
  <2>1. task'[t].at \in {"read", "idle"}
    BY <1>4, <1>5, <1>6
  <2> QED
    BY <1>2, <1>5, <2>1
<1>10. ManagerTells(H)'
  BY <1>1, <1>2, <1>3, <1>7, <1>8, <1>9, QuietFits
<1>11. Dormant' /\ RowGone'
  <2>1. service' \notin {"down", "listing"}
    BY <1>2, BusyAwake
  <2> QED
    BY <1>3, <2>1 DEF ManagerInv, Dormant, RowGone
<1> QED
  BY <1>10, <1>11 DEF ManagerInv

\* A connection changes its state and nothing else.
LEMMA GatewaySet ==
  ASSUME GatewayTyped, NEW g \in DOMAIN gateways, NEW s \in {"up", "stopped"},
         gateways' = [gateways EXCEPT ![g].state = s]
  PROVE  /\ DOMAIN gateways' = DOMAIN gateways
         /\ \A k \in DOMAIN gateways : gateways'[k].token = gateways[k].token
         /\ \A k \in DOMAIN gateways : k # g => gateways'[k] = gateways[k]
         /\ gateways'[g].state = s
<1>1. \A k \in DOMAIN gateways : gateways[k] \in Gateway
  BY ManagerFacts
<1> QED
  BY <1>1 DEF Gateway

\* Where a task's step leaves it, what the tasks read is what they had read.
LEMMA ReadsStay ==
  ASSUME NEW H, NEW t \in Task, ReadsOK(H), \A u \in Task : u # t => task'[u] = task[u],
         \/ task'[t].at \notin {"read", "stopping"}
         \/ /\ task[t].at \in {"read", "stopping"} /\ task'[t].token = task[t].token
            /\ task'[t].wake = task[t].wake /\ task'[t].version = task[t].version
  PROVE  ReadsOK(H)'
BY DEF ReadsOK

\* A step of a task that has decided leaves what is due to the others.
LEMMA DueStays ==
  ASSUME NEW t \in Task, Due, UNCHANGED <<version, owed, service, acted>>,
         task[t].at \notin {"reading", "read"}, \A u \in Task : u # t => task'[u] = task[u]
  PROVE  Due'
BY DEF Due

\* A connection that was cut is on a token that later rows do not have.
LEMMA CutObsolete ==
  ASSUME GatewayTyped, NEW H, History(H), ReadsOK(H), BotFits(H), NEW t \in Task,
         task[t].at = "read", acted <= task[t].version, bot.gateway # 0,
         gateways[bot.gateway].state = "stopped"
  PROVE  task[t].token # bot.token
<1> SUFFICES ASSUME task[t].token = bot.token PROVE FALSE
  OBVIOUS
<1>1. PICK u \in Task : task[u].at = "stopping" /\ task[u].version = acted
                        /\ task[u].gateway = bot.gateway
  BY DEF BotFits, BotCut, Replaces
<1>2. PICK v \in 0..acted : bot.token = H[v].token /\ bot.token # 0
  BY DEF BotFits, BotOK
<1>3. task[u].token # bot.token /\ task[u].token = H[acted].token
  BY <1>1 DEF BotFits, StopsOK, ReadsOK
<1>4. task[t].token = H[task[t].version].token
  BY DEF ReadsOK
<1>5. /\ v \in 0..version /\ acted \in 0..version /\ task[t].version \in 0..version
      /\ v <= acted
  <2>1. version \in Nat /\ acted \in Nat /\ acted <= version
        /\ task[t].version \in Nat /\ task[t].version <= version
    BY TaskFacts
  <2> QED
    BY <2>1
<1>6. H[acted].token = H[v].token
  BY <1>2, <1>4, <1>5 DEF History
<1> QED
  BY <1>2, <1>3, <1>6

\* The record is of the task's own connection, which is cut, or of none: then
\* no connection is left.
LEMMA NoneLeft ==
  ASSUME GatewayTyped, NEW H, BotFits(H), NEW t \in Task,
         bot.gateway = 0 \/ (bot.gateway = task[t].gateway
                             /\ gateways[task[t].gateway].state = "stopped")
  PROVE  \A g \in DOMAIN gateways : gateways[g].state = "stopped"
<1>1. \A g \in DOMAIN gateways : g # 0
  BY TaskFacts
<1> QED
  BY <1>1 DEF BotFits, OnlyBot

\* A bot is started where none is left, for the latest version acted on.
LEMMA StartFits ==
  ASSUME GatewayTyped, NEW H, ReadsOK(H), BotFits(H), NEW t \in Task,
         task[t].at \in {"read", "stopping"}, task[t].token # 0, StartsBot(t),
         acted' = task[t].version, acted <= acted',
         \A g \in DOMAIN gateways : gateways[g].state = "stopped"
  PROVE  BotFits(H)'
<1> DEFINE g == Len(gateways) + 1
           r == [token |-> task[t].token, state |-> "starting"]
<1>1. gateways' = Append(gateways, r) /\ r.token = task[t].token /\ r.state = "starting"
  BY DEF StartsBot
<1>2. /\ bot' = [gateway |-> g, token |-> task[t].token, wake |-> task[t].wake]
      /\ task' = [task EXCEPT ![t].at = "starting", ![t].gateway = g]
  BY DEF StartsBot
<1> HIDE DEF r
<1>3. gateways \in Seq(Gateway) /\ Len(gateways) \in Nat /\ DOMAIN gateways = 1..Len(gateways)
  BY ManagerFacts
<1>4. /\ DOMAIN gateways' = 1..g /\ gateways'[g] = r
      /\ \A k \in DOMAIN gateways : gateways'[k] = gateways[k] /\ k # g
  BY <1>1, <1>3
<1>5. /\ task'[t].at = "starting" /\ task'[t].gateway = g /\ task'[t].token = task[t].token
      /\ \A u \in Task : u # t => task'[u] = task[u]
  <2>1. task \in [Task -> TaskRow] /\ task[t] \in TaskRow
    BY ManagerFacts DEF TaskRow
  <2> QED
    BY <1>2, <2>1 DEF TaskRow
<1>6. bot'.gateway = g /\ bot'.token = task[t].token /\ bot'.wake = task[t].wake /\ g # 0 /\ g \in Nat
  BY <1>2, <1>3
<1> HIDE DEF g
<1>7. acted' \in Nat /\ task[t].token = H[acted'].token /\ task[t].wake = H[acted'].wake
  BY TaskFacts DEF ReadsOK
<1>8. OnlyBot'
  <2>1. \A k \in DOMAIN gateways' : k \in DOMAIN gateways \/ k = g
    BY <1>3, <1>4 DEF g
  <2> QED
    BY <1>4, <1>6, <2>1 DEF OnlyBot
<1>9. BotOK(H)'
  <2>1. acted' \in 0..acted'
    BY <1>7
  <2> QED
    BY <1>1, <1>4, <1>6, <1>7, <2>1 DEF BotOK
<1>10. StopsOK'
  <2> SUFFICES ASSUME NEW u \in Task, task'[u].at = "stopping"
               PROVE  /\ task'[u].gateway # 0 /\ gateways'[task'[u].gateway].state = "stopped"
                      /\ task'[u].version <= acted'
                      /\ task'[u].gateway = bot'.gateway => task'[u].token # bot'.token
    BY DEF StopsOK
  <2>1. task'[u] = task[u]
    BY <1>5
  <2>2. task[u].gateway # 0 /\ gateways[task[u].gateway].state = "stopped" /\ task[u].version <= acted
    BY <2>1 DEF BotFits, StopsOK
  <2>3. task[u].gateway \in DOMAIN gateways /\ task[u].version \in Nat /\ acted \in Nat
    BY <2>2, TaskFacts
  <2> QED
    BY <1>4, <1>6, <1>7, <2>1, <2>2, <2>3
<1>11. StartsOK'
  <2> SUFFICES ASSUME NEW u \in Task, task'[u].at \in {"starting", "registering"}
               PROVE  /\ task'[u].gateway # 0
                      /\ task'[u].token = gateways'[task'[u].gateway].token
    BY DEF StartsOK
  <2>1. CASE u = t
    BY <1>1, <1>4, <1>5, <1>6, <2>1
  <2>2. CASE u # t
    <3>1. task'[u] = task[u]
      BY <1>5, <2>2
    <3>2. task[u].gateway # 0 /\ task[u].token = gateways[task[u].gateway].token
      BY <3>1 DEF BotFits, StartsOK
    <3>3. task[u].gateway \in DOMAIN gateways
      BY <3>2, TaskFacts
    <3> QED
      BY <1>4, <3>1, <3>2, <3>3
  <2> QED
    BY <2>1, <2>2
<1>12. BotCut' /\ LogsInNext' /\ IdStored'
  <2>1. gateways'[bot'.gateway].state = "starting"
    BY <1>1, <1>4, <1>6
  <2> QED
    BY <1>5, <1>6, <2>1 DEF BotCut, LogsInNext, IdStored
<1>13. BotCurrent(H)'
  BY <1>6, <1>7 DEF BotCurrent
<1> QED
  BY <1>8, <1>9, <1>10, <1>11, <1>12, <1>13 DEF BotFits

\* A decision taken on a row that is not older than the last one.
LEMMA DecisionFits ==
  ASSUME GatewayTyped, NEW H, History(H), ReadsOK(H), BotFits(H), NEW t \in Task,
         task[t].at = "read", acted' = task[t].version, acted <= task[t].version,
         DecidesWithout(t) \/ DecidesToStop(t) \/ DecidesToKeep(t), UNCHANGED botRow
  PROVE  BotFits(H)'
<1>1. /\ acted \in Nat /\ acted' \in Nat /\ acted <= acted'
      /\ task[t].token = H[acted'].token /\ task[t].wake = H[acted'].wake
      /\ acted' \in 0..version
  <2>1. task[t].version \in Nat /\ task[t].version <= version /\ version \in Nat /\ acted \in Nat
    BY TaskFacts
  <2> QED
    BY <2>1 DEF ReadsOK
<1>2. \A u \in Task : /\ task[u].version \in Nat
                      /\ task[u].gateway # 0 => task[u].gateway \in DOMAIN gateways
  BY TaskFacts
<1>3. CASE DecidesWithout(t) /\ task[t].token # 0
  <2>1. bot.gateway = 0 /\ StartsBot(t)
    BY <1>3 DEF DecidesWithout
  <2> QED
    BY <1>1, <1>3, <2>1, NoneLeft, StartFits
<1>4. CASE DecidesWithout(t) /\ task[t].token = 0
  <2>1. bot.gateway = 0 /\ Ends(t) /\ UNCHANGED <<gateways, bot>>
    BY <1>4 DEF DecidesWithout
  <2>2. task'[t] = Free /\ \A u \in Task : u # t => task'[u] = task[u]
    BY <2>1, TaskMoves DEF Ends
  <2>3. bot' = NoBot /\ H[acted'].wake = 0
    BY <1>1, <1>4, <2>1 DEF BotFits, BotOK, History
  <2>4. OnlyBot' /\ BotOK(H)' /\ BotCut' /\ LogsInNext' /\ IdStored'
    BY <2>1, <2>3 DEF BotFits, OnlyBot, BotOK, BotCut, LogsInNext, IdStored, NoBot
  <2>5. StopsOK' /\ StartsOK'
    BY <1>1, <1>2, <2>1, <2>2 DEF BotFits, StopsOK, StartsOK, Free
  <2>6. BotCurrent(H)'
    BY <1>1, <1>4, <2>3 DEF BotCurrent, NoBot
  <2> QED
    BY <2>4, <2>5, <2>6 DEF BotFits
<1>5. CASE DecidesToStop(t)
  <2>1. /\ bot.gateway # 0 /\ task[t].token # bot.token /\ bot' = bot
        /\ gateways' = [gateways EXCEPT ![bot.gateway].state = "stopped"]
        /\ task' = [task EXCEPT ![t].at = "stopping", ![t].gateway = bot.gateway]
    BY <1>5 DEF DecidesToStop, Obsolete, Stopping
  <2>2. bot.gateway \in DOMAIN gateways
    BY <2>1, TaskFacts
  <2>3. /\ DOMAIN gateways' = DOMAIN gateways
        /\ \A k \in DOMAIN gateways : gateways'[k].token = gateways[k].token
        /\ \A k \in DOMAIN gateways : k # bot.gateway => gateways'[k] = gateways[k]
        /\ gateways'[bot.gateway].state = "stopped"
    BY <2>1, <2>2, GatewaySet
  <2>4. /\ task'[t].at = "stopping" /\ task'[t].gateway = bot.gateway
        /\ task'[t].token = task[t].token /\ task'[t].version = acted'
        /\ \A u \in Task : u # t => task'[u] = task[u]
    <3>1. task \in [Task -> TaskRow] /\ task[t] \in TaskRow
      BY ManagerFacts DEF TaskRow
    <3> QED
      BY <2>1, <3>1 DEF TaskRow
  <2>5. OnlyBot'
    BY <2>1, <2>3 DEF BotFits, OnlyBot
  <2>6. BotOK(H)'
    <3>1. PICK v \in 0..acted : bot.token = H[v].token
      BY <2>1 DEF BotFits, BotOK
    <3>2. v \in 0..acted'
      BY <1>1
    <3> QED
      BY <2>1, <2>2, <2>3, <3>1, <3>2 DEF BotFits, BotOK
  <2>7. StopsOK'
    <3> SUFFICES ASSUME NEW u \in Task, task'[u].at = "stopping"
                 PROVE  /\ task'[u].gateway # 0 /\ gateways'[task'[u].gateway].state = "stopped"
                        /\ task'[u].version <= acted'
                        /\ task'[u].gateway = bot'.gateway => task'[u].token # bot'.token
      BY DEF StopsOK
    <3>1. CASE u = t
      BY <1>1, <2>1, <2>3, <2>4, <3>1
    <3>2. CASE u # t
      <4>1. task'[u] = task[u]
        BY <2>4, <3>2
      <4>2. /\ task[u].gateway # 0 /\ gateways[task[u].gateway].state = "stopped"
            /\ task[u].version <= acted
            /\ task[u].gateway = bot.gateway => task[u].token # bot.token
        BY <4>1 DEF BotFits, StopsOK
      <4>3. gateways'[task[u].gateway].state = "stopped"
        BY <1>2, <2>3, <4>2
      <4>4. task[u].version <= acted'
        BY <1>1, <1>2, <4>2
      <4> QED
        BY <2>1, <4>1, <4>2, <4>3, <4>4
    <3> QED
      BY <3>1, <3>2
  <2>8. StartsOK'
    BY <1>2, <2>3, <2>4 DEF BotFits, StartsOK
  <2>9. BotCut' /\ BotCurrent(H)' /\ LogsInNext' /\ IdStored'
    BY <2>1, <2>3, <2>4 DEF BotCut, BotCurrent, LogsInNext, IdStored, Replaces
  <2> QED
    BY <2>5, <2>6, <2>7, <2>8, <2>9 DEF BotFits
<1>6. CASE DecidesToKeep(t)
  <2>1. /\ bot.gateway # 0 /\ task[t].token = bot.token /\ UNCHANGED gateways
        /\ bot' = [bot EXCEPT !.wake = task[t].wake] /\ Ends(t)
    BY <1>6 DEF DecidesToKeep, Obsolete
  <2>2. bot'.gateway = bot.gateway /\ bot'.token = bot.token /\ bot'.wake = task[t].wake
    <3>1. bot \in BotRow
      BY ManagerFacts DEF BotRow
    <3> QED
      BY <2>1, <3>1 DEF BotRow
  <2>3. task'[t] = Free /\ \A u \in Task : u # t => task'[u] = task[u]
    BY <2>1, TaskMoves DEF Ends
  <2>4. gateways[bot.gateway].state # "stopped"
    BY <2>1, CutObsolete
  <2>5. OnlyBot' /\ BotCut'
    BY <2>1, <2>2, <2>4 DEF BotFits, OnlyBot, BotCut
  <2>6. BotOK(H)'
    <3>1. PICK v \in 0..acted : bot.token = H[v].token
      BY <2>1 DEF BotFits, BotOK
    <3>2. v \in 0..acted'
      BY <1>1
    <3> QED
      BY <2>1, <2>2, <3>1, <3>2 DEF BotFits, BotOK
  <2>7. StopsOK' /\ StartsOK'
    BY <1>1, <1>2, <2>1, <2>2, <2>3 DEF BotFits, StopsOK, StartsOK, Free
  <2>8. BotCurrent(H)'
    BY <1>1, <2>1, <2>2 DEF BotCurrent
  <2>9. LogsInNext'
    BY <2>1, <2>2, <2>3 DEF BotFits, LogsInNext
  <2>10. IdStored'
    BY <2>1, <2>2, <2>3 DEF BotFits, IdStored
  <2> QED
    BY <2>5, <2>6, <2>7, <2>8, <2>9, <2>10 DEF BotFits
<1> QED
  BY <1>3, <1>4, <1>5, <1>6

\* A task turns to connection g.
LEMMA TaskTurns ==
  ASSUME GatewayTyped, NEW t \in Task, NEW at, NEW g,
         task' = [task EXCEPT ![t].at = at, ![t].gateway = g]
  PROVE  /\ task'[t].at = at /\ task'[t].token = task[t].token /\ task'[t].wake = task[t].wake
         /\ task'[t].version = task[t].version
         /\ \A u \in Task : u # t => task'[u] = task[u]
<1>1. task \in [Task -> TaskRow] /\ task[t] \in TaskRow
  BY ManagerFacts DEF TaskRow
<1> QED
  BY <1>1 DEF TaskRow

LEMMA TaskEnds ==
  ASSUME GatewayTyped, NEW t \in Task, Ends(t)
  PROVE  task'[t].at = "idle" /\ \A u \in Task : u # t => task'[u] = task[u]
<1>1. task'[t] = Free /\ \A u \in Task : u # t => task'[u] = task[u]
  BY TaskMoves DEF Ends
<1> QED
  BY <1>1 DEF Free

LEMMA DecidesFit ==
  ASSUME GatewayTyped, ManagerInv, NEW t \in Task, Decides(t)
  PROVE  ManagerInv'
<1>1. PICK H : ManagerTells(H)
  BY DEF ManagerInv
<1>2. /\ UNCHANGED <<discordConfigVars, service>> /\ task[t].at = "read"
      /\ DecidesWithout(t) \/ DecidesToStop(t) \/ DecidesToKeep(t)
      /\ acted' = IF Late(t) THEN acted ELSE task[t].version
      /\ spoilt' = (spoilt \/ Late(t))
  BY DEF Decides
<1>3. UNCHANGED <<botRow, version, saves, owed>>
  BY <1>2 DEF discordConfigVars
<1>4. History(H)'
  BY <1>1, <1>3 DEF ManagerTells, History
<1>5. /\ \A u \in Task : u # t => task'[u] = task[u]
      /\ \/ task'[t].at \in {"idle", "starting"}
         \/ /\ task'[t].at = "stopping" /\ task'[t].token = task[t].token
            /\ task'[t].wake = task[t].wake /\ task'[t].version = task[t].version
  <2>1. CASE Ends(t)
    BY <2>1, TaskEnds
  <2>2. CASE StartsBot(t)
    BY <2>2, TaskTurns DEF StartsBot
  <2>3. CASE DecidesToStop(t)
    BY <2>3, TaskTurns DEF DecidesToStop
  <2> QED
    BY <1>2, <2>1, <2>2, <2>3 DEF DecidesWithout, DecidesToKeep
<1>6. ReadsOK(H)'
  <2>1. ReadsOK(H)
    BY <1>1 DEF ManagerTells
  <2> QED
    BY <1>2, <1>5, <2>1, ReadsStay
<1>7. ASSUME ~spoilt' PROVE Due' /\ BotFits(H)'
  <2>1. ~spoilt /\ ~Late(t)
    BY <1>2, <1>7
  <2>2. /\ acted' = task[t].version /\ acted \in Nat /\ version \in Nat /\ task[t].version \in Nat
        /\ acted <= task[t].version /\ task[t].version <= version
    BY <1>2, <2>1, TaskFacts DEF Late
  <2>3. History(H) /\ ReadsOK(H) /\ BotFits(H) /\ Due
    BY <1>1, <2>1 DEF ManagerTells
  <2>4. BotFits(H)'
    BY <1>2, <1>3, <2>2, <2>3, DecisionFits
  <2>5. Due'
    <3>1. CASE acted = version \/ task[t].version = version
      BY <1>3, <2>2, <3>1 DEF Due
    <3>2. CASE owed > 0 \/ service \in {"down", "listing"}
      BY <1>2, <1>3, <3>2 DEF Due
    <3>3. ASSUME NEW u \in Task, u # t,
                 task[u].at = "reading" \/ (task[u].at = "read" /\ task[u].version = version)
          PROVE  Due'
      BY <1>3, <1>5, <3>3 DEF Due
    <3> QED
      BY <1>2, <2>3, <3>1, <3>2, <3>3 DEF Due
  <2> QED
    BY <2>4, <2>5
<1>8. Dormant' /\ RowGone'
  BY <1>2, <1>3, BusyAwake DEF ManagerInv, Dormant, RowGone
<1> QED
  BY <1>4, <1>6, <1>7, <1>8 DEF ManagerInv, ManagerTells

\* The record is dropped, and no connection is left.
LEMMA ClearedFits ==
  ASSUME GatewayTyped, NEW H, BotFits(H), NEW t \in Task, bot' = NoBot, acted' = acted,
         task'[t].at = "idle", \A u \in Task : u # t => task'[u] = task[u],
         DOMAIN gateways' = DOMAIN gateways,
         \A g \in DOMAIN gateways : gateways'[g].state = "stopped"
                                    /\ gateways'[g].token = gateways[g].token,
         BotCurrent(H)'
  PROVE  BotFits(H)'
<1>1. \A u \in Task : task[u].gateway # 0 => task[u].gateway \in DOMAIN gateways
  BY TaskFacts
<1>2. bot'.gateway = 0
  BY DEF NoBot
<1>3. OnlyBot' /\ BotOK(H)' /\ BotCut' /\ LogsInNext' /\ IdStored'
  BY <1>2 DEF OnlyBot, BotOK, BotCut, LogsInNext, IdStored
<1>4. StopsOK' /\ StartsOK'
  BY <1>1, <1>2 DEF BotFits, StopsOK, StartsOK
<1> QED
  BY <1>3, <1>4 DEF BotFits

\* What made the record wrong before it was dropped still replaces it.
LEMMA ClearedCurrent ==
  ASSUME NEW H, BotFits(H), NEW t \in Task, ~Replaces(t), bot' = NoBot, acted' = acted,
         \A u \in Task : u # t => task'[u] = task[u],
         bot.gateway = 0 \/ gateways[bot.gateway].state = "stopped"
  PROVE  BotCurrent(H)'
<1>1. CASE \E u \in Task : Replaces(u)
  BY <1>1 DEF BotCurrent, Replaces
<1>2. CASE ~\E u \in Task : Replaces(u)
  <2>1. bot.gateway = 0 /\ bot' = bot
    BY <1>2 DEF BotFits, BotCut, BotOK
  <2> QED
    BY <1>2, <2>1 DEF BotFits, BotCurrent
<1> QED
  BY <1>1, <1>2

LEMMA StoppedFit ==
  ASSUME GatewayTyped, ManagerInv, NEW t \in Task, Stopped(t)
  PROVE  ManagerInv'
<1>1. PICK H : ManagerTells(H)
  BY DEF ManagerInv
<1>2. /\ UNCHANGED <<discordConfigVars, service, acted>> /\ task[t].at = "stopping"
      /\ \/ task[t].token = 0 /\ bot' = NoBot /\ Ends(t) /\ UNCHANGED gateways
         \/ task[t].token # 0 /\ StartsBot(t)
      /\ ~spoilt' => /\ ~spoilt /\ bot.gateway \in {0, task[t].gateway}
                     /\ task[t].token # 0 => ~Late(t)
  BY DEF Stopped
<1>3. UNCHANGED <<botRow, version, saves, owed>>
  BY <1>2 DEF discordConfigVars
<1>4. History(H)'
  BY <1>1, <1>3 DEF ManagerTells, History
<1>5. /\ \A u \in Task : u # t => task'[u] = task[u]
      /\ task'[t].at \in {"idle", "starting"}
      /\ task[t].token = 0 => task'[t].at = "idle"
  <2>1. CASE Ends(t)
    BY <2>1, TaskEnds
  <2>2. CASE StartsBot(t) /\ task[t].token # 0
    BY <2>2, TaskTurns DEF StartsBot
  <2> QED
    BY <1>2, <2>1, <2>2
<1>6. ReadsOK(H)'
  <2>1. ReadsOK(H)
    BY <1>1 DEF ManagerTells
  <2> QED
    BY <1>5, <2>1, ReadsStay
<1>7. ASSUME ~spoilt' PROVE Due' /\ BotFits(H)'
  <2>1. History(H) /\ ReadsOK(H) /\ BotFits(H) /\ Due
    BY <1>1, <1>2, <1>7 DEF ManagerTells
  <2>2. /\ task[t].gateway # 0 /\ gateways[task[t].gateway].state = "stopped"
        /\ task[t].version <= acted
    BY <1>2, <2>1 DEF BotFits, StopsOK
  <2>3. \A g \in DOMAIN gateways : gateways[g].state = "stopped"
    BY <1>2, <1>7, <2>1, <2>2, NoneLeft
  <2>4. Due'
    BY <1>2, <1>3, <1>5, <2>1, DueStays
  <2>5. CASE task[t].token # 0
    <3>1. acted' = task[t].version /\ acted <= acted'
      BY SMTT(30), <1>2, <1>7, <2>2, <2>5, TaskFacts DEF Late
    <3> QED
      BY <1>2, <2>1, <2>3, <2>4, <2>5, <3>1, StartFits
  <2>6. CASE task[t].token = 0
    <3>1. bot' = NoBot /\ gateways' = gateways /\ acted' = acted
      BY <1>2, <2>6
    <3>2. BotCurrent(H)'
      <4>1. CASE Replaces(t)
        <5>1. H[acted].token = 0 /\ acted \in 0..version
          BY SMTT(30), <1>2, <2>1, <2>6, <4>1, TaskFacts DEF ReadsOK, Replaces
        <5>2. H[acted].wake = 0
          BY <2>1, <5>1 DEF History
        <5> QED
          BY <3>1, <5>1, <5>2 DEF BotCurrent, NoBot
      <4>2. CASE ~Replaces(t)
        BY <1>2, <1>5, <1>7, <2>1, <2>2, <3>1, <4>2, ClearedCurrent
      <4> QED
        BY <4>1, <4>2
    <3> QED
      BY <1>5, <2>1, <2>3, <2>4, <2>6, <3>1, <3>2, ClearedFits
  <2> QED
    BY <2>5, <2>6
<1>8. Dormant' /\ RowGone'
  BY <1>2, <1>3, BusyAwake DEF ManagerInv, Dormant, RowGone
<1> QED
  BY <1>4, <1>6, <1>7, <1>8 DEF ManagerInv, ManagerTells

LEMMA LogsInFit ==
  ASSUME GatewayTyped, ManagerInv, NEW t \in Task, LogsIn(t)
  PROVE  ManagerInv'
<1>1. PICK H : ManagerTells(H)
  BY DEF ManagerInv
<1>2. PICK g : g = task[t].gateway
  OBVIOUS
<1>3. /\ UNCHANGED <<discordConfigVars, service, bot, acted, spoilt>> /\ task[t].at = "starting"
      /\ gateways[g].state = "starting" /\ gateways' = [gateways EXCEPT ![g].state = "up"]
      /\ TaskAt(t, "registering")
  BY <1>2 DEF LogsIn
<1>4. UNCHANGED <<botRow, version, saves, owed>>
  BY <1>3 DEF discordConfigVars
<1>5. History(H)'
  BY <1>1, <1>4 DEF ManagerTells, History
<1>6. /\ task'[t].at = "registering" /\ task'[t].token = task[t].token /\ task'[t].gateway = g
      /\ \A u \in Task : u # t => task'[u] = task[u]
  BY <1>2, <1>3, TaskGoes
<1>7. ReadsOK(H)'
  <2>1. ReadsOK(H)
    BY <1>1 DEF ManagerTells
  <2> QED
    BY <1>6, <2>1, ReadsStay
<1>8. ASSUME ~spoilt' PROVE Due' /\ BotFits(H)'
  <2>1. BotFits(H) /\ Due
    BY <1>1, <1>3, <1>8 DEF ManagerTells
  <2>2. g # 0 /\ task[t].token = gateways[g].token
    BY <1>2, <1>3, <2>1 DEF BotFits, StartsOK
  <2>3. g \in DOMAIN gateways /\ \A u \in Task : task[u].gateway # 0 => task[u].gateway \in DOMAIN gateways
    BY <1>2, <2>2, TaskFacts
  <2>4. g = bot.gateway
    BY <1>3, <2>1, <2>3 DEF BotFits, OnlyBot
  <2>5. /\ DOMAIN gateways' = DOMAIN gateways
        /\ \A k \in DOMAIN gateways : gateways'[k].token = gateways[k].token
        /\ \A k \in DOMAIN gateways : k # g => gateways'[k] = gateways[k]
        /\ gateways'[g].state = "up"
    BY <1>3, <2>3, GatewaySet
  <2>6. Due'
    BY <1>3, <1>4, <1>6, <2>1, DueStays
  <2>7. OnlyBot' /\ BotOK(H)'
    BY <1>3, <2>1, <2>3, <2>4, <2>5 DEF BotFits, OnlyBot, BotOK
  <2>8. StopsOK'
    BY <1>3, <1>6, <2>1, <2>3, <2>5 DEF BotFits, StopsOK
  <2>9. StartsOK'
    BY <1>6, <2>1, <2>2, <2>3, <2>5 DEF BotFits, StartsOK
  <2>10. BotCut' /\ LogsInNext' /\ IdStored'
    BY <1>3, <1>6, <2>4, <2>5 DEF BotCut, LogsInNext, IdStored
  <2>11. BotCurrent(H)'
    BY <1>3, <1>6, <2>1 DEF BotFits, BotCurrent, Replaces
  <2> QED
    BY <2>6, <2>7, <2>8, <2>9, <2>10, <2>11 DEF BotFits
<1>9. Dormant' /\ RowGone'
  BY <1>3, <1>4, BusyAwake DEF ManagerInv, Dormant, RowGone
<1> QED
  BY <1>5, <1>7, <1>8, <1>9 DEF ManagerInv, ManagerTells

LEMMA RegistersFit ==
  ASSUME GatewayTyped, ManagerInv, NEW t \in Task, Registers(t)
  PROVE  ManagerInv'
<1>1. PICK H : ManagerTells(H)
  BY DEF ManagerInv
<1>2. PICK g : g = task[t].gateway
  OBVIOUS
<1>3. /\ task[t].at = "registering" /\ Ends(t)
      /\ UNCHANGED <<version, owed, saves, service, gateways, bot, acted>>
      /\ \/ /\ botRow' = IF botRow.token = 0 THEN botRow ELSE [botRow EXCEPT !.bot = task[t].token]
            /\ spoilt' = (spoilt \/ gateways[g].state = "stopped")
         \/ botRow' = botRow /\ spoilt' = TRUE
  BY <1>2 DEF Registers, GatewayFault
<1>4. /\ botRow'.token = botRow.token /\ botRow'.wake = botRow.wake
      /\ botRow.token = 0 => botRow' = botRow
      /\ botRow' # botRow => botRow'.bot = task[t].token
      /\ ~spoilt' /\ botRow.token # 0 => botRow'.bot = task[t].token
  <2>1. botRow \in [token : 0..MaxSaves, wake : 0..MaxEditsWake, code : 0..(MaxSaves + MaxReissues),
                    owner : Linker \cup {Nobody}, bot : 0..MaxSaves]
    BY RowFacts
  <2> QED
    BY <1>3, <2>1
<1>5. History(H)'
  BY <1>1, <1>3, <1>4 DEF ManagerTells, History
<1>6. task'[t].at = "idle" /\ \A u \in Task : u # t => task'[u] = task[u]
  BY <1>3, TaskEnds
<1>7. ReadsOK(H)'
  <2>1. ReadsOK(H)
    BY <1>1 DEF ManagerTells
  <2> QED
    BY <1>6, <2>1, ReadsStay
<1>8. ASSUME ~spoilt' PROVE Due' /\ BotFits(H)'
  <2>1. ~spoilt /\ gateways[g].state # "stopped"
    BY <1>3, <1>8, ManagerFacts
  <2>2. BotFits(H) /\ Due
    BY <1>1, <2>1 DEF ManagerTells
  <2>3. g # 0 /\ task[t].token = gateways[g].token
    BY <1>2, <1>3, <2>2 DEF BotFits, StartsOK
  <2>4. g \in DOMAIN gateways
    BY <1>2, <2>3, TaskFacts
  <2>5. g = bot.gateway
    BY <2>1, <2>2, <2>4 DEF BotFits, OnlyBot
  <2>6. bot.token = task[t].token /\ bot.token # 0
    BY <2>2, <2>3, <2>5 DEF BotFits, BotOK
  <2>7. Due'
    BY <1>3, <1>6, <2>2, DueStays
  <2>8. OnlyBot' /\ BotOK(H)' /\ LogsInNext'
    BY <1>3, <1>6, <2>2 DEF BotFits, OnlyBot, BotOK, LogsInNext
  <2>9. BotCut' /\ BotCurrent(H)'
    BY <1>3, <1>6, <2>2 DEF BotFits, BotCut, BotCurrent, Replaces
  <2>10. StopsOK' /\ StartsOK'
    BY <1>3, <1>6, <2>2 DEF BotFits, StopsOK, StartsOK
  <2>11. IdStored'
    BY <1>3, <1>4, <1>8, <2>6 DEF IdStored
  <2> QED
    BY <2>7, <2>8, <2>9, <2>10, <2>11 DEF BotFits
<1>9. Dormant' /\ RowGone'
  BY <1>3, <1>4, BusyAwake DEF ManagerInv, Dormant, RowGone
<1> QED
  BY <1>5, <1>7, <1>8, <1>9 DEF ManagerInv, ManagerTells

LEMMA StartFailsFit ==
  ASSUME GatewayTyped, ManagerInv, NEW t \in Task, StartFails(t)
  PROVE  ManagerInv'
<1>1. PICK H : ManagerTells(H)
  BY DEF ManagerInv
<1>2. PICK g : g = task[t].gateway
  OBVIOUS
<1>3. /\ task[t].at \in {"starting", "registering"} /\ Ends(t) /\ bot' = NoBot
      /\ gateways' = [gateways EXCEPT ![g].state = "stopped"]
      /\ UNCHANGED <<discordConfigVars, service, acted>>
      /\ \/ spoilt' = TRUE
         \/ /\ gateways[g].state = "stopped"
            /\ spoilt' = (spoilt \/ bot.gateway \notin {0, g})
  BY <1>2 DEF StartFails, GatewayFault, Stopping
<1>4. UNCHANGED <<botRow, version, saves, owed>>
  BY <1>3 DEF discordConfigVars
<1>5. History(H)'
  BY <1>1, <1>4 DEF ManagerTells, History
<1>6. task'[t].at = "idle" /\ \A u \in Task : u # t => task'[u] = task[u]
  BY <1>3, TaskEnds
<1>7. ReadsOK(H)'
  <2>1. ReadsOK(H)
    BY <1>1 DEF ManagerTells
  <2> QED
    BY <1>6, <2>1, ReadsStay
<1>8. ASSUME ~spoilt' PROVE Due' /\ BotFits(H)'
  <2>1. ~spoilt /\ gateways[g].state = "stopped" /\ bot.gateway \in {0, g}
    BY <1>3, <1>8, ManagerFacts
  <2>2. BotFits(H) /\ Due
    BY <1>1, <2>1 DEF ManagerTells
  <2>3. g # 0
    BY <1>2, <1>3, <2>2 DEF BotFits, StartsOK
  <2>4. g \in DOMAIN gateways
    BY <1>2, <2>3, TaskFacts
  <2>5. \A k \in DOMAIN gateways : gateways[k].state = "stopped"
    BY <1>2, <2>1, <2>2, NoneLeft
  <2>6. /\ DOMAIN gateways' = DOMAIN gateways
        /\ \A k \in DOMAIN gateways : gateways'[k].state = "stopped"
                                      /\ gateways'[k].token = gateways[k].token
    <3>1. /\ DOMAIN gateways' = DOMAIN gateways
          /\ \A k \in DOMAIN gateways : gateways'[k].token = gateways[k].token
          /\ \A k \in DOMAIN gateways : k # g => gateways'[k] = gateways[k]
          /\ gateways'[g].state = "stopped"
      BY <1>3, <2>4, GatewaySet
    <3> QED
      BY <2>5, <3>1
  <2>7. Due'
    BY <1>3, <1>4, <1>6, <2>2, DueStays
  <2>8. BotCurrent(H)'
    <3>1. ~Replaces(t) /\ acted' = acted
      BY <1>3 DEF Replaces
    <3> QED
      BY <1>3, <1>6, <2>1, <2>2, <3>1, ClearedCurrent
  <2> QED
    BY <1>3, <1>6, <2>2, <2>6, <2>7, <2>8, ClearedFits
<1>9. Dormant' /\ RowGone'
  BY <1>3, <1>4, BusyAwake DEF ManagerInv, Dormant, RowGone
<1> QED
  BY <1>5, <1>7, <1>8, <1>9 DEF ManagerInv, ManagerTells

-----------------------------------------------------------------------------
(* GatewayManager: the connection the row asks for *)

LEMMA ManagerStarts == GatewayInit => ManagerInv
<1> SUFFICES ASSUME GatewayInit PROVE ManagerInv
  OBVIOUS
<1>1. GatewayTyped
  BY GatewayStarts
<1>2. /\ service = "down" /\ bot = NoBot /\ acted = 0 /\ ~spoilt /\ gateways = <<>>
      /\ version = 0 /\ saves = 0 /\ botRow.token = 0 /\ botRow.wake = 0 /\ botRow.bot = 0
      /\ \A t \in Task : task[t].at = "idle"
  BY DEF GatewayInit, DiscordConfigInit, NoRow, Free
<1>3. DOMAIN gateways = {}
  BY <1>2
<1>4. Dormant /\ RowGone /\ Due
  BY <1>2, <1>3 DEF Dormant, RowGone, Due
<1>5. PICK H : H = [v \in {0} |-> [token |-> 0, wake |-> 0]]
  OBVIOUS
<1>6. /\ 0..version = {0} /\ H[0].token = 0 /\ H[0].wake = 0
      /\ H \in [0..version -> [token : Nat, wake : Nat]]
  BY <1>2, <1>5
<1>7. History(H)
  BY <1>2, <1>6 DEF History
<1>8. ReadsOK(H)
  BY <1>2 DEF ReadsOK
<1>9. BotFits(H)
  BY <1>2, <1>3, <1>7, DormantFits
<1> QED
  BY <1>4, <1>7, <1>8, <1>9 DEF ManagerInv, ManagerTells

LEMMA ManagerStepKeeps ==
  ASSUME GatewayTyped, ManagerInv, [DiscordNext]_discordVars
  PROVE  ManagerInv'
<1>1. CASE UNCHANGED gatewayVars
  BY <1>1, LinksFit
<1>2. CASE DiscordConfigNext /\ UNCHANGED managerVars
  BY <1>2, WritesFit, LinksFit DEF DiscordConfigNext
<1>3. ASSUME NEW t \in Reconciler, NotifyBot(t) PROVE ManagerInv'
  BY <1>3, NotifyFits
<1>4. ASSUME NEW t \in Task, Steps(t) PROVE ManagerInv'
  BY <1>4, ReadsFit, DecidesFit, StoppedFit, LogsInFit, RegistersFit, StartFailsFit DEF Steps
<1>5. CASE GatewayNext
  BY <1>3, <1>4, <1>5, WritesFit, ServiceFits, TriggersFit DEF GatewayNext
<1>6. [DiscordNext]_discordVars =>
        UNCHANGED gatewayVars \/ (DiscordConfigNext /\ UNCHANGED managerVars) \/ GatewayNext
  BY DEF DiscordNext, BridgeMoves, RelayMoves, WireMoves, LinkMoves, GatewayMoves, discordVars
<1> QED
  BY <1>1, <1>2, <1>5, <1>6

\* No connection but the bot's; and at rest the bot is what the row asks for.
LEMMA ManagerMatches ==
  ASSUME GatewayTyped, ManagerInv
  PROVE  GatewayMatchesRow
<1> SUFFICES ASSUME ~spoilt
             PROVE  /\ Cardinality(Live) <= 1
                    /\ AtRest => /\ Live = {bot.gateway} \ {0}
                                 /\ bot.token = botRow.token /\ bot.wake = botRow.wake
                                 /\ botRow.bot = botRow.token
  BY DEF GatewayMatchesRow
<1>1. PICK H : History(H) /\ Due /\ BotFits(H)
  BY DEF ManagerInv, ManagerTells
<1>2. Live \subseteq {bot.gateway}
  BY <1>1 DEF Live, BotFits, OnlyBot
<1>3. Cardinality(Live) <= 1
  <2>1. IsFiniteSet({bot.gateway}) /\ Cardinality({bot.gateway}) = 1
    BY FS_Singleton
  <2> QED
    BY <1>2, <2>1, FS_Subset
<1>4. ASSUME AtRest
      PROVE  /\ Live = {bot.gateway} \ {0}
             /\ bot.token = botRow.token /\ bot.wake = botRow.wake
             /\ botRow.bot = botRow.token
  <2>1. service = "listening" /\ owed = 0 /\ \A t \in Task : task[t].at = "idle"
    BY <1>4 DEF AtRest
  <2>2. acted = version
    BY <1>1, <2>1 DEF Due
  <2>3. bot.token = botRow.token /\ bot.wake = botRow.wake
    BY <1>1, <2>1, <2>2 DEF BotFits, BotCurrent, Replaces, History
  <2>4. bot.gateway = 0 => Live = {} /\ botRow.bot = botRow.token
    <3>1. 0 \notin DOMAIN gateways
      BY ManagerFacts
    <3>2. bot.gateway = 0 => botRow.token = 0
      BY <1>1, <2>3 DEF BotFits, BotOK, NoBot
    <3> QED
      BY <1>2, <3>1, <3>2 DEF Live, ManagerInv, RowGone
  <2>5. bot.gateway # 0 => bot.gateway \in Live /\ botRow.bot = botRow.token
    <3> SUFFICES ASSUME bot.gateway # 0 PROVE bot.gateway \in Live /\ botRow.bot = botRow.token
      OBVIOUS
    <3>1. bot.gateway \in DOMAIN gateways /\ gateways[bot.gateway].state \in {"starting", "up", "stopped"}
      <4>1. bot.gateway \in DOMAIN gateways
        BY TaskFacts
      <4>2. gateways[bot.gateway] \in Gateway
        BY <4>1, ManagerFacts
      <4> QED
        BY <4>1, <4>2 DEF Gateway
    <3>2. gateways[bot.gateway].state = "up"
      BY <1>1, <2>1, <3>1 DEF BotFits, BotCut, LogsInNext, Replaces
    <3> QED
      BY <1>1, <2>1, <2>3, <3>1, <3>2 DEF BotFits, IdStored, Live
  <2> QED
    BY <1>2, <2>3, <2>4, <2>5
<1> QED
  BY <1>3, <1>4

\* Discord allows one connection per bot, and a user has no more; and once the
\* triggers have been served the manager holds the very connection, wake pair
\* and bot id that the row asks for, however many reconciles, writes and
\* /notifybot overlap and however often the service restarts.  Except after a
\* fault, a trigger lost behind the startup read, or one of the three races that
\* `spoilt` notes (start, reconcileUser).
THEOREM GatewayMatchesRowHolds == DiscordSpec => []GatewayMatchesRow
<1>1. DiscordInit => ManagerInv
  BY ManagerStarts DEF DiscordInit
<1>2. GatewayTyped /\ ManagerInv /\ [DiscordNext]_discordVars => ManagerInv'
  BY ManagerStepKeeps
<1>3. GatewayTyped /\ ManagerInv => GatewayMatchesRow
  BY ManagerMatches
<1>4. DiscordSpec => [](GatewayTyped /\ LinkInv)
  BY GatewayHolds
<1> QED
  BY <1>1, <1>2, <1>3, <1>4, PTL DEF DiscordSpec

-----------------------------------------------------------------------------
(* The service as a whole *)

\* The steps of the service are steps of its bridge, or leave it alone: each
\* behaviour of the service is one of the bridge.
THEOREM BridgeComposes == DiscordSpec => Spec
<1>1. DiscordInit => Init
  BY DEF DiscordInit
<1>2. [DiscordNext]_discordVars => [Next]_vars
  BY DEF DiscordNext, BridgeMoves, RelayMoves, WireMoves, LinkMoves, GatewayMoves, discordVars
<1> QED
  BY <1>1, <1>2, PTL DEF DiscordSpec, Spec

\* Each is one of the relay, too.
THEOREM RelayComposes == DiscordSpec => RelaySpec
<1>1. DiscordInit => RelayInit
  BY DEF DiscordInit
<1>2. [DiscordNext]_discordVars => [RelayNext]_relayVars
  BY DEF DiscordNext, BridgeMoves, RelayMoves, WireMoves, LinkMoves, GatewayMoves, discordVars
<1> QED
  BY <1>1, <1>2, PTL DEF DiscordSpec, RelaySpec

\* And one of the transport beneath.
THEOREM WireComposes == DiscordSpec => WireSpec
<1>1. DiscordInit => WireInit
  BY DEF DiscordInit
<1>2. [DiscordNext]_discordVars => [WireNext]_wireVars
  BY DEF DiscordNext, BridgeMoves, RelayMoves, WireMoves, LinkMoves, GatewayMoves, discordVars
<1> QED
  BY <1>1, <1>2, PTL DEF DiscordSpec, WireSpec

\* What is proved of the parts holds of the whole service:
\* one connection to the room, given up for cause, its losses reported, nobody
\* left waiting behind a handshake, one owner to a code, the connection that the
\* row asks for, every reply posted once, and every request accounted for.
THEOREM DiscordCorrect ==
  DiscordSpec => /\ [](TypeOK /\ OneConnection /\ StaleUndone /\ LossReported /\ SomeoneDials)
                 /\ GivenUpForCause
                 /\ [](GatewayTypeOK /\ LinkOnce /\ GatewayMatchesRow)
                 /\ [](RelayTypeOK /\ RelayOnce)
                 /\ [](WireTypeOK /\ RequestsAccounted)
BY BridgeComposes, RelayComposes, WireComposes, BridgeTypeCorrect, OneConnectionHolds, StaleUndoneHolds,
   LossReportedHolds,
   SomeoneDialsHolds, GivenUpForCauseHolds, GatewayTypeCorrect, LinkOnceHolds,
   GatewayMatchesRowHolds, RelayTypeCorrect, RelayOnceHolds, WireTypeCorrect,
   RequestsAreAccounted, PTL
=============================================================================
