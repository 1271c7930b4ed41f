-------------------------- MODULE EmbodimentProofs --------------------------
(***************************************************************************)
(* Theorems about Embodiment, for every value of its constants: the types, *)
(* that no claim is lost while its holder beats, and that no event is      *)
(* skipped when transactions get their ids in the order of their sequence  *)
(* numbers.                                                                *)
(***************************************************************************)
EXTENDS Embodiment, NumberLemmas, FiniteSetTheorems, SequenceTheorems

\* The claim sequence counts claims, and a connection claims once.
Claimed == {c \in Conn : pc[c] \notin {"new", "claiming"}}

SeqOK == claim # NoClaim => claim.seq <= Cardinality(Claimed)

\* Transaction ids count the appends that have one.
Stamped == {s \in DOMAIN log : log[s].state # "numbered"}

StampedOK == nextXid = 1 + Cardinality(Stamped)

\* How long a claim may have gone without a renewal: a heartbeat, and one more
\* for each fault.
Patience == (faults + 1) * HeartbeatMs

\* What the place of a connection implies.
RoomRow(c) ==
  /\ (pc[c] \in {"new", "claiming"} /\ claim # NoClaim) => claim.conn # c
  /\ c \in renewing => pc[c] \in {"live", "off"}
  /\ c \in releasing => pc[c] = "off"
  /\ pc[c] \in {"new", "off"} => c \notin open
  /\ (pc[c] = "binding" /\ Holds(c)) => claim.age = 0
  /\ (pc[c] = "live" /\ Holds(c) /\ c \in renewing) => claim.age <= Patience
  /\ (pc[c] = "live" /\ Holds(c) /\ c \notin renewing) => claim.age + beatIn[c] <= Patience

RoomOK == \A c \in Conn : RoomRow(c)

RoomInv == TypeOK /\ SeqOK /\ StampedOK /\ RoomOK

-----------------------------------------------------------------------------
(* The log *)

\* Positions up to n are at most n, and fewer when one is missing.
LEMMA PositionsCounted ==
  ASSUME NEW n \in Nat, NEW S \in SUBSET (1..n)
  PROVE  /\ IsFiniteSet(S) /\ Cardinality(S) \in 0..n
         /\ \A s \in 1..n : s \notin S => Cardinality(S) < n
<1>1. IsFiniteSet(1..n) /\ Cardinality(1..n) = n
  BY FS_Interval
<1>2. IsFiniteSet(S) /\ Cardinality(S) <= n /\ (Cardinality(1..n) = Cardinality(S) => 1..n = S)
  BY <1>1, FS_Subset
<1>3. Cardinality(S) \in Nat
  BY <1>2, FS_CardinalityType
<1> QED
  BY <1>1, <1>2, <1>3

\* What a step of the log does to it: a row is added at the end or changed.
LEMMA LogTyped ==
  ASSUME LogTypeOK, StampedOK, Appends
  PROVE  LogTypeOK' /\ StampedOK'
<1>0. log \in Seq(Row) /\ Len(log) \in Nat /\ DOMAIN log = 1..Len(log) /\ MaxEvents \in Nat
  BY LogConstants, LenProperties DEF LogTypeOK
<1>A. Stamped \in SUBSET (1..Len(log))
  BY <1>0 DEF Stamped
<1>1. IsFiniteSet(Stamped) /\ Cardinality(Stamped) <= Len(log) /\ Cardinality(Stamped) \in Nat
  BY <1>0, <1>A, PositionsCounted
<1>2. CASE Number
  <2> DEFINE e == [xid |-> 0, state |-> "numbered"]
  <2>1. e \in Row /\ e.state = "numbered"
    BY <1>0 DEF Row
  <2> HIDE DEF e
  <2>2. log' = Append(log, e) /\ Len(log) < MaxEvents /\ nextXid' = nextXid
    BY <1>2 DEF Number, e
  <2>3. log' \in Seq(Row) /\ Len(log') = Len(log) + 1
    BY <1>0, <2>1, <2>2, AppendProperties
  <2>4. \A s \in DOMAIN log : log'[s] = log[s]
    BY <1>0, <2>1, <2>2, AppendProperties
  <2>5. log'[Len(log) + 1] = e /\ DOMAIN log' = 1..(Len(log) + 1)
    BY <1>0, <2>1, <2>2, <2>3, AppendProperties, LenProperties
  <2>6. Stamped' = Stamped
    BY <1>0, <2>1, <2>4, <2>5 DEF Stamped
  <2> QED
    BY <1>0, <2>2, <2>3, <2>6 DEF LogTypeOK, StampedOK
<1>3. ASSUME NEW s \in DOMAIN log, Stamp(s) PROVE LogTypeOK' /\ StampedOK'
  <2> DEFINE e == [xid |-> nextXid, state |-> "running"]
  <2>1. s \in 1..Len(log) /\ s \notin Stamped
    BY <1>0, <1>3 DEF Stamped, Stamp
  <2>3. Cardinality(Stamped) < Len(log)
    BY <1>0, <1>A, <2>1, PositionsCounted
  <2>4. nextXid \in 1..MaxEvents
    BY <1>0, <1>1, <2>3 DEF LogTypeOK, StampedOK
  <2>5. e \in Row /\ e.state = "running"
    BY <1>0, <2>4 DEF Row
  <2> HIDE DEF e
  <2>6. log' = [log EXCEPT ![s] = e] /\ nextXid' = nextXid + 1
    BY <1>3 DEF Stamp, e
  <2>7. log' \in Seq(Row) /\ Len(log') = Len(log) /\ DOMAIN log' = DOMAIN log
    BY <1>0, <2>5, <2>6, ExceptSeq
  <2>8. Stamped' = Stamped \cup {s} /\ s \notin Stamped
    BY <1>0, <1>3, <2>5, <2>6, <2>7 DEF Stamped, Stamp
  <2>9. Cardinality(Stamped') = Cardinality(Stamped) + 1
    BY <1>1, <2>8, FS_AddElement
  <2> QED
    BY <1>0, <1>1, <2>4, <2>6, <2>7, <2>9 DEF LogTypeOK, StampedOK
<1>4. ASSUME NEW s \in DOMAIN log, Ends(s) PROVE LogTypeOK' /\ StampedOK'
  <2>1. PICK end \in {"committed", "aborted"} : log' = [log EXCEPT ![s].state = end]
    BY <1>4 DEF Ends
  <2> DEFINE e == [log[s] EXCEPT !.state = end]
  <2>2. log[s] \in Row
    BY <1>0
  <2>3. e \in Row /\ e.state # "numbered"
    BY <2>1, <2>2 DEF Row
  <2> HIDE DEF e
  <2>4. log' = [log EXCEPT ![s] = e] /\ nextXid' = nextXid
    BY <1>4, <2>1 DEF Ends, e
  <2>5. log' \in Seq(Row) /\ Len(log') = Len(log) /\ DOMAIN log' = DOMAIN log
    BY <1>0, <2>3, <2>4, ExceptSeq
  <2>6. Stamped' = Stamped
    BY <1>0, <1>4, <2>3, <2>4, <2>5 DEF Stamped, Ends
  <2> QED
    BY <1>0, <2>4, <2>5, <2>6 DEF LogTypeOK, StampedOK
<1> QED
  BY <1>2, <1>3, <1>4 DEF Appends, LogStep

-----------------------------------------------------------------------------
(* The types *)

\* What the rest of the proofs needs of the types.
LEMMA TypesUnfold ==
  ASSUME TypeOK
  PROVE  /\ claim # NoClaim => (claim.conn \in Conn /\ claim.seq \in 1..MaxConn /\ claim.age \in 0..TtlMs)
         /\ \A c \in Conn : /\ beatIn[c] \in 0..HeartbeatMs /\ cursor[c] \in 0..MaxEvents
                            /\ reads[c] \subseteq Read /\ given[c] \subseteq 1..MaxEvents
                            /\ pc[c] \in {"new", "claiming", "binding", "live", "off"}
         /\ MaxConn \in Nat /\ HeartbeatMs \in Nat /\ TtlMs \in Nat /\ faults \in 0..MaxFaults
         /\ MaxEvents \in Nat /\ HeartbeatMs > 0 /\ TtlMs > 0
         /\ log \in Seq(Row) /\ Len(log) \in 0..MaxEvents /\ DOMAIN log = 1..Len(log)
<1>1. claim # NoClaim => claim \in ClaimRow
  BY DEF TypeOK
<1>2. claim # NoClaim => (claim.conn \in Conn /\ claim.seq \in 1..MaxConn /\ claim.age \in 0..TtlMs)
  BY <1>1 DEF ClaimRow
<1>3. log \in Seq(Row) /\ Len(log) \in 0..MaxEvents /\ DOMAIN log = 1..Len(log)
  BY LogConstants, LenProperties DEF TypeOK, LogTypeOK
<1> QED
  BY <1>2, <1>3, EmbodimentConstants, LogConstants DEF TypeOK

\* A read that has executed holds rows of the log.
LEMMA RowsRead ==
  ASSUME TypeOK, NEW c \in Conn, NEW r \in reads[c]
  PROVE  /\ r.after \in 0..MaxEvents
         /\ r.got # NotRead => r.got \in SUBSET (1..MaxEvents)
<1>1. r \in Read
  BY TypesUnfold
<1>2. r.after \in 0..MaxEvents /\ r.got \in (SUBSET (1..MaxEvents)) \cup {NotRead}
  BY <1>1 DEF Read
<1> QED
  BY <1>2

\* The last of some rows is one of them.
LEMMA LatestIn ==
  ASSUME NEW n \in Nat, NEW rows \in SUBSET (1..n), NEW otherwise
  PROVE  /\ rows = {} => Latest(rows, otherwise) = otherwise
         /\ rows # {} => /\ Latest(rows, otherwise) \in rows
                        /\ \A r \in rows : r <= Latest(rows, otherwise)
<1>1. CASE rows = {}
  BY <1>1 DEF Latest
<1>2. CASE rows # {}
  <2>1. PICK m \in rows : \A k \in rows : k <= m
    BY <1>2, GreatestOf
  <2> QED
    BY <1>2, <2>1 DEF Latest
<1> QED
  BY <1>1, <1>2

LEMMA SettledRows == ASSUME TypeOK PROVE Settled \subseteq 1..Len(log) /\ Settled \subseteq 1..MaxEvents
<1>1. Settled \subseteq DOMAIN log
  BY DEF Settled, Committed
<1> QED
  BY <1>1, TypesUnfold

\* The steps of a connection keep the types.
LEMMA ConnTyped ==
  ASSUME TypeOK, SeqOK, NEW c \in Conn,
         \/ Connect(c) \/ Closes(c) \/ CursorReturns(c) \/ Beat(c) \/ Renews(c) \/ Releases(c)
         \/ ConnFault(c) \/ ReadExecutesAny(c) \/ PushesAny(c)
  PROVE  TypeOK'
<1>0. /\ claim # NoClaim => (claim.conn \in Conn /\ claim.seq \in 1..MaxConn /\ claim.age \in 0..TtlMs)
      /\ MaxEvents \in Nat /\ HeartbeatMs \in Nat /\ TtlMs \in Nat /\ faults \in 0..MaxFaults
      /\ MaxFaults \in Nat /\ MaxConn \in Nat
  BY TypesUnfold, EmbodimentConstants
<1>L. LogTypeOK'
  BY DEF TypeOK, LogTypeOK, logVars, Connect, Closes, CursorReturns, Beat, Renews, Releases,
         ConnFault,
         EmbodyFails, RenewFails, ReleaseFails, Crash, ReadFails, ReadExecutesAny, ReadExecutes,
         PushesAny, Pushes
<1>1. CASE Connect(c)
  BY <1>0, <1>L, <1>1 DEF TypeOK, Connect
<1>2. CASE Closes(c)
  BY <1>0, <1>L, <1>2 DEF TypeOK, Closes, StopsTimer, Forgets
<1>3. CASE CursorReturns(c)
  <2>1. LatestSettledSeq \in 0..MaxEvents
    <3>1. Settled \in SUBSET (1..MaxEvents)
      BY SettledRows
    <3>2. /\ Settled = {} => Latest(Settled, 0) = 0
          /\ Settled # {} => Latest(Settled, 0) \in Settled
      BY <1>0, <3>1, LatestIn
    <3>3. PICK m : m = Latest(Settled, 0)
      OBVIOUS
    <3>4. CASE Settled = {}
      BY <1>0, <3>2, <3>3, <3>4 DEF LatestSettledSeq
    <3>5. CASE Settled # {}
      <4>1. m \in 1..MaxEvents
        BY <3>1, <3>2, <3>3, <3>5
      <4> QED
        BY <1>0, <3>3, <4>1 DEF LatestSettledSeq
    <3> QED
      BY <3>4, <3>5
  <2>2. Committed \subseteq 1..MaxEvents
    BY TypesUnfold DEF Committed
  <2> QED
    BY <1>0, <1>L, <1>3, <2>1, <2>2 DEF TypeOK, CursorReturns
<1>4. CASE Beat(c)
  BY <1>0, <1>L, <1>4 DEF TypeOK, Beat
<1>5. CASE Renews(c)
  <2>1. CASE Holds(c)
    <3>1. claim \in ClaimRow /\ claim # NoClaim
      BY <2>1 DEF Holds, TypeOK
    <3>2. claim' \in ClaimRow
      <4>1. claim' = [claim EXCEPT !.age = 0] /\ 0 \in 0..TtlMs
        BY <1>0, <1>5, <2>1 DEF Renews, RenewMatches
      <4> QED
        BY <3>1, <4>1 DEF ClaimRow
    <3>3. [after |-> cursor[c], got |-> NotRead] \in Read
      BY TypesUnfold DEF Read
    <3>4. reads' \in [Conn -> SUBSET Read]
      BY <1>5, <2>1, <3>3 DEF Renews, RenewMatches, TypeOK
    <3> QED
      BY <1>0, <1>L, <1>5, <2>1, <3>2, <3>4 DEF TypeOK, Renews, RenewMatches
  <2>2. CASE ~Holds(c)
    BY <1>0, <1>L, <1>5, <2>2 DEF TypeOK, Renews, RenewMatches, Forgets
  <2> QED
    BY <2>1, <2>2
<1>6. CASE Releases(c)
  BY <1>0, <1>L, <1>6 DEF TypeOK, Releases
<1>7. CASE EmbodyFails(c) \/ RenewFails(c) \/ ReleaseFails(c)
  BY <1>0, <1>L, <1>7 DEF TypeOK, EmbodyFails, RenewFails, ReleaseFails, Fault
<1>8. CASE Crash(c)
  BY <1>0, <1>L, <1>8 DEF TypeOK, Crash, Fault, Forgets
<1>9. ASSUME NEW r \in reads[c], ReadFails(c, r) PROVE TypeOK'
  BY <1>0, <1>L, <1>9 DEF TypeOK, ReadFails, Fault
<1>10. ASSUME NEW r \in reads[c], ReadExecutes(c, r) PROVE TypeOK'
  <2> DEFINE e == [r EXCEPT !.got = ReadSince(r.after, Batch)]
  <2>1. ReadSince(r.after, Batch) \subseteq 1..MaxEvents
    BY SettledRows DEF ReadSince
  <2>2. e \in Read
    BY <2>1, TypesUnfold DEF Read
  <2>3. reads' \in [Conn -> SUBSET Read]
    <3> HIDE DEF e
    <3>1. reads' = [reads EXCEPT ![c] = (@ \ {r}) \cup {e}]
      BY <1>10 DEF ReadExecutes, e
    <3> QED
      BY <2>2, <3>1 DEF TypeOK
  <2> QED
    BY <1>0, <1>L, <1>10, <2>3 DEF TypeOK, ReadExecutes
<1>11. ASSUME NEW r \in reads[c], Pushes(c, r) PROVE TypeOK'
  <2>1. r.got \in SUBSET (1..MaxEvents)
    BY <1>11, RowsRead DEF Pushes
  <2>2. Latest(r.got, cursor[c]) \in 0..MaxEvents
    <3>1. cursor[c] \in 0..MaxEvents
      BY DEF TypeOK
    <3>2. /\ r.got = {} => Latest(r.got, cursor[c]) = cursor[c]
          /\ r.got # {} => Latest(r.got, cursor[c]) \in r.got
      BY <1>0, <2>1, LatestIn
    <3> QED
      BY <1>0, <2>1, <3>1, <3>2
  <2> QED
    BY <1>0, <1>L, <1>11, <2>1, <2>2 DEF TypeOK, Pushes
<1> QED
  BY <1>1, <1>2, <1>3, <1>4, <1>5, <1>6, <1>7, <1>8, <1>9, <1>10, <1>11
     DEF ConnFault, ReadExecutesAny, PushesAny

\* The connections that have claimed, counted.
LEMMA ClaimedCounted ==
  ASSUME TypeOK
  PROVE  /\ Claimed \in SUBSET (1..MaxConn) /\ IsFiniteSet(Claimed)
         /\ Cardinality(Claimed) \in 0..MaxConn
         /\ \A c \in Conn : c \notin Claimed => Cardinality(Claimed) < MaxConn
<1>1. Claimed \in SUBSET (1..MaxConn) /\ MaxConn \in Nat
  BY EmbodimentConstants DEF Claimed, Conn
<1> QED
  BY <1>1, PositionsCounted DEF Conn

\* A claim that is won continues the sequence.
LEMMA ClaimTyped ==
  ASSUME TypeOK, SeqOK, NEW c \in Conn, ClaimReturns(c)
  PROVE  TypeOK' /\ SeqOK'
<1>0. /\ claim # NoClaim => (claim.conn \in Conn /\ claim.seq \in 1..MaxConn /\ claim.age \in 0..TtlMs)
      /\ TtlMs \in Nat /\ MaxConn \in Nat
  BY TypesUnfold, EmbodimentConstants
<1>L. LogTypeOK'
  BY DEF TypeOK, LogTypeOK, logVars, ClaimReturns
<1>1. CASE Claimable(c)
  <2>1. PICK q : q = IF claim = NoClaim THEN 1 ELSE claim.seq + 1
    OBVIOUS
  <2>2. c \notin Claimed
    BY DEF Claimed, ClaimReturns
  <2>3. /\ claim' = [conn |-> c, seq |-> q, age |-> 0]
        /\ bound' = [bound EXCEPT ![c] = q]
        /\ pc' = [pc EXCEPT ![c] = "binding"]
        /\ UNCHANGED open
    BY <1>1, <2>1 DEF ClaimReturns
  <2>4. PICK n : n = Cardinality(Claimed)
    OBVIOUS
  <2>5. n \in 0..MaxConn /\ n < MaxConn
    BY <2>2, <2>4, ClaimedCounted
  <2>6. q \in 1..MaxConn /\ q <= n + 1
    BY <1>0, <2>1, <2>4, <2>5 DEF SeqOK
  <2>7. claim' \in ClaimRow
    BY <1>0, <2>3, <2>6 DEF ClaimRow
  <2>8. TypeOK'
    BY <1>0, <1>L, <2>3, <2>6, <2>7 DEF TypeOK, ClaimReturns
  <2>9. Claimed' = Claimed \cup {c}
    BY <2>3 DEF Claimed, TypeOK
  <2>10. Cardinality(Claimed') = n + 1
    BY <2>2, <2>4, <2>9, ClaimedCounted, FS_AddElement
  <2>11. SeqOK'
    BY <2>3, <2>6, <2>10 DEF SeqOK
  <2> QED
    BY <2>8, <2>11
<1>2. CASE ~Claimable(c)
  <2>1. pc' = [pc EXCEPT ![c] = "off"] /\ open' = open \ {c} /\ claim' = claim /\ bound' = bound
    BY <1>2 DEF ClaimReturns
  <2>2. TypeOK'
    BY <1>L, <2>1 DEF TypeOK, ClaimReturns
  <2>3. c \notin Claimed /\ Claimed' = Claimed \cup {c}
    BY <2>1 DEF Claimed, TypeOK, ClaimReturns
  <2>4. Cardinality(Claimed') = Cardinality(Claimed) + 1 /\ Cardinality(Claimed) \in 0..MaxConn
    BY <2>3, ClaimedCounted, FS_AddElement
  <2>5. SeqOK'
    BY <1>0, <2>1, <2>4 DEF SeqOK
  <2> QED
    BY <2>2, <2>5
<1> QED
  BY <1>1, <1>2

\* The other steps of a connection leave the claim's sequence, and no
\* connection unclaims.
LEMMA SeqKept ==
  ASSUME TypeOK, SeqOK, NEW c \in Conn,
         \/ Connect(c) \/ Closes(c) \/ CursorReturns(c) \/ Beat(c) \/ Renews(c) \/ Releases(c)
         \/ ConnFault(c) \/ ReadExecutesAny(c) \/ PushesAny(c)
  PROVE  SeqOK'
<1>1. claim' # NoClaim => (claim # NoClaim /\ claim'.seq = claim.seq)
  <2>1. CASE Renews(c)
    <3>1. CASE Holds(c)
      <4>1. claim \in ClaimRow /\ claim # NoClaim
        BY <3>1 DEF Holds, TypeOK
      <4>2. claim' = [claim EXCEPT !.age = 0]
        BY <2>1, <3>1 DEF Renews, RenewMatches
      <4> QED
        BY <4>1, <4>2 DEF ClaimRow
    <3>2. CASE ~Holds(c)
      BY <2>1, <3>2 DEF Renews, RenewMatches
    <3> QED
      BY <3>1, <3>2
  <2>2. CASE Releases(c)
    BY <2>2 DEF Releases
  <2>3. CASE ~Renews(c) /\ ~Releases(c)
    BY <2>3
       DEF Connect, Closes, CursorReturns, Beat, ConnFault, EmbodyFails, RenewFails, ReleaseFails,
                Crash, ReadFails, ReadExecutesAny, ReadExecutes, PushesAny, Pushes
  <2> QED
    BY <2>1, <2>2, <2>3
<1>2. Claimed \subseteq Claimed'
  <2>1. \A d \in Conn : d # c => pc'[d] = pc[d]
    BY DEF TypeOK, Connect, Closes, StopsTimer, Forgets, CursorReturns, Beat, Renews, Releases,
           ConnFault, EmbodyFails, RenewFails, ReleaseFails, Crash, ReadFails, ReadExecutesAny,
           ReadExecutes, PushesAny, Pushes
  <2>2. pc[c] \notin {"new", "claiming"} => pc'[c] \notin {"new", "claiming"}
    BY DEF TypeOK, Connect, Closes, StopsTimer, Forgets, CursorReturns, Beat, Renews, Releases,
           ConnFault, EmbodyFails, RenewFails, ReleaseFails, Crash, ReadFails, ReadExecutesAny,
           ReadExecutes, PushesAny, Pushes
  <2> QED
    BY <2>1, <2>2 DEF Claimed
<1>3. Claimed' \in SUBSET (1..MaxConn) /\ MaxConn \in Nat
  BY EmbodimentConstants DEF Claimed, Conn
<1>4. IsFiniteSet(Claimed') /\ Cardinality(Claimed') \in 0..MaxConn
  BY <1>3, PositionsCounted
<1>5. Cardinality(Claimed) <= Cardinality(Claimed') /\ Cardinality(Claimed) \in 0..MaxConn
  BY <1>2, <1>4, FS_Subset, ClaimedCounted
<1>6. claim # NoClaim => claim.seq \in 1..MaxConn
  BY TypesUnfold
<1>7. SeqOK'
  BY <1>1, <1>3, <1>4, <1>5, <1>6 DEF SeqOK
<1> QED
  BY <1>7

\* A tick ages the claim and counts the timers down.
LEMMA TickTyped ==
  ASSUME TypeOK, SeqOK, Tick
  PROVE  TypeOK' /\ SeqOK'
<1>0. /\ claim # NoClaim => (claim.conn \in Conn /\ claim.seq \in 1..MaxConn /\ claim.age \in 0..TtlMs)
      /\ TtlMs \in Nat /\ MaxConn \in Nat /\ HeartbeatMs \in Nat
      /\ \A c \in Conn : beatIn[c] \in 0..HeartbeatMs
  BY TypesUnfold, EmbodimentConstants
<1>L. LogTypeOK'
  BY DEF TypeOK, LogTypeOK, logVars, Tick
<1>1. /\ claim' \in ClaimRow \cup {NoClaim}
      /\ claim' # NoClaim => (claim # NoClaim /\ claim'.seq = claim.seq)
  <2>1. CASE claim # NoClaim /\ ~Lapsed
    <3>1. claim \in ClaimRow /\ claim.age \in 0..TtlMs /\ claim.age # TtlMs
      BY <1>0, <2>1 DEF TypeOK, Lapsed
    <3>2. claim' = [claim EXCEPT !.age = claim.age + 1] /\ claim.age + 1 \in 0..TtlMs
      BY <1>0, <2>1, <3>1 DEF Tick
    <3> QED
      BY <2>1, <3>1, <3>2 DEF ClaimRow
  <2>2. CASE ~(claim # NoClaim /\ ~Lapsed)
    BY <2>2 DEF Tick, TypeOK
  <2> QED
    BY <2>1, <2>2
<1>2. beatIn' \in [Conn -> 0..HeartbeatMs]
  BY <1>0 DEF Tick, Late
<1>3. TypeOK'
  BY <1>L, <1>1, <1>2 DEF TypeOK, Tick
<1>4. Claimed' = Claimed
  BY DEF Claimed, Tick
<1>5. SeqOK'
  BY <1>1, <1>4 DEF SeqOK
<1> QED
  BY <1>3, <1>5

-----------------------------------------------------------------------------
(* The claim of a connection that beats *)

LEMMA PatienceMoves ==
  ASSUME TypeOK
  PROVE  /\ Patience \in Nat /\ Patience >= HeartbeatMs
         /\ faults' = faults => Patience' = Patience
         /\ faults' = faults + 1 => Patience' = Patience + HeartbeatMs
<1>1. faults \in Nat /\ HeartbeatMs \in Nat
  BY TypesUnfold, EmbodimentConstants
<1>2. faults * HeartbeatMs \in Nat /\ (faults + 1) * HeartbeatMs = faults * HeartbeatMs + HeartbeatMs
  BY <1>1
<1>3. (faults + 1 + 1) * HeartbeatMs = (faults + 1) * HeartbeatMs + HeartbeatMs
  BY <1>1
<1> QED
  BY <1>1, <1>2, <1>3 DEF Patience

\* The statements on the claim.
LEMMA ClaimKeepsRoom ==
  ASSUME TypeOK, RoomOK, NEW c \in Conn, ClaimReturns(c)
  PROVE  RoomOK'
<1> SUFFICES ASSUME NEW d \in Conn PROVE RoomRow(d)'
  BY DEF RoomOK
<1>1. RoomRow(d) /\ RoomRow(c)
  BY DEF RoomOK
<1>2. Patience' = Patience /\ UNCHANGED <<beatIn, renewing, releasing>> /\ pc[c] = "claiming"
  BY PatienceMoves DEF ClaimReturns
<1>3. CASE Claimable(c)
  <2>1. PICK q : q = IF claim = NoClaim THEN 1 ELSE claim.seq + 1
    OBVIOUS
  <2>2. /\ claim' = [conn |-> c, seq |-> q, age |-> 0]
        /\ pc' = [pc EXCEPT ![c] = "binding"]
        /\ UNCHANGED open
    BY <1>3, <2>1 DEF ClaimReturns
  <2>3. claim'.conn = c /\ claim'.age = 0
    BY <2>2
  <2>4. CASE d = c
    BY <1>1, <1>2, <2>2, <2>3, <2>4 DEF RoomRow, TypeOK
  <2>5. CASE d # c
    <3>1. pc'[d] = pc[d] /\ ~(Holds(d)')
      BY <2>2, <2>3, <2>5 DEF TypeOK, Holds
    <3> QED
      BY <1>1, <1>2, <2>2, <2>3, <2>5, <3>1 DEF RoomRow
  <2> QED
    BY <2>4, <2>5
<1>4. CASE ~Claimable(c)
  <2>1. pc' = [pc EXCEPT ![c] = "off"] /\ open' = open \ {c} /\ claim' = claim /\ bound' = bound
    BY <1>4 DEF ClaimReturns
  <2>2. Holds(d)' <=> Holds(d)
    BY <2>1 DEF Holds
  <2>3. CASE d = c
    BY <1>1, <1>2, <2>1, <2>3 DEF RoomRow, TypeOK
  <2>4. CASE d # c
    BY <1>1, <1>2, <2>1, <2>2, <2>4 DEF RoomRow, TypeOK
  <2> QED
    BY <2>3, <2>4
<1> QED
  BY <1>3, <1>4

LEMMA RenewKeepsRoom ==
  ASSUME TypeOK, RoomOK, NEW c \in Conn, Renews(c)
  PROVE  RoomOK'
<1> SUFFICES ASSUME NEW d \in Conn PROVE RoomRow(d)'
  BY DEF RoomOK
<1>1. RoomRow(d) /\ RoomRow(c)
  BY DEF RoomOK
<1>2. /\ Patience' = Patience /\ bound' = bound /\ renewing' = renewing \ {c} /\ c \in renewing
      /\ Patience \in Nat /\ Patience >= HeartbeatMs /\ beatIn[d] \in 0..HeartbeatMs /\ HeartbeatMs \in Nat
  BY PatienceMoves, TypesUnfold DEF Renews
<1>3. CASE Holds(c)
  <2>1. claim \in ClaimRow /\ claim # NoClaim /\ claim.conn = c
    BY <1>3 DEF Holds, TypeOK
  <2>2. claim' = [claim EXCEPT !.age = 0] /\ UNCHANGED <<pc, open, beatIn, releasing>>
    BY <1>3 DEF Renews, RenewMatches
  <2>3. claim'.conn = c /\ claim'.seq = claim.seq /\ claim'.age = 0
    BY <2>1, <2>2 DEF ClaimRow
  <2>4. CASE d = c
    BY <1>1, <1>2, <2>1, <2>2, <2>3, <2>4 DEF RoomRow, Holds
  <2>5. CASE d # c
    BY <1>1, <1>2, <2>1, <2>2, <2>3, <2>5 DEF RoomRow, Holds
  <2> QED
    BY <2>4, <2>5
<1>4. CASE ~Holds(c)
  <2>1. /\ pc' = [pc EXCEPT ![c] = "off"] /\ beatIn' = [beatIn EXCEPT ![c] = 0] /\ open' = open \ {c}
        /\ releasing' = releasing \cup ({c} \cap open) /\ claim' = claim
    BY <1>4 DEF Renews, RenewMatches, Forgets
  <2>2. Holds(d)' <=> Holds(d)
    BY <1>2, <2>1 DEF Holds
  <2>3. CASE d = c
    BY <1>1, <1>2, <2>1, <2>3 DEF RoomRow, TypeOK
  <2>4. CASE d # c
    BY <1>1, <1>2, <2>1, <2>2, <2>4 DEF RoomRow, TypeOK
  <2> QED
    BY <2>3, <2>4
<1> QED
  BY <1>3, <1>4

LEMMA ReleaseKeepsRoom ==
  ASSUME TypeOK, RoomOK, NEW c \in Conn, Releases(c)
  PROVE  RoomOK'
<1> SUFFICES ASSUME NEW d \in Conn PROVE RoomRow(d)'
  BY DEF RoomOK
<1>1. RoomRow(d)
  BY DEF RoomOK
<1>2. /\ Patience' = Patience /\ UNCHANGED <<pc, open, bound, beatIn, renewing>>
      /\ releasing' = releasing \ {c} /\ (claim' = claim \/ claim' = NoClaim)
  BY PatienceMoves DEF Releases
<1>3. claim' # NoClaim => claim' = claim
  BY <1>2
<1>4. Holds(d)' => (Holds(d) /\ claim' = claim)
  BY <1>2, <1>3 DEF Holds
<1> QED
  BY <1>1, <1>2, <1>3, <1>4 DEF RoomRow

\* The steps that leave the claim alone.
LEMMA OthersKeepRoom ==
  ASSUME TypeOK, RoomOK, NEW c \in Conn,
         \/ Connect(c) \/ Closes(c) \/ CursorReturns(c) \/ Beat(c)
         \/ ConnFault(c) \/ ReadExecutesAny(c) \/ PushesAny(c)
  PROVE  RoomOK'
<1> SUFFICES ASSUME NEW d \in Conn PROVE RoomRow(d)'
  BY DEF RoomOK
<1>1. RoomRow(d) /\ RoomRow(c)
  BY DEF RoomOK
<1>2. claim' = claim /\ bound' = bound
  BY DEF Connect, Closes, CursorReturns, Beat, ConnFault, EmbodyFails, RenewFails, ReleaseFails,
         Crash, ReadFails, ReadExecutesAny, ReadExecutes, PushesAny, Pushes
<1>3. Holds(d)' <=> Holds(d)
  BY <1>2 DEF Holds
<1>4. /\ Patience \in Nat /\ Patience >= HeartbeatMs /\ HeartbeatMs \in Nat /\ HeartbeatMs > 0
      /\ beatIn[d] \in 0..HeartbeatMs /\ (claim # NoClaim => claim.age \in Nat)
  BY PatienceMoves, TypesUnfold
<1>5. /\ faults' = faults => Patience' = Patience
      /\ faults' = faults + 1 => Patience' = Patience + HeartbeatMs
  BY PatienceMoves
<1>6. Holds(d) => claim # NoClaim
  BY DEF Holds
<1>7. CASE Connect(c)
  BY <1>1, <1>2, <1>3, <1>5, <1>7 DEF Connect, RoomRow, TypeOK
<1>8. CASE Closes(c)
  BY <1>1, <1>2, <1>3, <1>5, <1>8 DEF Closes, StopsTimer, Forgets, RoomRow, TypeOK
<1>9. CASE CursorReturns(c)
  BY <1>1, <1>2, <1>3, <1>4, <1>5, <1>6, <1>9 DEF CursorReturns, RoomRow, TypeOK
<1>10. CASE Beat(c)
  BY <1>1, <1>2, <1>3, <1>4, <1>5, <1>6, <1>10 DEF Beat, RoomRow, TypeOK
<1>11. CASE ReadExecutesAny(c) \/ PushesAny(c)
  BY <1>1, <1>2, <1>3, <1>5, <1>11
     DEF ReadExecutesAny, ReadExecutes, PushesAny, Pushes, RoomRow
<1>12. CASE ConnFault(c)
  <2>1. Patience' = Patience + HeartbeatMs
    BY <1>5, <1>12 DEF ConnFault, EmbodyFails, RenewFails, ReleaseFails, Crash, ReadFails, Fault
  <2>2. CASE EmbodyFails(c)
    BY <1>1, <1>2, <1>3, <1>4, <1>6, <2>1, <2>2 DEF EmbodyFails, RoomRow, TypeOK
  <2>3. CASE RenewFails(c)
    BY <1>1, <1>2, <1>3, <1>4, <1>6, <2>1, <2>3 DEF RenewFails, RoomRow, TypeOK
  <2>4. CASE ReleaseFails(c)
    BY <1>1, <1>2, <1>3, <1>4, <1>6, <2>1, <2>4 DEF ReleaseFails, RoomRow, TypeOK
  <2>5. CASE Crash(c)
    BY <1>1, <1>2, <1>3, <1>4, <1>6, <2>1, <2>5 DEF Crash, Forgets, RoomRow, TypeOK
  <2>6. ASSUME NEW r \in reads[c], ReadFails(c, r) PROVE RoomRow(d)'
    BY <1>1, <1>2, <1>3, <1>4, <1>6, <2>1, <2>6 DEF ReadFails, RoomRow, TypeOK
  <2> QED
    BY <1>12, <2>2, <2>3, <2>4, <2>5, <2>6 DEF ConnFault
<1> QED
  BY <1>7, <1>8, <1>9, <1>10, <1>11, <1>12

\* While a renewal is awaited or a claim is being bound, no time passes.
LEMMA TickKeepsRoom ==
  ASSUME TypeOK, RoomOK, Tick
  PROVE  RoomOK'
<1> SUFFICES ASSUME NEW d \in Conn PROVE RoomRow(d)'
  BY DEF RoomOK
<1>1. RoomRow(d) /\ ~Late(d)
  BY DEF RoomOK, Tick
<1>2. /\ Patience' = Patience /\ UNCHANGED <<pc, open, bound, renewing, releasing>>
      /\ beatIn[d] \in 0..HeartbeatMs /\ HeartbeatMs \in Nat /\ Patience \in Nat
  BY PatienceMoves, TypesUnfold DEF Tick
<1>3. beatIn'[d] = IF pc[d] = "live" THEN beatIn[d] - 1 ELSE beatIn[d]
  BY DEF Tick
<1>4. /\ (claim' # NoClaim) <=> (claim # NoClaim)
      /\ claim # NoClaim => /\ claim'.conn = claim.conn /\ claim'.seq = claim.seq
                            /\ claim.age \in Nat
                            /\ claim'.age \in {claim.age, claim.age + 1}
  <2>1. CASE claim # NoClaim /\ ~Lapsed
    <3>1. claim \in ClaimRow /\ claim.age \in 0..TtlMs /\ claim.age # TtlMs /\ TtlMs \in Nat
      BY <2>1, TypesUnfold DEF TypeOK, Lapsed
    <3>2. claim' = [claim EXCEPT !.age = claim.age + 1] /\ claim.age + 1 \in 0..TtlMs
      BY <2>1, <3>1 DEF Tick
    <3>3. claim' \in ClaimRow
      BY <3>1, <3>2 DEF ClaimRow
    <3>4. claim'.conn = claim.conn /\ claim'.seq = claim.seq /\ claim'.age = claim.age + 1
      BY <3>1, <3>2 DEF ClaimRow
    <3> QED
      BY <2>1, <3>1, <3>3, <3>4, EmbodimentConstants
  <2>2. CASE ~(claim # NoClaim /\ ~Lapsed)
    BY <2>2, TypesUnfold DEF Tick
  <2> QED
    BY <2>1, <2>2
<1>5. Holds(d)' <=> Holds(d)
  BY <1>2, <1>4 DEF Holds
<1>6. Holds(d) => claim # NoClaim
  BY DEF Holds
<1> QED
  BY <1>1, <1>2, <1>3, <1>4, <1>5, <1>6 DEF RoomRow, Late

-----------------------------------------------------------------------------
(* Theorems about the claim *)

\* The initial state satisfies the invariant.
LEMMA RoomInitOK == Init => RoomInv
<1> SUFFICES ASSUME Init PROVE RoomInv
  OBVIOUS
<1>1. LogTypeOK /\ StampedOK
  <2>1. Stamped = {} /\ log = <<>> /\ nextXid = 1 /\ MaxEvents \in Nat
    BY LogConstants DEF Init, LogInit, Stamped
  <2> QED
    BY <2>1, FS_EmptySet DEF LogTypeOK, StampedOK
<1>2. TypeOK
  <2>1. 0 \in 0..MaxConn /\ 0 \in 0..HeartbeatMs /\ 0 \in 0..MaxEvents /\ 0 \in 0..MaxFaults
    BY EmbodimentConstants, LogConstants
  <2> QED
    BY <1>1, <2>1 DEF Init, TypeOK
<1>3. SeqOK
  BY DEF Init, SeqOK
<1>4. RoomOK
  BY DEF Init, RoomOK, RoomRow
<1> QED
  BY <1>1, <1>2, <1>3, <1>4 DEF RoomInv

\* Every step preserves it.
LEMMA RoomStep == RoomInv /\ [Next]_vars => RoomInv'
<1> SUFFICES ASSUME RoomInv, [Next]_vars PROVE RoomInv'
  OBVIOUS
<1>1. TypeOK /\ SeqOK /\ StampedOK /\ RoomOK
  BY DEF RoomInv
<1>2. CASE Appends /\ UNCHANGED <<claim, connVars, faults>>
  <2>1. LogTypeOK' /\ StampedOK'
    BY <1>1, <1>2, LogTyped DEF TypeOK
  <2>2. TypeOK'
    BY <1>1, <1>2, <2>1 DEF TypeOK, connVars
  <2>3. SeqOK' /\ RoomOK'
    BY <1>1, <1>2 DEF SeqOK, Claimed, RoomOK, RoomRow, Holds, Patience, connVars
  <2> QED
    BY <2>1, <2>2, <2>3 DEF RoomInv
<1>3. ASSUME NEW c \in Conn, ClaimReturns(c) PROVE RoomInv'
  <2>1. StampedOK'
    BY <1>1, <1>3 DEF ClaimReturns, StampedOK, Stamped, logVars
  <2> QED
    BY <1>1, <1>3, <2>1, ClaimTyped, ClaimKeepsRoom DEF RoomInv
<1>4. ASSUME NEW c \in Conn,
             \/ Connect(c) \/ Closes(c) \/ CursorReturns(c) \/ Beat(c) \/ Renews(c) \/ Releases(c)
             \/ ConnFault(c) \/ ReadExecutesAny(c) \/ PushesAny(c)
      PROVE  RoomInv'
  <2>1. log' = log /\ nextXid' = nextXid
    BY <1>4 DEF Connect, Closes, CursorReturns, Beat, Renews, Releases, ConnFault, EmbodyFails,
                RenewFails, ReleaseFails, Crash, ReadFails, ReadExecutesAny, ReadExecutes,
                PushesAny, Pushes, logVars
  <2>2. StampedOK'
    BY <1>1, <2>1 DEF StampedOK, Stamped
  <2>3. RoomOK'
    BY <1>1, <1>4, RenewKeepsRoom, ReleaseKeepsRoom, OthersKeepRoom
  <2> QED
    BY <1>1, <1>4, <2>2, <2>3, ConnTyped, SeqKept DEF RoomInv
<1>5. CASE Tick
  <2>1. StampedOK'
    BY <1>1, <1>5 DEF Tick, StampedOK, Stamped, logVars
  <2> QED
    BY <1>1, <1>5, <2>1, TickTyped, TickKeepsRoom DEF RoomInv
<1>6. CASE UNCHANGED vars
  BY <1>1, <1>6 DEF RoomInv, vars, connVars, logVars, TypeOK, LogTypeOK, SeqOK, Claimed, StampedOK,
                    Stamped, RoomOK, RoomRow, Holds, Patience
<1> QED
  BY <1>2, <1>3, <1>4, <1>5, <1>6 DEF Next, ConnStep

\* The claim row and the connections agree: a connection that has yet to claim
\* is not in the row, its heartbeat and its release run in the phases of
\* register.ts that start them, and the claim of one that beats is younger than
\* a heartbeat for every fault and one more.
THEOREM RoomInvHolds == Spec => []RoomInv
BY RoomInitOK, RoomStep, PTL DEF Spec

\* Type correctness: no counter, timer or transaction id leaves its range.
THEOREM EmbodimentTypeCorrect == Spec => []TypeOK
<1>1. RoomInv => TypeOK
  BY DEF RoomInv
<1> QED
  BY <1>1, RoomInvHolds, PTL

HolderStep ==
  \A c \in Conn : (pc[c] = "live" /\ c \in open /\ Holds(c)) => claim' # NoClaim /\ claim'.conn >= c

\* A claim whose holder beats does not lapse, for the time to live is longer
\* than the faults there may be; and only its holder's own statements match it.
LEMMA HolderKeeps ==
  ASSUME TtlMs > (MaxFaults + 1) * HeartbeatMs, RoomInv, [Next]_vars
  PROVE  HolderStep
<1> SUFFICES ASSUME NEW c \in Conn, pc[c] = "live", Holds(c)
             PROVE  claim' # NoClaim /\ claim'.conn >= c
  BY DEF HolderStep
<1>1. TypeOK /\ RoomRow(c)
  BY DEF RoomInv, RoomOK
<1>2. /\ claim # NoClaim /\ claim.conn = c /\ claim \in ClaimRow /\ claim.age \in Nat
      /\ c \in Nat /\ NoClaim \notin ClaimRow
  <2>1. claim # NoClaim /\ claim.conn = c /\ claim \in ClaimRow
    BY <1>1 DEF Holds, TypeOK
  <2>2. claim.age \in 0..TtlMs /\ TtlMs \in Nat
    BY <1>1, <2>1, TypesUnfold
  <2> QED
    BY <2>1, <2>2, EmbodimentConstants DEF Conn
<1>3. claim.age <= Patience
  BY <1>1, <1>2, TypesUnfold, PatienceMoves DEF RoomRow
<1>4. ~Lapsed
  <2>1. faults \in 0..MaxFaults /\ MaxFaults \in Nat /\ HeartbeatMs \in Nat /\ TtlMs \in Nat
    BY <1>1, TypesUnfold, EmbodimentConstants
  <2>2. (MaxFaults - faults) * HeartbeatMs \in Nat
    BY <2>1
  <2>3. (MaxFaults + 1) * HeartbeatMs = (faults + 1) * HeartbeatMs + (MaxFaults - faults) * HeartbeatMs
    BY <2>1
  <2>4. (faults + 1) * HeartbeatMs \in Nat
    BY <2>1
  <2> QED
    BY <1>2, <1>3, <2>1, <2>2, <2>3, <2>4 DEF Patience, Lapsed
<1>5. claim' = claim => (claim' # NoClaim /\ claim'.conn >= c)
  BY <1>2
<1>6. ASSUME NEW d \in Conn, ClaimReturns(d) PROVE claim' # NoClaim /\ claim'.conn >= c
  <2>1. CASE Claimable(d)
    <3>1. c < d
      BY <1>2, <1>4, <2>1 DEF Claimable
    <3>2. PICK q : q = IF claim = NoClaim THEN 1 ELSE claim.seq + 1
      OBVIOUS
    <3>3. claim' = [conn |-> d, seq |-> q, age |-> 0]
      BY <1>6, <2>1, <3>2 DEF ClaimReturns
    <3>4. TypeOK'
      BY <1>6, ClaimTyped DEF RoomInv
    <3>5. claim'.conn = d /\ d \in Nat
      BY <3>3, EmbodimentConstants DEF Conn
    <3>6. claim' # NoClaim
      <4>1. pc'[d] = "binding" /\ bound'[d] = q
        BY <1>1, <1>6, <2>1, <3>2 DEF ClaimReturns, TypeOK
      <4>2. q \in 1..MaxConn
        BY <1>1, <1>2, <1>6, <2>1, <3>2, <3>4, <4>1, TypesUnfold, EmbodimentConstants
           DEF TypeOK, ClaimRow
      <4>3. claim' \in ClaimRow
        BY <3>3, <4>2, TypesUnfold, <1>1 DEF ClaimRow
      <4> QED
        BY <1>2, <4>3
    <3> QED
      BY <1>2, <3>1, <3>5, <3>6
  <2>2. CASE ~Claimable(d)
    BY <1>5, <1>6, <2>2 DEF ClaimReturns
  <2> QED
    BY <2>1, <2>2
<1>7. ASSUME NEW d \in Conn, Renews(d) PROVE claim' # NoClaim /\ claim'.conn >= c
  <2>1. CASE Holds(d)
    <3>1. claim' = [claim EXCEPT !.age = 0] /\ 0 \in 0..TtlMs
      BY <1>1, <1>7, <2>1, TypesUnfold DEF Renews, RenewMatches
    <3>2. claim' \in ClaimRow /\ claim'.conn = c
      BY <1>2, <3>1 DEF ClaimRow
    <3> QED
      BY <1>2, <3>2
  <2>2. CASE ~Holds(d)
    BY <1>5, <1>7, <2>2 DEF Renews, RenewMatches
  <2> QED
    BY <2>1, <2>2
<1>8. ASSUME NEW d \in Conn, Releases(d) PROVE claim' # NoClaim /\ claim'.conn >= c
  <2>1. pc[d] = "off"
    BY <1>8 DEF Releases, RoomInv, RoomOK, RoomRow
  <2>2. ~Holds(d)
    BY <1>2, <2>1 DEF Holds
  <2> QED
    BY <1>5, <1>8, <2>2 DEF Releases, ReleaseMatches
<1>9. CASE Tick
  <2>1. claim.age + 1 \in 0..TtlMs
    BY <1>1, <1>2, <1>4, TypesUnfold DEF Lapsed
  <2>2. claim' = [claim EXCEPT !.age = claim.age + 1]
    BY <1>2, <1>4, <1>9 DEF Tick
  <2>3. claim' \in ClaimRow /\ claim'.conn = c
    BY <1>2, <2>1, <2>2 DEF ClaimRow
  <2> QED
    BY <1>2, <2>3
<1>10. ASSUME NEW d \in Conn,
              \/ Connect(d) \/ Closes(d) \/ CursorReturns(d) \/ Beat(d)
              \/ ConnFault(d) \/ ReadExecutesAny(d) \/ PushesAny(d)
       PROVE  claim' = claim
  BY <1>10
     DEF Connect, Closes, CursorReturns, Beat, ConnFault, EmbodyFails, RenewFails, ReleaseFails,
               Crash, ReadFails, ReadExecutesAny, ReadExecutes, PushesAny, Pushes
<1>11. CASE (Appends /\ UNCHANGED <<claim, connVars, faults>>) \/ UNCHANGED vars
  BY <1>5, <1>11 DEF vars
<1> QED
  BY <1>5, <1>6, <1>7, <1>8, <1>9, <1>10, <1>11 DEF Next, ConnStep

\* A connection that beats loses the claim to a newer connection only, as long
\* as the time to live outlasts a heartbeat for every fault and one more.
THEOREM HolderKeptHolds == (TtlMs > (MaxFaults + 1) * HeartbeatMs) => (Spec => HolderKept)
<1> SUFFICES ASSUME TtlMs > (MaxFaults + 1) * HeartbeatMs PROVE Spec => HolderKept
  OBVIOUS
<1>1. RoomInv /\ [Next]_vars => [HolderStep]_vars
  BY HolderKeeps
<1>2. HolderKept <=> [][HolderStep]_vars
  BY DEF HolderKept, HolderStep
<1> QED
  BY <1>1, <1>2, RoomInvHolds, PTL DEF Spec

-----------------------------------------------------------------------------
(* The log when ids follow sequence numbers *)

Ended(s) == log[s].state \in {"committed", "aborted"}

\* Only the last append may still wait for its id, and ids grow along the log.
OrderOK ==
  \A s \in DOMAIN log :
    /\ log[s].state = "numbered" => s = Len(log)
    /\ log[s].state # "numbered" => log[s].xid < nextXid
    /\ \A t \in DOMAIN log : (s < t /\ log[t].state # "numbered") => log[s].xid < log[t].xid

\* The appends up to n have ended, and G holds those that committed.
Whole(n, G) == n \in 0..Len(log) /\ \A s \in 1..n : Ended(s) /\ (log[s].state = "committed" => s \in G)

\* A read began at a cursor that had missed nothing, and whatever it found
\* continues from there without a gap.
ReadOK(r, G) ==
  /\ Whole(r.after, G)
  /\ r.got # NotRead => \A l \in r.got : Whole(l, G \cup r.got)

\* A client that listens has every committed row up to its cursor.
DeliveryRow(c) ==
  /\ reads[c] # {} => (pc[c] = "live" /\ c \in open)
  /\ (pc[c] = "live" /\ c \in open) =>
       Whole(cursor[c], given[c]) /\ \A r \in reads[c] : ReadOK(r, given[c])

DeliveryInv == OrderOK /\ \A c \in Conn : DeliveryRow(c)

\* Below a settled row every append has ended, and what committed is settled.
LEMMA SettledBelow ==
  ASSUME TypeOK, OrderOK, NEW l \in Settled, NEW s \in 1..l
  PROVE  Ended(s) /\ (log[s].state = "committed" => s \in Settled)
<1>1. log \in Seq(Row) /\ Len(log) \in Nat /\ DOMAIN log = 1..Len(log)
  BY TypesUnfold
<1>2. /\ l \in DOMAIN log /\ log[l].state = "committed"
      /\ \A r \in DOMAIN log : log[r].state = "running" => log[l].xid < log[r].xid
  BY DEF Settled, Committed
<1>3. s \in DOMAIN log /\ s \in Nat /\ l \in Nat /\ s <= l /\ l <= Len(log)
  BY <1>1, <1>2
<1>4. \A t \in DOMAIN log : log[t].xid \in Nat /\ log[t].state \in {"numbered", "running", "committed", "aborted"}
  <2>1. \A t \in DOMAIN log : log[t] \in Row
    BY <1>1
  <2> QED
    BY <2>1, LogConstants DEF Row
<1>5. CASE s = l
  BY <1>2, <1>5 DEF Ended
<1>6. CASE s < l
  <2>1. log[s].state # "numbered"
    BY <1>1, <1>3, <1>6 DEF OrderOK
  <2>2. log[s].xid < log[l].xid
    BY <1>2, <1>3, <1>6 DEF OrderOK
  <2>3. log[s].state # "running"
    BY <1>2, <1>3, <1>4, <2>2
  <2>4. Ended(s)
    BY <1>3, <1>4, <2>1, <2>3 DEF Ended
  <2>5. \A r \in DOMAIN log : log[r].state = "running" => log[s].xid < log[r].xid
    BY <1>2, <1>3, <1>4, <2>2
  <2> QED
    BY <1>3, <2>4, <2>5 DEF Settled, Committed
<1> QED
  BY <1>3, <1>5, <1>6

\* The snapshot of a connection: the last settled row, with all that committed.
LEMMA SnapshotWhole ==
  ASSUME TypeOK, OrderOK
  PROVE  Whole(LatestSettledSeq, Committed)
<1>0. Len(log) \in Nat /\ DOMAIN log = 1..Len(log)
  BY TypesUnfold
<1>1. Settled \in SUBSET (1..Len(log))
  BY SettledRows
<1>2. PICK m : m = LatestSettledSeq
  OBVIOUS
<1>3. CASE Settled = {}
  <2>1. m = 0
    BY <1>2, <1>3 DEF LatestSettledSeq, Latest
  <2> QED
    BY <1>0, <1>2, <2>1 DEF Whole
<1>4. CASE Settled # {}
  <2>1. m \in Settled /\ m \in 1..Len(log)
    BY <1>0, <1>1, <1>2, <1>4, LatestIn DEF LatestSettledSeq
  <2>2. \A s \in 1..m : Ended(s)
    BY <2>1, SettledBelow
  <2>3. \A s \in 1..m : log[s].state = "committed" => s \in Committed
    BY <1>0, <2>1 DEF Committed
  <2> QED
    BY <1>0, <1>2, <2>1, <2>2, <2>3 DEF Whole
<1> QED
  BY <1>3, <1>4

\* A read takes the settled rows after its cursor without a gap: a row below
\* one that fits the limit fits it too.
LEMMA ReadWhole ==
  ASSUME TypeOK, OrderOK, NEW after, NEW G, Whole(after, G), NEW limit \in Nat,
         NEW l \in ReadSince(after, limit)
  PROVE  Whole(l, G \cup ReadSince(after, limit))
<1>0. Len(log) \in Nat /\ DOMAIN log = 1..Len(log) /\ after \in 0..Len(log)
  BY TypesUnfold DEF Whole
<1>1. Settled \in SUBSET (1..Len(log)) /\ l \in Settled /\ l > after /\ l \in 1..Len(log)
  BY SettledRows DEF ReadSince
<1>2. Cardinality({r \in Settled : after < r /\ r <= l}) <= limit
  BY DEF ReadSince
<1>3. ASSUME NEW s \in 1..l PROVE Ended(s) /\ (log[s].state = "committed" => s \in G \cup ReadSince(after, limit))
  <2>1. Ended(s) /\ (log[s].state = "committed" => s \in Settled)
    BY <1>1, SettledBelow
  <2>2. CASE s <= after
    BY <1>0, <1>1, <2>1, <2>2 DEF Whole
  <2>3. CASE s > after /\ log[s].state = "committed"
    <3>1. PICK S : S = {r \in Settled : after < r /\ r <= s}
      OBVIOUS
    <3>2. PICK L : L = {r \in Settled : after < r /\ r <= l}
      OBVIOUS
    <3>3. L \in SUBSET (1..Len(log)) /\ S \in SUBSET L /\ S \in SUBSET (1..Len(log))
      <4>1. L \in SUBSET Settled /\ S \in SUBSET Settled
        BY <3>1, <3>2
      <4>2. \A r \in Settled : r \in Nat /\ s \in Nat /\ l \in Nat /\ s <= l
        BY <1>0, <1>1
      <4>3. \A r \in Settled : r <= s => r <= l
        BY <4>2
      <4> QED
        BY <1>1, <3>1, <3>2, <4>1, <4>3
    <3>4. IsFiniteSet(L) /\ Cardinality(L) \in Nat /\ Cardinality(S) \in Nat
      <4>1. IsFiniteSet(L) /\ Cardinality(L) \in 0..Len(log)
        BY <1>0, <3>3, PositionsCounted
      <4>2. Cardinality(S) \in 0..Len(log)
        BY <1>0, <3>3, PositionsCounted
      <4> QED
        BY <1>0, <4>1, <4>2
    <3>5. Cardinality(S) <= Cardinality(L)
      BY <3>3, <3>4, FS_Subset
    <3>6. Cardinality(S) <= limit
      BY <1>2, <3>2, <3>4, <3>5
    <3>7. s \in Settled
      BY <2>1, <2>3
    <3>8. s \in ReadSince(after, limit)
      BY <2>3, <3>1, <3>6, <3>7 DEF ReadSince
    <3> QED
      BY <2>1, <3>8
  <2>4. after \in Int /\ s \in Int
    BY <1>0, <1>1
  <2> QED
    BY <2>1, <2>2, <2>3, <2>4
<1> QED
  BY <1>0, <1>1, <1>3 DEF Whole

\* More rows given, or a log that has moved on, leave nothing missing.
LEMMA WholeGrows ==
  ASSUME NEW n, NEW G, NEW H, G \subseteq H, Whole(n, G)
  PROVE  Whole(n, H)
BY DEF Whole

-----------------------------------------------------------------------------
(* Appends *)

\* What the log keeps: rows that have ended stay as they are.
LogKeeps ==
  /\ Len(log) <= Len(log') /\ Len(log') \in Nat
  /\ \A s \in 1..Len(log) : Ended(s) => log'[s] = log[s]

LEMMA AppendsKeepOrder ==
  ASSUME TypeOK, OrderOK, StampsInOrder, Appends
  PROVE  OrderOK' /\ LogKeeps
<1>0. log \in Seq(Row) /\ Len(log) \in Nat /\ DOMAIN log = 1..Len(log) /\ MaxEvents \in Nat
  BY TypesUnfold, LogConstants
<1>1. CASE Number
  <2> DEFINE e == [xid |-> 0, state |-> "numbered"]
  <2>1. e \in Row /\ e.state = "numbered"
    BY <1>0 DEF Row
  <2> HIDE DEF e
  <2>2. log' = Append(log, e) /\ Len(log) < MaxEvents /\ nextXid' = nextXid
    BY <1>1 DEF Number, e
  <2>3. log' \in Seq(Row) /\ Len(log') = Len(log) + 1
    BY <1>0, <2>1, <2>2, AppendProperties
  <2>4. \A s \in DOMAIN log : log'[s] = log[s]
    BY <1>0, <2>1, <2>2, AppendProperties
  <2>5. log'[Len(log) + 1] = e /\ DOMAIN log' = 1..(Len(log) + 1)
    BY <1>0, <2>1, <2>2, <2>3, AppendProperties, LenProperties
  <2>6. \A s \in DOMAIN log : log[s].state # "numbered"
    BY <1>1 DEF Number
  <2>7. \A s \in DOMAIN log' : s \in DOMAIN log \/ s = Len(log')
    BY <1>0, <2>3, <2>5
  <2>8. OrderOK'
    <3> SUFFICES ASSUME NEW s \in DOMAIN log'
                 PROVE  /\ log'[s].state = "numbered" => s = Len(log')
                        /\ log'[s].state # "numbered" => log'[s].xid < nextXid'
                        /\ \A t \in DOMAIN log' :
                             (s < t /\ log'[t].state # "numbered") => log'[s].xid < log'[t].xid
      BY DEF OrderOK
    <3>1. CASE s = Len(log')
      <4>1. log'[s].state = "numbered"
        BY <2>1, <2>3, <2>5, <3>1
      <4>2. \A t \in DOMAIN log' : ~(s < t)
        BY <1>0, <2>3, <2>5, <3>1
      <4> QED
        BY <3>1, <4>1, <4>2
    <3>2. CASE s \in DOMAIN log
      <4>1. log'[s] = log[s] /\ log[s].state # "numbered" /\ log[s].xid < nextXid
        BY <2>4, <2>6, <3>2 DEF OrderOK
      <4>2. ASSUME NEW t \in DOMAIN log', s < t, log'[t].state # "numbered" PROVE log'[s].xid < log'[t].xid
        <5>1. t \in DOMAIN log
          BY <2>1, <2>3, <2>5, <2>7, <4>2
        <5> QED
          BY <2>4, <3>2, <4>1, <4>2, <5>1 DEF OrderOK
      <4> QED
        BY <2>2, <4>1, <4>2
    <3> QED
      BY <2>7, <3>1, <3>2
  <2> QED
    BY <1>0, <2>3, <2>4, <2>8 DEF LogKeeps
<1>2. ASSUME NEW s \in DOMAIN log, Stamp(s) PROVE OrderOK' /\ LogKeeps
  <2> DEFINE e == [xid |-> nextXid, state |-> "running"]
  <2>1. e.state = "running" /\ e.xid = nextXid /\ nextXid \in Nat
    BY LogConstants DEF TypeOK, LogTypeOK
  <2> HIDE DEF e
  <2>2. log' = [log EXCEPT ![s] = e] /\ nextXid' = nextXid + 1 /\ log[s].state = "numbered"
    BY <1>2 DEF Stamp, e
  <2>3. Len(log') = Len(log) /\ DOMAIN log' = DOMAIN log /\ log'[s] = e
    BY <1>0, <2>2
  <2>4. \A t \in DOMAIN log : t # s => log'[t] = log[t]
    BY <1>0, <2>2
  <2>5. s = Len(log) /\ (\A t \in DOMAIN log : t # s => t < s)
    BY <1>0, <2>2 DEF OrderOK
  <2>6. \A t \in DOMAIN log : t # s => (log[t].state # "numbered" /\ log[t].xid < nextXid)
    BY <2>5 DEF OrderOK
  <2>7. \A t \in DOMAIN log : log[t].xid \in Nat
    <3>1. \A t \in DOMAIN log : log[t] \in Row
      BY <1>0
    <3> QED
      BY <3>1, LogConstants DEF Row
  <2>8. OrderOK'
    <3> SUFFICES ASSUME NEW u \in DOMAIN log
                 PROVE  /\ log'[u].state = "numbered" => u = Len(log')
                        /\ log'[u].state # "numbered" => log'[u].xid < nextXid'
                        /\ \A t \in DOMAIN log :
                             (u < t /\ log'[t].state # "numbered") => log'[u].xid < log'[t].xid
      BY <2>3 DEF OrderOK
    <3>1. CASE u = s
      <4>1. \A t \in DOMAIN log : ~(u < t)
        BY <1>0, <2>5, <3>1
      <4> QED
        BY <2>1, <2>2, <2>3, <3>1, <4>1
    <3>2. CASE u # s
      <4>1. log'[u] = log[u] /\ log[u].state # "numbered" /\ log[u].xid < nextXid /\ log[u].xid \in Nat
        BY <2>4, <2>6, <2>7, <3>2
      <4>2. ASSUME NEW t \in DOMAIN log, u < t PROVE log'[u].xid < log'[t].xid
        <5>1. CASE t = s
          BY <2>1, <2>3, <4>1, <5>1
        <5>2. CASE t # s
          BY <2>4, <2>6, <4>1, <4>2, <5>2 DEF OrderOK
        <5> QED
          BY <5>1, <5>2
      <4> QED
        BY <2>1, <2>2, <4>1, <4>2
    <3> QED
      BY <3>1, <3>2
  <2>9. \A t \in 1..Len(log) : Ended(t) => log'[t] = log[t]
    BY <1>0, <2>2, <2>4 DEF Ended
  <2> QED
    BY <1>0, <2>3, <2>8, <2>9 DEF LogKeeps
<1>3. ASSUME NEW s \in DOMAIN log, Ends(s) PROVE OrderOK' /\ LogKeeps
  <2>1. PICK end \in {"committed", "aborted"} : log' = [log EXCEPT ![s].state = end]
    BY <1>3 DEF Ends
  <2> DEFINE e == [log[s] EXCEPT !.state = end]
  <2>2. log[s] \in Row /\ log[s].state = "running" /\ nextXid' = nextXid
    BY <1>0, <1>3 DEF Ends
  <2>3. e.state = end /\ e.xid = log[s].xid
    BY <2>2 DEF Row
  <2> HIDE DEF e
  <2>4. log' = [log EXCEPT ![s] = e]
    BY <2>1 DEF e
  <2>5. Len(log') = Len(log) /\ DOMAIN log' = DOMAIN log /\ log'[s] = e
    BY <1>0, <2>4
  <2>6. \A t \in DOMAIN log : t # s => log'[t] = log[t]
    BY <1>0, <2>4
  <2>7. \A t \in DOMAIN log :
          /\ log'[t].xid = log[t].xid
          /\ (log'[t].state = "numbered") <=> (log[t].state = "numbered")
    BY <2>1, <2>2, <2>3, <2>5, <2>6
  <2>8. OrderOK'
    BY <2>2, <2>5, <2>7 DEF OrderOK
  <2>9. \A t \in 1..Len(log) : Ended(t) => log'[t] = log[t]
    BY <1>0, <2>2, <2>6 DEF Ended
  <2> QED
    BY <1>0, <2>5, <2>8, <2>9 DEF LogKeeps
<1> QED
  BY <1>1, <1>2, <1>3 DEF Appends, LogStep

LEMMA WholeStays == ASSUME LogKeeps, Len(log) \in Nat, NEW n, NEW G, Whole(n, G) PROVE Whole(n, G)'
<1>1. n \in 0..Len(log) /\ n \in 0..Len(log')
  BY DEF Whole, LogKeeps
<1>2. \A s \in 1..n : s \in 1..Len(log) /\ log'[s] = log[s]
  BY <1>1 DEF Whole, LogKeeps
<1>3. \A s \in 1..n : Ended(s)' /\ (log'[s].state = "committed" => s \in G)
  BY <1>2 DEF Whole, Ended
<1> QED
  BY <1>1, <1>3 DEF Whole

LEMMA AppendsKeepDelivery ==
  ASSUME TypeOK, DeliveryInv, StampsInOrder, Appends, UNCHANGED <<claim, connVars, faults>>
  PROVE  DeliveryInv'
<1>1. OrderOK' /\ LogKeeps /\ Len(log) \in Nat
  BY AppendsKeepOrder, TypesUnfold DEF DeliveryInv
<1>2. pc' = pc /\ open' = open /\ cursor' = cursor /\ reads' = reads /\ given' = given
  BY DEF connVars
<1>3. ASSUME NEW c \in Conn PROVE DeliveryRow(c)'
  <2>1. DeliveryRow(c)
    BY DEF DeliveryInv
  <2>2. ASSUME pc[c] = "live", c \in open
        PROVE  Whole(cursor[c], given[c])' /\ \A r \in reads[c] : ReadOK(r, given[c])'
    <3>1. PICK n, G : n = cursor[c] /\ G = given[c]
      OBVIOUS
    <3>2. Whole(n, G)'
      BY <1>1, <2>1, <2>2, <3>1, WholeStays DEF DeliveryRow
    <3>3. Whole(cursor[c], given[c])'
      BY <1>2, <3>1, <3>2 DEF Whole, Ended
    <3>4. ASSUME NEW r \in reads[c] PROVE ReadOK(r, given[c])'
      <4>1. ReadOK(r, G)
        BY <2>1, <2>2, <3>1 DEF DeliveryRow
      <4>2. Whole(r.after, G)'
        BY <1>1, <4>1, WholeStays DEF ReadOK
      <4>3. ASSUME r.got # NotRead, NEW l \in r.got PROVE Whole(l, G \cup r.got)'
        BY <1>1, <4>1, <4>3, WholeStays DEF ReadOK
      <4>4. ReadOK(r, G)'
        BY <4>2, <4>3 DEF ReadOK
      <4> QED
        BY <1>2, <3>1, <4>4 DEF ReadOK, Whole, Ended
    <3> QED
      BY <3>3, <3>4
  <2> QED
    BY <1>2, <2>1, <2>2 DEF DeliveryRow
<1> QED
  BY <1>1, <1>3 DEF DeliveryInv

-----------------------------------------------------------------------------
(* Deliveries *)

\* What a row says in the next state when the log has not moved.
LEMMA WholeSame == ASSUME log' = log, NEW n, NEW G PROVE Whole(n, G)' <=> Whole(n, G)
BY DEF Whole, Ended

LEMMA ReadSame == ASSUME log' = log, NEW r, NEW G PROVE ReadOK(r, G)' <=> ReadOK(r, G)
BY DEF ReadOK, Whole, Ended

LEMMA ReadGrows ==
  ASSUME NEW r, NEW G, NEW H, G \subseteq H, ReadOK(r, G)
  PROVE  ReadOK(r, H)
<1>1. G \cup r.got \subseteq H \cup r.got
  OBVIOUS
<1> QED
  BY <1>1, WholeGrows DEF ReadOK

\* A connection a step leaves alone.
LEMMA DeliverySame ==
  ASSUME NEW d, log' = log, DeliveryRow(d), pc'[d] = pc[d], d \in open' <=> d \in open,
         cursor'[d] = cursor[d], reads'[d] = reads[d], given'[d] = given[d]
  PROVE  DeliveryRow(d)'
<1>1. PICK n, G, R : n = cursor[d] /\ G = given[d] /\ R = reads[d]
  OBVIOUS
<1>2. (pc[d] = "live" /\ d \in open) => (Whole(n, G)' /\ \A r \in R : ReadOK(r, G)')
  BY <1>1, WholeSame, ReadSame DEF DeliveryRow
<1>3. (Whole(n, G)' => Whole(cursor[d], given[d])') /\ \A r \in R : ReadOK(r, G)' => ReadOK(r, given[d])'
  BY <1>1 DEF Whole, Ended, ReadOK
<1> QED
  BY <1>1, <1>2, <1>3 DEF DeliveryRow

\* One that does not listen, or no longer.
LEMMA DeliverySilent ==
  ASSUME NEW d, reads'[d] = {}, ~(pc'[d] = "live" /\ d \in open')
  PROVE  DeliveryRow(d)'
BY DEF DeliveryRow

\* One that listens, by what its cursor, its reads and its rows have become.
LEMMA DeliveryMoves ==
  ASSUME NEW d, log' = log, pc'[d] = "live", d \in open', NEW n, NEW G, NEW R,
         cursor'[d] = n, given'[d] = G, reads'[d] = R,
         Whole(n, G), \A r \in R : ReadOK(r, G)
  PROVE  DeliveryRow(d)'
<1>1. Whole(n, G)' /\ \A r \in R : ReadOK(r, G)'
  BY WholeSame, ReadSame
<1>2. Whole(cursor[d], given[d])' /\ \A r \in R : ReadOK(r, given[d])'
  BY <1>1 DEF Whole, Ended, ReadOK
<1> QED
  BY <1>2 DEF DeliveryRow

LEMMA OrderSame == ASSUME OrderOK, UNCHANGED logVars PROVE OrderOK'
BY DEF OrderOK, logVars

\* The steps of a connection, by what they do to its delivery.
LEMMA ConnKeepsDelivery ==
  ASSUME TypeOK, RoomOK, DeliveryInv, NEW c \in Conn,
         \/ Connect(c) \/ Closes(c) \/ ConnStep(c) \/ ConnFault(c)
         \/ ReadExecutesAny(c) \/ PushesAny(c)
  PROVE  DeliveryInv'
<1>1. UNCHANGED logVars
  BY DEF Connect, Closes, ConnStep, ClaimReturns, CursorReturns, Beat, Renews, Releases, ConnFault,
         EmbodyFails, RenewFails, ReleaseFails, Crash, ReadFails, ReadExecutesAny, ReadExecutes,
         PushesAny, Pushes
<1>2. log' = log /\ OrderOK' /\ OrderOK
  BY <1>1, OrderSame DEF logVars, DeliveryInv
<1>3. ASSUME NEW d \in Conn, d # c PROVE DeliveryRow(d)'
  <2>1. DeliveryRow(d)
    BY DEF DeliveryInv
  <2>2. /\ pc'[d] = pc[d] /\ (d \in open' <=> d \in open)
        /\ cursor'[d] = cursor[d] /\ reads'[d] = reads[d] /\ given'[d] = given[d]
    BY <1>3
       DEF TypeOK, Connect, Closes, StopsTimer, Forgets, ConnStep, ClaimReturns, CursorReturns,
           Beat,
         Renews, Releases, ConnFault, EmbodyFails, RenewFails, ReleaseFails, Crash, ReadFails,
         ReadExecutesAny, ReadExecutes, PushesAny, Pushes
  <2> QED
    BY <1>2, <2>1, <2>2, DeliverySame
<1>4. DeliveryRow(c) /\ RoomRow(c)
  BY DEF DeliveryInv, RoomOK
<1>5. DeliveryRow(c)'
  <2>1. CASE Connect(c) \/ ClaimReturns(c) \/ EmbodyFails(c) \/ Crash(c) \/ Closes(c)
    <3>1. pc[c] # "live" => reads[c] = {}
      BY <1>4 DEF DeliveryRow
    <3>2. reads'[c] = {} /\ ~(pc'[c] = "live" /\ c \in open')
      BY <2>1, <3>1
         DEF TypeOK, Connect, ClaimReturns, EmbodyFails, Crash, Closes, StopsTimer, Forgets
    <3> QED
      BY <3>2, DeliverySilent
  <2>2. CASE Beat(c) \/ Releases(c) \/ RenewFails(c) \/ ReleaseFails(c)
    <3>1. UNCHANGED <<pc, open, cursor, reads, given>>
      BY <2>2 DEF Beat, Releases, RenewFails, ReleaseFails
    <3> QED
      BY <1>2, <1>4, <3>1, DeliverySame
  <2>3. CASE CursorReturns(c)
    <3>1. reads[c] = {} /\ pc[c] = "binding"
      BY <1>4, <2>3 DEF DeliveryRow, CursorReturns
    <3>2. PICK n, G : n = LatestSettledSeq /\ G = Committed
      OBVIOUS
    <3>3. Whole(n, G)
      BY <1>2, <3>2, SnapshotWhole
    <3>4. reads'[c] = {} /\ pc'[c] = "live" /\ cursor'[c] = n /\ given'[c] = G
      BY <2>3, <3>1, <3>2 DEF CursorReturns, TypeOK
    <3>5. CASE c \in open'
      BY <1>2, <3>3, <3>4, <3>5, DeliveryMoves
    <3>6. CASE c \notin open'
      BY <3>4, <3>6, DeliverySilent
    <3> QED
      BY <3>5, <3>6
  <2>4. CASE Renews(c)
    <3>1. CASE Holds(c) /\ c \in open
      <4>1. pc[c] = "live"
        BY <1>4, <2>4, <3>1 DEF Renews, RoomRow
      <4>2. PICK n, G : n = cursor[c] /\ G = given[c]
        OBVIOUS
      <4>3. PICK r : r = [after |-> n, got |-> NotRead]
        OBVIOUS
      <4>4. Whole(n, G) /\ \A q \in reads[c] : ReadOK(q, G)
        BY <1>4, <3>1, <4>1, <4>2 DEF DeliveryRow
      <4>5. ReadOK(r, G)
        BY <4>3, <4>4 DEF ReadOK
      <4>6. pc'[c] = "live" /\ c \in open' /\ cursor'[c] = n /\ given'[c] = G
        BY <2>4, <3>1, <4>1, <4>2 DEF Renews, RenewMatches
      <4>7. reads'[c] = reads[c] \cup {r}
        BY <2>4, <3>1, <4>2, <4>3 DEF Renews, RenewMatches, TypeOK
      <4>8. PICK R : R = reads[c] \cup {r}
        OBVIOUS
      <4> QED
        BY <1>2, <4>4, <4>5, <4>6, <4>7, <4>8, DeliveryMoves
    <3>2. CASE Holds(c) /\ c \notin open
      <4>1. UNCHANGED <<pc, open, cursor, given>> /\ reads'[c] = reads[c]
        BY <2>4, <3>2 DEF Renews, RenewMatches, TypeOK
      <4> QED
        BY <1>2, <1>4, <4>1, DeliverySame
    <3>3. CASE ~Holds(c)
      <4>1. reads'[c] = {} /\ c \notin open'
        BY <2>4, <3>3 DEF Renews, RenewMatches, Forgets, TypeOK
      <4> QED
        BY <4>1, DeliverySilent
    <3> QED
      BY <3>1, <3>2, <3>3
  <2>5. ASSUME NEW r \in reads[c], ReadExecutes(c, r) \/ Pushes(c, r) \/ ReadFails(c, r)
        PROVE  DeliveryRow(c)'
    <3>1. pc[c] = "live" /\ c \in open
      BY <1>4 DEF DeliveryRow
    <3>2. PICK n, G, R : n = cursor[c] /\ G = given[c] /\ R = reads[c]
      OBVIOUS
    <3>3. Whole(n, G) /\ (\A q \in R : ReadOK(q, G)) /\ r \in R
      BY <1>4, <3>1, <3>2 DEF DeliveryRow
    <3>4. pc'[c] = "live" /\ c \in open'
      BY <2>5, <3>1 DEF ReadExecutes, Pushes, ReadFails
    <3>5. CASE ReadFails(c, r)
      <4>1. cursor'[c] = n /\ given'[c] = G /\ reads'[c] = R \ {r}
        BY <3>2, <3>5 DEF ReadFails, TypeOK
      <4>2. PICK S : S = R \ {r}
        OBVIOUS
      <4> QED
        BY <1>2, <3>3, <3>4, <4>1, <4>2, DeliveryMoves
    <3>6. CASE ReadExecutes(c, r)
      <4>1. PICK e : e = [r EXCEPT !.got = ReadSince(r.after, Batch)]
        OBVIOUS
      <4>2. r \in Read
        BY TypesUnfold
      <4>3. e.after = r.after /\ e.got = ReadSince(r.after, Batch)
        BY <4>1, <4>2 DEF Read
      <4>4. ReadOK(e, G)
        <5>1. PICK a : a = r.after
          OBVIOUS
        <5>2. Whole(a, G) /\ Batch \in Nat
          BY <3>3, <5>1, EmbodimentConstants DEF ReadOK
        <5>3. \A l \in ReadSince(a, Batch) : Whole(l, G \cup ReadSince(a, Batch))
          BY <1>2, <5>2, ReadWhole
        <5> QED
          BY <4>3, <5>1, <5>2, <5>3 DEF ReadOK
      <4>5. cursor'[c] = n /\ given'[c] = G /\ reads'[c] = (R \ {r}) \cup {e}
        BY <3>2, <3>6, <4>1 DEF ReadExecutes, TypeOK
      <4>6. PICK S : S = (R \ {r}) \cup {e}
        OBVIOUS
      <4> QED
        BY <1>2, <3>3, <3>4, <4>4, <4>5, <4>6, DeliveryMoves
    <3>7. CASE Pushes(c, r)
      <4>1. PICK m, H, S : m = Latest(r.got, n) /\ H = G \cup r.got /\ S = R \ {r}
        OBVIOUS
      <4>2. cursor'[c] = m /\ given'[c] = H /\ reads'[c] = S
        BY <3>1, <3>2, <3>7, <4>1 DEF Pushes, TypeOK
      <4>3. r.got # NotRead /\ r.got \in SUBSET (1..MaxEvents) /\ MaxEvents \in Nat
        BY <3>7, RowsRead, LogConstants DEF Pushes
      <4>4. Whole(m, H)
        <5>1. CASE r.got = {}
          BY <3>3, <4>1, <5>1, WholeGrows DEF Latest
        <5>2. CASE r.got # {}
          <6>1. m \in r.got
            BY <4>1, <4>3, <5>2, LatestIn
          <6> QED
            BY <3>3, <4>1, <4>3, <6>1 DEF ReadOK
        <5> QED
          BY <5>1, <5>2
      <4>5. \A q \in S : ReadOK(q, H)
        BY <3>3, <4>1, ReadGrows
      <4> QED
        BY <1>2, <3>4, <4>2, <4>4, <4>5, DeliveryMoves
    <3> QED
      BY <2>5, <3>5, <3>6, <3>7
  <2> QED
    BY <2>1, <2>2, <2>3, <2>4, <2>5
       DEF ConnStep, ConnFault, ReadExecutesAny, PushesAny
<1> QED
  BY <1>2, <1>3, <1>5 DEF DeliveryInv

-----------------------------------------------------------------------------
(* No event is skipped *)

LEMMA DeliveryInit == Init => DeliveryInv
BY DEF Init, LogInit, DeliveryInv, OrderOK, DeliveryRow

LEMMA DeliveryStep ==
  ASSUME StampsInOrder, RoomInv, DeliveryInv, [Next]_vars
  PROVE  DeliveryInv'
<1>1. TypeOK /\ RoomOK
  BY DEF RoomInv
<1>2. CASE Appends /\ UNCHANGED <<claim, connVars, faults>>
  BY <1>1, <1>2, AppendsKeepDelivery
<1>3. CASE Tick \/ UNCHANGED vars
  <2>1. UNCHANGED <<logVars, pc, open, cursor, reads, given>>
    BY <1>3 DEF Tick, vars, connVars
  <2>2. \A d \in Conn : DeliveryRow(d)'
    BY <2>1, DeliverySame DEF DeliveryInv, logVars
  <2> QED
    BY <2>1, <2>2, OrderSame DEF DeliveryInv
<1> QED
  BY <1>1, <1>2, <1>3, ConnKeepsDelivery DEF Next

\* When ids follow sequence numbers, no committed row up to a live
\* connection's cursor is missing from what its client has: the settled rows
\* that reads return leave no gap that a later commit could fill.
THEOREM NothingSkippedHolds == StampsInOrder => (Spec => []NothingSkipped)
<1> SUFFICES ASSUME StampsInOrder PROVE Spec => []NothingSkipped
  OBVIOUS
<1>1. RoomInv /\ DeliveryInv /\ [Next]_vars => DeliveryInv'
  BY DeliveryStep
<1>2. RoomInv /\ DeliveryInv => NothingSkipped
  <2> SUFFICES ASSUME RoomInv, DeliveryInv, NEW c \in Conn, pc[c] = "live", c \in open,
                      NEW s \in Committed, s <= cursor[c]
               PROVE  s \in given[c]
    BY DEF NothingSkipped
  <2>1. Whole(cursor[c], given[c])
    BY DEF DeliveryInv, DeliveryRow
  <2>2. s \in DOMAIN log /\ log[s].state = "committed" /\ DOMAIN log = 1..Len(log)
    BY TypesUnfold DEF Committed, RoomInv
  <2>3. s \in 1..cursor[c]
    BY <2>1, <2>2 DEF Whole
  <2> QED
    BY <2>1, <2>2, <2>3 DEF Whole
<1> QED
  BY <1>1, <1>2, RoomInvHolds, DeliveryInit, PTL DEF Spec
=============================================================================
