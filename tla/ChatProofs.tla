----------------------------- MODULE ChatProofs -----------------------------
(***************************************************************************)
(* Theorems about the chat page, ChatView, for any streams and any rows.   *)
(* What merging rows does to the lines comes first.  The inductive         *)
(* invariant then has three parts, each of which rests on the ones before: *)
(* what the page and its streams are, where each row of the transcript is  *)
(* on its way to the page, and what the lines look like while no failure   *)
(* has left one without its row.                                           *)
(***************************************************************************)
EXTENDS ChatView, NumberLemmas, FiniteSetTheorems, SequenceTheorems, TLAPS

-----------------------------------------------------------------------------
(* What merging rows does to the lines *)

RowsTyped == rows \in Seq(RowKind) /\ Len(rows) <= MaxRows

LEMMA RowFacts ==
  ASSUME RowsTyped
  PROVE  /\ MaxRows \in Nat /\ Len(rows) \in 0..MaxRows /\ DOMAIN rows = 1..Len(rows)
         /\ \A r \in DOMAIN rows : r \in 0..MaxRows /\ r \in Nat /\ r # 0 /\ rows[r] \in RowKind
BY ChatConstants, LenProperties, ElementOfSeq DEF RowsTyped

LEMMA LineFacts ==
  ASSUME NEW r
  PROVE  /\ MessageToLine(r).id = r /\ MessageToLine(r).user = (rows[r] # "companion")
         /\ MessageToLine(r).file = (rows[r] = "file")
         /\ r \in 0..MaxRows => MessageToLine(r) \in Line
BY DEF MessageToLine, Line

LEMMA SeqFacts ==
  ASSUME NEW T, NEW ls \in Seq(T)
  PROVE  /\ Len(ls) \in Nat /\ DOMAIN ls = 1..Len(ls) /\ \A i \in 1..Len(ls) : ls[i] \in T
         /\ \A i \in 1..Len(ls) : i \in Nat /\ i >= 1 /\ i <= Len(ls)
         /\ ls # << >> => /\ Len(ls) \in 1..Len(ls) /\ Len(ls) - 1 \in Nat /\ Last(ls) = ls[Len(ls)]
BY LenProperties, ElementOfSeq, EmptySeq DEF Last

LEMMA LineIs ==
  ASSUME NEW l \in Line
  PROVE  l.id \in 0..MaxRows /\ l.user \in BOOLEAN /\ l.file \in BOOLEAN /\ l.blank \in BOOLEAN
BY DEF Line

LEMMA ShownIs ==
  \A ls, r : r \in ShownIn(ls) <=> r # 0 /\ \E i \in DOMAIN ls : ls[i].id = r
BY DEF ShownIn

Distinct(ls) == \A i, j \in DOMAIN ls : ls[i].id # 0 /\ ls[i].id = ls[j].id => i = j

\* The optimistic lines of what was typed, and the rows that may be theirs.
Typing(ls)   == {i \in DOMAIN ls : ls[i].id = 0 /\ ls[i].user /\ ~ls[i].file}
Unechoed(ls) == {r \in DOMAIN rows : rows[r] = "typed" /\ r \notin ShownIn(ls)}

Echoed(ls, k) == Cardinality(Typing(ls)) <= Cardinality(Unechoed(ls)) + k

\* Line l stands for what row r is, as the echo of it.
EchoOf(l, r) == l.id = 0 /\ l.user /\ rows[r] # "companion" /\ l.file = (rows[r] = "file")

LEMMA EchoesIs == \A ls, r : Echoes(ls, r) = {i \in DOMAIN ls : EchoOf(ls[i], r)}
BY DEF Echoes, EchoOf

\* The lines ms are ls with the rows of S merged in.
Grown(ls, ms, S) ==
  /\ ms \in Seq(Line) /\ Len(ms) >= Len(ls)
  /\ ShownIn(ms) = ShownIn(ls) \cup S
  /\ \A i \in DOMAIN ls :
       \/ ms[i] = ls[i]
       \/ \E r \in S : r \notin ShownIn(ls) /\ EchoOf(ls[i], r) /\ ms[i] = MessageToLine(r)
  /\ \A i \in DOMAIN ms : i > Len(ls) => ms[i].id # 0
  /\ Distinct(ls) => Distinct(ms)
  /\ Len(ms) = Len(ls) => \A r \in S : r \in ShownIn(ls) \/ rows[r] # "companion"
  /\ \A k \in {0, 1} : Echoed(ls, k) => Echoed(ms, k)

LEMMA TypingFinite ==
  ASSUME RowsTyped, NEW ls \in Seq(Line)
  PROVE  /\ IsFiniteSet(Typing(ls)) /\ IsFiniteSet(Unechoed(ls))
         /\ Cardinality(Typing(ls)) \in Nat /\ Cardinality(Unechoed(ls)) \in Nat
<1>1. IsFiniteSet(1..Len(ls)) /\ IsFiniteSet(1..Len(rows))
  BY SeqFacts, RowFacts, FS_Interval
<1>2. Typing(ls) \in SUBSET (1..Len(ls)) /\ Unechoed(ls) \in SUBSET (1..Len(rows))
  BY SeqFacts, RowFacts DEF Typing, Unechoed
<1>3. IsFiniteSet(Typing(ls)) /\ IsFiniteSet(Unechoed(ls))
  BY <1>1, <1>2, FS_Subset
<1> QED
  BY <1>3, FS_CardinalityType

\* Nothing to merge.
LEMMA GrownSame ==
  ASSUME NEW ls \in Seq(Line), NEW S, S \subseteq ShownIn(ls)
  PROVE  Grown(ls, ls, S)
<1>1. /\ Len(ls) \in Nat /\ DOMAIN ls = 1..Len(ls)
  BY SeqFacts
<1> QED
  BY <1>1 DEF Grown

\* The row is the echo of an optimistic line.
LEMMA EchoGrows ==
  ASSUME RowsTyped, NEW ls \in Seq(Line), NEW r \in DOMAIN rows, r \notin ShownIn(ls), NEW e \in Echoes(ls, r)
  PROVE  Grown(ls, [ls EXCEPT ![e] = MessageToLine(r)], {r})
<1> DEFINE ms == [ls EXCEPT ![e] = MessageToLine(r)]
<1>1. e \in DOMAIN ls /\ EchoOf(ls[e], r) /\ ls[e].id = 0
  BY EchoesIs DEF EchoOf
<1>2. /\ MessageToLine(r) \in Line /\ MessageToLine(r).id = r /\ r # 0 /\ rows[r] \in RowKind
      /\ MessageToLine(r).user = (rows[r] # "companion")
      /\ MessageToLine(r).file = (rows[r] = "file")
  BY RowFacts, LineFacts
<1>3. /\ Len(ls) \in Nat /\ DOMAIN ls = 1..Len(ls) /\ \A i \in 1..Len(ls) : ls[i] \in Line
  BY SeqFacts
<1>4. /\ ms \in Seq(Line) /\ Len(ms) = Len(ls) /\ DOMAIN ms = DOMAIN ls
      /\ \A i \in DOMAIN ls : ms[i] = IF i = e THEN MessageToLine(r) ELSE ls[i]
  BY <1>1, <1>2, <1>3
<1> HIDE DEF ms
<1>5. ShownIn(ms) = ShownIn(ls) \cup {r}
  <2>1. \A q : q \in ShownIn(ms) <=> q = r \/ q \in ShownIn(ls)
    BY <1>1, <1>2, <1>4, ShownIs
  <2> QED
    BY <2>1
<1>6. Distinct(ls) => Distinct(ms)
  <2>1. \A i \in DOMAIN ls : ls[i].id # r
    BY <1>2, ShownIs
  <2> SUFFICES ASSUME Distinct(ls), NEW i \in DOMAIN ls, NEW j \in DOMAIN ls, ms[i].id # 0, ms[i].id = ms[j].id
               PROVE  i = j
    BY <1>4 DEF Distinct
  <2>2. ms[i].id = (IF i = e THEN r ELSE ls[i].id) /\ ms[j].id = IF j = e THEN r ELSE ls[j].id
    BY <1>2, <1>4
  <2> QED
    BY <2>1, <2>2 DEF Distinct
<1>7. \A k \in {0, 1} : Echoed(ls, k) => Echoed(ms, k)
  <2>1. CASE rows[r] = "typed"
    <3>1. Typing(ms) = Typing(ls) \ {e} /\ e \in Typing(ls)
      BY <1>1, <1>2, <1>4, <2>1, ZenonT(30) DEF Typing, EchoOf
    <3>2. Unechoed(ms) = Unechoed(ls) \ {r} /\ r \in Unechoed(ls)
      BY <1>5, <2>1 DEF Unechoed
    <3>3. /\ Cardinality(Typing(ms)) = Cardinality(Typing(ls)) - 1
          /\ Cardinality(Unechoed(ms)) = Cardinality(Unechoed(ls)) - 1
      BY <3>1, <3>2, TypingFinite, FS_RemoveElement
    <3> QED
      BY <3>3, TypingFinite DEF Echoed
  <2>2. CASE rows[r] # "typed"
    <3>1. ls[e].file
      BY <1>1, <1>2, <2>2 DEF EchoOf, RowKind
    <3>2. Typing(ms) = Typing(ls)
      BY <1>1, <1>2, <1>4, <3>1 DEF Typing
    <3>3. Unechoed(ms) = Unechoed(ls)
      BY <1>5, <2>2 DEF Unechoed
    <3> QED
      BY <3>2, <3>3 DEF Echoed
  <2> QED
    BY <2>1, <2>2
<1>8. rows[r] # "companion"
  BY <1>1 DEF EchoOf
<1>9. \A i \in DOMAIN ls : ms[i] = ls[i] \/ (EchoOf(ls[i], r) /\ ms[i] = MessageToLine(r))
  BY <1>1, <1>4
<1>10. Len(ms) >= Len(ls) /\ \A i \in DOMAIN ms : ~(i > Len(ls))
  BY <1>3, <1>4
<1>11. Grown(ls, ms, {r})
  BY <1>4, <1>5, <1>6, <1>7, <1>8, <1>9, <1>10 DEF Grown
<1> QED
  BY <1>11 DEF ms

\* The row is new.
LEMMA AppendGrows ==
  ASSUME RowsTyped, NEW ls \in Seq(Line), NEW r \in DOMAIN rows, r \notin ShownIn(ls), Echoes(ls, r) = {}
  PROVE  Grown(ls, Append(ls, MessageToLine(r)), {r})
<1> DEFINE ms == Append(ls, MessageToLine(r))
<1>1. \A i \in DOMAIN ls : ~EchoOf(ls[i], r)
  BY EchoesIs
<1>2. /\ MessageToLine(r) \in Line /\ MessageToLine(r).id = r /\ r # 0 /\ rows[r] \in RowKind
  BY RowFacts, LineFacts
<1>3. /\ Len(ls) \in Nat /\ DOMAIN ls = 1..Len(ls) /\ \A i \in 1..Len(ls) : ls[i] \in Line
  BY SeqFacts
<1>4. /\ ms \in Seq(Line) /\ Len(ms) = Len(ls) + 1 /\ DOMAIN ms = 1..(Len(ls) + 1)
      /\ \A i \in DOMAIN ls : ms[i] = ls[i]
      /\ ms[Len(ls) + 1] = MessageToLine(r)
  BY <1>2, <1>3, AppendProperties
<1> HIDE DEF ms
<1>5. /\ Len(ls) + 1 \in DOMAIN ms
      /\ \A i \in DOMAIN ms : i \in DOMAIN ls \/ i = Len(ls) + 1
      /\ \A i \in DOMAIN ls : i \in DOMAIN ms /\ i # Len(ls) + 1
  BY <1>3, <1>4
<1>6. ShownIn(ms) = ShownIn(ls) \cup {r}
  <2>1. \A q : q \in ShownIn(ms) <=> q = r \/ q \in ShownIn(ls)
    BY <1>2, <1>4, <1>5, ShownIs
  <2> QED
    BY <2>1
<1>7. Distinct(ls) => Distinct(ms)
  <2>1. \A i \in DOMAIN ls : ls[i].id # r
    BY <1>2, ShownIs
  <2> SUFFICES ASSUME Distinct(ls), NEW i \in DOMAIN ms, NEW j \in DOMAIN ms, ms[i].id # 0, ms[i].id = ms[j].id
               PROVE  i = j
    BY DEF Distinct
  <2> QED
    BY <1>2, <1>4, <1>5, <2>1 DEF Distinct
<1>8. \A k \in {0, 1} : Echoed(ls, k) => Echoed(ms, k)
  <2>1. Typing(ms) = Typing(ls)
    BY <1>2, <1>4, <1>5 DEF Typing
  <2>2. CASE rows[r] = "typed"
    <3>1. Typing(ls) = {}
      BY <1>1, <1>3, <2>2, LineIs DEF Typing, EchoOf
    <3>2. Cardinality(Typing(ms)) = 0
      BY <2>1, <3>1, FS_EmptySet
    <3>3. Cardinality(Unechoed(ms)) \in Nat
      BY <1>4, TypingFinite
    <3> QED
      BY <3>2, <3>3 DEF Echoed
  <2>3. CASE rows[r] # "typed"
    <3>1. Unechoed(ms) = Unechoed(ls)
      BY <1>6, <2>3 DEF Unechoed
    <3> QED
      BY <2>1, <3>1 DEF Echoed
  <2> QED
    BY <2>2, <2>3
<1>9. \A i \in DOMAIN ms : i > Len(ls) => ms[i].id # 0
  BY <1>2, <1>3, <1>4, <1>5
<1>10. Len(ms) >= Len(ls) /\ Len(ms) # Len(ls)
  <2>1. Len(ls) \in Nat /\ Len(ms) = Len(ls) + 1
    BY <1>3, <1>4
  <2> QED
    BY <2>1
<1>11. Grown(ls, ms, {r})
  BY <1>4, <1>6, <1>7, <1>8, <1>9, <1>10 DEF Grown
<1> QED
  BY <1>11 DEF ms

LEMMA MergeGrows ==
  ASSUME RowsTyped, NEW ls \in Seq(Line), NEW r \in DOMAIN rows
  PROVE  Grown(ls, MergeMessage(ls, r), {r})
<1>1. CASE r \in ShownIn(ls)
  BY <1>1, GrownSame DEF MergeMessage
<1>2. CASE r \notin ShownIn(ls) /\ Echoes(ls, r) # {}
  <2>1. Echoes(ls, r) \subseteq 1..Len(ls) /\ Len(ls) \in Nat
    BY SeqFacts, EchoesIs
  <2>2. PICK e \in Echoes(ls, r) : \A i \in Echoes(ls, r) : e <= i
    BY <1>2, <2>1, LeastOf
  <2>3. Min(Echoes(ls, r)) \in Echoes(ls, r)
    BY <2>2 DEF Min
  <2>4. MergeMessage(ls, r) = [ls EXCEPT ![Min(Echoes(ls, r))] = MessageToLine(r)]
    BY <1>2 DEF MergeMessage
  <2> QED
    BY <1>2, <2>3, <2>4, EchoGrows
<1>3. CASE r \notin ShownIn(ls) /\ Echoes(ls, r) = {}
  BY <1>3, AppendGrows DEF MergeMessage
<1> QED
  BY <1>1, <1>2, <1>3

LEMMA GrownTwice ==
  ASSUME NEW ls \in Seq(Line), NEW ms, NEW ns, NEW S, NEW T, S \subseteq DOMAIN rows, RowsTyped,
         Grown(ls, ms, S), Grown(ms, ns, T)
  PROVE  Grown(ls, ns, S \cup T)
<1>1. /\ ms \in Seq(Line) /\ ns \in Seq(Line)
      /\ Len(ls) \in Nat /\ DOMAIN ls = 1..Len(ls)
      /\ Len(ms) \in Nat /\ DOMAIN ms = 1..Len(ms)
      /\ Len(ns) \in Nat /\ DOMAIN ns = 1..Len(ns)
      /\ Len(ms) >= Len(ls) /\ Len(ns) >= Len(ms) /\ Len(ns) >= Len(ls)
  <2>1. ms \in Seq(Line) /\ ns \in Seq(Line) /\ Len(ms) >= Len(ls) /\ Len(ns) >= Len(ms)
    BY DEF Grown
  <2> QED
    BY <2>1, SeqFacts
<1>2. DOMAIN ls \subseteq DOMAIN ms /\ DOMAIN ms \subseteq DOMAIN ns
  BY <1>1
<1>3. ShownIn(ms) = ShownIn(ls) \cup S /\ ShownIn(ns) = ShownIn(ls) \cup (S \cup T)
  BY DEF Grown
<1>4. \A r \in S : r # 0 /\ MessageToLine(r).id = r
  BY RowFacts, LineFacts
<1>5. ASSUME NEW i \in DOMAIN ls
      PROVE  \/ ns[i] = ls[i]
             \/ \E r \in S \cup T : r \notin ShownIn(ls) /\ EchoOf(ls[i], r) /\ ns[i] = MessageToLine(r)
  <2>1. \/ ms[i] = ls[i]
        \/ \E r \in S : r \notin ShownIn(ls) /\ EchoOf(ls[i], r) /\ ms[i] = MessageToLine(r)
    BY DEF Grown
  <2>2. \/ ns[i] = ms[i]
        \/ \E r \in T : r \notin ShownIn(ms) /\ EchoOf(ms[i], r) /\ ns[i] = MessageToLine(r)
    BY <1>2 DEF Grown
  <2>3. CASE ms[i] = ls[i]
    BY <1>3, <2>2, <2>3
  <2>4. CASE \E r \in S : r \notin ShownIn(ls) /\ EchoOf(ls[i], r) /\ ms[i] = MessageToLine(r)
    <3>1. ms[i].id # 0
      BY <1>4, <2>4
    <3>2. ns[i] = ms[i]
      BY <2>2, <3>1 DEF EchoOf
    <3> QED
      BY <2>4, <3>2
  <2> QED
    BY <2>1, <2>3, <2>4
<1>6. ASSUME NEW i \in DOMAIN ns, i > Len(ls) PROVE ns[i].id # 0
  <2>1. CASE i > Len(ms)
    BY <2>1 DEF Grown
  <2>2. CASE ~(i > Len(ms))
    <3>1. i \in DOMAIN ms
      BY <1>1, <2>2
    <3>2. ms[i].id # 0
      BY <1>6, <3>1 DEF Grown
    <3>3. ns[i] = ms[i]
      BY <3>1, <3>2 DEF Grown, EchoOf
    <3> QED
      BY <3>2, <3>3
  <2> QED
    BY <2>1, <2>2
<1>7. Distinct(ls) => Distinct(ns)
  BY DEF Grown
<1>8. ASSUME Len(ns) = Len(ls) PROVE \A r \in S \cup T : r \in ShownIn(ls) \/ rows[r] # "companion"
  <2>1. Len(ms) = Len(ls) /\ Len(ns) = Len(ms)
    <3>1. Len(ls) \in Nat /\ Len(ms) \in Nat /\ Len(ms) >= Len(ls) /\ Len(ns) >= Len(ms)
      BY <1>1
    <3> QED
      BY <1>8, <3>1
  <2>2. /\ \A r \in S : r \in ShownIn(ls) \/ rows[r] # "companion"
        /\ \A r \in T : r \in ShownIn(ms) \/ rows[r] # "companion"
    BY <2>1 DEF Grown
  <2> QED
    BY <1>3, <2>2
<1>9. \A k \in {0, 1} : Echoed(ls, k) => Echoed(ns, k)
  BY DEF Grown
<1> QED
  BY <1>1, <1>3, <1>5, <1>6, <1>7, <1>8, <1>9 DEF Grown

\* The recursion of MergeAll, as far as row n, has a solution.
MergedUpTo(ls, S, n, m) ==
  m = [r \in 0..n |-> IF r = 0 THEN ls ELSE IF r \in S THEN MergeMessage(m[r - 1], r) ELSE m[r - 1]]

LEMMA MergedExists == ASSUME NEW ls, NEW S PROVE \A n \in Nat : \E m : MergedUpTo(ls, S, n, m)
<1> DEFINE T == {n \in Nat : \E m : MergedUpTo(ls, S, n, m)}
<1>1. 0 \in T
  <2> DEFINE first == [r \in 0..0 |-> ls]
  <2>1. MergedUpTo(ls, S, 0, first)
    BY DEF MergedUpTo
  <2> QED
    BY <2>1
<1>2. ASSUME NEW n \in Nat, n \in T PROVE n + 1 \in T
  <2>1. PICK b : MergedUpTo(ls, S, n, b)
    BY <1>2
  <2> DEFINE next == IF n + 1 \in S THEN MergeMessage(b[n], n + 1) ELSE b[n]
             c == [r \in 0..(n + 1) |-> IF r = n + 1 THEN next ELSE b[r]]
  <2>2. \A r \in 0..n : b[r] = IF r = 0 THEN ls ELSE IF r \in S THEN MergeMessage(b[r - 1], r) ELSE b[r - 1]
    BY <2>1 DEF MergedUpTo
  <2>3. \A r \in 0..(n + 1) : c[r] = IF r = n + 1 THEN next ELSE b[r]
    OBVIOUS
  <2>4. c = [r \in 0..(n + 1) |-> c[r]]
    OBVIOUS
  <2> HIDE DEF c
  <2>5. ASSUME NEW r \in 0..(n + 1)
        PROVE  c[r] = IF r = 0 THEN ls ELSE IF r \in S THEN MergeMessage(c[r - 1], r) ELSE c[r - 1]
    <3>1. CASE r = n + 1
      <4>1. r - 1 = n /\ n \in 0..(n + 1) /\ n # n + 1 /\ r # 0
        BY <3>1
      <4>2. c[r - 1] = b[n]
        BY <2>3, <4>1
      <4>3. c[r] = next
        BY <2>3, <3>1
      <4>4. c[r] = IF r \in S THEN MergeMessage(c[r - 1], r) ELSE c[r - 1]
        BY <3>1, <4>2, <4>3
      <4> QED
        BY <4>1, <4>4
    <3>2. CASE r # n + 1
      <4>1. r \in 0..n
        BY <3>2
      <4>2. c[r] = b[r]
        BY <2>3, <3>2
      <4>3. r # 0 => r - 1 \in 0..(n + 1) /\ r - 1 # n + 1
        BY <4>1
      <4>4. r # 0 => c[r - 1] = b[r - 1]
        BY <2>3, <4>3
      <4>5. b[r] = IF r = 0 THEN ls ELSE IF r \in S THEN MergeMessage(b[r - 1], r) ELSE b[r - 1]
        BY <2>2, <4>1
      <4>6. CASE r = 0
        BY <4>2, <4>5, <4>6
      <4>7. CASE r # 0
        BY <4>2, <4>4, <4>5, <4>7
      <4> QED
        BY <4>6, <4>7
    <3> QED
      BY <3>1, <3>2
  <2>6. MergedUpTo(ls, S, n + 1, c)
    BY <2>4, <2>5 DEF MergedUpTo
  <2> QED
    BY <2>6
<1> HIDE DEF T
<1>3. Nat \subseteq T
  BY <1>1, <1>2, NatInduced
<1> QED
  BY <1>3 DEF T

\* Rows are merged one after the other.
LEMMA MergeAllGrows ==
  ASSUME RowsTyped, NEW ls \in Seq(Line), NEW S, S \subseteq DOMAIN rows
  PROVE  Grown(ls, MergeAll(ls, S), S)
<1> DEFINE m == CHOOSE f : MergedUpTo(ls, S, Len(rows), f)
<1>1. MergeAll(ls, S) = m[Len(rows)]
  BY DEF MergeAll, MergedUpTo
<1>2. MergedUpTo(ls, S, Len(rows), m)
  <2>1. \E f : MergedUpTo(ls, S, Len(rows), f)
    BY RowFacts, MergedExists
  <2> QED
    BY <2>1
<1> HIDE DEF m
<1>3. \A r \in 0..Len(rows) :
        m[r] = IF r = 0 THEN ls ELSE IF r \in S THEN MergeMessage(m[r - 1], r) ELSE m[r - 1]
  BY <1>2 DEF MergedUpTo
<1> DEFINE Part(r) == Grown(ls, m[r], S \cap (1..r))
           T == {r \in Nat : r <= Len(rows) => Part(r)}
<1>4. 0 \in T
  <2>1. m[0] = ls
    BY <1>3, RowFacts
  <2>2. S \cap (1..0) = {}
    OBVIOUS
  <2> QED
    BY <2>1, <2>2, GrownSame
<1>5. ASSUME NEW r \in Nat, r \in T PROVE r + 1 \in T
  <2> SUFFICES ASSUME r + 1 <= Len(rows) PROVE Part(r + 1)
    OBVIOUS
  <2>1. Len(rows) \in Nat /\ r + 1 \in 1..Len(rows) /\ r + 1 \in 0..Len(rows) /\ r + 1 # 0 /\ (r + 1) - 1 = r /\ r <= Len(rows)
    BY RowFacts
  <2>2. Part(r) /\ m[r] \in Seq(Line)
    BY <1>5, <2>1 DEF Grown
  <2>3. m[r + 1] = IF r + 1 \in S THEN MergeMessage(m[r], r + 1) ELSE m[r]
    BY <1>3, <2>1
  <2>4. CASE r + 1 \in S
    <3>1. Grown(m[r], m[r + 1], {r + 1})
      BY <2>2, <2>3, <2>4, MergeGrows
    <3>2. S \cap (1..(r + 1)) = (S \cap (1..r)) \cup {r + 1}
      BY <2>4
    <3>3. Grown(ls, m[r + 1], (S \cap (1..r)) \cup {r + 1})
      BY <2>2, <3>1, GrownTwice
    <3> QED
      BY <3>2, <3>3
  <2>5. CASE r + 1 \notin S
    <3>1. S \cap (1..(r + 1)) = S \cap (1..r)
      BY <2>5
    <3> QED
      BY <2>2, <2>3, <2>5, <3>1
  <2> QED
    BY <2>4, <2>5
<1> HIDE DEF T
<1>6. Nat \subseteq T
  BY <1>4, <1>5, NatInduced
<1>7. Part(Len(rows))
  BY <1>6, RowFacts DEF T
<1>8. S \cap (1..Len(rows)) = S
  BY RowFacts
<1> QED
  BY <1>1, <1>7, <1>8

\* The lines without the last one.
LEMMA FrontIs ==
  ASSUME NEW ls \in Seq(Line), ls # << >>
  PROVE  /\ Front(ls) \in Seq(Line) /\ Len(Front(ls)) = Len(ls) - 1
         /\ \A i \in 1..(Len(ls) - 1) : Front(ls)[i] = ls[i]
<1>1. Len(ls) \in Nat /\ Len(ls) - 1 \in Nat /\ Len(ls) - 1 <= Len(ls)
  BY SeqFacts
<1>2. Front(ls) = SubSeq(ls, 1, Len(ls) - 1)
  BY DEF Front
<1>3. \A i \in 1..(Len(ls) - 1) : ls[i] \in Line
  BY <1>1, SeqFacts
<1> DEFINE n == Len(ls) - 1
<1> HIDE DEF n
<1>4. n \in Nat /\ (n - 1) + 1 = n /\ \A i \in 1..n : ls[i] \in Line
  BY <1>1, <1>3 DEF n
<1>5. /\ SubSeq(ls, 1, n) \in Seq(Line) /\ Len(SubSeq(ls, 1, n)) = IF 1 <= n THEN n - 1 + 1 ELSE 0
      /\ \A i \in 1..(n - 1 + 1) : SubSeq(ls, 1, n)[i] = ls[1 + i - 1]
  BY <1>4, SubSeqProperties
<1>6. Len(SubSeq(ls, 1, n)) = n
  BY <1>4, <1>5
<1>7. ASSUME NEW i \in 1..n PROVE SubSeq(ls, 1, n)[i] = ls[i]
  <2>1. n - 1 + 1 = n /\ 1 + i - 1 = i
    BY <1>4
  <2> QED
    BY <1>5, <2>1
<1> QED
  BY <1>2, <1>5, <1>6, <1>7 DEF n

\* The lines with another last one.
LEMMA LastChanged ==
  ASSUME NEW ls \in Seq(Line), ls # << >>, NEW l \in Line
  PROVE  LET ms == Append(Front(ls), l)
         IN  /\ ms \in Seq(Line) /\ Len(ms) = Len(ls)
             /\ \A i \in 1..(Len(ls) - 1) : ms[i] = ls[i]
             /\ ms[Len(ls)] = l
<1>1. /\ Front(ls) \in Seq(Line) /\ Len(Front(ls)) = Len(ls) - 1 /\ Len(ls) - 1 \in Nat
      /\ \A i \in 1..(Len(ls) - 1) : Front(ls)[i] = ls[i]
  BY FrontIs, SeqFacts
<1>2. (Len(ls) - 1) + 1 = Len(ls)
  BY SeqFacts
<1> DEFINE fs == Front(ls)
<1> HIDE DEF fs
<1>3. fs \in Seq(Line) /\ Len(fs) = Len(ls) - 1
  BY <1>1 DEF fs
<1>4. /\ Append(fs, l) \in Seq(Line) /\ Len(Append(fs, l)) = Len(fs) + 1
      /\ \A i \in 1..Len(fs) : Append(fs, l)[i] = fs[i]
      /\ Append(fs, l)[Len(fs) + 1] = l
  BY <1>3, AppendProperties
<1>5. /\ Len(Append(fs, l)) = Len(ls) /\ Append(fs, l)[Len(ls)] = l
      /\ \A i \in 1..(Len(ls) - 1) : Append(fs, l)[i] = fs[i]
  BY <1>2, <1>3, <1>4
<1> QED
  BY <1>1, <1>4, <1>5 DEF fs

\* Lines after lines.
LEMMA LinesAfter ==
  ASSUME NEW a \in Seq(Line), NEW b \in Seq(Line)
  PROVE  /\ a \o b \in Seq(Line) /\ Len(a \o b) = Len(a) + Len(b) /\ Len(a) \in Nat /\ Len(b) \in Nat
         /\ \A i \in 1..Len(a) : (a \o b)[i] = a[i]
         /\ \A i \in 1..Len(b) : (a \o b)[Len(a) + i] = b[i]
<1>1. Len(a) \in Nat /\ Len(b) \in Nat
  BY SeqFacts
<1>2. /\ a \o b \in Seq(Line) /\ Len(a \o b) = Len(a) + Len(b)
      /\ \A i \in 1..(Len(a) + Len(b)) : (a \o b)[i] = IF i <= Len(a) THEN a[i] ELSE b[i - Len(a)]
  BY ConcatProperties
<1>3. ASSUME NEW i \in 1..Len(a) PROVE (a \o b)[i] = a[i]
  <2>1. i \in 1..(Len(a) + Len(b)) /\ i <= Len(a)
    BY <1>1
  <2> QED
    BY <1>2, <2>1
<1>4. ASSUME NEW i \in 1..Len(b) PROVE (a \o b)[Len(a) + i] = b[i]
  <2>1. Len(a) + i \in 1..(Len(a) + Len(b)) /\ ~(Len(a) + i <= Len(a)) /\ (Len(a) + i) - Len(a) = i
    BY <1>1
  <2> QED
    BY <1>2, <2>1
<1> QED
  BY <1>1, <1>2, <1>3, <1>4

LEMMA OneLine ==
  ASSUME NEW l \in Line
  PROVE  <<l>> \in Seq(Line) /\ Len(<<l>>) = 1 /\ <<l>>[1] = l
OBVIOUS

\* The last line by itself.
LEMMA LastOnly ==
  ASSUME NEW ls \in Seq(Line), ls # << >>
  PROVE  SubSeq(ls, Len(ls), Len(ls)) = <<ls[Len(ls)]>>
<1>1. Len(ls) \in Nat /\ Len(ls) \in 1..Len(ls) /\ ls[Len(ls)] \in Line
  BY SeqFacts
<1> DEFINE n == Len(ls)
           c == SubSeq(ls, n, n)
<1> HIDE DEF n
<1>2. n \in Nat /\ n - n + 1 = 1 /\ n + 1 - 1 = n /\ \A i \in n..n : i = n /\ ls[i] \in Line
  BY <1>1 DEF n
<1>3. c \in Seq(Line) /\ Len(c) = (IF n <= n THEN n - n + 1 ELSE 0) /\ \A i \in 1..(n - n + 1) : c[i] = ls[n + i - 1]
  BY <1>2, SubSeqProperties
<1> HIDE DEF c
<1>4. c \in Seq(Line) /\ Len(c) = 1 /\ c[1] = ls[n]
  BY <1>2, <1>3
<1>5. c = <<ls[n]>>
  BY <1>4
<1> QED
  BY <1>5 DEF c, n

\* A step is put above the last line.
LEMMA StepIs ==
  ASSUME NEW ls \in Seq(Line), NEW r \in 0..MaxRows, ls # << >>
  PROVE  LET ms == InsertStep(ls, r)
         IN  /\ ms \in Seq(Line) /\ Len(ms) = Len(ls) + 1
             /\ \A i \in 1..(Len(ls) - 1) : ms[i] = ls[i]
             /\ ms[Len(ls)] = MessageToLine(r)
             /\ ms[Len(ls) + 1] = ls[Len(ls)]
<1>1. MessageToLine(r) \in Line /\ ls[Len(ls)] \in Line
  BY LineFacts, SeqFacts
<1> DEFINE a == Append(Front(ls), MessageToLine(r))
           b == <<ls[Len(ls)]>>
<1>2. InsertStep(ls, r) = a \o b
  <2>1. InsertStep(ls, r) = (SubSeq(ls, 1, Len(ls) - 1) \o <<MessageToLine(r)>>) \o SubSeq(ls, Len(ls), Len(ls))
    BY DEF InsertStep, InsertAt
  <2>2. a = Front(ls) \o <<MessageToLine(r)>>
    BY <1>1, FrontIs, AppendIsConcat
  <2> QED
    BY <2>1, <2>2, LastOnly DEF Front
<1>3. /\ a \in Seq(Line) /\ Len(a) = Len(ls) /\ a[Len(ls)] = MessageToLine(r)
      /\ \A i \in 1..(Len(ls) - 1) : a[i] = ls[i]
  BY <1>1, LastChanged
<1>4. b \in Seq(Line) /\ Len(b) = 1 /\ b[1] = ls[Len(ls)]
  BY <1>1, OneLine
<1>5. Len(ls) \in Nat /\ Len(ls) \in 1..Len(ls) /\ \A i \in 1..(Len(ls) - 1) : i \in 1..Len(ls)
  BY SeqFacts
<1> HIDE DEF a, b
<1>6. /\ a \o b \in Seq(Line) /\ Len(a \o b) = Len(a) + Len(b)
      /\ \A i \in 1..Len(a) : (a \o b)[i] = a[i]
      /\ \A i \in 1..Len(b) : (a \o b)[Len(a) + i] = b[i]
  BY <1>3, <1>4, LinesAfter
<1>7. /\ Len(a \o b) = Len(ls) + 1 /\ (a \o b)[Len(ls) + 1] = b[1]
      /\ \A i \in 1..Len(ls) : (a \o b)[i] = a[i]
  BY <1>3, <1>4, <1>6
<1> QED
  BY <1>2, <1>3, <1>4, <1>5, <1>6, <1>7

\* Two lines more.
LEMMA TwoMore ==
  ASSUME NEW ls \in Seq(Line), NEW k \in Line, NEW l \in Line
  PROVE  LET ms == ls \o <<k, l>>
         IN  /\ ms \in Seq(Line) /\ Len(ms) = Len(ls) + 2 /\ Len(ls) \in Nat
             /\ \A i \in 1..Len(ls) : ms[i] = ls[i]
             /\ ms[Len(ls) + 1] = k /\ ms[Len(ls) + 2] = l
<1> DEFINE b == <<k, l>>
<1>1. b \in Seq(Line) /\ Len(b) = 2 /\ b[1] = k /\ b[2] = l
  OBVIOUS
<1> HIDE DEF b
<1>2. /\ ls \o b \in Seq(Line) /\ Len(ls \o b) = Len(ls) + Len(b) /\ Len(ls) \in Nat
      /\ \A i \in 1..Len(ls) : (ls \o b)[i] = ls[i]
      /\ \A i \in 1..Len(b) : (ls \o b)[Len(ls) + i] = b[i]
  BY <1>1, LinesAfter
<1>3. /\ Len(ls \o b) = Len(ls) + 2
      /\ (ls \o b)[Len(ls) + 1] = b[1] /\ (ls \o b)[Len(ls) + 2] = b[2]
  BY <1>1, <1>2
<1> QED
  BY <1>1, <1>2, <1>3 DEF b

\* One line more.
LEMMA OneMore ==
  ASSUME NEW ls \in Seq(Line), NEW l \in Line
  PROVE  LET ms == Append(ls, l)
         IN  /\ ms \in Seq(Line) /\ Len(ms) = Len(ls) + 1 /\ Len(ls) \in Nat
             /\ \A i \in 1..Len(ls) : ms[i] = ls[i]
             /\ ms[Len(ls) + 1] = l
BY SeqFacts, AppendProperties

LEMMA OptimisticIs ==
  ASSUME NEW u \in BOOLEAN, NEW f \in BOOLEAN
  PROVE  /\ Optimistic(u, f) \in Line /\ Optimistic(u, f).id = 0
         /\ Optimistic(u, f).user = u /\ Optimistic(u, f).file = f
BY ChatConstants DEF Optimistic, Line

\* A line and the row it stands for.
LEMMA RowLine ==
  ASSUME RowsTyped, NEW r \in DOMAIN rows
  PROVE  /\ MessageToLine(r) \in Line /\ MessageToLine(r).id = r /\ r # 0
         /\ MessageToLine(r).user = (rows[r] # "companion")
         /\ MessageToLine(r).file = (rows[r] = "file")
BY RowFacts, LineFacts

LEMMA FrontShown ==
  ASSUME NEW ls \in Seq(Line), ls # << >>
  PROVE  ShownIn(Front(ls)) \subseteq ShownIn(ls)
<1>1. /\ Front(ls) \in Seq(Line) /\ Len(Front(ls)) = Len(ls) - 1 /\ Len(ls) \in Nat
      /\ \A i \in 1..(Len(ls) - 1) : Front(ls)[i] = ls[i]
  BY FrontIs, SeqFacts
<1>2. DOMAIN Front(ls) = 1..(Len(ls) - 1) /\ DOMAIN ls = 1..Len(ls)
  BY <1>1, SeqFacts
<1>3. \A i \in DOMAIN Front(ls) : i \in DOMAIN ls /\ Front(ls)[i] = ls[i]
  BY <1>1, <1>2
<1> QED
  BY <1>3, ShownIs

LEMMA DropIs ==
  ASSUME NEW ls \in Seq(Line)
  PROVE  /\ DropAttachmentTail(ls) = IF ls # << >> /\ Last(ls).file THEN Front(ls) ELSE ls
         /\ DropEmptyAssistantTail(ls) = IF ls # << >> /\ ~Last(ls).user /\ Last(ls).blank THEN Front(ls) ELSE ls
BY DEF DropAttachmentTail, DropEmptyAssistantTail, DropTail

LEMMA DropShown ==
  ASSUME NEW ls \in Seq(Line)
  PROVE  /\ DropAttachmentTail(ls) \in Seq(Line) /\ ShownIn(DropAttachmentTail(ls)) \subseteq ShownIn(ls)
         /\ DropEmptyAssistantTail(ls) \in Seq(Line) /\ ShownIn(DropEmptyAssistantTail(ls)) \subseteq ShownIn(ls)
<1>1. CASE ls = << >>
  BY <1>1, DropIs
<1>2. CASE ls # << >>
  BY <1>2, DropIs, FrontIs, FrontShown
<1> QED
  BY <1>1, <1>2

LEMMA FailedShown ==
  ASSUME lines \in Seq(Line), NEW F
  PROVE  Failed(F) \in Seq(Line) /\ ShownIn(Failed(F)) \subseteq ShownIn(lines)
<1>1. CASE upload \in F
  <2>1. DropAttachmentTail(lines) \in Seq(Line) /\ ShownIn(DropAttachmentTail(lines)) \subseteq ShownIn(lines)
    BY DropShown
  <2>2. \/ Failed(F) = DropAttachmentTail(lines)
        \/ Failed(F) = DropEmptyAssistantTail(DropAttachmentTail(lines))
    BY <1>1 DEF Failed
  <2>3. /\ DropEmptyAssistantTail(DropAttachmentTail(lines)) \in Seq(Line)
        /\ ShownIn(DropEmptyAssistantTail(DropAttachmentTail(lines))) \subseteq ShownIn(DropAttachmentTail(lines))
    BY <2>1, DropShown
  <2> QED
    BY <2>1, <2>2, <2>3
<1>2. CASE upload \notin F
  <2>1. Failed(F) = lines \/ Failed(F) = DropEmptyAssistantTail(lines)
    BY <1>2 DEF Failed
  <2> QED
    BY <2>1, DropShown
<1> QED
  BY <1>1, <1>2

\* The lines with another last one show at most that besides.
LEMMA LastShown ==
  ASSUME NEW ls \in Seq(Line), NEW l \in Line, ls # << >>
  PROVE  ShownIn(Append(Front(ls), l)) \subseteq ShownIn(ls) \cup ({l.id} \ {0})
<1> DEFINE ms == Append(Front(ls), l)
<1>1. ms \in Seq(Line) /\ Len(ms) = Len(ls) /\ ms[Len(ls)] = l /\ \A i \in 1..(Len(ls) - 1) : ms[i] = ls[i]
  BY LastChanged
<1> HIDE DEF ms
<1>2. DOMAIN ms = 1..Len(ls) /\ DOMAIN ls = 1..Len(ls) /\ Len(ls) \in Nat
  BY <1>1, SeqFacts
<1>3. \A i \in DOMAIN ms : (i \in DOMAIN ls /\ ms[i] = ls[i]) \/ ms[i] = l
  BY <1>1, <1>2
<1>4. ShownIn(ms) \subseteq ShownIn(ls) \cup ({l.id} \ {0})
  BY <1>3, ShownIs
<1> QED
  BY <1>4 DEF ms

LEMMA AppendToLastIs ==
  ASSUME NEW ls \in Seq(Line)
  PROVE  /\ ls = << >> => AppendToLast(ls) = ls
         /\ ls # << >> =>
              /\ AppendToLast(ls) = Append(Front(ls), [Last(ls) EXCEPT !.blank = FALSE])
              /\ [Last(ls) EXCEPT !.blank = FALSE] \in Line
              /\ [Last(ls) EXCEPT !.blank = FALSE].id = Last(ls).id
              /\ [Last(ls) EXCEPT !.blank = FALSE].user = Last(ls).user
              /\ [Last(ls) EXCEPT !.blank = FALSE].file = Last(ls).file
<1>1. ls # << >> => Last(ls) \in Line
  BY SeqFacts
<1> QED
  BY <1>1 DEF AppendToLast, OnLast, Line

LEMMA FinalizeLastIs ==
  ASSUME NEW ls \in Seq(Line), NEW r \in 0..MaxRows
  PROVE  /\ ls = << >> => FinalizeLast(ls, r) = ls
         /\ ls # << >> =>
              LET l == [Last(ls) EXCEPT !.id = r, !.user = FALSE, !.blank = FALSE]
              IN  /\ FinalizeLast(ls, r) = Append(Front(ls), l)
                  /\ l \in Line /\ l.id = r /\ ~l.user /\ l.file = Last(ls).file
<1>1. ls # << >> => Last(ls) \in Line
  BY SeqFacts
<1> QED
  BY <1>1 DEF FinalizeLast, OnLast, Line

LEMMA AppendToLastShown ==
  ASSUME NEW ls \in Seq(Line)
  PROVE  AppendToLast(ls) \in Seq(Line) /\ ShownIn(AppendToLast(ls)) \subseteq ShownIn(ls)
<1>1. CASE ls = << >>
  BY <1>1, AppendToLastIs
<1>2. CASE ls # << >>
  <2> DEFINE l == [Last(ls) EXCEPT !.blank = FALSE]
  <2>1. AppendToLast(ls) = Append(Front(ls), l) /\ l \in Line /\ l.id = Last(ls).id
    BY <1>2, AppendToLastIs
  <2> HIDE DEF l
  <2>2. Len(ls) \in DOMAIN ls /\ Last(ls) = ls[Len(ls)]
    BY <1>2, SeqFacts
  <2>3. {l.id} \ {0} \subseteq ShownIn(ls)
    BY <2>1, <2>2, ShownIs
  <2>4. Append(Front(ls), l) \in Seq(Line) /\ ShownIn(Append(Front(ls), l)) \subseteq ShownIn(ls) \cup ({l.id} \ {0})
    BY <1>2, <2>1, LastShown, LastChanged
  <2> QED
    BY <2>1, <2>3, <2>4
<1> QED
  BY <1>1, <1>2

LEMMA FinalizeLastShown ==
  ASSUME NEW ls \in Seq(Line), NEW r \in 0..MaxRows
  PROVE  FinalizeLast(ls, r) \in Seq(Line) /\ ShownIn(FinalizeLast(ls, r)) \subseteq ShownIn(ls) \cup ({r} \ {0})
<1>1. CASE ls = << >>
  BY <1>1, FinalizeLastIs
<1>2. CASE ls # << >>
  <2> DEFINE l == [Last(ls) EXCEPT !.id = r, !.user = FALSE, !.blank = FALSE]
  <2>1. FinalizeLast(ls, r) = Append(Front(ls), l) /\ l \in Line /\ l.id = r
    BY <1>2, FinalizeLastIs
  <2> HIDE DEF l
  <2>2. Append(Front(ls), l) \in Seq(Line) /\ ShownIn(Append(Front(ls), l)) \subseteq ShownIn(ls) \cup ({l.id} \ {0})
    BY <1>2, <2>1, LastShown, LastChanged
  <2> QED
    BY <2>1, <2>2
<1> QED
  BY <1>1, <1>2

LEMMA OneShown ==
  ASSUME NEW ls \in Seq(Line), NEW l \in Line
  PROVE  ShownIn(Append(ls, l)) = ShownIn(ls) \cup ({l.id} \ {0})
<1> DEFINE ms == Append(ls, l)
<1>1. ms \in Seq(Line) /\ Len(ms) = Len(ls) + 1 /\ Len(ls) \in Nat /\ ms[Len(ls) + 1] = l
      /\ \A i \in 1..Len(ls) : ms[i] = ls[i]
  BY OneMore
<1> HIDE DEF ms
<1>2. DOMAIN ms = 1..(Len(ls) + 1) /\ DOMAIN ls = 1..Len(ls)
  BY <1>1, SeqFacts
<1>3. /\ \A i \in DOMAIN ms : (i \in DOMAIN ls /\ ms[i] = ls[i]) \/ ms[i] = l
      /\ \A i \in DOMAIN ls : i \in DOMAIN ms /\ ms[i] = ls[i]
      /\ Len(ls) + 1 \in DOMAIN ms
  BY <1>1, <1>2
<1>4. \A q : q \in ShownIn(ms) <=> q \in ShownIn(ls) \/ (q = l.id /\ q # 0)
  BY <1>1, <1>3, ShownIs
<1> QED
  BY <1>4 DEF ms

LEMMA TwoShown ==
  ASSUME NEW ls \in Seq(Line), NEW k \in Line, NEW l \in Line
  PROVE  ShownIn(ls \o <<k, l>>) = ShownIn(ls) \cup ({k.id, l.id} \ {0})
<1> DEFINE ms == ls \o <<k, l>>
<1>1. ms \in Seq(Line) /\ Len(ms) = Len(ls) + 2 /\ Len(ls) \in Nat /\ ms[Len(ls) + 1] = k /\ ms[Len(ls) + 2] = l
      /\ \A i \in 1..Len(ls) : ms[i] = ls[i]
  BY TwoMore
<1> HIDE DEF ms
<1>2. DOMAIN ms = 1..(Len(ls) + 2) /\ DOMAIN ls = 1..Len(ls)
  BY <1>1, SeqFacts
<1>3. /\ \A i \in DOMAIN ms : (i \in DOMAIN ls /\ ms[i] = ls[i]) \/ ms[i] = k \/ ms[i] = l
      /\ \A i \in DOMAIN ls : i \in DOMAIN ms /\ ms[i] = ls[i]
      /\ Len(ls) + 1 \in DOMAIN ms /\ Len(ls) + 2 \in DOMAIN ms
  BY <1>1, <1>2
<1>4. \A q : q \in ShownIn(ms) <=> q \in ShownIn(ls) \/ ((q = k.id \/ q = l.id) /\ q # 0)
  BY <1>1, <1>3, ShownIs
<1> QED
  BY <1>4 DEF ms

LEMMA StepShown ==
  ASSUME NEW ls \in Seq(Line), NEW r \in 0..MaxRows
  PROVE  /\ InsertStep(ls, r) \in Seq(Line)
         /\ ShownIn(InsertStep(ls, r)) = ShownIn(ls) \cup ({r} \ {0})
<1>0. MessageToLine(r) \in Line /\ MessageToLine(r).id = r
  BY LineFacts
<1>1. CASE ls = << >>
  <2>1. InsertStep(ls, r) = <<MessageToLine(r)>> /\ Len(ls) = 0 /\ ShownIn(ls) = {}
    BY <1>1, EmptySeq DEF InsertStep, ShownIn
  <2> DEFINE ms == <<MessageToLine(r)>>
  <2>2. ms \in Seq(Line) /\ DOMAIN ms = 1..1 /\ ms[1] = MessageToLine(r)
    BY <1>0, OneLine, SeqFacts
  <2> HIDE DEF ms
  <2>3. \A q : q \in ShownIn(ms) <=> q = r /\ q # 0
    BY <1>0, <2>2, ShownIs
  <2> QED
    BY <2>1, <2>2, <2>3 DEF ms
<1>2. CASE ls # << >>
  <2> DEFINE ms == InsertStep(ls, r)
  <2>1. /\ ms \in Seq(Line) /\ Len(ms) = Len(ls) + 1
        /\ \A i \in 1..(Len(ls) - 1) : ms[i] = ls[i]
        /\ ms[Len(ls)] = MessageToLine(r)
        /\ ms[Len(ls) + 1] = ls[Len(ls)]
    BY <1>2, StepIs
  <2> HIDE DEF ms
  <2>2. DOMAIN ms = 1..(Len(ls) + 1) /\ DOMAIN ls = 1..Len(ls) /\ Len(ls) \in 1..Len(ls) /\ Len(ls) \in Nat
    BY <1>2, <2>1, SeqFacts
  <2>3. /\ \A i \in DOMAIN ms : (\E j \in DOMAIN ls : ms[i] = ls[j]) \/ ms[i] = MessageToLine(r)
        /\ \A i \in DOMAIN ls : \E j \in DOMAIN ms : ms[j] = ls[i]
        /\ Len(ls) \in DOMAIN ms
    <3>1. ASSUME NEW i \in DOMAIN ms PROVE (\E j \in DOMAIN ls : ms[i] = ls[j]) \/ ms[i] = MessageToLine(r)
      <4>1. i \in 1..(Len(ls) - 1) \/ i = Len(ls) \/ i = Len(ls) + 1
        BY <2>2
      <4>2. CASE i \in 1..(Len(ls) - 1)
        BY <2>1, <2>2, <4>2
      <4> QED
        BY <2>1, <2>2, <4>1, <4>2
    <3>2. ASSUME NEW i \in DOMAIN ls PROVE \E j \in DOMAIN ms : ms[j] = ls[i]
      <4>1. CASE i = Len(ls)
        BY <2>1, <2>2, <4>1
      <4>2. CASE i # Len(ls)
        <5>1. i \in 1..(Len(ls) - 1) /\ i \in DOMAIN ms
          BY <2>2, <4>2
        <5> QED
          BY <2>1, <5>1
      <4> QED
        BY <4>1, <4>2
    <3> QED
      BY <2>2, <3>1, <3>2
  <2>4. \A q : q \in ShownIn(ms) <=> q \in ShownIn(ls) \/ (q = r /\ q # 0)
    <3>1. ASSUME NEW q \in ShownIn(ms) PROVE q \in ShownIn(ls) \/ (q = r /\ q # 0)
      <4>1. q # 0
        BY ShownIs
      <4>2. PICK i \in DOMAIN ms : ms[i].id = q
        BY ShownIs
      <4> QED
        BY <1>0, <2>3, <4>1, <4>2, ShownIs
    <3>2. ASSUME NEW q \in ShownIn(ls) PROVE q \in ShownIn(ms)
      <4>1. q # 0
        BY ShownIs
      <4>2. PICK i \in DOMAIN ls : ls[i].id = q
        BY ShownIs
      <4> QED
        BY <2>3, <4>1, <4>2, ShownIs
    <3>3. r # 0 => r \in ShownIn(ms)
      BY <1>0, <2>1, <2>3, ShownIs
    <3> QED
      BY <3>1, <3>2, <3>3
  <2> QED
    BY <2>1, <2>4 DEF ms
<1> QED
  BY <1>1, <1>2

-----------------------------------------------------------------------------
(* The chat page: types *)

ServerTyped ==
  /\ rows \in Seq(RowKind) /\ Len(rows) <= MaxRows /\ coming \subseteq DOMAIN rows
  /\ up \in BOOLEAN /\ streams \in [Stream -> StreamState]

ViewTyped ==
  /\ lines \in Seq(Line) /\ ShownIn(lines) \subseteq DOMAIN rows
  /\ ready \in BOOLEAN /\ moved \in BOOLEAN
  /\ channel \in {"listening", "backoff", "resync", "stopped"}
  /\ buffered \subseteq DOMAIN rows
  /\ fetch \in [Purpose -> Fetch]
  /\ \A p \in Purpose : fetch[p].upto <= Len(rows)

TurnsTyped ==
  /\ turn \in Stream \cup {NoStream} /\ rich \in BOOLEAN
  /\ upload \in Stream \cup {NoStream} /\ greeting \in Stream \cup {NoStream}

GhostTyped == missed \subseteq DOMAIN rows /\ clean \in BOOLEAN /\ happened \in 0..MaxHappenings

PageTyped == ServerTyped /\ ViewTyped /\ TurnsTyped /\ GhostTyped

LEMMA PageIsTyped == PageTyped => ChatTypeOK /\ RowsTyped
BY DEF PageTyped, ServerTyped, ViewTyped, TurnsTyped, GhostTyped, ChatTypeOK, RowsTyped

\* A row stays what it is.
Kept == Len(rows) <= Len(rows') /\ \A r \in DOMAIN rows : r \in DOMAIN rows' /\ rows'[r] = rows[r]

LEMMA PersistKeeps ==
  ASSUME RowsTyped, NEW sort \in RowKind, Persist(sort)
  PROVE  /\ RowsTyped' /\ Kept /\ Len(rows) + 1 \in 0..MaxRows /\ Len(rows') = Len(rows) + 1
         /\ Len(rows) + 1 \in DOMAIN rows' /\ rows'[Len(rows) + 1] = sort
         /\ Len(rows) + 1 \notin DOMAIN rows
         /\ DOMAIN rows' = DOMAIN rows \cup {Len(rows) + 1}
         /\ coming' = coming \cup {Len(rows) + 1}
<1>1. Len(rows) \in Nat /\ MaxRows \in Nat /\ DOMAIN rows = 1..Len(rows) /\ Len(rows) < MaxRows
  BY RowFacts DEF Persist
<1>2. rows' = Append(rows, sort) /\ coming' = coming \cup {Len(rows) + 1}
  BY DEF Persist
<1>3. /\ rows' \in Seq(RowKind) /\ Len(rows') = Len(rows) + 1
      /\ \A i \in 1..Len(rows) : rows'[i] = rows[i]
      /\ rows'[Len(rows) + 1] = sort
  BY <1>2, AppendProperties DEF RowsTyped
<1>4. DOMAIN rows' = 1..(Len(rows) + 1)
  BY <1>3, LenProperties
<1>5. RowsTyped' /\ Len(rows) + 1 \in 0..MaxRows
  BY <1>1, <1>3 DEF RowsTyped
<1>6. Kept
  BY <1>1, <1>3, <1>4 DEF Kept
<1>7. DOMAIN rows' = DOMAIN rows \cup {Len(rows) + 1} /\ Len(rows) + 1 \notin DOMAIN rows
  BY <1>1, <1>4
<1> QED
  BY <1>2, <1>3, <1>5, <1>6, <1>7

LEMMA SameKept == ASSUME RowsTyped, rows' = rows PROVE Kept
BY RowFacts DEF Kept

\* The view and the ghosts keep their types while only rows are added.
LEMMA ViewStays ==
  ASSUME ViewTyped, TurnsTyped, GhostTyped, Kept, RowsTyped, RowsTyped', UNCHANGED <<viewVars, turnVars>>,
         missed' \subseteq DOMAIN rows', clean' \in BOOLEAN, happened' \in 0..MaxHappenings
  PROVE  ViewTyped' /\ TurnsTyped' /\ GhostTyped'
<1>1. UNCHANGED <<lines, ready, moved, channel, buffered, fetch, turn, rich, upload, greeting>>
  BY DEF viewVars, turnVars
<1>2. DOMAIN rows \subseteq DOMAIN rows'
  BY DEF Kept
<1>3. Len(rows) \in Nat /\ Len(rows') \in Nat /\ Len(rows) <= Len(rows')
  BY LenProperties DEF RowsTyped, Kept
<1>4. \A p \in Purpose : fetch[p].upto \in Nat /\ fetch[p].upto <= Len(rows)
  BY ChatConstants DEF ViewTyped, Fetch
<1>5. ShownIn(lines)' = ShownIn(lines)
  BY <1>1 DEF ShownIn
<1>6. ViewTyped'
  BY <1>1, <1>2, <1>3, <1>4, <1>5 DEF ViewTyped
<1> QED
  BY <1>1, <1>6 DEF TurnsTyped, GhostTyped

LEMMA HappensTyped == ASSUME GhostTyped, Happens PROVE happened' \in 0..MaxHappenings
BY ChatConstants DEF GhostTyped, Happens

LEMMA HappenedTyped == ASSUME GhostTyped, UNCHANGED happened PROVE happened' \in 0..MaxHappenings
BY DEF GhostTyped

LEMMA PassByTyped ==
  ASSUME NEW S, NEW D, missed \subseteq D, S \subseteq D, PassBy(S)
  PROVE  missed' \subseteq D /\ missed \subseteq missed'
BY DEF PassBy

\* Stream s is at another stage, holding row r.
Restaged(s, stage, r) ==
  /\ streams' \in [Stream -> StreamState]
  /\ \A t \in Stream : t # s => streams'[t] = streams[t]
  /\ streams'[s].kind = streams[s].kind /\ streams'[s].ours = streams[s].ours
  /\ streams'[s].chip = streams[s].chip
  /\ streams'[s].stage = stage /\ streams'[s].row = r

Ends(s) ==
  /\ streams' \in [Stream -> StreamState]
  /\ \A t \in Stream : t # s => streams'[t] = streams[t]
  /\ streams'[s] = Used

Stages == Told \cup {"putting", "unsent", "queued", "approved", "running", "chip", "finishing", "over"}

LEMMA StreamFacts ==
  ASSUME NEW x \in StreamState
  PROVE  /\ x.kind \in {"none", "send", "confirm", "greet", "upload", "used"}
         /\ x.stage \in Stages /\ x.ours \in BOOLEAN /\ x.row \in 0..MaxRows /\ x.chip \in 0..MaxRows
BY DEF StreamState, Stages

LEMMA UsedIs ==
  /\ Used \in StreamState /\ Used.kind = "used" /\ Used.stage = "over" /\ ~Used.ours
  /\ Used.row = 0 /\ Used.chip = 0
  /\ Unused \in StreamState /\ Unused.kind = "none" /\ Unused.stage = "over" /\ ~Unused.ours
<1>1. 0 \in 0..MaxRows
  BY ChatConstants
<1> QED
  BY <1>1 DEF Used, Unused, StreamState

LEMMA RestagedBy ==
  ASSUME streams \in [Stream -> StreamState], NEW s \in Stream, NEW stage \in Stages, NEW r \in 0..MaxRows,
         streams' = [streams EXCEPT ![s].stage = stage, ![s].row = r]
  PROVE  Restaged(s, stage, r)
<1> DEFINE x == [streams[s] EXCEPT !.stage = stage, !.row = r]
<1>1. x \in StreamState /\ x.kind = streams[s].kind /\ x.ours = streams[s].ours /\ x.chip = streams[s].chip
      /\ x.stage = stage /\ x.row = r
  BY DEF StreamState, Stages
<1>2. streams' = [streams EXCEPT ![s] = x]
  OBVIOUS
<1> HIDE DEF x
<1> QED
  BY <1>1, <1>2, ZenonT(30) DEF Restaged

LEMMA EndsBy ==
  ASSUME streams \in [Stream -> StreamState], NEW s \in Stream, streams' = [streams EXCEPT ![s] = Used]
  PROVE  Ends(s)
BY UsedIs DEF Ends

LEMMA AtIs ==
  ASSUME streams \in [Stream -> StreamState], NEW s \in Stream, NEW stage \in Stages, At(s, stage)
  PROVE  Restaged(s, stage, 0)
<1>1. 0 \in 0..MaxRows
  BY ChatConstants
<1> QED
  BY <1>1, RestagedBy DEF At

LEMMA HoldsIs ==
  ASSUME streams \in [Stream -> StreamState], NEW s \in Stream, NEW stage \in Stages,
         HoldsRow(s, stage), Len(rows) + 1 \in 0..MaxRows
  PROVE  Restaged(s, stage, Len(rows) + 1)
BY RestagedBy DEF HoldsRow

\* What a stream may go on to from a chunk.
LEMMA GoesOnIs ==
  ASSUME streams \in [Stream -> StreamState], NEW s \in Stream, NEW type, GoesOn(s, type)
  PROVE  /\ type \in {"token", "step"} => Restaged(s, "running", 0)
         /\ type \in {"end", "fail", "added"} => Ends(s)
         /\ type \notin {"token", "step", "end", "fail", "added"} => Restaged(s, "finishing", 0)
<1>1. 0 \in 0..MaxRows /\ "running" \in Stages /\ "finishing" \in Stages
  BY ChatConstants DEF Stages
<1>2. CASE type \in {"token", "step"}
  <2>1. streams' = [streams EXCEPT ![s].stage = "running", ![s].row = 0]
    BY <1>2 DEF GoesOn
  <2> QED
    BY <1>1, <1>2, <2>1, RestagedBy
<1>3. CASE type \in {"end", "fail", "added"}
  <2>1. streams' = [streams EXCEPT ![s] = Used]
    BY <1>3 DEF GoesOn
  <2> QED
    BY <1>3, <2>1, EndsBy
<1>4. CASE type \notin {"token", "step", "end", "fail", "added"}
  <2>1. streams' = [streams EXCEPT ![s].stage = "finishing", ![s].row = 0]
    BY <1>4 DEF GoesOn
  <2> QED
    BY <1>1, <1>4, <2>1, RestagedBy
<1> QED
  BY <1>2, <1>3, <1>4

\* Stream s is asked for as one of the given kind.
Opened(s, sort) ==
  /\ streams' \in [Stream -> StreamState]
  /\ \A t \in Stream : t # s => streams'[t] = streams[t]
  /\ streams[s].kind = "none" /\ streams'[s].kind = sort /\ streams'[s].ours = up
  /\ streams'[s].row = streams[s].row /\ streams'[s].chip = streams[s].chip
  /\ streams'[s].stage = IF sort = "upload" THEN "putting" ELSE IF up THEN "queued" ELSE "unsent"

LEMMA AsksIs ==
  ASSUME streams \in [Stream -> StreamState], up \in BOOLEAN, NEW s \in Stream,
         NEW sort \in {"send", "confirm", "greet", "upload"}, Asks(s, sort)
  PROVE  Opened(s, sort)
<1> DEFINE at == CASE sort = "upload" -> "putting" [] sort # "upload" /\ up -> "queued" [] OTHER -> "unsent"
           x == [streams[s] EXCEPT !.kind = sort, !.ours = up, !.stage = at]
<1>1. at = (IF sort = "upload" THEN "putting" ELSE IF up THEN "queued" ELSE "unsent") /\ at \in Stages
  BY DEF Stages
<1>2. streams[s].kind = "none" /\ streams' = [streams EXCEPT ![s] = x]
  BY DEF Asks
<1> HIDE DEF at
<1>3. x \in StreamState /\ x.kind = sort /\ x.ours = up /\ x.stage = at
      /\ x.row = streams[s].row /\ x.chip = streams[s].chip
  BY <1>1 DEF StreamState, Stages
<1> HIDE DEF x
<1> QED
  BY <1>1, <1>2, <1>3 DEF Opened

\* What is held is a row of the companion, and a chip that of a file.
IsKind(r, sort) == r \in DOMAIN rows /\ rows[r] = sort

StageFits(x) ==
  /\ x.ours => up
  /\ x.stage = "over" <=> x.kind \in {"none", "used"}
  /\ x.stage \in {"putting", "chip", "added"} => x.kind = "upload"
  /\ x.stage \in {"step", "proposal", "done", "reflection"} => IsKind(x.row, "companion")
  /\ x.stage = "added" => x.row = 0 \/ (IsKind(x.row, "companion") /\ IsKind(x.chip, "file"))
  /\ x.stage = "chip" => IsKind(x.chip, "file")

StagesFit == \A s \in Stream : StageFits(streams[s])

PageBase == PageTyped /\ StagesFit

LEMMA KindKept ==
  ASSUME Kept, NEW r, NEW sort, IsKind(r, sort)
  PROVE  IsKind(r, sort)'
BY DEF Kept, IsKind

LEMMA StageStays ==
  ASSUME Kept, NEW t \in Stream, StageFits(streams[t]), streams'[t] = streams[t], streams[t].ours => up'
  PROVE  StageFits(streams[t])'
<1>1. \A r, sort : IsKind(r, sort) => IsKind(r, sort)'
  BY KindKept
<1> QED
  BY <1>1 DEF StageFits

LEMMA StagesStay ==
  ASSUME Kept, StagesFit, UNCHANGED <<up, streams>>
  PROVE  StagesFit'
<1>1. ASSUME NEW t \in Stream PROVE StageFits(streams[t])'
  <2>1. StageFits(streams[t])
    BY DEF StagesFit
  <2> QED
    BY <2>1, StageStays DEF StageFits
<1> QED
  BY <1>1 DEF StagesFit

LEMMA RestagedFits ==
  ASSUME StagesFit, Kept, up' = up, NEW s \in Stream, NEW stage, NEW r, Restaged(s, stage, r),
         streams[s].stage # "over", stage # "over",
         stage \in {"putting", "chip", "added"} => streams[s].kind = "upload",
         stage \in {"step", "proposal", "done", "reflection"} => IsKind(r, "companion")',
         stage = "added" => r = 0 \/ (IsKind(r, "companion")' /\ IsKind(streams[s].chip, "file")),
         stage # "chip"
  PROVE  StagesFit'
<1>1. StageFits(streams[s]) /\ \A t \in Stream : StageFits(streams[t])
  BY DEF StagesFit
<1>3. ASSUME NEW t \in Stream, t # s PROVE StageFits(streams[t])'
  <2>1. streams'[t] = streams[t] /\ (streams[t].ours => up')
    BY <1>1, <1>3 DEF Restaged, StageFits
  <2> QED
    BY <1>1, <2>1, StageStays
<1>4. /\ streams'[s].kind = streams[s].kind /\ streams'[s].ours = streams[s].ours
      /\ streams'[s].chip = streams[s].chip
      /\ streams'[s].stage = stage /\ streams'[s].row = r
  BY DEF Restaged
<1>5. streams[s].kind \notin {"none", "used"} /\ (streams[s].ours => up)
  BY <1>1 DEF StageFits
<1>6. IsKind(streams[s].chip, "file") => streams[s].chip \in DOMAIN rows' /\ rows'[streams[s].chip] = "file"
  BY DEF Kept, IsKind
<1>7. /\ stage \in {"step", "proposal", "done", "reflection"} => r \in DOMAIN rows' /\ rows'[r] = "companion"
      /\ stage = "added" => \/ r = 0
                           \/ /\ r \in DOMAIN rows' /\ rows'[r] = "companion"
                              /\ streams[s].chip \in DOMAIN rows' /\ rows'[streams[s].chip] = "file"
  BY <1>6 DEF IsKind
<1>8. StageFits(streams[s])'
  BY <1>4, <1>5, <1>7 DEF StageFits, IsKind
<1> QED
  BY <1>3, <1>8 DEF StagesFit

LEMMA EndsFits ==
  ASSUME StagesFit, Kept, up' = up, NEW s \in Stream, Ends(s)
  PROVE  StagesFit'
<1>1. \A t \in Stream : StageFits(streams[t])
  BY DEF StagesFit
<1>3. ASSUME NEW t \in Stream, t # s PROVE StageFits(streams[t])'
  <2>1. streams'[t] = streams[t] /\ (streams[t].ours => up')
    BY <1>1, <1>3 DEF Ends, StageFits
  <2> QED
    BY <1>1, <2>1, StageStays
<1>4. StageFits(streams[s])'
  BY UsedIs DEF Ends, StageFits
<1> QED
  BY <1>3, <1>4 DEF StagesFit

LEMMA OpenedFits ==
  ASSUME StagesFit, Kept, up' = up, NEW s \in Stream, NEW sort \in {"send", "confirm", "greet", "upload"}, Opened(s, sort),
         up \in BOOLEAN
  PROVE  StagesFit'
<1>1. \A t \in Stream : StageFits(streams[t])
  BY DEF StagesFit
<1>3. ASSUME NEW t \in Stream, t # s PROVE StageFits(streams[t])'
  <2>1. streams'[t] = streams[t] /\ (streams[t].ours => up')
    BY <1>1, <1>3 DEF Opened, StageFits
  <2> QED
    BY <1>1, <2>1, StageStays
<1>4. /\ streams'[s].kind = sort /\ streams'[s].ours = up
      /\ streams'[s].stage = IF sort = "upload" THEN "putting" ELSE IF up THEN "queued" ELSE "unsent"
  BY DEF Opened
<1>5. StageFits(streams[s])'
  BY <1>4 DEF StageFits
<1> QED
  BY <1>3, <1>5 DEF StagesFit

\* The chunks of a stage.
LEMMA ChunkIs ==
  ASSUME streams \in [Stream -> StreamState], NEW s \in Stream, NEW type \in Chunks(s)
  PROVE  /\ type \in Told \cup {"token", "error", "end", "fail"}
         /\ type \in Told => streams[s].stage = type
         /\ type = "token" => streams[s].stage = "running" /\ streams[s].kind # "greet"
         /\ type = "error" => streams[s].stage = "running"
         /\ type = "end" => streams[s].stage = "finishing"
         /\ type = "fail" => streams[s].stage = "queued"
         /\ streams[s].stage \in Told \cup {"running", "finishing", "queued"}
<1>1. \/ streams[s].stage \in Told /\ type = streams[s].stage
      \/ streams[s].stage = "running" /\ (type = "error" \/ (type = "token" /\ streams[s].kind # "greet"))
      \/ streams[s].stage = "finishing" /\ type = "end"
      \/ streams[s].stage = "queued" /\ type = "fail"
  <2>1. CASE streams[s].stage \in Told
    BY <2>1 DEF Chunks
  <2>2. CASE streams[s].stage = "running"
    BY <2>2 DEF Chunks, Told
  <2>3. CASE streams[s].stage = "finishing"
    BY <2>3 DEF Chunks, Told
  <2>4. CASE streams[s].stage = "queued"
    BY <2>4 DEF Chunks, Told
  <2>5. CASE streams[s].stage \notin Told \cup {"running", "finishing", "queued"}
    BY <2>5 DEF Chunks
  <2> QED
    BY <2>1, <2>2, <2>3, <2>4, <2>5
<1> QED
  BY <1>1 DEF Told

LEMMA GoesOnFits ==
  ASSUME StagesFit, streams \in [Stream -> StreamState], Kept, up' = up, NEW s \in Stream, NEW type \in Chunks(s), GoesOn(s, type)
  PROVE  StagesFit' /\ streams' \in [Stream -> StreamState]
<1>1. streams[s].stage # "over"
  BY ChunkIs DEF Told
<1>2. CASE type \in {"token", "step"}
  BY <1>1, <1>2, GoesOnIs, RestagedFits DEF Restaged
<1>3. CASE type \in {"end", "fail", "added"}
  BY <1>3, GoesOnIs, EndsFits DEF Ends
<1>4. CASE type \notin {"token", "step", "end", "fail", "added"}
  BY <1>1, <1>4, GoesOnIs, RestagedFits DEF Restaged
<1> QED
  BY <1>2, <1>3, <1>4

-----------------------------------------------------------------------------
(* The chat page: the types and stages through each step *)

LEMMA BaseFacts ==
  ASSUME PageBase
  PROVE  /\ PageTyped /\ ServerTyped /\ ViewTyped /\ TurnsTyped /\ GhostTyped /\ StagesFit /\ RowsTyped
         /\ rows \in Seq(RowKind) /\ streams \in [Stream -> StreamState] /\ up \in BOOLEAN
         /\ lines \in Seq(Line) /\ missed \subseteq DOMAIN rows /\ coming \subseteq DOMAIN rows
         /\ \A s \in Stream : StageFits(streams[s])
BY DEF PageBase, PageTyped, ServerTyped, ViewTyped, TurnsTyped, GhostTyped, StagesFit, RowsTyped

LEMMA OthersSpeakBase == ASSUME PageBase, OthersSpeak PROVE PageBase'
<1>1. PICK sort \in {"companion", "typed"} : Persist(sort)
  BY DEF OthersSpeak
<1>2. UNCHANGED <<up, streams, viewVars, turnVars, missed, clean>> /\ Happens
  BY DEF OthersSpeak, ghostVars
<1>3. sort \in RowKind
  BY DEF RowKind
<1>4. RowsTyped' /\ Kept /\ coming' \subseteq DOMAIN rows' /\ DOMAIN rows \subseteq DOMAIN rows'
  BY <1>1, <1>3, PersistKeeps, BaseFacts
<1>5. StagesFit'
  BY <1>2, <1>4, BaseFacts, StagesStay
<1>6. ServerTyped'
  BY <1>2, <1>4, BaseFacts DEF ServerTyped, RowsTyped
<1>7. happened' \in 0..MaxHappenings
  BY <1>2, BaseFacts, HappensTyped
<1>8. missed' \subseteq DOMAIN rows' /\ clean' \in BOOLEAN
  BY <1>2, <1>4, BaseFacts DEF GhostTyped
<1>9. ViewTyped' /\ TurnsTyped' /\ GhostTyped'
  BY <1>2, <1>4, <1>7, <1>8, BaseFacts, ViewStays
<1> QED
  BY <1>5, <1>6, <1>9 DEF PageBase, PageTyped

LEMMA LosesEventBase == ASSUME PageBase, NEW r \in coming, LosesEvent(r) PROVE PageBase'
<1>1. /\ coming' = coming \ {r} /\ UNCHANGED <<rows, up, streams, viewVars, turnVars, clean>> /\ PassBy({r})
      /\ Happens \/ UNCHANGED happened
  BY DEF LosesEvent
<1>2. Kept /\ RowsTyped'
  BY <1>1, BaseFacts, SameKept DEF RowsTyped
<1>3. StagesFit'
  BY <1>1, <1>2, BaseFacts, StagesStay
<1>4. ServerTyped'
  BY <1>1, BaseFacts DEF ServerTyped
<1>5. happened' \in 0..MaxHappenings
  BY <1>1, BaseFacts, HappensTyped, HappenedTyped
<1>6. missed' \subseteq DOMAIN rows' /\ clean' \in BOOLEAN
  BY <1>1, BaseFacts DEF GhostTyped, PassBy
<1>7. ViewTyped' /\ TurnsTyped' /\ GhostTyped'
  BY <1>1, <1>2, <1>5, <1>6, BaseFacts, ViewStays
<1> QED
  BY <1>3, <1>4, <1>7 DEF PageBase, PageTyped

\* The server is at rest, and the lines are those a step shows.
LEMMA ViewMoves ==
  ASSUME PageBase, rows' = rows, coming' \subseteq coming, up' \in BOOLEAN, streams' \in [Stream -> StreamState], StagesFit',
         lines' \in Seq(Line), ShownIn(lines') \subseteq DOMAIN rows,
         ready' \in BOOLEAN, moved' \in BOOLEAN, channel' \in {"listening", "backoff", "resync", "stopped"},
         buffered' \subseteq DOMAIN rows, fetch' \in [Purpose -> Fetch], \A p \in Purpose : fetch'[p].upto <= Len(rows),
         TurnsTyped', missed' \subseteq DOMAIN rows, clean' \in BOOLEAN, happened' \in 0..MaxHappenings
  PROVE  PageBase'
<1>1. ServerTyped'
  BY BaseFacts DEF ServerTyped
<1>2. ViewTyped'
  BY BaseFacts DEF ViewTyped, ShownIn
<1>3. GhostTyped'
  BY DEF GhostTyped
<1> QED
  BY <1>1, <1>2, <1>3 DEF PageBase, PageTyped

LEMMA ViewFacts ==
  ASSUME PageBase
  PROVE  /\ lines \in Seq(Line) /\ ShownIn(lines) \subseteq DOMAIN rows
         /\ ready \in BOOLEAN /\ moved \in BOOLEAN /\ channel \in {"listening", "backoff", "resync", "stopped"}
         /\ buffered \subseteq DOMAIN rows /\ fetch \in [Purpose -> Fetch] /\ \A p \in Purpose : fetch[p].upto <= Len(rows)
         /\ turn \in Stream \cup {NoStream} /\ rich \in BOOLEAN
         /\ upload \in Stream \cup {NoStream} /\ greeting \in Stream \cup {NoStream}
         /\ missed \subseteq DOMAIN rows /\ clean \in BOOLEAN /\ happened \in 0..MaxHappenings
         /\ Len(rows) \in Nat /\ Len(rows) \in 0..MaxRows /\ DOMAIN rows = 1..Len(rows)
BY BaseFacts, RowFacts DEF ViewTyped, TurnsTyped, GhostTyped

LEMMA FetchIs ==
  /\ Asked \in Fetch /\ NotFetched \in Fetch /\ Asked.upto = 0 /\ NotFetched.upto = 0
  /\ Asked.state = "asked" /\ NotFetched.state = "none" /\ Asked # NotFetched
<1>1. 0 \in 0..MaxRows
  BY ChatConstants
<1> QED
  BY <1>1 DEF Asked, NotFetched, Fetch

LEMMA PurposeIs == {"first", "resync", "refresh", "reload"} = Purpose
BY DEF Purpose

\* A transcript fetch changes.
LEMMA FetchMoves ==
  ASSUME PageBase, NEW p \in Purpose, NEW f \in Fetch, f.upto <= Len(rows), fetch' = [fetch EXCEPT ![p] = f]
  PROVE  /\ fetch' \in [Purpose -> Fetch] /\ \A q \in Purpose : fetch'[q].upto <= Len(rows)
         /\ fetch'[p] = f /\ \A q \in Purpose : q # p => fetch'[q] = fetch[q]
BY ViewFacts

LEMMA ListsMessagesBase == ASSUME PageBase, NEW p \in Purpose, ListsMessages(p) PROVE PageBase'
<1>1. /\ UNCHANGED <<rows, coming, up, streams, lines, ready, moved, channel, buffered, turn, rich, upload, greeting, missed, clean>>
      /\ Happens \/ UNCHANGED happened
      /\ \/ fetch' = [fetch EXCEPT ![p] = [state |-> "read", upto |-> Len(rows)]]
         \/ fetch' = [fetch EXCEPT ![p].state = "refused"]
  BY DEF ListsMessages, serverVars, turnVars, ghostVars
<1>2. \E f \in Fetch : f.upto <= Len(rows) /\ fetch' = [fetch EXCEPT ![p] = f]
  <2>1. CASE fetch' = [fetch EXCEPT ![p] = [state |-> "read", upto |-> Len(rows)]]
    <3>1. [state |-> "read", upto |-> Len(rows)] \in Fetch /\ Len(rows) <= Len(rows)
      BY ViewFacts DEF Fetch
    <3> QED
      BY <2>1, <3>1
  <2>2. CASE fetch' = [fetch EXCEPT ![p].state = "refused"]
    <3> DEFINE f == [fetch[p] EXCEPT !.state = "refused"]
    <3>1. f \in Fetch /\ f.upto = fetch[p].upto /\ fetch[p].upto <= Len(rows)
      BY ViewFacts DEF Fetch
    <3>2. fetch' = [fetch EXCEPT ![p] = f]
      BY <2>2, ViewFacts
    <3> QED
      BY <3>1, <3>2
  <2> QED
    BY <1>1, <2>1, <2>2
<1>3. fetch' \in [Purpose -> Fetch] /\ \A q \in Purpose : fetch'[q].upto <= Len(rows)
  BY <1>2, FetchMoves
<1>4. StagesFit'
  BY <1>1, BaseFacts, SameKept, StagesStay
<1>5. happened' \in 0..MaxHappenings
  BY <1>1, BaseFacts, HappensTyped, HappenedTyped
<1>6. TurnsTyped'
  BY <1>1, BaseFacts DEF TurnsTyped
<1> QED
  BY <1>1, <1>3, <1>4, <1>5, <1>6, BaseFacts, ViewFacts, ViewMoves

\* The server goes on, and the page rests.
LEMMA ServerMoves ==
  ASSUME PageBase, RowsTyped', Kept, coming' \subseteq DOMAIN rows', UNCHANGED <<up, viewVars, turnVars, ghostVars>>,
         streams' \in [Stream -> StreamState], StagesFit', Happens \/ UNCHANGED happened
  PROVE  PageBase'
<1>1. ServerTyped'
  BY BaseFacts DEF ServerTyped, RowsTyped
<1>2. happened' \in 0..MaxHappenings
  BY BaseFacts, HappensTyped, HappenedTyped
<1>3. missed' \subseteq DOMAIN rows' /\ clean' \in BOOLEAN
  BY BaseFacts DEF GhostTyped, ghostVars, Kept
<1>4. ViewTyped' /\ TurnsTyped' /\ GhostTyped'
  BY <1>2, <1>3, BaseFacts, ViewStays
<1> QED
  BY <1>1, <1>4 DEF PageBase, PageTyped

LEMMA SameRows ==
  ASSUME PageBase, UNCHANGED <<rows, coming>>
  PROVE  RowsTyped' /\ Kept /\ coming' \subseteq DOMAIN rows'
BY BaseFacts, SameKept DEF RowsTyped

LEMMA MoreRows ==
  ASSUME PageBase, NEW sort \in RowKind, Persist(sort)
  PROVE  RowsTyped' /\ Kept /\ coming' \subseteq DOMAIN rows'
BY BaseFacts, PersistKeeps

\* What a stream begins with.
LEMMA BeginsIs ==
  ASSUME PageBase, NEW s \in Stream, Begins(s)
  PROVE  /\ UNCHANGED happened
         /\ \/ /\ streams[s].stage = "queued" /\ streams[s].kind = "send"
               /\ Persist("typed") /\ Restaged(s, "running", 0)
            \/ /\ streams[s].stage = "queued" /\ streams[s].kind = "confirm"
               /\ Persist("companion") /\ Restaged(s, "approved", 0)
            \/ /\ streams[s].stage = "queued" /\ streams[s].kind = "upload"
               /\ Persist("file")
               /\ streams' = [streams EXCEPT ![s].stage = "chip", ![s].chip = Len(rows) + 1]
            \/ /\ streams[s].stage = "approved" \/ (streams[s].stage = "queued" /\ streams[s].kind = "greet")
               /\ UNCHANGED <<rows, coming>> /\ Restaged(s, "running", 0)
<1>1. "running" \in Stages /\ "approved" \in Stages
  BY DEF Stages
<1>2. At(s, "running") => Restaged(s, "running", 0)
  BY <1>1, AtIs, BaseFacts
<1>3. At(s, "approved") => Restaged(s, "approved", 0)
  BY <1>1, AtIs, BaseFacts
<1> QED
  BY <1>2, <1>3 DEF Begins

LEMMA BeginsBase ==
  ASSUME PageBase, NEW s \in Stream, Begins(s), UNCHANGED <<up, viewVars, turnVars, ghostVars>>
  PROVE  PageBase'
<1>1. /\ "typed" \in RowKind /\ "companion" \in RowKind /\ "file" \in RowKind /\ StagesFit /\ streams \in [Stream -> StreamState]
  BY BaseFacts DEF RowKind
<1>2. CASE /\ streams[s].stage = "queued" /\ streams[s].kind = "send"
           /\ Persist("typed") /\ Restaged(s, "running", 0)
  <2>1. RowsTyped' /\ Kept /\ coming' \subseteq DOMAIN rows'
    BY <1>1, <1>2, MoreRows
  <2>2. StagesFit' /\ streams' \in [Stream -> StreamState]
    BY <1>1, <1>2, <2>1, RestagedFits DEF Restaged
  <2> QED
    BY <2>1, <2>2, BeginsIs, ServerMoves
<1>3. CASE /\ streams[s].stage = "queued" /\ streams[s].kind = "confirm"
           /\ Persist("companion") /\ Restaged(s, "approved", 0)
  <2>1. RowsTyped' /\ Kept /\ coming' \subseteq DOMAIN rows'
    BY <1>1, <1>3, MoreRows
  <2>2. StagesFit' /\ streams' \in [Stream -> StreamState]
    BY <1>1, <1>3, <2>1, RestagedFits DEF Restaged
  <2> QED
    BY <2>1, <2>2, BeginsIs, ServerMoves
<1>4. CASE /\ streams[s].stage = "queued" /\ streams[s].kind = "upload"
           /\ Persist("file")
           /\ streams' = [streams EXCEPT ![s].stage = "chip", ![s].chip = Len(rows) + 1]
  <2>1. RowsTyped' /\ Kept /\ coming' \subseteq DOMAIN rows'
    BY <1>1, <1>4, MoreRows
  <2>2. Len(rows) + 1 \in 0..MaxRows /\ Len(rows) + 1 \in DOMAIN rows' /\ rows'[Len(rows) + 1] = "file"
    BY <1>1, <1>4, BaseFacts, PersistKeeps
  <2> DEFINE x == [streams[s] EXCEPT !.stage = "chip", !.chip = Len(rows) + 1]
  <2>3. x \in StreamState /\ x.kind = "upload" /\ x.ours = streams[s].ours /\ x.stage = "chip" /\ x.chip = Len(rows) + 1
    BY <1>1, <1>4, <2>2 DEF StreamState
  <2>4. streams' = [streams EXCEPT ![s] = x]
    BY <1>4
  <2> HIDE DEF x
  <2>5. streams' \in [Stream -> StreamState] /\ streams'[s] = x /\ \A t \in Stream : t # s => streams'[t] = streams[t]
    BY <1>1, <2>3, <2>4
  <2>6. ASSUME NEW t \in Stream PROVE StageFits(streams[t])'
    <3>1. StageFits(streams[t]) /\ StageFits(streams[s])
      BY <1>1 DEF StagesFit
    <3>2. CASE t = s
      <4>1. x.ours => up'
        BY <2>3, <3>1 DEF StageFits
      <4> QED
        BY <2>2, <2>3, <2>5, <3>2, <4>1 DEF StageFits, IsKind
    <3>3. CASE t # s
      <4>1. streams'[t] = streams[t] /\ (streams[t].ours => up')
        BY <2>5, <3>1, <3>3 DEF StageFits
      <4> QED
        BY <2>1, <3>1, <4>1, StageStays
    <3> QED
      BY <3>2, <3>3
  <2>7. StagesFit'
    BY <2>6 DEF StagesFit
  <2> QED
    BY <2>1, <2>5, <2>7, BeginsIs, ServerMoves
<1>5. CASE /\ streams[s].stage = "approved" \/ (streams[s].stage = "queued" /\ streams[s].kind = "greet")
           /\ UNCHANGED <<rows, coming>> /\ Restaged(s, "running", 0)
  <2>1. RowsTyped' /\ Kept /\ coming' \subseteq DOMAIN rows'
    BY <1>1, <1>5, SameRows
  <2>2. StagesFit' /\ streams' \in [Stream -> StreamState]
    BY <1>1, <1>5, <2>1, RestagedFits DEF Restaged
  <2> QED
    BY <2>1, <2>2, BeginsIs, ServerMoves
<1> QED
  BY <1>2, <1>3, <1>4, <1>5, BeginsIs

\* What a stream persists.
LEMMA PersistsIs ==
  ASSUME PageBase, NEW s \in Stream, Persists(s)
  PROVE  /\ UNCHANGED happened /\ Persist("companion")
         /\ Len(rows) + 1 \in 0..MaxRows
         /\ \E stage \in Told :
              /\ stage \in {"step", "proposal"} => streams[s].stage = "running" /\ streams[s].kind \in {"send", "confirm"}
              /\ stage = "done" => streams[s].stage = "running"
              /\ stage = "reflection" => streams[s].stage = "finishing" /\ streams[s].kind = "send"
              /\ stage = "added" => streams[s].stage = "chip"
              /\ Restaged(s, stage, Len(rows) + 1)
<1>1. UNCHANGED happened /\ Persist("companion") /\ "companion" \in RowKind
  BY DEF Persists, RowKind
<1>2. Len(rows) + 1 \in 0..MaxRows
  BY <1>1, PersistKeeps, BaseFacts
<1>3. PICK stage \in Told :
        /\ stage \in {"step", "proposal"} => streams[s].stage = "running" /\ streams[s].kind \in {"send", "confirm"}
        /\ stage = "done" => streams[s].stage = "running"
        /\ stage = "reflection" => streams[s].stage = "finishing" /\ streams[s].kind = "send"
        /\ stage = "added" => streams[s].stage = "chip"
        /\ HoldsRow(s, stage)
  BY DEF Persists
<1>4. stage \in Stages
  BY DEF Stages
<1>5. Restaged(s, stage, Len(rows) + 1)
  BY <1>2, <1>3, <1>4, BaseFacts, HoldsIs
<1> QED
  BY <1>1, <1>2, <1>3, <1>5

LEMMA PersistsBase ==
  ASSUME PageBase, NEW s \in Stream, Persists(s), UNCHANGED <<up, viewVars, turnVars, ghostVars>>
  PROVE  PageBase'
<1>1. "companion" \in RowKind /\ StagesFit /\ StageFits(streams[s])
  BY BaseFacts DEF RowKind
<1>2. UNCHANGED happened /\ Persist("companion")
  BY PersistsIs
<1>3. PICK stage \in Told :
        /\ stage \in {"step", "proposal"} => streams[s].stage = "running" /\ streams[s].kind \in {"send", "confirm"}
        /\ stage = "done" => streams[s].stage = "running"
        /\ stage = "reflection" => streams[s].stage = "finishing" /\ streams[s].kind = "send"
        /\ stage = "added" => streams[s].stage = "chip"
        /\ Restaged(s, stage, Len(rows) + 1)
  BY PersistsIs
<1>4. /\ RowsTyped' /\ Kept /\ coming' \subseteq DOMAIN rows'
      /\ Len(rows) + 1 \in DOMAIN rows' /\ rows'[Len(rows) + 1] = "companion"
  BY <1>1, <1>2, MoreRows, PersistKeeps, BaseFacts
<1>p. PICK r \in 0..MaxRows : r = Len(rows) + 1
  BY PersistsIs
<1>5. r \in DOMAIN rows' /\ rows'[r] = "companion" /\ Restaged(s, stage, r)
  BY <1>3, <1>4, <1>p
<1>6. IsKind(r, "companion")'
  BY <1>5 DEF IsKind
<1>7. streams[s].stage # "over" /\ stage # "over" /\ stage # "chip" /\ stage # "putting"
  BY <1>3 DEF Told
<1>8. stage = "added" => streams[s].kind = "upload" /\ IsKind(streams[s].chip, "file")
  BY <1>1, <1>3 DEF StageFits
<1>9. StagesFit'
  BY <1>1, <1>4, <1>5, <1>6, <1>7, <1>8, RestagedFits
<1>10. streams' \in [Stream -> StreamState]
  BY <1>3 DEF Restaged
<1> QED
  BY <1>2, <1>4, <1>9, <1>10, ServerMoves

LEMMA SkipsBase ==
  ASSUME PageBase, NEW s \in Stream, SkipsTranscript(s), UNCHANGED <<up, viewVars, turnVars, ghostVars>>
  PROVE  PageBase'
<1>1. /\ Happens /\ streams[s].kind = "upload" /\ streams[s].stage \in {"queued", "chip"}
      /\ At(s, "added") /\ UNCHANGED <<rows, coming>>
  BY DEF SkipsTranscript
<1>2. Restaged(s, "added", 0)
  BY <1>1, AtIs, BaseFacts DEF Stages, Told
<1>3. RowsTyped' /\ Kept /\ coming' \subseteq DOMAIN rows'
  BY <1>1, SameRows
<1>4. StagesFit' /\ streams' \in [Stream -> StreamState]
  BY <1>1, <1>2, <1>3, BaseFacts, RestagedFits DEF Restaged
<1> QED
  BY <1>1, <1>3, <1>4, ServerMoves

\* A stream that is not heard goes on from a chunk, or ends.
LEMMA UnheardIs ==
  ASSUME PageBase, NEW s \in Stream, Unheard(s)
  PROVE  /\ ~streams[s].ours /\ UNCHANGED <<rows, coming, happened>>
         /\ streams[s].stage \notin {"unsent", "putting", "over"}
         /\ Ends(s) \/ \E type \in Chunks(s) : GoesOn(s, type)
<1>1. ~streams[s].ours /\ UNCHANGED <<rows, coming, happened>>
  BY DEF Unheard
<1>2. CASE \E type \in Chunks(s) : GoesOn(s, type)
  <2>1. streams[s].stage \notin {"unsent", "putting", "over"}
    BY <1>2, ChunkIs, BaseFacts DEF Told
  <2> QED
    BY <1>1, <1>2, <2>1
<1>3. CASE streams[s].stage \notin {"unsent", "putting", "over"} /\ streams' = [streams EXCEPT ![s] = Used]
  BY <1>1, <1>3, EndsBy, BaseFacts
<1> QED
  BY <1>2, <1>3 DEF Unheard

LEMMA UnheardBase ==
  ASSUME PageBase, NEW s \in Stream, Unheard(s), UNCHANGED <<up, viewVars, turnVars, ghostVars>>
  PROVE  PageBase'
<1>1. RowsTyped' /\ Kept /\ coming' \subseteq DOMAIN rows' /\ UNCHANGED happened
  BY UnheardIs, SameRows
<1>2. CASE Ends(s)
  BY <1>1, <1>2, BaseFacts, EndsFits, ServerMoves DEF Ends
<1>3. CASE \E type \in Chunks(s) : GoesOn(s, type)
  <2>1. StagesFit' /\ streams' \in [Stream -> StreamState]
    BY <1>1, <1>3, BaseFacts, GoesOnFits
  <2> QED
    BY <1>1, <2>1, ServerMoves
<1> QED
  BY <1>2, <1>3, UnheardIs

LEMMA RunsBase == ASSUME PageBase, NEW s \in Stream, Runs(s) PROVE PageBase'
<1>1. UNCHANGED <<up, viewVars, turnVars, ghostVars>>
  BY DEF Runs
<1> QED
  BY <1>1, BeginsBase, PersistsBase, SkipsBase, UnheardBase DEF Runs

\* What is left after a failure.
LEMMA FailsIs ==
  ASSUME PageBase, NEW F, NEW c \in {"listening", "backoff", "resync", "stopped"}, Fails(F, c), moved' \in BOOLEAN
  PROVE  /\ lines' = Failed(F) /\ lines' \in Seq(Line) /\ ShownIn(lines') \subseteq ShownIn(lines)
         /\ channel' \in {"listening", "backoff", "resync", "stopped"}
         /\ fetch' \in [Purpose -> Fetch] /\ \A p \in Purpose : fetch'[p].upto <= Len(rows)
         /\ TurnsTyped' /\ clean' \in BOOLEAN /\ missed' \subseteq DOMAIN rows
         /\ UNCHANGED <<ready, buffered>>
         /\ turn' = IF turn \in F \/ "reload" \in F THEN NoStream ELSE turn
         /\ upload' = IF upload \in F THEN NoStream ELSE upload
         /\ greeting' = IF greeting \in F THEN NoStream ELSE greeting
         /\ clean' = (clean /\ turn \notin F /\ "reload" \notin F)
         /\ rich' = (rich /\ turn' # NoStream)
         /\ channel' = IF moved' THEN "stopped" ELSE IF "resync" \in F THEN "listening" ELSE c
         /\ \A p \in Purpose : fetch'[p] = IF p \notin F THEN fetch[p]
                                           ELSE IF p = "first" /\ ~moved' THEN Asked ELSE NotFetched
         /\ PassBy(IF "resync" \in F THEN DOMAIN rows ELSE ShownIn(lines) \ ShownIn(lines'))
<1>1. lines' = Failed(F) /\ lines' \in Seq(Line) /\ ShownIn(lines') \subseteq ShownIn(lines)
  BY FailedShown, ViewFacts DEF Fails
<1>2. /\ turn' = IF turn \in F \/ "reload" \in F THEN NoStream ELSE turn
      /\ upload' = IF upload \in F THEN NoStream ELSE upload
      /\ greeting' = IF greeting \in F THEN NoStream ELSE greeting
      /\ clean' = (clean /\ turn \notin F /\ "reload" \notin F)
      /\ rich' = (rich /\ turn' # NoStream)
      /\ channel' = IF moved' THEN "stopped" ELSE IF "resync" \in F THEN "listening" ELSE c
      /\ fetch' = [p \in Purpose |-> IF p \notin F THEN fetch[p]
                                     ELSE IF p = "first" /\ ~moved' THEN Asked ELSE NotFetched]
      /\ PassBy(IF "resync" \in F THEN DOMAIN rows ELSE ShownIn(lines) \ ShownIn(lines'))
      /\ UNCHANGED <<ready, buffered>>
  BY DEF Fails
<1>3. channel' \in {"listening", "backoff", "resync", "stopped"}
  BY <1>2
<1>4. \A p \in Purpose : fetch'[p] = IF p \notin F THEN fetch[p]
                                     ELSE IF p = "first" /\ ~moved' THEN Asked ELSE NotFetched
  BY <1>2
<1>5. ASSUME NEW p \in Purpose PROVE fetch'[p] \in Fetch /\ fetch'[p].upto <= Len(rows)
  <2>1. fetch[p] \in Fetch /\ fetch[p].upto <= Len(rows) /\ Len(rows) \in Nat
    BY ViewFacts
  <2>2. fetch'[p] \in {fetch[p], Asked, NotFetched}
    BY <1>4
  <2>3. 0 <= Len(rows)
    BY <2>1
  <2> QED
    BY <2>1, <2>2, <2>3, FetchIs
<1>6. fetch' = [p \in Purpose |-> fetch'[p]]
  BY <1>2
<1>7. fetch' \in [Purpose -> Fetch]
  BY <1>5, <1>6
<1>8. TurnsTyped' /\ clean' \in BOOLEAN
  BY <1>2, ViewFacts DEF TurnsTyped
<1>9. missed' \subseteq DOMAIN rows
  <2>1. (IF "resync" \in F THEN DOMAIN rows ELSE ShownIn(lines) \ ShownIn(lines')) \subseteq DOMAIN rows
    BY ViewFacts
  <2> QED
    BY <1>2, <2>1, ViewFacts DEF PassBy
<1> QED
  BY <1>1, <1>2, <1>3, <1>4, <1>5, <1>7, <1>8, <1>9

LEMMA FailsBase ==
  ASSUME PageBase, NEW F, NEW c \in {"listening", "backoff", "resync", "stopped"}, Fails(F, c), moved' \in BOOLEAN,
         UNCHANGED <<rows, coming>>, up' \in BOOLEAN, streams' \in [Stream -> StreamState], StagesFit',
         Happens \/ UNCHANGED happened
  PROVE  PageBase'
<1>1. ShownIn(lines') \subseteq DOMAIN rows /\ ready' \in BOOLEAN /\ buffered' \subseteq DOMAIN rows
  BY FailsIs, ViewFacts
<1>2. happened' \in 0..MaxHappenings
  BY BaseFacts, HappensTyped, HappenedTyped
<1> QED
  BY <1>1, <1>2, FailsIs, ViewMoves

\* The user speaks, attaches a file or approves.
LEMMA UserAsksBase ==
  ASSUME PageBase, NEW s \in Stream, NEW sort \in {"send", "confirm", "upload"}, Asks(s, sort),
         UNCHANGED <<rows, coming, up, ready, moved, channel, buffered, fetch, missed>>, Happens,
         lines' \in Seq(Line), ShownIn(lines') = ShownIn(lines), TurnsTyped', clean' \in BOOLEAN
  PROVE  PageBase'
<1>1. Opened(s, sort) /\ Kept
  BY BaseFacts, AsksIs, SameKept
<1>2. StagesFit' /\ streams' \in [Stream -> StreamState]
  BY <1>1, BaseFacts, OpenedFits DEF Opened
<1>3. happened' \in 0..MaxHappenings
  BY BaseFacts, HappensTyped
<1> QED
  BY <1>2, <1>3, BaseFacts, ViewFacts, ViewMoves

LEMMA SendShows ==
  ASSUME PageBase
  PROVE  LET ls == lines \o <<Optimistic(TRUE, FALSE), Optimistic(FALSE, FALSE)>>
         IN  ls \in Seq(Line) /\ ShownIn(ls) = ShownIn(lines)
<1> DEFINE k == Optimistic(TRUE, FALSE)
           l == Optimistic(FALSE, FALSE)
<1>1. k \in Line /\ l \in Line /\ k.id = 0 /\ l.id = 0
  BY OptimisticIs
<1> HIDE DEF k, l
<1>2. lines \o <<k, l>> \in Seq(Line) /\ ShownIn(lines \o <<k, l>>) = ShownIn(lines) \cup ({k.id, l.id} \ {0})
  BY <1>1, TwoMore, TwoShown, ViewFacts
<1>3. lines \o <<k, l>> \in Seq(Line) /\ ShownIn(lines \o <<k, l>>) = ShownIn(lines)
  BY <1>1, <1>2
<1> QED
  BY <1>3 DEF k, l

LEMMA OneShows ==
  ASSUME PageBase, NEW u \in BOOLEAN, NEW f \in BOOLEAN
  PROVE  LET ls == Append(lines, Optimistic(u, f))
         IN  ls \in Seq(Line) /\ ShownIn(ls) = ShownIn(lines)
<1>1. Optimistic(u, f) \in Line /\ Optimistic(u, f).id = 0
  BY OptimisticIs
<1>2. ShownIn(Append(lines, Optimistic(u, f))) = ShownIn(lines) \cup ({Optimistic(u, f).id} \ {0})
  BY <1>1, OneShown, ViewFacts
<1> QED
  BY <1>1, <1>2, OneMore, ViewFacts

LEMMA SendBase == ASSUME PageBase, NEW s \in Stream, SendCurrentInput(s) PROVE PageBase'
<1>1. /\ Asks(s, "send") /\ Happens
      /\ UNCHANGED <<rows, coming, up, ready, moved, channel, buffered, fetch, missed>>
      /\ lines' = lines \o <<Optimistic(TRUE, FALSE), Optimistic(FALSE, FALSE)>>
      /\ turn' = s /\ rich' = FALSE /\ UNCHANGED <<upload, greeting, clean>>
  BY DEF SendCurrentInput, ghostVars
<1>2. lines' \in Seq(Line) /\ ShownIn(lines') = ShownIn(lines)
  BY <1>1, SendShows
<1>3. TurnsTyped' /\ clean' \in BOOLEAN
  BY <1>1, ViewFacts DEF TurnsTyped
<1> QED
  BY <1>1, <1>2, <1>3, UserAsksBase

LEMMA AttachBase == ASSUME PageBase, NEW s \in Stream, OnAttach(s) PROVE PageBase'
<1>1. /\ Asks(s, "upload") /\ Happens
      /\ UNCHANGED <<rows, coming, up, ready, moved, channel, buffered, fetch, missed>>
      /\ lines' = Append(lines, Optimistic(TRUE, TRUE))
      /\ upload' = s /\ UNCHANGED <<turn, rich, greeting, clean>>
  BY DEF OnAttach, ghostVars
<1>2. lines' \in Seq(Line) /\ ShownIn(lines') = ShownIn(lines)
  BY <1>1, OneShows
<1>3. TurnsTyped' /\ clean' \in BOOLEAN
  BY <1>1, ViewFacts DEF TurnsTyped
<1> QED
  BY <1>1, <1>2, <1>3, UserAsksBase

LEMMA ConfirmBase == ASSUME PageBase, NEW s \in Stream, OnConfirmProposal(s) PROVE PageBase'
<1>1. /\ Asks(s, "confirm") /\ Happens
      /\ UNCHANGED <<rows, coming, up, ready, moved, channel, buffered, fetch, missed>>
      /\ lines' = Append(lines, Optimistic(FALSE, FALSE))
      /\ turn' = s /\ rich' = TRUE /\ UNCHANGED <<upload, greeting>>
      /\ clean' = (clean /\ upload = NoStream)
  BY DEF OnConfirmProposal
<1>2. lines' \in Seq(Line) /\ ShownIn(lines') = ShownIn(lines)
  BY <1>1, OneShows
<1>3. TurnsTyped' /\ clean' \in BOOLEAN
  BY <1>1, ViewFacts DEF TurnsTyped
<1> QED
  BY <1>1, <1>2, <1>3, UserAsksBase

\* A greeting may be asked for.
LEMMA GreetingIs ==
  ASSUME PageBase, RunGreeting, UNCHANGED <<rows, up>>
  PROVE  /\ streams' \in [Stream -> StreamState] /\ StagesFit' /\ greeting' \in Stream \cup {NoStream}
         /\ \/ UNCHANGED <<streams, greeting>>
            \/ greeting = NoStream /\ \E s \in Stream : Opened(s, "greet") /\ greeting' = s
<1>1. CASE UNCHANGED <<streams, greeting>>
  BY <1>1, BaseFacts, ViewFacts, SameKept, StagesStay
<1>2. CASE greeting = NoStream /\ \E s \in Stream : Asks(s, "greet") /\ greeting' = s
  <2>1. PICK s \in Stream : Asks(s, "greet") /\ greeting' = s
    BY <1>2
  <2>2. Opened(s, "greet") /\ Kept
    BY <2>1, BaseFacts, AsksIs, SameKept
  <2>3. StagesFit' /\ streams' \in [Stream -> StreamState]
    BY <2>2, BaseFacts, OpenedFits DEF Opened
  <2> QED
    BY <1>2, <2>1, <2>2, <2>3
<1> QED
  BY <1>1, <1>2 DEF RunGreeting

LEMMA ReturnBase == ASSUME PageBase, OnReturn PROVE PageBase'
<1>1. /\ RunGreeting /\ Happens /\ fetch' = [fetch EXCEPT !["refresh"] = Asked]
      /\ UNCHANGED <<rows, coming, up, lines, ready, moved, channel, buffered, turn, rich, upload, missed, clean>>
  BY DEF OnReturn, ghostVars
<1>2. fetch' \in [Purpose -> Fetch] /\ \A q \in Purpose : fetch'[q].upto <= Len(rows)
  <2>1. "refresh" \in Purpose /\ 0 <= Len(rows)
    BY ViewFacts DEF Purpose
  <2> QED
    BY <1>1, <2>1, FetchIs, FetchMoves
<1>3. streams' \in [Stream -> StreamState] /\ StagesFit' /\ greeting' \in Stream \cup {NoStream}
  BY <1>1, GreetingIs
<1>4. TurnsTyped' /\ happened' \in 0..MaxHappenings
  BY <1>1, <1>3, BaseFacts, ViewFacts, HappensTyped DEF TurnsTyped
<1> QED
  BY <1>1, <1>2, <1>3, <1>4, BaseFacts, ViewFacts, ViewMoves

LEMMA MoveHereBase == ASSUME PageBase, OnMoveHere PROVE PageBase'
<1>1. /\ moved' = FALSE /\ ready' = FALSE /\ channel' = "listening"
      /\ fetch' = [fetch EXCEPT !["first"] = Asked]
      /\ UNCHANGED <<rows, coming, up, streams, lines, buffered, turn, rich, upload, greeting, missed, clean, happened>>
  BY DEF OnMoveHere, serverVars, turnVars, ghostVars
<1>2. fetch' \in [Purpose -> Fetch] /\ \A q \in Purpose : fetch'[q].upto <= Len(rows)
  <2>1. "first" \in Purpose /\ 0 <= Len(rows)
    BY ViewFacts DEF Purpose
  <2> QED
    BY <1>1, <2>1, FetchIs, FetchMoves
<1>3. StagesFit' /\ TurnsTyped'
  BY <1>1, BaseFacts, ViewFacts, SameKept, StagesStay DEF TurnsTyped
<1> QED
  BY <1>1, <1>2, <1>3, BaseFacts, ViewFacts, ViewMoves

LEMMA AtRest == ASSUME PageBase, UNCHANGED <<rows, up, streams>> PROVE StagesFit' /\ streams' \in [Stream -> StreamState] /\ Kept
BY BaseFacts, SameKept, StagesStay

LEMMA ConnectsIs ==
  ASSUME PageBase, Connects
  PROVE  /\ ~up /\ ~moved /\ up' /\ up' \in BOOLEAN
         /\ UNCHANGED <<rows, coming, lines, ready, moved, channel, buffered, fetch, turn, rich, upload, greeting, clean, happened>>
         /\ PassBy(DOMAIN rows) /\ Waiting
         /\ \A s \in Stream :
              /\ streams[s].stage # "unsent" => streams'[s] = streams[s]
              /\ streams[s].stage = "unsent" =>
                   streams'[s] = [streams[s] EXCEPT !.stage = "queued", !.ours = TRUE]
         /\ streams' = [s \in Stream |-> streams'[s]]
BY DEF Connects, Waiting, viewVars, turnVars

LEMMA ConnectsBase == ASSUME PageBase, Connects PROVE PageBase'
<1>1. Kept
  BY ConnectsIs, BaseFacts, SameKept
<1>2. ASSUME NEW t \in Stream PROVE streams'[t] \in StreamState /\ StageFits(streams[t])'
  <2>1. StageFits(streams[t]) /\ streams[t] \in StreamState
    BY BaseFacts
  <2>2. CASE streams[t].stage = "unsent"
    <3> DEFINE x == [streams[t] EXCEPT !.stage = "queued", !.ours = TRUE]
    <3>1. x \in StreamState /\ x.kind = streams[t].kind /\ x.stage = "queued" /\ x.ours = TRUE
      BY <2>1 DEF StreamState
    <3>2. streams'[t] = x
      BY <2>2, ConnectsIs
    <3> HIDE DEF x
    <3>3. streams[t].kind \notin {"none", "used"}
      BY <2>1, <2>2 DEF StageFits
    <3> QED
      BY <3>1, <3>2, <3>3, ConnectsIs DEF StageFits
  <2>3. CASE streams[t].stage # "unsent"
    <3>1. streams'[t] = streams[t] /\ (streams[t].ours => up')
      BY <2>3, ConnectsIs
    <3> QED
      BY <1>1, <2>1, <3>1, StageStays
  <2> QED
    BY <2>2, <2>3
<1>3. streams' \in [Stream -> StreamState] /\ StagesFit'
  BY <1>2, ConnectsIs DEF StagesFit
<1>4. missed' \subseteq DOMAIN rows
  BY ConnectsIs, ViewFacts, PassByTyped
<1>5. TurnsTyped'
  BY ConnectsIs, ViewFacts DEF TurnsTyped
<1> QED
  BY <1>3, <1>4, <1>5, ConnectsIs, BaseFacts, ViewFacts, ViewMoves

LEMMA ConnectFailsIs ==
  ASSUME PageBase, ConnectFails
  PROVE  /\ ~up /\ ~moved /\ Happens /\ UNCHANGED <<rows, coming, up, moved>>
         /\ \/ channel = "listening" /\ UNCHANGED streams /\ Fails({}, "backoff")
            \/ \E p \in Purpose : fetch[p] = Asked /\ UNCHANGED streams /\ Fails({p}, channel)
            \/ \E s \in Stream : streams[s].stage = "unsent" /\ Ends(s) /\ Fails({s}, channel)
<1>1. ~up /\ ~moved /\ Happens /\ UNCHANGED <<rows, coming, up, moved>>
  BY DEF ConnectFails, Waiting
<1>2. \/ channel = "listening" /\ UNCHANGED streams /\ Fails({}, "backoff")
      \/ \E p \in Purpose : fetch[p] = Asked /\ UNCHANGED streams /\ Fails({p}, channel)
      \/ \E s \in Stream : streams[s].stage = "unsent" /\ streams' = [streams EXCEPT ![s] = Used] /\ Fails({s}, channel)
  BY DEF ConnectFails
<1>3. \A s \in Stream : streams' = [streams EXCEPT ![s] = Used] => Ends(s)
  BY EndsBy, BaseFacts
<1> QED
  BY <1>1, <1>2, <1>3

LEMMA ConnectFailsBase == ASSUME PageBase, ConnectFails PROVE PageBase'
<1>1. ~up /\ ~moved /\ Happens /\ UNCHANGED <<rows, coming, up, moved>> /\ up' \in BOOLEAN /\ moved' \in BOOLEAN
  BY ConnectFailsIs, BaseFacts, ViewFacts
<1>2. PICK c \in {"listening", "backoff", "resync", "stopped"} : c = channel
  BY ViewFacts
<1>3. CASE channel = "listening" /\ UNCHANGED streams /\ Fails({}, "backoff")
  <2>1. Fails({}, "backoff") /\ StagesFit' /\ streams' \in [Stream -> StreamState]
    BY <1>1, <1>3, AtRest
  <2> QED
    BY <1>1, <2>1, FailsBase
<1>4. CASE \E p \in Purpose : fetch[p] = Asked /\ UNCHANGED streams /\ Fails({p}, channel)
  <2>1. PICK p \in Purpose : UNCHANGED streams /\ Fails({p}, channel)
    BY <1>4
  <2>2. Fails({p}, c) /\ StagesFit' /\ streams' \in [Stream -> StreamState]
    BY <1>1, <1>2, <2>1, AtRest
  <2> QED
    BY <1>1, <2>2, FailsBase
<1>5. CASE \E s \in Stream : streams[s].stage = "unsent" /\ Ends(s) /\ Fails({s}, channel)
  <2>1. PICK s \in Stream : Ends(s) /\ Fails({s}, channel)
    BY <1>5
  <2>2. Fails({s}, c) /\ Kept
    BY <1>1, <1>2, <2>1, BaseFacts, SameKept
  <2>3. StagesFit' /\ streams' \in [Stream -> StreamState]
    BY <1>1, <2>1, <2>2, BaseFacts, EndsFits DEF Ends
  <2> QED
    BY <1>1, <2>2, <2>3, FailsBase
<1> QED
  BY <1>3, <1>4, <1>5, ConnectFailsIs

\* The calls and streams that are in flight on the socket.
InFlight ==
  {p \in Purpose : fetch[p] # NotFetched} \cup {s \in {turn, upload, greeting} \ {NoStream} : streams[s].stage # "putting"}

LEMMA LosesSocketIs ==
  ASSUME PageBase, NEW taken \in BOOLEAN, LosesSocket(taken)
  PROVE  /\ up /\ Happens /\ ~up' /\ up' \in BOOLEAN /\ moved' = taken /\ UNCHANGED <<rows, coming>>
         /\ Fails(InFlight, IF channel = "listening" THEN "backoff" ELSE channel)
         /\ streams' = [s \in Stream |-> [streams[s] EXCEPT !.ours = FALSE]]
         /\ streams' \in [Stream -> StreamState]
         /\ \A s \in Stream : /\ streams'[s].kind = streams[s].kind /\ streams'[s].stage = streams[s].stage
                              /\ streams'[s].row = streams[s].row /\ streams'[s].chip = streams[s].chip
                              /\ ~streams'[s].ours
<1>1. /\ up /\ Happens /\ ~up' /\ up' \in BOOLEAN /\ moved' = taken /\ UNCHANGED <<rows, coming>>
      /\ Fails(InFlight, IF channel = "listening" THEN "backoff" ELSE channel)
      /\ streams' = [s \in Stream |-> [streams[s] EXCEPT !.ours = FALSE]]
  BY DEF LosesSocket, InFlight
<1>2. ASSUME NEW s \in Stream
      PROVE  /\ streams'[s] \in StreamState
             /\ streams'[s].kind = streams[s].kind /\ streams'[s].stage = streams[s].stage
             /\ streams'[s].row = streams[s].row /\ streams'[s].chip = streams[s].chip
             /\ ~streams'[s].ours
  <2>1. streams[s] \in StreamState /\ streams'[s] = [streams[s] EXCEPT !.ours = FALSE]
    BY <1>1, BaseFacts
  <2> QED
    BY <2>1 DEF StreamState
<1>3. streams' \in [Stream -> StreamState]
  BY <1>1, <1>2
<1> QED
  BY <1>1, <1>2, <1>3

LEMMA LosesSocketBase == ASSUME PageBase, NEW taken \in BOOLEAN, LosesSocket(taken) PROVE PageBase'
<1>1. PICK F : F = InFlight
  OBVIOUS
<1>2. PICK c \in {"listening", "backoff", "resync", "stopped"} : c = IF channel = "listening" THEN "backoff" ELSE channel
  BY ViewFacts
<1>3. Fails(F, c) /\ moved' \in BOOLEAN /\ UNCHANGED <<rows, coming>> /\ up' \in BOOLEAN /\ Happens
      /\ streams' \in [Stream -> StreamState]
  BY <1>1, <1>2, LosesSocketIs
<1>4. ASSUME NEW t \in Stream PROVE StageFits(streams[t])'
  <2>1. StageFits(streams[t])
    BY BaseFacts
  <2> QED
    BY <1>3, <2>1, LosesSocketIs DEF StageFits, IsKind
<1>5. StagesFit'
  BY <1>4 DEF StagesFit
<1> QED
  BY <1>3, <1>5, FailsBase

LEMMA PutIs ==
  ASSUME PageBase, NEW s \in Stream, Put(s)
  PROVE  /\ streams[s].stage = "putting" /\ UNCHANGED <<rows, coming, up, moved>>
         /\ \/ /\ ~moved
               /\ UNCHANGED <<lines, ready, channel, buffered, fetch, turn, rich, upload, greeting, missed, clean, happened>>
               /\ streams' \in [Stream -> StreamState]
               /\ \A t \in Stream : t # s => streams'[t] = streams[t]
               /\ streams'[s].kind = streams[s].kind /\ streams'[s].chip = streams[s].chip /\ streams'[s].row = streams[s].row
               /\ streams'[s].stage = (IF up THEN "queued" ELSE "unsent") /\ streams'[s].ours = up
            \/ (Happens \/ UNCHANGED happened) /\ Ends(s) /\ Fails({s}, channel)
<1>1. streams[s].stage = "putting" /\ UNCHANGED <<rows, coming, up, moved>>
  BY DEF Put
<1>2. CASE /\ ~moved
           /\ streams' = [streams EXCEPT ![s].stage = IF up THEN "queued" ELSE "unsent", ![s].ours = up]
           /\ UNCHANGED <<lines, ready, channel, buffered, fetch, turnVars, ghostVars, happened>>
  <2> DEFINE g == IF up THEN "queued" ELSE "unsent"
             y == [streams[s] EXCEPT !.stage = g, !.ours = up]
  <2>1. g \in Stages /\ up \in BOOLEAN /\ streams[s] \in StreamState /\ streams \in [Stream -> StreamState]
    BY BaseFacts DEF Stages
  <2>2. streams' = [streams EXCEPT ![s] = y]
    BY <1>2
  <2> HIDE DEF g
  <2>3. /\ y \in StreamState /\ y.kind = streams[s].kind /\ y.row = streams[s].row /\ y.chip = streams[s].chip
        /\ y.stage = g /\ y.ours = up
    BY <2>1 DEF StreamState, Stages
  <2> HIDE DEF y
  <2>4. /\ streams' \in [Stream -> StreamState] /\ \A t \in Stream : t # s => streams'[t] = streams[t]
        /\ streams'[s] = y
    BY <2>1, <2>2, <2>3
  <2> QED
    BY <1>1, <1>2, <2>3, <2>4 DEF turnVars, ghostVars, g
<1>3. CASE /\ IF moved THEN UNCHANGED happened ELSE Happens
           /\ streams' = [streams EXCEPT ![s] = Used]
           /\ Fails({s}, channel)
  BY <1>1, <1>3, EndsBy, BaseFacts
<1> QED
  BY <1>2, <1>3 DEF Put

LEMMA PutBase == ASSUME PageBase, NEW s \in Stream, Put(s) PROVE PageBase'
<1>1. streams[s].stage = "putting" /\ UNCHANGED <<rows, coming, up, moved>> /\ up' \in BOOLEAN /\ moved' \in BOOLEAN /\ Kept
  BY PutIs, BaseFacts, ViewFacts, SameKept
<1>2. CASE /\ ~moved
           /\ UNCHANGED <<lines, ready, channel, buffered, fetch, turn, rich, upload, greeting, missed, clean, happened>>
           /\ streams' \in [Stream -> StreamState]
           /\ \A t \in Stream : t # s => streams'[t] = streams[t]
           /\ streams'[s].kind = streams[s].kind /\ streams'[s].chip = streams[s].chip /\ streams'[s].row = streams[s].row
           /\ streams'[s].stage = (IF up THEN "queued" ELSE "unsent") /\ streams'[s].ours = up
  <2>1. ASSUME NEW t \in Stream PROVE StageFits(streams[t])'
    <3>1. StageFits(streams[t]) /\ StageFits(streams[s])
      BY BaseFacts
    <3>2. CASE t = s
      BY <1>1, <1>2, <3>1, <3>2 DEF StageFits
    <3>3. CASE t # s
      <4>1. streams'[t] = streams[t] /\ (streams[t].ours => up')
        BY <1>1, <1>2, <3>1, <3>3 DEF StageFits
      <4> QED
        BY <1>1, <3>1, <4>1, StageStays
    <3> QED
      BY <3>2, <3>3
  <2>2. StagesFit'
    BY <2>1 DEF StagesFit
  <2>3. TurnsTyped'
    BY <1>2, ViewFacts DEF TurnsTyped
  <2> QED
    BY <1>1, <1>2, <2>2, <2>3, BaseFacts, ViewFacts, ViewMoves
<1>3. CASE (Happens \/ UNCHANGED happened) /\ Ends(s) /\ Fails({s}, channel)
  <2>1. PICK c \in {"listening", "backoff", "resync", "stopped"} : c = channel
    BY ViewFacts
  <2>2. Fails({s}, c)
    BY <1>3, <2>1
  <2>3. StagesFit' /\ streams' \in [Stream -> StreamState]
    BY <1>1, <1>3, BaseFacts, EndsFits DEF Ends
  <2> QED
    BY <1>1, <1>3, <2>2, <2>3, FailsBase
<1> QED
  BY <1>2, <1>3, PutIs

-----------------------------------------------------------------------------
(* The hook: types *)

LEMMA BackoffEndsBase == ASSUME PageBase, BackoffEnds PROVE PageBase'
<1>1. /\ channel = "backoff" /\ channel' = "resync" /\ fetch' = [fetch EXCEPT !["resync"] = Asked]
      /\ UNCHANGED <<rows, coming, up, streams, lines, ready, moved, buffered, turn, rich, upload, greeting, missed, clean, happened>>
  BY DEF BackoffEnds, serverVars, turnVars, ghostVars
<1>2. fetch' \in [Purpose -> Fetch] /\ \A q \in Purpose : fetch'[q].upto <= Len(rows)
  <2>1. "resync" \in Purpose /\ 0 <= Len(rows)
    BY ViewFacts DEF Purpose
  <2> QED
    BY <1>1, <2>1, FetchIs, FetchMoves
<1>3. StagesFit' /\ TurnsTyped'
  BY <1>1, ViewFacts, AtRest DEF TurnsTyped
<1> QED
  BY <1>1, <1>2, <1>3, BaseFacts, ViewFacts, ViewMoves

\* What merging rows leaves of the lines, typed.
LEMMA GrownTyped ==
  ASSUME PageBase, NEW ls \in Seq(Line), ShownIn(ls) \subseteq DOMAIN rows, NEW ms, NEW S \in SUBSET DOMAIN rows, Grown(ls, ms, S)
  PROVE  ms \in Seq(Line) /\ ShownIn(ms) \subseteq DOMAIN rows /\ ShownIn(ms) = ShownIn(ls) \cup S
BY DEF Grown

LEMMA MergesIs ==
  ASSUME NEW ls, Merges(ls), clean \in BOOLEAN
  PROVE  /\ lines' = ls /\ clean' \in BOOLEAN /\ PassBy(ShownIn(lines) \ ShownIn(ls))
         /\ clean' = (clean /\ (Locked => Len(ls) = Len(lines)))
BY DEF Merges, Shows

LEMMA MergesTyped ==
  ASSUME PageBase, NEW S \in SUBSET DOMAIN rows, NEW ls, Grown(lines, ls, S), Merges(ls)
  PROVE  /\ lines' \in Seq(Line) /\ ShownIn(lines') \subseteq DOMAIN rows
         /\ clean' \in BOOLEAN /\ missed' \subseteq DOMAIN rows
<1>1. ls \in Seq(Line) /\ ShownIn(ls) \subseteq DOMAIN rows
  BY ViewFacts, GrownTyped
<1>2. lines' = ls /\ clean' \in BOOLEAN /\ PassBy(ShownIn(lines) \ ShownIn(ls))
  BY ViewFacts, MergesIs
<1>3. ShownIn(lines) \ ShownIn(ls) \subseteq DOMAIN rows /\ missed \subseteq DOMAIN rows
  BY ViewFacts
<1>4. missed' \subseteq DOMAIN rows
  BY <1>2, <1>3, PassByTyped
<1> QED
  BY <1>1, <1>2, <1>4

LEMMA FlushIs ==
  ASSUME PageBase, Flush
  PROVE  /\ ready /\ ~Locked /\ buffered' = {}
         /\ UNCHANGED <<rows, coming, up, streams, ready, moved, channel, fetch, turn, rich, upload, greeting, happened>>
         /\ \E ls : Grown(lines, ls, buffered) /\ Merges(ls)
<1>1. /\ ready /\ ~Locked /\ buffered' = {}
      /\ UNCHANGED <<rows, coming, up, streams, ready, moved, channel, fetch, turn, rich, upload, greeting, happened>>
      /\ Merges(MergeAll(lines, buffered))
  BY DEF Flush, serverVars, turnVars
<1>2. Grown(lines, MergeAll(lines, buffered), buffered)
  BY BaseFacts, ViewFacts, MergeAllGrows
<1> QED
  BY <1>1, <1>2

LEMMA FlushBase == ASSUME PageBase, Flush PROVE PageBase'
<1>1. PICK S \in SUBSET DOMAIN rows : S = buffered
  BY ViewFacts
<1>2. PICK ls : Grown(lines, ls, buffered) /\ Merges(ls)
  BY FlushIs
<1>3. /\ lines' \in Seq(Line) /\ ShownIn(lines') \subseteq DOMAIN rows
      /\ clean' \in BOOLEAN /\ missed' \subseteq DOMAIN rows
  BY <1>1, <1>2, MergesTyped
<1>4. StagesFit' /\ TurnsTyped' /\ buffered' \subseteq DOMAIN rows
  BY FlushIs, ViewFacts, AtRest DEF TurnsTyped
<1> QED
  BY <1>3, <1>4, FlushIs, BaseFacts, ViewFacts, ViewMoves

LEMMA OnEventIs ==
  ASSUME PageBase, NEW r \in coming, OnEvent(r)
  PROVE  /\ up /\ coming' = coming \ {r}
         /\ UNCHANGED <<rows, up, streams, ready, moved, channel, fetch, turn, rich, upload, greeting, happened>>
         /\ \/ /\ channel = "listening" /\ (~ready \/ Locked)
               /\ buffered' = buffered \cup {r} /\ UNCHANGED <<lines, missed, clean>>
            \/ /\ channel = "listening" /\ ready /\ ~Locked
               /\ buffered' = {} /\ \E ls : Grown(lines, ls, buffered \cup {r}) /\ Merges(ls)
            \/ /\ channel # "listening"
               /\ UNCHANGED <<lines, buffered, clean>> /\ PassBy({r})
<1>1. /\ up /\ coming' = coming \ {r}
      /\ UNCHANGED <<rows, up, streams, ready, moved, channel, fetch, turn, rich, upload, greeting, happened>>
      /\ \/ channel = "listening" /\ ApplyOrBuffer(r)
         \/ channel # "listening" /\ UNCHANGED <<lines, buffered, clean>> /\ PassBy({r})
  BY DEF OnEvent, turnVars
<1>2. CASE channel = "listening" /\ ApplyOrBuffer(r)
  <2>1. CASE ~ready \/ Locked
    BY <1>1, <1>2, <2>1 DEF ApplyOrBuffer, ghostVars
  <2>2. CASE ready /\ ~Locked
    <3> DEFINE ms == MergeAll(lines, buffered)
               ns == MergeAll(ms, {r})
    <3>1. r \in DOMAIN rows /\ buffered \subseteq DOMAIN rows /\ lines \in Seq(Line) /\ RowsTyped
      BY BaseFacts, ViewFacts
    <3>2. Grown(lines, ms, buffered)
      BY <3>1, MergeAllGrows
    <3>3. ms \in Seq(Line) /\ {r} \subseteq DOMAIN rows
      BY <3>1, <3>2 DEF Grown
    <3>4. Grown(ms, ns, {r})
      BY <3>1, <3>3, MergeAllGrows
    <3>5. buffered' = {} /\ Merges(ns)
      BY <1>2, <2>2 DEF ApplyOrBuffer
    <3> HIDE DEF ms, ns
    <3>6. Grown(lines, ns, buffered \cup {r})
      BY <3>1, <3>2, <3>4, GrownTwice
    <3> QED
      BY <1>1, <1>2, <2>2, <3>5, <3>6
  <2> QED
    BY <2>1, <2>2
<1> QED
  BY <1>1, <1>2

LEMMA OnEventBase == ASSUME PageBase, NEW r \in coming, OnEvent(r) PROVE PageBase'
<1>1. /\ coming' = coming \ {r} /\ r \in DOMAIN rows
      /\ UNCHANGED <<rows, up, streams, ready, moved, channel, fetch, turn, rich, upload, greeting, happened>>
  BY OnEventIs, BaseFacts
<1>2. StagesFit' /\ TurnsTyped' /\ streams' \in [Stream -> StreamState] /\ coming' \subseteq coming
  BY <1>1, ViewFacts, AtRest DEF TurnsTyped
<1>3. /\ lines' \in Seq(Line) /\ ShownIn(lines') \subseteq DOMAIN rows /\ buffered' \subseteq DOMAIN rows
      /\ clean' \in BOOLEAN /\ missed' \subseteq DOMAIN rows
  <2>1. CASE buffered' = buffered \cup {r} /\ UNCHANGED <<lines, missed, clean>>
    BY <1>1, <2>1, ViewFacts
  <2>2. CASE buffered' = {} /\ \E ls : Grown(lines, ls, buffered \cup {r}) /\ Merges(ls)
    <3>1. PICK S \in SUBSET DOMAIN rows : S = buffered \cup {r}
      BY <1>1, ViewFacts
    <3>2. PICK ls : Grown(lines, ls, buffered \cup {r}) /\ Merges(ls)
      BY <2>2
    <3>3. Grown(lines, ls, S)
      BY <3>1, <3>2
    <3> QED
      BY <2>2, <3>2, <3>3, MergesTyped
  <2>3. CASE UNCHANGED <<lines, buffered, clean>> /\ PassBy({r})
    <3>1. missed' \subseteq DOMAIN rows
      BY <1>1, <2>3, ViewFacts DEF PassBy
    <3> QED
      BY <2>3, <3>1, ViewFacts
  <2> QED
    BY <2>1, <2>2, <2>3, OnEventIs
<1> QED
  BY <1>1, <1>2, <1>3, BaseFacts, ViewFacts, ViewMoves

\* The transcript as it was read, row by row.
Reloaded(n) == [r \in 1..n |-> MessageToLine(r)]

LEMMA ReloadedIs ==
  ASSUME RowsTyped, NEW n \in 0..MaxRows, n <= Len(rows)
  PROVE  /\ Reloaded(n) \in Seq(Line) /\ Len(Reloaded(n)) = n /\ DOMAIN Reloaded(n) = 1..n
         /\ \A i \in 1..n : Reloaded(n)[i].id = i /\ i # 0
         /\ ShownIn(Reloaded(n)) = 1..n /\ 1..n \subseteq DOMAIN rows
<1>1. n \in Nat /\ MaxRows \in Nat /\ Len(rows) \in Nat /\ 1..n \subseteq 0..MaxRows /\ DOMAIN rows = 1..Len(rows)
  BY RowFacts
<1>2. \A i \in 1..n : MessageToLine(i) \in Line /\ MessageToLine(i).id = i /\ i # 0
  BY <1>1, LineFacts
<1>3. Reloaded(n) \in [1..n -> Line] /\ \A i \in 1..n : Reloaded(n)[i] = MessageToLine(i)
  BY <1>2 DEF Reloaded
<1>4. Reloaded(n) \in Seq(Line) /\ Len(Reloaded(n)) = n /\ DOMAIN Reloaded(n) = 1..n
  BY <1>1, <1>3
<1>5. \A q : q \in ShownIn(Reloaded(n)) <=> q \in 1..n
  BY <1>2, <1>3, <1>4, ShownIs
<1>6. 1..n \subseteq DOMAIN rows
  BY <1>1
<1> QED
  BY <1>2, <1>3, <1>4, <1>5, <1>6

LEMMA OnSnapshotIs ==
  ASSUME PageBase, NEW p \in Purpose, OnSnapshot(p)
  PROVE  /\ fetch[p].state = "read"
         /\ fetch' = [fetch EXCEPT ![p] = NotFetched]
         /\ channel' = (IF p = "resync" THEN "listening" ELSE channel)
         /\ ready' = (ready \/ p = "first")
         /\ UNCHANGED <<rows, coming, up, moved, buffered, upload, happened>>
         /\ p = "first" => RunGreeting
         /\ p # "first" => UNCHANGED <<streams, greeting>>
         /\ \/ /\ p = "reload" /\ turn' = NoStream /\ rich' = FALSE /\ clean' = (upload = NoStream)
               /\ lines' = Reloaded(fetch[p].upto) /\ PassBy(ShownIn(lines) \ ShownIn(lines'))
            \/ /\ p # "reload" /\ UNCHANGED <<turn, rich>>
               /\ \E ls : Grown(lines, ls, 1..fetch[p].upto) /\ Merges(ls)
<1>1. /\ fetch[p].state = "read"
      /\ fetch' = [fetch EXCEPT ![p] = NotFetched]
      /\ channel' = (IF p = "resync" THEN "listening" ELSE channel)
      /\ ready' = (ready \/ p = "first")
      /\ UNCHANGED <<rows, coming, up, moved, buffered, upload, happened>>
      /\ p = "first" => RunGreeting
      /\ p # "first" => UNCHANGED <<streams, greeting>>
  BY DEF OnSnapshot
<1>2. \/ /\ p = "reload" /\ turn' = NoStream /\ rich' = FALSE /\ clean' = (upload = NoStream)
         /\ lines' = Reloaded(fetch[p].upto) /\ PassBy(ShownIn(lines) \ ShownIn(Reloaded(fetch[p].upto)))
      \/ /\ p # "reload" /\ UNCHANGED <<turn, rich>>
         /\ Merges(MergeAll(lines, 1..fetch[p].upto))
  BY DEF OnSnapshot, Shows, Reloaded
<1>3. 1..fetch[p].upto \subseteq DOMAIN rows
  <2>1. fetch[p].upto \in Nat /\ fetch[p].upto <= Len(rows) /\ Len(rows) \in Nat /\ DOMAIN rows = 1..Len(rows)
    BY ViewFacts, ChatConstants DEF Fetch
  <2> QED
    BY <2>1
<1>4. Grown(lines, MergeAll(lines, 1..fetch[p].upto), 1..fetch[p].upto)
  BY <1>3, BaseFacts, MergeAllGrows
<1> QED
  BY <1>1, <1>2, <1>4

LEMMA OnSnapshotBase == ASSUME PageBase, NEW p \in Purpose, OnSnapshot(p) PROVE PageBase'
<1>1. PICK n \in 0..MaxRows : n = fetch[p].upto
  BY ViewFacts DEF Fetch
<1>2. n <= Len(rows) /\ 1..n \in SUBSET DOMAIN rows
  BY <1>1, ViewFacts, BaseFacts, ReloadedIs
<1>3. UNCHANGED <<rows, coming, up, moved, buffered, upload, happened>> /\ fetch' = [fetch EXCEPT ![p] = NotFetched]
  BY OnSnapshotIs
<1>4. fetch' \in [Purpose -> Fetch] /\ \A q \in Purpose : fetch'[q].upto <= Len(rows)
  <2>1. 0 <= Len(rows)
    BY ViewFacts
  <2> QED
    BY <1>3, <2>1, FetchIs, FetchMoves
<1>5. streams' \in [Stream -> StreamState] /\ StagesFit' /\ greeting' \in Stream \cup {NoStream}
  BY <1>3, OnSnapshotIs, GreetingIs, ViewFacts, AtRest
<1>6. /\ lines' \in Seq(Line) /\ ShownIn(lines') \subseteq DOMAIN rows
      /\ clean' \in BOOLEAN /\ missed' \subseteq DOMAIN rows
      /\ turn' \in Stream \cup {NoStream} /\ rich' \in BOOLEAN
  <2>1. CASE /\ p = "reload" /\ turn' = NoStream /\ rich' = FALSE /\ clean' = (upload = NoStream)
             /\ lines' = Reloaded(fetch[p].upto) /\ PassBy(ShownIn(lines) \ ShownIn(lines'))
    <3>1. lines' = Reloaded(n)
      BY <1>1, <2>1
    <3>2. lines' \in Seq(Line) /\ ShownIn(lines') \subseteq DOMAIN rows
      BY <1>2, <3>1, BaseFacts, ReloadedIs
    <3>3. missed' \subseteq DOMAIN rows
      BY <2>1, ViewFacts, PassByTyped
    <3> QED
      BY <2>1, <3>2, <3>3
  <2>2. CASE /\ p # "reload" /\ UNCHANGED <<turn, rich>>
             /\ \E ls : Grown(lines, ls, 1..fetch[p].upto) /\ Merges(ls)
    <3>1. PICK ls : Grown(lines, ls, 1..n) /\ Merges(ls)
      BY <1>1, <2>2
    <3>2. /\ lines' \in Seq(Line) /\ ShownIn(lines') \subseteq DOMAIN rows
          /\ clean' \in BOOLEAN /\ missed' \subseteq DOMAIN rows
      BY <1>2, <3>1, MergesTyped
    <3> QED
      BY <2>2, <3>2, ViewFacts
  <2> QED
    BY <2>1, <2>2, OnSnapshotIs
<1>7. TurnsTyped' /\ ready' \in BOOLEAN /\ channel' \in {"listening", "backoff", "resync", "stopped"}
  BY <1>3, <1>5, <1>6, OnSnapshotIs, ViewFacts DEF TurnsTyped
<1> QED
  BY <1>3, <1>4, <1>5, <1>6, <1>7, BaseFacts, ViewFacts, ViewMoves

LEMMA OnRefusedBase == ASSUME PageBase, NEW p \in Purpose, OnRefused(p) PROVE PageBase'
<1>1. UNCHANGED <<rows, coming, up, streams, moved, happened>> /\ Fails({p}, channel)
  BY DEF OnRefused, serverVars
<1>2. PICK c \in {"listening", "backoff", "resync", "stopped"} : c = channel
  BY ViewFacts
<1>3. Fails({p}, c) /\ moved' \in BOOLEAN /\ up' \in BOOLEAN
  BY <1>1, <1>2, BaseFacts, ViewFacts
<1>4. StagesFit' /\ streams' \in [Stream -> StreamState]
  BY <1>1, AtRest
<1> QED
  BY <1>1, <1>3, <1>4, FailsBase

-----------------------------------------------------------------------------
(* The chunks of a stream: types *)

LEMMA OnStreamIs ==
  ASSUME PageBase, NEW s \in Stream, OnStream(s)
  PROVE  /\ streams[s].ours
         /\ UNCHANGED <<rows, coming, up, ready, moved, buffered, happened>>
         /\ streams[s].row \in 0..MaxRows /\ streams[s].chip \in 0..MaxRows
         /\ \E type \in Chunks(s) :
              /\ GoesOn(s, type)
              /\ \/ OnTurn(s, type, streams[s].row) \/ OnTurnEnd(s, type)
                 \/ OnGreeting(s, type, streams[s].row) \/ OnAdded(s, type, streams[s].row)
                 \/ type = "fail" /\ Fails({s}, channel)
<1>1. streams[s] \in StreamState
  BY BaseFacts
<1> QED
  BY <1>1, StreamFacts DEF OnStream

\* The row a chunk is about.
LEMMA ToldRow ==
  ASSUME PageBase, NEW s \in Stream, NEW type \in Chunks(s)
  PROVE  /\ type \in {"step", "proposal", "done", "reflection"} =>
              streams[s].row \in DOMAIN rows /\ rows[streams[s].row] = "companion"
         /\ type = "added" =>
              \/ streams[s].row = 0
              \/ /\ streams[s].row \in DOMAIN rows /\ rows[streams[s].row] = "companion"
                 /\ streams[s].chip \in DOMAIN rows /\ rows[streams[s].chip] = "file"
<1>1. type \in Told => streams[s].stage = type
  BY BaseFacts, ChunkIs
<1>2. StageFits(streams[s])
  BY BaseFacts
<1> QED
  BY <1>1, <1>2 DEF StageFits, IsKind, Told

LEMMA OnTurnIs ==
  ASSUME NEW s, NEW type, NEW r, OnTurn(s, type, r)
  PROVE  /\ s = turn /\ UNCHANGED <<channel, fetch, turn, upload, greeting>>
         /\ rich' = (rich \/ type \in {"step", "proposal"})
         /\ clean' = (clean /\ type # "error")
         /\ PassBy(ShownIn(lines) \ ShownIn(lines'))
         /\ \/ type \in {"token", "error"} /\ lines' = AppendToLast(lines)
            \/ type = "step" /\ lines' = InsertStep(lines, r)
            \/ type = "proposal" /\ lines' = lines
            \/ type = "done" /\ lines' = FinalizeLast(lines, r)
            \/ type = "reflection" /\ lines' = MergeMessage(lines, r)
<1> DEFINE ls == CASE type \in {"token", "error"} -> AppendToLast(lines)
                   [] type = "step"               -> InsertStep(lines, r)
                   [] type = "proposal"           -> lines
                   [] type = "done"               -> FinalizeLast(lines, r)
                   [] type = "reflection"         -> MergeMessage(lines, r)
<1>1. \/ type \in {"token", "error"} /\ ls = AppendToLast(lines)
      \/ type = "step" /\ ls = InsertStep(lines, r)
      \/ type = "proposal" /\ ls = lines
      \/ type = "done" /\ ls = FinalizeLast(lines, r)
      \/ type = "reflection" /\ ls = MergeMessage(lines, r)
  <2>1. type \in {"token", "error", "step", "proposal", "done", "reflection"}
    BY DEF OnTurn
  <2>2. CASE type \in {"token", "error"}
    BY <2>2
  <2>3. CASE type = "step"
    BY <2>3
  <2>4. CASE type = "proposal"
    BY <2>4
  <2>5. CASE type = "done"
    BY <2>5
  <2>6. CASE type = "reflection"
    BY <2>6
  <2> QED
    BY <2>1, <2>2, <2>3, <2>4, <2>5, <2>6
<1>2. Shows(ls)
  BY DEF OnTurn
<1> HIDE DEF ls
<1>3. lines' = ls /\ PassBy(ShownIn(lines) \ ShownIn(ls))
  BY <1>2 DEF Shows
<1>4. PassBy(ShownIn(lines) \ ShownIn(lines'))
  BY <1>3
<1>5. /\ s = turn /\ UNCHANGED <<channel, fetch, turn, upload, greeting>>
      /\ rich' = (rich \/ type \in {"step", "proposal"})
      /\ clean' = (clean /\ type # "error")
  BY DEF OnTurn
<1> QED
  BY <1>1, <1>3, <1>4, <1>5

LEMMA OnTurnShows ==
  ASSUME PageBase, NEW s \in Stream, NEW type \in Chunks(s), OnTurn(s, type, streams[s].row)
  PROVE  lines' \in Seq(Line) /\ ShownIn(lines') \subseteq DOMAIN rows
<1>1. PICK r \in 0..MaxRows : r = streams[s].row
  BY BaseFacts, StreamFacts
<1>2. OnTurn(s, type, r) /\ lines \in Seq(Line) /\ ShownIn(lines) \subseteq DOMAIN rows
  BY <1>1, ViewFacts
<1>3. type \in {"step", "proposal", "done", "reflection"} => r \in DOMAIN rows
  BY <1>1, ToldRow
<1>4. CASE type \in {"token", "error"} /\ lines' = AppendToLast(lines)
  BY <1>2, <1>4, AppendToLastShown
<1>5. CASE type = "step" /\ lines' = InsertStep(lines, r)
  BY <1>2, <1>3, <1>5, StepShown
<1>6. CASE type = "proposal" /\ lines' = lines
  BY <1>2, <1>6
<1>7. CASE type = "done" /\ lines' = FinalizeLast(lines, r)
  BY <1>2, <1>3, <1>7, FinalizeLastShown
<1>8. CASE type = "reflection" /\ lines' = MergeMessage(lines, r)
  <2>1. Grown(lines, MergeMessage(lines, r), {r})
    BY <1>2, <1>3, <1>8, BaseFacts, MergeGrows
  <2> QED
    BY <1>2, <1>3, <1>8, <2>1 DEF Grown
<1> QED
  BY <1>2, <1>4, <1>5, <1>6, <1>7, <1>8, OnTurnIs

\* The chip gives way.
LEMMA OnAddedIs ==
  ASSUME PageBase, NEW s \in Stream, NEW type \in Chunks(s), OnAdded(s, type, streams[s].row)
  PROVE  /\ s = upload /\ type = "added" /\ upload' = NoStream
         /\ clean' = (clean /\ streams[s].row # 0)
         /\ UNCHANGED <<channel, fetch, turn, rich, greeting>>
         /\ PassBy(ShownIn(lines) \ ShownIn(lines'))
         /\ \E k, l \in Line :
              /\ lines' = DropAttachmentTail(lines) \o <<k, l>>
              /\ streams[s].row = 0 => k.id = 0 /\ l.id = 0
              /\ streams[s].row # 0 =>
                   /\ k = MessageToLine(streams[s].chip) /\ l = MessageToLine(streams[s].row)
                   /\ streams[s].row \in DOMAIN rows /\ rows[streams[s].row] = "companion"
                   /\ streams[s].chip \in DOMAIN rows /\ rows[streams[s].chip] = "file"
<1>1. /\ s = upload /\ type = "added" /\ upload' = NoStream
      /\ clean' = (clean /\ streams[s].row # 0)
      /\ UNCHANGED <<channel, fetch, turn, rich, greeting>>
      /\ Shows(DropAttachmentTail(lines) \o
                 IF streams[s].row = 0 THEN <<Optimistic(TRUE, TRUE), [Optimistic(FALSE, FALSE) EXCEPT !.blank = FALSE]>>
                 ELSE <<MessageToLine(streams[s].chip), MessageToLine(streams[s].row)>>)
  BY DEF OnAdded
<1>2. CASE streams[s].row = 0
  <2> DEFINE k == Optimistic(TRUE, TRUE)
             m == Optimistic(FALSE, FALSE)
             l == [m EXCEPT !.blank = FALSE]
  <2>1. k \in Line /\ k.id = 0 /\ m \in Line /\ m.id = 0
    BY OptimisticIs
  <2>2. l \in Line /\ l.id = 0
    <3> HIDE DEF m
    <3> QED
      BY <2>1 DEF Line
  <2>3. Shows(DropAttachmentTail(lines) \o <<k, l>>)
    BY <1>1, <1>2
  <2> HIDE DEF k, l
  <2>4. lines' = DropAttachmentTail(lines) \o <<k, l>> /\ PassBy(ShownIn(lines) \ ShownIn(lines'))
    BY <2>3 DEF Shows
  <2> QED
    BY <1>1, <1>2, <2>1, <2>2, <2>4
<1>3. CASE streams[s].row # 0
  <2>1. /\ streams[s].row \in DOMAIN rows /\ rows[streams[s].row] = "companion"
        /\ streams[s].chip \in DOMAIN rows /\ rows[streams[s].chip] = "file"
    BY <1>1, <1>3, ToldRow
  <2>2. MessageToLine(streams[s].chip) \in Line /\ MessageToLine(streams[s].row) \in Line
    BY <2>1, BaseFacts, RowLine
  <2>3. Shows(DropAttachmentTail(lines) \o <<MessageToLine(streams[s].chip), MessageToLine(streams[s].row)>>)
    BY <1>1, <1>3
  <2>4. /\ lines' = DropAttachmentTail(lines) \o <<MessageToLine(streams[s].chip), MessageToLine(streams[s].row)>>
        /\ PassBy(ShownIn(lines) \ ShownIn(lines'))
    BY <2>3 DEF Shows
  <2> QED
    BY <1>1, <1>3, <2>1, <2>2, <2>4
<1> QED
  BY <1>2, <1>3

LEMMA OnAddedShows ==
  ASSUME PageBase, NEW s \in Stream, NEW type \in Chunks(s), OnAdded(s, type, streams[s].row)
  PROVE  lines' \in Seq(Line) /\ ShownIn(lines') \subseteq DOMAIN rows
<1>1. PICK k \in Line, l \in Line :
         /\ lines' = DropAttachmentTail(lines) \o <<k, l>>
         /\ streams[s].row = 0 => k.id = 0 /\ l.id = 0
         /\ streams[s].row # 0 =>
              /\ k = MessageToLine(streams[s].chip) /\ l = MessageToLine(streams[s].row)
              /\ streams[s].row \in DOMAIN rows /\ rows[streams[s].row] = "companion"
              /\ streams[s].chip \in DOMAIN rows /\ rows[streams[s].chip] = "file"
  BY OnAddedIs
<1>2. DropAttachmentTail(lines) \in Seq(Line) /\ ShownIn(DropAttachmentTail(lines)) \subseteq DOMAIN rows
  BY ViewFacts, DropShown
<1>3. lines' \in Seq(Line) /\ ShownIn(lines') = ShownIn(DropAttachmentTail(lines)) \cup ({k.id, l.id} \ {0})
  BY <1>1, <1>2, TwoMore, TwoShown
<1>4. {k.id, l.id} \ {0} \subseteq DOMAIN rows
  BY <1>1, LineFacts
<1> QED
  BY <1>2, <1>3, <1>4

LEMMA OnGreetingIs ==
  ASSUME PageBase, NEW s \in Stream, NEW type \in Chunks(s), OnGreeting(s, type, streams[s].row)
  PROVE  /\ s = greeting /\ type \in {"done", "error", "end"}
         /\ greeting' = (IF type = "end" THEN NoStream ELSE greeting)
         /\ UNCHANGED <<channel, fetch, turn, rich, upload>>
         /\ \/ UNCHANGED <<lines, missed, clean>> /\ type # "done"
            \/ /\ type = "done" /\ streams[s].row \in DOMAIN rows
               /\ \E ls : Grown(lines, ls, {streams[s].row}) /\ Merges(ls)
<1>1. /\ s = greeting /\ type \in {"done", "error", "end"}
      /\ greeting' = (IF type = "end" THEN NoStream ELSE greeting)
      /\ UNCHANGED <<channel, fetch, turn, rich, upload>>
      /\ \/ UNCHANGED <<lines, missed, clean>> /\ type # "done"
         \/ type = "done" /\ Merges(MergeMessage(lines, streams[s].row))
  BY DEF OnGreeting, ghostVars
<1>2. CASE type = "done" /\ Merges(MergeMessage(lines, streams[s].row))
  <2>1. streams[s].row \in DOMAIN rows
    BY <1>2, ToldRow
  <2>2. Grown(lines, MergeMessage(lines, streams[s].row), {streams[s].row})
    BY <2>1, BaseFacts, MergeGrows
  <2> QED
    BY <1>1, <1>2, <2>1, <2>2
<1> QED
  BY <1>1, <1>2

LEMMA OnStreamBase == ASSUME PageBase, NEW s \in Stream, OnStream(s) PROVE PageBase'
<1>1. UNCHANGED <<rows, coming, up, ready, moved, buffered, happened>> /\ Kept /\ up' \in BOOLEAN /\ moved' \in BOOLEAN
  BY OnStreamIs, BaseFacts, ViewFacts, SameKept
<1>2. PICK type \in Chunks(s) :
        /\ GoesOn(s, type)
        /\ \/ OnTurn(s, type, streams[s].row) \/ OnTurnEnd(s, type)
           \/ OnGreeting(s, type, streams[s].row) \/ OnAdded(s, type, streams[s].row)
           \/ type = "fail" /\ Fails({s}, channel)
  BY OnStreamIs
<1>3. StagesFit' /\ streams' \in [Stream -> StreamState]
  BY <1>1, <1>2, BaseFacts, GoesOnFits
<1>4. CASE OnTurn(s, type, streams[s].row)
  <2>1. /\ UNCHANGED <<channel, fetch, turn, upload, greeting>>
        /\ rich' = (rich \/ type \in {"step", "proposal"})
        /\ clean' = (clean /\ type # "error")
        /\ PassBy(ShownIn(lines) \ ShownIn(lines'))
    BY <1>4, OnTurnIs
  <2>2. lines' \in Seq(Line) /\ ShownIn(lines') \subseteq DOMAIN rows
    BY <1>4, OnTurnShows
  <2>3. missed' \subseteq DOMAIN rows /\ clean' \in BOOLEAN /\ TurnsTyped'
    BY <2>1, ViewFacts, PassByTyped DEF TurnsTyped
  <2> QED
    BY <1>1, <1>3, <2>1, <2>2, <2>3, BaseFacts, ViewFacts, ViewMoves
<1>5. CASE OnTurnEnd(s, type)
  <2>1. /\ UNCHANGED <<channel, lines, rich, upload, greeting, missed, clean>>
        /\ turn' \in {turn, NoStream} /\ (UNCHANGED fetch \/ fetch' = [fetch EXCEPT !["reload"] = Asked])
    BY <1>5 DEF OnTurnEnd, ghostVars
  <2>2. fetch' \in [Purpose -> Fetch] /\ \A q \in Purpose : fetch'[q].upto <= Len(rows)
    <3>1. "reload" \in Purpose /\ 0 <= Len(rows)
      BY ViewFacts DEF Purpose
    <3>2. CASE UNCHANGED fetch
      BY <3>2, ViewFacts
    <3>3. CASE fetch' = [fetch EXCEPT !["reload"] = Asked]
      BY <3>1, <3>3, FetchIs, FetchMoves
    <3> QED
      BY <2>1, <3>2, <3>3
  <2>3. TurnsTyped'
    BY <2>1, ViewFacts DEF TurnsTyped
  <2> QED
    BY <1>1, <1>3, <2>1, <2>2, <2>3, BaseFacts, ViewFacts, ViewMoves
<1>6. CASE OnGreeting(s, type, streams[s].row)
  <2>1. greeting' \in {greeting, NoStream} /\ UNCHANGED <<channel, fetch, turn, rich, upload>>
    BY <1>6, OnGreetingIs
  <2>2. /\ lines' \in Seq(Line) /\ ShownIn(lines') \subseteq DOMAIN rows
        /\ clean' \in BOOLEAN /\ missed' \subseteq DOMAIN rows
    <3>1. CASE UNCHANGED <<lines, missed, clean>>
      BY <1>1, <3>1, ViewFacts DEF ShownIn
    <3>2. CASE /\ type = "done" /\ streams[s].row \in DOMAIN rows
               /\ \E ls : Grown(lines, ls, {streams[s].row}) /\ Merges(ls)
      <4>1. PICK r \in DOMAIN rows : r = streams[s].row
        BY <3>2
      <4>2. PICK ls : Grown(lines, ls, {r}) /\ Merges(ls)
        BY <3>2, <4>1
      <4>3. PICK S \in SUBSET DOMAIN rows : S = {r}
        BY <4>1
      <4>4. Grown(lines, ls, S)
        BY <4>2, <4>3
      <4> QED
        BY <4>2, <4>4, MergesTyped
    <3> QED
      BY <1>6, <3>1, <3>2, OnGreetingIs
  <2>3. TurnsTyped'
    BY <2>1, ViewFacts DEF TurnsTyped
  <2> QED
    BY <1>1, <1>3, <2>1, <2>2, <2>3, BaseFacts, ViewFacts, ViewMoves
<1>7. CASE OnAdded(s, type, streams[s].row)
  <2>1. /\ upload' = NoStream /\ clean' = (clean /\ streams[s].row # 0)
        /\ UNCHANGED <<channel, fetch, turn, rich, greeting>>
        /\ PassBy(ShownIn(lines) \ ShownIn(lines'))
    BY <1>7, OnAddedIs
  <2>2. lines' \in Seq(Line) /\ ShownIn(lines') \subseteq DOMAIN rows
    BY <1>7, OnAddedShows
  <2>3. missed' \subseteq DOMAIN rows /\ clean' \in BOOLEAN /\ TurnsTyped'
    BY <2>1, ViewFacts, PassByTyped DEF TurnsTyped
  <2> QED
    BY <1>1, <1>3, <2>1, <2>2, <2>3, BaseFacts, ViewFacts, ViewMoves
<1>8. CASE type = "fail" /\ Fails({s}, channel)
  <2>1. PICK c \in {"listening", "backoff", "resync", "stopped"} : c = channel
    BY ViewFacts
  <2>2. Fails({s}, c)
    BY <1>8, <2>1
  <2> QED
    BY <1>1, <1>3, <2>2, FailsBase
<1> QED
  BY <1>2, <1>4, <1>5, <1>6, <1>7, <1>8

LEMMA InitBase == ASSUME ChatInit PROVE PageBase
<1>1. /\ rows = << >> /\ coming = {} /\ up = FALSE /\ streams = [s \in Stream |-> Unused]
      /\ lines = << >> /\ ready = FALSE /\ moved = FALSE /\ channel = "listening" /\ buffered = {}
      /\ fetch = [p \in Purpose |-> IF p = "first" THEN Asked ELSE NotFetched]
      /\ turn = NoStream /\ rich = FALSE /\ upload = NoStream /\ greeting = NoStream
      /\ missed = {} /\ clean = TRUE /\ happened = 0
  BY DEF ChatInit
<1>2. MaxRows \in Nat /\ MaxHappenings \in Nat
  BY ChatConstants
<1>3. << >> \in Seq(RowKind) /\ Len(<< >>) = 0 /\ << >> \in Seq(Line) /\ DOMAIN << >> = {}
  OBVIOUS
<1>4. ServerTyped
  <2>1. streams \in [Stream -> StreamState]
    BY <1>1, UsedIs
  <2>2. rows \in Seq(RowKind) /\ Len(rows) <= MaxRows /\ coming \subseteq DOMAIN rows
    BY <1>1, <1>2, <1>3
  <2> QED
    BY <1>1, <2>1, <2>2 DEF ServerTyped
<1>5. ShownIn(lines) = {}
  BY <1>1, <1>3 DEF ShownIn
<1>6. fetch \in [Purpose -> Fetch] /\ \A p \in Purpose : fetch[p].upto <= Len(rows)
  BY <1>1, <1>3, FetchIs
<1>7. ViewTyped
  BY <1>1, <1>3, <1>5, <1>6 DEF ViewTyped
<1>8. TurnsTyped /\ GhostTyped
  <2>1. TurnsTyped
    BY <1>1 DEF TurnsTyped
  <2>2. 0 \in 0..MaxHappenings
    BY <1>2
  <2>3. GhostTyped
    BY <1>1, <2>2 DEF GhostTyped
  <2> QED
    BY <2>1, <2>3
<1>9. ASSUME NEW s \in Stream PROVE StageFits(streams[s])
  BY <1>1, UsedIs DEF StageFits
<1> QED
  BY <1>4, <1>7, <1>8, <1>9 DEF PageBase, PageTyped, StagesFit

LEMMA StutterBase == ASSUME PageBase, UNCHANGED chatVars PROVE PageBase'
<1>1. UNCHANGED <<rows, coming, up, streams, viewVars, turnVars, missed, clean, happened>>
  BY DEF chatVars, serverVars, ghostVars
<1>2. Kept /\ RowsTyped'
  BY <1>1, BaseFacts, SameKept DEF RowsTyped
<1>3. UNCHANGED <<up, viewVars, turnVars, ghostVars>> /\ coming' \subseteq DOMAIN rows'
  BY <1>1, BaseFacts DEF ghostVars
<1>4. StagesFit' /\ streams' \in [Stream -> StreamState]
  BY <1>1, AtRest
<1> QED
  BY <1>1, <1>2, <1>3, <1>4, ServerMoves

LEMMA StepBase == ASSUME PageBase, ChatNext PROVE PageBase'
BY OthersSpeakBase, OnEventBase, LosesEventBase, ListsMessagesBase, OnSnapshotBase, OnRefusedBase, RunsBase, PutBase,
   OnStreamBase, SendBase, AttachBase, ConfirmBase, ReturnBase, MoveHereBase, ConnectsBase, ConnectFailsBase,
   LosesSocketBase, BackoffEndsBase, FlushBase
   DEF ChatNext, UserStep

-----------------------------------------------------------------------------
(* The channel, and who has the streams *)

ChannelFits ==
  /\ moved => channel = "stopped"
  /\ up => ~moved
  /\ fetch["resync"] # NotFetched => channel = "resync"

TurnFits(x)   == x.kind \in {"send", "confirm", "used"} /\ (x.stage \notin {"unsent", "over"} => x.ours)
UploadFits(x) == x.kind = "upload" /\ (x.stage \notin {"putting", "unsent"} => x.ours)
GreetFits(x)  == x.kind = "greet" /\ (x.stage # "unsent" => x.ours)

Owned ==
  /\ turn # NoStream => TurnFits(streams[turn])
  /\ upload # NoStream => UploadFits(streams[upload])
  /\ greeting # NoStream => GreetFits(streams[greeting])

PageFits == PageBase /\ ChannelFits /\ Owned

LEMMA FitsFacts ==
  ASSUME PageFits
  PROVE  /\ PageBase /\ ChannelFits /\ Owned /\ (upload # NoStream => upload # turn)
         /\ (greeting # NoStream => greeting \notin {turn, upload})
<1>1. PageBase /\ ChannelFits /\ Owned
  BY DEF PageFits
<1> QED
  BY <1>1 DEF Owned, TurnFits, UploadFits, GreetFits

LEMMA StreamIsNoPurpose == ASSUME NEW s \in Stream PROVE s \notin Purpose /\ s # NoStream /\ NoStream \notin Purpose
BY ChatConstants, PurposeIs

\* Nothing of the channel changes.
LEMMA ChannelRests ==
  ASSUME ChannelFits, UNCHANGED <<moved, channel, up>>, fetch'["resync"] = fetch["resync"]
  PROVE  ChannelFits'
BY DEF ChannelFits

LEMMA FailsChannel ==
  ASSUME PageBase, ChannelFits, NEW F, NEW c \in {"listening", "backoff", "resync", "stopped"}, Fails(F, c), moved' \in BOOLEAN,
         up' => ~moved',
         moved' => moved \/ (fetch["resync"] # NotFetched => "resync" \in F),
         fetch["resync"] # NotFetched => "resync" \in F \/ c = "resync"
  PROVE  ChannelFits'
<1>1. "resync" \in Purpose /\ "resync" # "first"
  BY DEF Purpose
<1>2. fetch'["resync"] = IF "resync" \notin F THEN fetch["resync"] ELSE NotFetched
  BY <1>1, FailsIs
<1>3. channel' = IF moved' THEN "stopped" ELSE IF "resync" \in F THEN "listening" ELSE c
  BY FailsIs
<1>4. moved => fetch["resync"] = NotFetched
  BY DEF ChannelFits
<1>5. fetch'["resync"] # NotFetched => "resync" \notin F /\ fetch["resync"] # NotFetched /\ ~moved' /\ c = "resync"
  BY <1>2, <1>4
<1> QED
  BY <1>3, <1>5 DEF ChannelFits

\* The streams of the page keep theirs.
LEMMA OwnedMoves ==
  ASSUME PageBase, Owned, turn' \in {turn, NoStream}, upload' \in {upload, NoStream}, greeting' \in {greeting, NoStream},
         \A t \in Stream : t \in {turn', upload', greeting'} =>
            \/ streams'[t] = streams[t]
            \/ /\ streams'[t].kind = streams[t].kind /\ streams'[t].ours = streams[t].ours
               /\ streams[t].stage \notin {"unsent", "over", "putting"}
            \/ t = turn' /\ streams'[t] = Used
  PROVE  Owned'
<1>1. turn \in Stream \cup {NoStream} /\ upload \in Stream \cup {NoStream} /\ greeting \in Stream \cup {NoStream}
  BY ViewFacts
<1>2. turn' # NoStream => TurnFits(streams'[turn'])
  BY <1>1, UsedIs DEF Owned, TurnFits
<1>3. upload' # NoStream => UploadFits(streams'[upload'])
  <2>1. upload' # NoStream => upload' = upload /\ upload \in Stream /\ UploadFits(streams[upload])
    BY <1>1 DEF Owned
  <2>2. upload' # NoStream => upload' # turn'
    <3>1. turn' # NoStream => turn' = turn /\ TurnFits(streams[turn])
      BY DEF Owned
    <3> QED
      BY <2>1, <3>1 DEF UploadFits, TurnFits
  <2> QED
    BY <2>1, <2>2 DEF UploadFits
<1>4. greeting' # NoStream => GreetFits(streams'[greeting'])
  <2>1. greeting' # NoStream => greeting' = greeting /\ greeting \in Stream /\ GreetFits(streams[greeting])
    BY <1>1 DEF Owned
  <2>2. greeting' # NoStream => greeting' # turn'
    <3>1. turn' # NoStream => turn' = turn /\ TurnFits(streams[turn])
      BY DEF Owned
    <3> QED
      BY <2>1, <3>1 DEF GreetFits, TurnFits
  <2> QED
    BY <2>1, <2>2 DEF GreetFits
<1> QED
  BY <1>2, <1>3, <1>4 DEF Owned, TurnFits, UploadFits, GreetFits

LEMMA OwnedRests ==
  ASSUME Owned, UNCHANGED <<turn, upload, greeting, streams>>
  PROVE  Owned'
BY DEF Owned, TurnFits, UploadFits, GreetFits

\* A new stream is none the page has.
LEMMA OpenedIsNew ==
  ASSUME PageBase, Owned, NEW s \in Stream, NEW sort, Opened(s, sort)
  PROVE  /\ s \notin {turn, upload, greeting}
         /\ \A t \in Stream : t # s => streams'[t] = streams[t]
BY ViewFacts, ChatConstants DEF Opened, Owned, TurnFits, UploadFits, GreetFits

LEMMA OpenedFitsIn ==
  ASSUME NEW s \in Stream, NEW sort, Opened(s, sort), up \in BOOLEAN
  PROVE  /\ sort \in {"send", "confirm"} => TurnFits(streams'[s])
         /\ sort = "upload" => UploadFits(streams'[s])
         /\ sort = "greet" => GreetFits(streams'[s])
BY DEF Opened, TurnFits, UploadFits, GreetFits

LEMMA GreetingOwned ==
  ASSUME PageBase, Owned, RunGreeting, UNCHANGED <<rows, up, upload>>, turn' \in {turn, NoStream}
  PROVE  Owned'
<1>1. CASE UNCHANGED <<streams, greeting>>
  BY <1>1 DEF Owned, TurnFits, UploadFits, GreetFits
<1>2. CASE \E s \in Stream : Opened(s, "greet") /\ greeting' = s
  <2>1. PICK s \in Stream : Opened(s, "greet") /\ greeting' = s
    BY <1>2
  <2>2. s \notin {turn, upload, greeting} /\ \A t \in Stream : t # s => streams'[t] = streams[t]
    BY <2>1, OpenedIsNew
  <2>3. GreetFits(streams'[s])
    BY <2>1, BaseFacts, OpenedFitsIn
  <2>4. turn' # NoStream => streams'[turn'] = streams[turn]
    BY <2>2, ViewFacts
  <2>5. upload' # NoStream => streams'[upload'] = streams[upload]
    BY <2>2, ViewFacts
  <2> QED
    BY <2>1, <2>3, <2>4, <2>5 DEF Owned, TurnFits, UploadFits, GreetFits
<1> QED
  BY <1>1, <1>2, GreetingIs

LEMMA RunsOwned == ASSUME PageFits, NEW s \in Stream, Runs(s) PROVE ChannelFits' /\ Owned'
<1>1. UNCHANGED <<up, lines, ready, moved, channel, buffered, fetch, turn, rich, upload, greeting, missed, clean>>
  BY DEF Runs, viewVars, turnVars, ghostVars
<1>2. ChannelFits'
  BY <1>1, FitsFacts, ChannelRests
<1>3. ASSUME NEW t \in Stream, t \in {turn', upload', greeting'}
      PROVE  \/ streams'[t] = streams[t]
             \/ /\ streams'[t].kind = streams[t].kind /\ streams'[t].ours = streams[t].ours
                /\ streams[t].stage \notin {"unsent", "over", "putting"}
  <2>1. CASE Begins(s)
    <3>1. streams[s].stage \in {"queued", "approved"}
      BY <2>1, FitsFacts, BeginsIs
    <3>2. CASE \E g, r : Restaged(s, g, r)
      BY <3>1, <3>2 DEF Restaged
    <3>3. CASE streams' = [streams EXCEPT ![s].stage = "chip", ![s].chip = Len(rows) + 1]
      <4>1. streams[s] \in StreamState /\ streams \in [Stream -> StreamState]
        BY FitsFacts, BaseFacts
      <4> DEFINE y == [streams[s] EXCEPT !.stage = "chip", !.chip = Len(rows) + 1]
      <4>2. y.kind = streams[s].kind /\ y.ours = streams[s].ours
        BY <4>1 DEF StreamState
      <4>3. streams' = [streams EXCEPT ![s] = y]
        BY <3>3
      <4> HIDE DEF y
      <4>4. streams'[s] = y /\ (t # s => streams'[t] = streams[t])
        BY <4>1, <4>3
      <4> QED
        BY <3>1, <4>2, <4>4
    <3> QED
      BY <2>1, <3>2, <3>3, FitsFacts, BeginsIs
  <2>2. CASE Persists(s)
    <3>1. PICK stage \in Told :
            /\ stage \in {"step", "proposal"} => streams[s].stage = "running" /\ streams[s].kind \in {"send", "confirm"}
            /\ stage = "done" => streams[s].stage = "running"
            /\ stage = "reflection" => streams[s].stage = "finishing" /\ streams[s].kind = "send"
            /\ stage = "added" => streams[s].stage = "chip"
            /\ Restaged(s, stage, Len(rows) + 1)
      BY <2>2, FitsFacts, PersistsIs
    <3>2. streams[s].stage \in {"running", "finishing", "chip"}
      BY <3>1 DEF Told
    <3> QED
      BY <3>1, <3>2 DEF Restaged
  <2>3. CASE SkipsTranscript(s)
    <3>1. streams[s].stage \in {"queued", "chip"} /\ At(s, "added")
      BY <2>3 DEF SkipsTranscript
    <3>2. Restaged(s, "added", 0)
      BY <3>1, FitsFacts, BaseFacts, AtIs DEF Stages, Told
    <3> QED
      BY <3>1, <3>2 DEF Restaged
  <2>4. CASE Unheard(s)
    <3>1. ~streams[s].ours /\ streams[s].stage \notin {"unsent", "putting", "over"}
      BY <2>4, FitsFacts, UnheardIs
    <3>2. s \notin {turn, upload, greeting}
      BY <3>1, FitsFacts, StreamIsNoPurpose DEF Owned, TurnFits, UploadFits, GreetFits
    <3>3. t # s
      BY <1>1, <1>3, <3>2
    <3>4. CASE Ends(s)
      BY <3>3, <3>4 DEF Ends
    <3>5. CASE \E type \in Chunks(s) : GoesOn(s, type)
      <4>1. PICK type \in Chunks(s) : GoesOn(s, type)
        BY <3>5
      <4>2. Ends(s) \/ Restaged(s, "running", 0) \/ Restaged(s, "finishing", 0)
        BY <4>1, FitsFacts, BaseFacts, GoesOnIs
      <4> QED
        BY <3>3, <4>2 DEF Ends, Restaged
    <3> QED
      BY <2>4, <3>4, <3>5, FitsFacts, UnheardIs
  <2> QED
    BY <2>1, <2>2, <2>3, <2>4 DEF Runs
<1>4. Owned'
  BY <1>1, <1>3, FitsFacts, OwnedMoves
<1> QED
  BY <1>2, <1>4

LEMMA SendOwned ==
  ASSUME PageFits, NEW s \in Stream, SendCurrentInput(s) \/ OnAttach(s) \/ OnConfirmProposal(s)
  PROVE  ChannelFits' /\ Owned'
<1>1. UNCHANGED <<up, moved, channel, fetch, greeting>>
  BY DEF SendCurrentInput, OnAttach, OnConfirmProposal
<1>2. ChannelFits'
  BY <1>1, FitsFacts, ChannelRests
<1>3. PICK sort \in {"send", "confirm", "upload"} :
        /\ Asks(s, sort)
        /\ sort = "upload" => upload' = s /\ turn' = turn
        /\ sort # "upload" => turn' = s /\ upload' = upload
  <2>1. CASE SendCurrentInput(s)
    <3>1. Asks(s, "send") /\ turn' = s /\ upload' = upload
      BY <2>1 DEF SendCurrentInput
    <3> QED
      BY <3>1
  <2>2. CASE OnAttach(s)
    <3>1. Asks(s, "upload") /\ upload' = s /\ turn' = turn
      BY <2>2 DEF OnAttach
    <3> QED
      BY <3>1
  <2>3. CASE OnConfirmProposal(s)
    <3>1. Asks(s, "confirm") /\ turn' = s /\ upload' = upload
      BY <2>3 DEF OnConfirmProposal
    <3> QED
      BY <3>1
  <2> QED
    BY <2>1, <2>2, <2>3
<1>4. Opened(s, sort)
  BY <1>3, FitsFacts, BaseFacts, AsksIs
<1>5. s \notin {turn, upload, greeting} /\ \A t \in Stream : t # s => streams'[t] = streams[t]
  BY <1>4, FitsFacts, OpenedIsNew
<1>6. /\ sort \in {"send", "confirm"} => TurnFits(streams'[s])
      /\ sort = "upload" => UploadFits(streams'[s])
  BY <1>4, FitsFacts, BaseFacts, OpenedFitsIn
<1>7. greeting' # NoStream => streams'[greeting'] = streams[greeting]
  BY <1>1, <1>5, FitsFacts, ViewFacts
<1>8. turn' = turn /\ turn # NoStream => streams'[turn'] = streams[turn]
  BY <1>5, FitsFacts, ViewFacts
<1>9. upload' = upload /\ upload # NoStream => streams'[upload'] = streams[upload]
  BY <1>5, FitsFacts, ViewFacts
<1>10. Owned'
  BY <1>1, <1>3, <1>6, <1>7, <1>8, <1>9, FitsFacts DEF Owned, TurnFits, UploadFits, GreetFits
<1> QED
  BY <1>2, <1>10

LEMMA ReturnOwned == ASSUME PageFits, OnReturn PROVE ChannelFits' /\ Owned'
<1>1. /\ RunGreeting /\ fetch' = [fetch EXCEPT !["refresh"] = Asked] /\ UNCHANGED <<rows, up, moved, channel, turn, upload>>
  BY DEF OnReturn
<1>2. fetch'["resync"] = fetch["resync"]
  BY <1>1, FitsFacts, ViewFacts
<1> QED
  BY <1>1, <1>2, FitsFacts, ChannelRests, GreetingOwned

LEMMA MoveHereOwned == ASSUME PageFits, OnMoveHere PROVE ChannelFits' /\ Owned'
<1>1. /\ moved /\ moved' = FALSE /\ channel' = "listening" /\ fetch' = [fetch EXCEPT !["first"] = Asked]
      /\ UNCHANGED <<up, streams, turn, upload, greeting>>
  BY DEF OnMoveHere, serverVars, turnVars
<1>2. fetch'["resync"] = fetch["resync"]
  BY <1>1, FitsFacts, ViewFacts
<1>3. ChannelFits'
  BY <1>1, <1>2, FitsFacts DEF ChannelFits
<1> QED
  BY <1>1, <1>3, FitsFacts, OwnedRests

LEMMA ConnectsOwned == ASSUME PageFits, Connects PROVE ChannelFits' /\ Owned'
<1>1. /\ ~moved /\ UNCHANGED <<moved, channel, fetch, turn, upload, greeting>>
      /\ \A s \in Stream :
              /\ streams[s].stage # "unsent" => streams'[s] = streams[s]
              /\ streams[s].stage = "unsent" =>
                   streams'[s] = [streams[s] EXCEPT !.stage = "queued", !.ours = TRUE]
  BY FitsFacts, ConnectsIs
<1>2. ChannelFits'
  BY <1>1, FitsFacts DEF ChannelFits
<1>3. ASSUME NEW t \in Stream
      PROVE  \/ streams'[t] = streams[t]
             \/ streams'[t].kind = streams[t].kind /\ streams'[t].ours
  <2>1. streams[t] \in StreamState
    BY FitsFacts, BaseFacts
  <2>2. CASE streams[t].stage = "unsent"
    <3>1. streams'[t] = [streams[t] EXCEPT !.stage = "queued", !.ours = TRUE]
      BY <1>1, <2>2
    <3> QED
      BY <2>1, <3>1 DEF StreamState
  <2> QED
    BY <1>1, <2>2
<1>4. Owned'
  <2>1. turn \in Stream \cup {NoStream} /\ upload \in Stream \cup {NoStream} /\ greeting \in Stream \cup {NoStream}
    BY FitsFacts, ViewFacts
  <2>2. turn # NoStream => TurnFits(streams'[turn])
    BY <1>3, <2>1, FitsFacts DEF Owned, TurnFits
  <2>3. upload # NoStream => UploadFits(streams'[upload])
    BY <1>3, <2>1, FitsFacts DEF Owned, UploadFits
  <2>4. greeting # NoStream => GreetFits(streams'[greeting])
    BY <1>3, <2>1, FitsFacts DEF Owned, GreetFits
  <2> QED
    BY <1>1, <2>2, <2>3, <2>4 DEF Owned, TurnFits, UploadFits, GreetFits
<1> QED
  BY <1>2, <1>4

\* What fails takes the page's hold of it along.
LEMMA FailsOwned ==
  ASSUME PageFits, NEW F, NEW c \in {"listening", "backoff", "resync", "stopped"}, Fails(F, c), moved' \in BOOLEAN,
         \A t \in Stream : t \notin F /\ t \in {turn, upload, greeting} => streams'[t] = streams[t]
  PROVE  Owned'
<1>1. /\ turn' = IF turn \in F \/ "reload" \in F THEN NoStream ELSE turn
      /\ upload' = IF upload \in F THEN NoStream ELSE upload
      /\ greeting' = IF greeting \in F THEN NoStream ELSE greeting
  BY FitsFacts, FailsIs
<1>2. /\ turn' \in {turn, NoStream} /\ upload' \in {upload, NoStream} /\ greeting' \in {greeting, NoStream}
      /\ turn' # NoStream => turn' = turn /\ turn \notin F
      /\ upload' # NoStream => upload' = upload /\ upload \notin F
      /\ greeting' # NoStream => greeting' = greeting /\ greeting \notin F
  BY <1>1
<1>3. \A t \in Stream : t \in {turn', upload', greeting'} => streams'[t] = streams[t]
  BY <1>2, StreamIsNoPurpose
<1> QED
  BY <1>2, <1>3, FitsFacts, OwnedMoves

LEMMA ConnectFailsOwned == ASSUME PageFits, ConnectFails PROVE ChannelFits' /\ Owned'
<1>1. UNCHANGED <<rows, coming, up, moved>> /\ moved' \in BOOLEAN /\ ~up /\ "resync" \in Purpose
  BY FitsFacts, ConnectFailsIs, ViewFacts DEF Purpose
<1>2. PICK c \in {"listening", "backoff", "resync", "stopped"} : c = channel
  BY FitsFacts, ViewFacts
<1>3. fetch["resync"] # NotFetched => channel = "resync"
  BY FitsFacts DEF ChannelFits
<1>4. CASE channel = "listening" /\ UNCHANGED streams /\ Fails({}, "backoff")
  <2>1. fetch["resync"] = NotFetched
    BY <1>3, <1>4
  <2>2. ChannelFits'
    BY <1>1, <1>4, <2>1, FitsFacts, FailsChannel
  <2> QED
    BY <1>1, <1>4, <2>2, FitsFacts, FailsOwned
<1>5. CASE \E p \in Purpose : fetch[p] = Asked /\ UNCHANGED streams /\ Fails({p}, channel)
  <2>1. PICK p \in Purpose : UNCHANGED streams /\ Fails({p}, channel)
    BY <1>5
  <2>2. Fails({p}, c)
    BY <1>2, <2>1
  <2>3. ChannelFits'
    BY <1>1, <1>2, <1>3, <2>2, FitsFacts, FailsChannel
  <2> QED
    BY <1>1, <2>1, <2>2, <2>3, FailsOwned
<1>6. CASE \E s \in Stream : streams[s].stage = "unsent" /\ Ends(s) /\ Fails({s}, channel)
  <2>1. PICK s \in Stream : Ends(s) /\ Fails({s}, channel)
    BY <1>6
  <2>2. Fails({s}, c)
    BY <1>2, <2>1
  <2>3. ChannelFits'
    BY <1>1, <1>2, <1>3, <2>2, FitsFacts, FailsChannel
  <2>4. \A t \in Stream : t \notin {s} => streams'[t] = streams[t]
    BY <2>1 DEF Ends
  <2> QED
    BY <1>1, <2>2, <2>3, <2>4, FailsOwned
<1> QED
  BY <1>4, <1>5, <1>6, FitsFacts, ConnectFailsIs

LEMMA LosesSocketOwned == ASSUME PageFits, NEW taken \in BOOLEAN, LosesSocket(taken) PROVE ChannelFits' /\ Owned'
<1>1. PICK F : F = InFlight
  OBVIOUS
<1>2. PICK c \in {"listening", "backoff", "resync", "stopped"} : c = IF channel = "listening" THEN "backoff" ELSE channel
  BY FitsFacts, ViewFacts
<1>3. Fails(F, c) /\ moved' \in BOOLEAN /\ ~up'
  BY <1>1, <1>2, FitsFacts, LosesSocketIs
<1>4. fetch["resync"] # NotFetched => "resync" \in F
  BY <1>1 DEF InFlight, Purpose
<1>5. ChannelFits'
  BY <1>3, <1>4, FitsFacts, FailsChannel
<1>6. /\ turn' = IF turn \in F \/ "reload" \in F THEN NoStream ELSE turn
      /\ upload' = IF upload \in F THEN NoStream ELSE upload
      /\ greeting' = IF greeting \in F THEN NoStream ELSE greeting
  BY <1>3, FitsFacts, FailsIs
<1>7. \A s \in {turn, upload, greeting} : s # NoStream => s \in F \/ streams[s].stage = "putting"
  BY <1>1 DEF InFlight
<1>8. /\ turn' # NoStream => streams[turn].stage = "putting" /\ turn \in Stream
      /\ greeting' # NoStream => streams[greeting].stage = "putting" /\ greeting \in Stream
      /\ upload' # NoStream => upload' = upload /\ streams[upload].stage = "putting" /\ upload \in Stream
  BY <1>6, <1>7, FitsFacts, ViewFacts
<1>9. turn' = NoStream /\ greeting' = NoStream
  <2>1. \A s \in Stream : streams[s].stage = "putting" => streams[s].kind = "upload"
    BY FitsFacts, BaseFacts DEF StageFits
  <2>2. (turn # NoStream => streams[turn].kind # "upload") /\ (greeting # NoStream => streams[greeting].kind # "upload")
    BY FitsFacts DEF Owned, TurnFits, GreetFits
  <2> QED
    BY <1>6, <1>8, <2>1, <2>2
<1>10. upload' # NoStream => UploadFits(streams'[upload'])
  <2>1. upload' # NoStream => streams'[upload].kind = streams[upload].kind /\ streams'[upload].stage = "putting"
    BY <1>8, FitsFacts, LosesSocketIs
  <2> QED
    BY <1>6, <1>8, <2>1, FitsFacts DEF Owned, UploadFits
<1> QED
  BY <1>5, <1>9, <1>10 DEF Owned, UploadFits

LEMMA PutOwned == ASSUME PageFits, NEW s \in Stream, Put(s) PROVE ChannelFits' /\ Owned'
<1>1. streams[s].stage = "putting" /\ UNCHANGED <<rows, coming, up, moved>> /\ up' \in BOOLEAN /\ moved' \in BOOLEAN
  BY FitsFacts, PutIs, BaseFacts, ViewFacts
<1>2. CASE /\ ~moved
           /\ UNCHANGED <<lines, ready, channel, buffered, fetch, turn, rich, upload, greeting, missed, clean, happened>>
           /\ streams' \in [Stream -> StreamState]
           /\ \A t \in Stream : t # s => streams'[t] = streams[t]
           /\ streams'[s].kind = streams[s].kind /\ streams'[s].chip = streams[s].chip /\ streams'[s].row = streams[s].row
           /\ streams'[s].stage = (IF up THEN "queued" ELSE "unsent") /\ streams'[s].ours = up
  <2>1. ChannelFits'
    BY <1>1, <1>2, FitsFacts, ChannelRests
  <2>2. streams[s].kind = "upload"
    BY <1>1, FitsFacts, BaseFacts DEF StageFits
  <2>3. s # turn /\ s # greeting
    BY <2>2, FitsFacts, StreamIsNoPurpose DEF Owned, TurnFits, GreetFits
  <2>4. turn # NoStream => streams'[turn] = streams[turn]
    BY <1>2, <2>3, FitsFacts, ViewFacts
  <2>5. greeting # NoStream => streams'[greeting] = streams[greeting]
    BY <1>2, <2>3, FitsFacts, ViewFacts
  <2>6. upload # NoStream => UploadFits(streams'[upload])
    <3>1. CASE upload = s
      BY <1>2, <2>2, <3>1, FitsFacts, BaseFacts DEF UploadFits
    <3>2. CASE upload # s /\ upload # NoStream
      <4>1. streams'[upload] = streams[upload]
        BY <1>2, <3>2, FitsFacts, ViewFacts
      <4> QED
        BY <3>2, <4>1, FitsFacts DEF Owned
    <3> QED
      BY <3>1, <3>2
  <2> QED
    BY <1>2, <2>1, <2>4, <2>5, <2>6, FitsFacts DEF Owned, TurnFits, UploadFits, GreetFits
<1>3. CASE (Happens \/ UNCHANGED happened) /\ Ends(s) /\ Fails({s}, channel)
  <2>1. PICK c \in {"listening", "backoff", "resync", "stopped"} : c = channel
    BY FitsFacts, ViewFacts
  <2>2. Fails({s}, c)
    BY <1>3, <2>1
  <2>3. ChannelFits'
    <3>1. (fetch["resync"] # NotFetched => c = "resync") /\ (up' => ~moved')
      BY <1>1, <2>1, FitsFacts DEF ChannelFits
    <3> QED
      BY <1>1, <2>2, <3>1, FitsFacts, FailsChannel
  <2>4. \A t \in Stream : t \notin {s} => streams'[t] = streams[t]
    BY <1>3 DEF Ends
  <2> QED
    BY <1>1, <2>2, <2>3, <2>4, FailsOwned
<1> QED
  BY <1>2, <1>3, FitsFacts, PutIs

LEMMA OnSnapshotOwned == ASSUME PageFits, NEW p \in Purpose, OnSnapshot(p) PROVE ChannelFits' /\ Owned'
<1>1. /\ fetch[p].state = "read" /\ fetch' = [fetch EXCEPT ![p] = NotFetched]
      /\ channel' = (IF p = "resync" THEN "listening" ELSE channel)
      /\ UNCHANGED <<rows, up, moved, upload>> /\ turn' \in {turn, NoStream}
      /\ p = "first" => RunGreeting
      /\ p # "first" => UNCHANGED <<streams, greeting>>
  BY FitsFacts, OnSnapshotIs
<1>2. fetch'["resync"] = IF p = "resync" THEN NotFetched ELSE fetch["resync"]
  BY <1>1, FitsFacts, ViewFacts, PurposeIs
<1>3. p = "resync" => channel = "resync"
  BY <1>1, FitsFacts, FetchIs DEF ChannelFits
<1>4. ChannelFits'
  BY <1>1, <1>2, <1>3, FitsFacts DEF ChannelFits
<1>5. CASE p = "first"
  BY <1>1, <1>4, <1>5, FitsFacts, GreetingOwned
<1>6. CASE p # "first"
  BY <1>1, <1>4, <1>6, FitsFacts, OwnedMoves
<1> QED
  BY <1>5, <1>6

LEMMA OnRefusedOwned == ASSUME PageFits, NEW p \in Purpose, OnRefused(p) PROVE ChannelFits' /\ Owned'
<1>1. UNCHANGED <<rows, coming, up, streams, moved, happened>> /\ Fails({p}, channel)
  BY DEF OnRefused, serverVars
<1>2. PICK c \in {"listening", "backoff", "resync", "stopped"} : c = channel
  BY FitsFacts, ViewFacts
<1>3. Fails({p}, c) /\ moved' \in BOOLEAN
  BY <1>1, <1>2, FitsFacts, ViewFacts
<1>4. ChannelFits'
  <2>1. (fetch["resync"] # NotFetched => c = "resync") /\ (up' => ~moved') /\ (moved' => moved)
    BY <1>1, <1>2, FitsFacts DEF ChannelFits
  <2> QED
    BY <1>3, <2>1, FitsFacts, FailsChannel
<1> QED
  BY <1>1, <1>3, <1>4, FailsOwned

LEMMA OnStreamOwned == ASSUME PageFits, NEW s \in Stream, OnStream(s) PROVE ChannelFits' /\ Owned'
<1>1. streams[s].ours /\ UNCHANGED <<rows, coming, up, ready, moved, buffered, happened>> /\ moved' \in BOOLEAN
  BY FitsFacts, OnStreamIs, ViewFacts
<1>2. PICK type \in Chunks(s) :
        /\ GoesOn(s, type)
        /\ \/ OnTurn(s, type, streams[s].row) \/ OnTurnEnd(s, type)
           \/ OnGreeting(s, type, streams[s].row) \/ OnAdded(s, type, streams[s].row)
           \/ type = "fail" /\ Fails({s}, channel)
  BY FitsFacts, OnStreamIs
<1>3. /\ type \in {"end", "fail", "added"} => Ends(s)
      /\ type \notin {"end", "fail", "added"} => \E g, r : Restaged(s, g, r)
      /\ streams[s].stage \notin {"unsent", "over", "putting"}
  BY <1>2, FitsFacts, BaseFacts, GoesOnIs, ChunkIs DEF Told
<1>4. \A t \in Stream : t # s => streams'[t] = streams[t]
  BY <1>3 DEF Ends, Restaged
<1>5. type \notin {"end", "fail", "added"} =>
        streams'[s].kind = streams[s].kind /\ streams'[s].ours = streams[s].ours
  BY <1>3 DEF Restaged
<1>6. streams'[s] = Used \/ type \notin {"end", "fail", "added"}
  BY <1>3 DEF Ends
<1>7. CASE OnTurn(s, type, streams[s].row)
  <2>1. type \notin {"end", "fail", "added"} /\ UNCHANGED <<channel, fetch, turn, upload, greeting>>
    BY <1>7 DEF OnTurn
  <2>2. Owned'
    BY <1>3, <1>4, <1>5, <2>1, FitsFacts, OwnedMoves
  <2> QED
    BY <1>1, <2>1, <2>2, FitsFacts, ChannelRests
<1>8. CASE OnTurnEnd(s, type)
  <2>1. /\ s = turn /\ type = "end" /\ UNCHANGED <<channel, upload, greeting>>
        /\ turn' \in {turn, NoStream} /\ (UNCHANGED fetch \/ fetch' = [fetch EXCEPT !["reload"] = Asked])
    BY <1>8 DEF OnTurnEnd
  <2>2. fetch'["resync"] = fetch["resync"]
    <3>1. CASE fetch' = [fetch EXCEPT !["reload"] = Asked]
      BY <3>1, FitsFacts, ViewFacts
    <3> QED
      BY <2>1, <3>1
  <2>3. upload # NoStream => upload # s
    BY <2>1, FitsFacts
  <2>4. greeting # NoStream => greeting # s
    BY <2>1, FitsFacts
  <2>5. s # NoStream
    BY StreamIsNoPurpose
  <2>6. \A t \in Stream : t \in {turn', upload', greeting'} =>
          streams'[t] = streams[t] \/ (t = turn' /\ streams'[t] = Used)
    BY <1>4, <1>6, <2>1, <2>3, <2>4, <2>5
  <2>7. Owned'
    BY <2>1, <2>6, FitsFacts, OwnedMoves
  <2> QED
    BY <1>1, <2>1, <2>2, <2>7, FitsFacts, ChannelRests
<1>9. CASE OnGreeting(s, type, streams[s].row)
  <2>1. /\ s = greeting /\ type \in {"done", "error", "end"} /\ UNCHANGED <<channel, fetch, turn, upload>>
        /\ greeting' = (IF type = "end" THEN NoStream ELSE greeting)
    BY <1>9 DEF OnGreeting
  <2>2. s # NoStream /\ turn # s /\ upload # s
    BY <2>1, FitsFacts, StreamIsNoPurpose
  <2>3. type # "end" => streams'[s].kind = streams[s].kind /\ streams'[s].ours = streams[s].ours
    BY <1>5, <2>1
  <2>4. \A t \in Stream : t \in {turn', upload', greeting'} =>
          \/ streams'[t] = streams[t]
          \/ /\ streams'[t].kind = streams[t].kind /\ streams'[t].ours = streams[t].ours
             /\ streams[t].stage \notin {"unsent", "over", "putting"}
    BY <1>3, <1>4, <2>1, <2>2, <2>3
  <2>5. Owned'
    BY <2>1, <2>4, FitsFacts, OwnedMoves
  <2> QED
    BY <1>1, <2>1, <2>5, FitsFacts, ChannelRests
<1>10. CASE OnAdded(s, type, streams[s].row)
  <2>1. s = upload /\ upload' = NoStream /\ UNCHANGED <<channel, fetch, turn, greeting>>
    BY <1>10 DEF OnAdded
  <2>2. s # NoStream /\ turn # s /\ greeting # s
    BY <2>1, FitsFacts, StreamIsNoPurpose
  <2>3. \A t \in Stream : t \in {turn', upload', greeting'} => streams'[t] = streams[t]
    BY <1>4, <2>1, <2>2, StreamIsNoPurpose
  <2>4. Owned'
    BY <2>1, <2>3, FitsFacts, OwnedMoves
  <2> QED
    BY <1>1, <2>1, <2>4, FitsFacts, ChannelRests
<1>11. CASE type = "fail" /\ Fails({s}, channel)
  <2>1. PICK c \in {"listening", "backoff", "resync", "stopped"} : c = channel
    BY FitsFacts, ViewFacts
  <2>2. Fails({s}, c)
    BY <1>11, <2>1
  <2>3. ChannelFits'
    <3>1. (fetch["resync"] # NotFetched => c = "resync") /\ (up' => ~moved') /\ (moved' => moved)
      BY <1>1, <2>1, FitsFacts DEF ChannelFits
    <3> QED
      BY <1>1, <2>2, <3>1, FitsFacts, FailsChannel
  <2> QED
    BY <1>1, <1>4, <2>2, <2>3, FailsOwned
<1> QED
  BY <1>2, <1>7, <1>8, <1>9, <1>10, <1>11

\* The steps that leave the channel and the streams of the page alone.
LEMMA RestOwned ==
  ASSUME PageFits, \/ OthersSpeak \/ Flush \/ BackoffEnds \/ UNCHANGED chatVars
                   \/ (\E r \in coming : OnEvent(r) \/ LosesEvent(r)) \/ \E p \in Purpose : ListsMessages(p)
  PROVE  ChannelFits' /\ Owned'
<1>1. CASE OthersSpeak \/ Flush \/ UNCHANGED chatVars \/ \E r \in coming : OnEvent(r) \/ LosesEvent(r)
  <2>1. UNCHANGED <<up, streams, moved, channel, fetch, turn, upload, greeting>>
    BY <1>1 DEF OthersSpeak, Flush, chatVars, OnEvent, LosesEvent, serverVars, viewVars, turnVars
  <2> QED
    BY <2>1, FitsFacts, ChannelRests, OwnedRests
<1>2. CASE BackoffEnds
  <2>1. /\ channel = "backoff" /\ channel' = "resync" /\ UNCHANGED <<up, moved, streams, turn, upload, greeting>>
    BY <1>2 DEF BackoffEnds, serverVars, turnVars
  <2>2. ChannelFits'
    BY <2>1, FitsFacts DEF ChannelFits
  <2> QED
    BY <2>1, <2>2, FitsFacts, OwnedRests
<1>3. CASE \E p \in Purpose : ListsMessages(p)
  <2>1. PICK p \in Purpose : ListsMessages(p)
    BY <1>3
  <2>2. /\ fetch[p].state = "asked" /\ UNCHANGED <<up, streams, moved, channel, turn, upload, greeting>>
        /\ \A q \in Purpose : q # p => fetch'[q] = fetch[q]
    BY <2>1, FitsFacts, ViewFacts DEF ListsMessages, serverVars, turnVars
  <2>3. p = "resync" => fetch["resync"] # NotFetched
    BY <2>2, FetchIs
  <2>4. p # "resync" => fetch'["resync"] = fetch["resync"]
    BY <2>2, PurposeIs
  <2>5. ChannelFits'
    BY <2>2, <2>3, <2>4, FitsFacts DEF ChannelFits
  <2> QED
    BY <2>2, <2>5, FitsFacts, OwnedRests
<1> QED
  BY <1>1, <1>2, <1>3

LEMMA StepFits == ASSUME PageFits, [ChatNext]_chatVars PROVE PageFits'
<1>1. PageBase'
  BY FitsFacts, StepBase, StutterBase
<1>2. ChannelFits' /\ Owned'
  BY RestOwned, OnSnapshotOwned, OnRefusedOwned, RunsOwned, PutOwned, OnStreamOwned, SendOwned, ReturnOwned, MoveHereOwned,
     ConnectsOwned, ConnectFailsOwned, LosesSocketOwned
     DEF ChatNext, UserStep
<1> QED
  BY <1>1, <1>2 DEF PageFits

LEMMA InitFits == ASSUME ChatInit PROVE PageFits
<1>1. ~moved /\ ~up /\ fetch["resync"] = NotFetched /\ turn = NoStream /\ upload = NoStream /\ greeting = NoStream
  BY PurposeIs DEF ChatInit
<1> QED
  BY <1>1, InitBase DEF PageFits, ChannelFits, Owned

-----------------------------------------------------------------------------
(* No row is lost sight of *)

\* The page will read the transcript up to row r, or listen anew.
Owed(r) ==
  \/ channel \in {"backoff", "stopped"}
  \/ \E p \in {"first", "resync"} :
       fetch[p].state \in {"asked", "refused"} \/ (fetch[p].state = "read" /\ r <= fetch[p].upto)

Way(r) == r \in missed \cup ShownIn(lines) \cup coming \cup buffered \/ Owed(r)

WayOK == \A r \in DOMAIN rows : Way(r)

LEMMA PassedBy == ASSUME NEW S, PassBy(S) PROVE missed \subseteq missed' /\ \A r \in S : Way(r)'
<1>1. \A r : Underway(r) => r \in coming' \cup buffered' \/ Owed(r)'
  BY DEF Underway, Owed
<1>2. missed' = missed \cup {r \in S : r \notin ShownIn(lines') /\ ~Underway(r)}
  BY DEF PassBy
<1> QED
  BY <1>1, <1>2 DEF Way

\* The rows of the transcript are the same.
LEMMA WayMoves ==
  ASSUME WayOK, rows' = rows, missed \subseteq missed',
         \A r \in DOMAIN rows : r \in ShownIn(lines) \cup coming \cup buffered => Way(r)',
         \A r \in DOMAIN rows : Owed(r) => Way(r)'
  PROVE  WayOK'
BY DEF WayOK, Way

LEMMA OwedRests ==
  ASSUME UNCHANGED channel, fetch'["first"] = fetch["first"], fetch'["resync"] = fetch["resync"], NEW r
  PROVE  Owed(r)' <=> Owed(r)
BY DEF Owed

\* Rows are only added, and they are to come.
LEMMA WayServer ==
  ASSUME WayOK, UNCHANGED <<lines, buffered, channel, fetch, missed>>, coming \subseteq coming', DOMAIN rows' \subseteq DOMAIN rows \cup coming'
  PROVE  WayOK'
<1>1. ASSUME NEW r \in DOMAIN rows' PROVE Way(r)'
  <2>1. CASE r \in coming'
    BY <2>1 DEF Way
  <2>2. CASE r \in DOMAIN rows
    BY <2>2 DEF WayOK, Way, Owed, ShownIn
  <2> QED
    BY <2>1, <2>2
<1> QED
  BY <1>1 DEF WayOK

\* What is shown stays shown, or passes by.
LEMMA ShowsWay ==
  ASSUME WayOK, rows' = rows, coming' = coming, buffered' = buffered, UNCHANGED channel,
         fetch'["first"] = fetch["first"], fetch'["resync"] = fetch["resync"],
         PassBy(ShownIn(lines) \ ShownIn(lines')) \/ (missed' = missed /\ ShownIn(lines) \subseteq ShownIn(lines'))
  PROVE  WayOK'
<1>1. missed \subseteq missed' /\ \A r \in ShownIn(lines) \ ShownIn(lines') : Way(r)'
  BY PassedBy
<1>2. \A r : Owed(r) => Way(r)'
  BY OwedRests DEF Way
<1>3. \A r : r \in ShownIn(lines)' => Way(r)'
  BY DEF Way
<1>4. ShownIn(lines)' = ShownIn(lines')
  BY DEF ShownIn
<1>5. \A r : r \in ShownIn(lines) \cup coming \cup buffered => Way(r)'
  BY <1>1, <1>3, <1>4 DEF Way
<1> QED
  BY <1>1, <1>2, <1>5, WayMoves

LEMMA FailsWay ==
  ASSUME PageBase, WayOK, NEW F, NEW c \in {"listening", "backoff", "resync", "stopped"}, Fails(F, c), moved' \in BOOLEAN,
         UNCHANGED <<rows, coming>>, channel \in {"backoff", "stopped"} => c = channel
  PROVE  WayOK'
<1>1. UNCHANGED buffered /\ PassBy(IF "resync" \in F THEN DOMAIN rows ELSE ShownIn(lines) \ ShownIn(lines'))
  BY FailsIs
<1>2. CASE "resync" \in F
  <2>1. PassBy(DOMAIN rows)
    BY <1>1, <1>2
  <2> QED
    BY <2>1, PassedBy DEF WayOK
<1>3. CASE "resync" \notin F
  <2>1. PassBy(ShownIn(lines) \ ShownIn(lines'))
    BY <1>1, <1>3
  <2>2. missed \subseteq missed' /\ \A r \in ShownIn(lines) \ ShownIn(lines') : Way(r)'
    BY <2>1, PassedBy
  <2>3. ShownIn(lines)' = ShownIn(lines')
    BY DEF ShownIn
  <2>4. \A r : r \in ShownIn(lines) \cup coming \cup buffered => Way(r)'
    BY <1>1, <2>2, <2>3 DEF Way
  <2>5. /\ channel' = IF moved' THEN "stopped" ELSE c
        /\ fetch'["resync"] = fetch["resync"]
        /\ fetch'["first"] = IF "first" \notin F THEN fetch["first"] ELSE IF ~moved' THEN Asked ELSE NotFetched
    <3>1. "first" \in Purpose /\ "resync" \in Purpose
      BY DEF Purpose
    <3> QED
      BY <1>3, <3>1, FailsIs
  <2>6. channel' \in {"backoff", "stopped"} => \A r : Owed(r)'
    BY DEF Owed
  <2>7. ASSUME NEW r, Owed(r) PROVE Way(r)'
    <3>1. CASE moved'
      BY <2>5, <2>6, <3>1 DEF Way
    <3>2. CASE ~moved' /\ channel \in {"backoff", "stopped"}
      <4>1. channel' = channel
        BY <2>5, <3>2
      <4> QED
        BY <2>6, <3>2, <4>1 DEF Way
    <3>3. CASE ~moved' /\ channel \notin {"backoff", "stopped"}
      <4>1. PICK p \in {"first", "resync"} : fetch[p].state \in {"asked", "refused"} \/ (fetch[p].state = "read" /\ r <= fetch[p].upto)
        BY <2>7, <3>3 DEF Owed
      <4>2. fetch'[p] = fetch[p] \/ (fetch'[p] = Asked /\ p = "first")
        BY <2>5, <3>3, <4>1
      <4>3. fetch'[p].state \in {"asked", "refused"} \/ (fetch'[p].state = "read" /\ r <= fetch'[p].upto)
        BY <4>1, <4>2, FetchIs
      <4>4. Owed(r)'
        BY <4>1, <4>3 DEF Owed
      <4> QED
        BY <4>4 DEF Way
    <3> QED
      BY <3>1, <3>2, <3>3
  <2> QED
    BY <2>2, <2>4, <2>7, WayMoves
<1> QED
  BY <1>2, <1>3

\* Rows S are merged, and nothing else moves.
LEMMA MergesWay ==
  ASSUME PageBase, WayOK, NEW S, NEW ls, Grown(lines, ls, S), Merges(ls), rows' = rows, UNCHANGED channel,
         fetch'["first"] = fetch["first"], fetch'["resync"] = fetch["resync"],
         coming \subseteq coming' \cup S, buffered \subseteq buffered' \cup S
  PROVE  WayOK' /\ \A r \in S : r \in ShownIn(lines)'
<1>1. lines' = ls /\ PassBy(ShownIn(lines) \ ShownIn(ls))
  BY MergesIs, ViewFacts
<1>2. ShownIn(ls) = ShownIn(lines) \cup S
  BY DEF Grown
<1>3. ShownIn(lines)' = ShownIn(lines) \cup S
  BY <1>1, <1>2 DEF ShownIn
<1>4. missed \subseteq missed'
  BY <1>1, PassedBy
<1>5. \A r : r \in ShownIn(lines)' \cup coming' \cup buffered' => Way(r)'
  BY DEF Way
<1>6. \A r : r \in ShownIn(lines) \cup coming \cup buffered => Way(r)'
  BY <1>3, <1>5
<1>7. \A r : Owed(r) => Way(r)'
  BY OwedRests DEF Way
<1> QED
  BY <1>3, <1>4, <1>6, <1>7, WayMoves

LEMMA ServerWay == ASSUME PageFits, WayOK, OthersSpeak \/ \E s \in Stream : Runs(s) PROVE WayOK'
<1>1. UNCHANGED <<lines, buffered, channel, fetch, missed>>
  BY DEF OthersSpeak, Runs, viewVars, ghostVars
<1>2. (\E sort \in RowKind : Persist(sort)) \/ UNCHANGED <<rows, coming>>
  <2>1. CASE OthersSpeak
    BY <2>1 DEF OthersSpeak, RowKind
  <2>2. CASE \E s \in Stream : Runs(s)
    <3>1. PICK s \in Stream : Begins(s) \/ Persists(s) \/ SkipsTranscript(s) \/ Unheard(s)
      BY <2>2 DEF Runs
    <3>2. "typed" \in RowKind /\ "companion" \in RowKind /\ "file" \in RowKind
      BY DEF RowKind
    <3> QED
      BY <3>1, <3>2 DEF Begins, Persists, SkipsTranscript, Unheard
  <2> QED
    BY <2>1, <2>2
<1>3. coming \subseteq coming' /\ DOMAIN rows' \subseteq DOMAIN rows \cup coming'
  <2>1. ASSUME NEW sort \in RowKind, Persist(sort) PROVE coming \subseteq coming' /\ DOMAIN rows' \subseteq DOMAIN rows \cup coming'
    BY <2>1, FitsFacts, BaseFacts, PersistKeeps
  <2> QED
    BY <1>2, <2>1
<1> QED
  BY <1>1, <1>3, WayServer

LEMMA LosesEventWay == ASSUME PageFits, WayOK, NEW r \in coming, LosesEvent(r) PROVE WayOK'
<1>1. /\ coming' = coming \ {r} /\ UNCHANGED <<rows, lines, channel, buffered, fetch>> /\ PassBy({r})
  BY DEF LosesEvent, viewVars
<1>2. missed \subseteq missed' /\ Way(r)'
  BY <1>1, PassedBy
<1>3. ShownIn(lines)' = ShownIn(lines)
  BY <1>1 DEF ShownIn
<1>4. \A q : q \in ShownIn(lines) \cup coming \cup buffered => Way(q)'
  BY <1>1, <1>2, <1>3 DEF Way
<1>5. \A q : Owed(q) => Way(q)'
  BY <1>1, OwedRests DEF Way
<1> QED
  BY <1>1, <1>2, <1>4, <1>5, WayMoves

LEMMA ListsMessagesWay == ASSUME PageFits, WayOK, NEW p \in Purpose, ListsMessages(p) PROVE WayOK'
<1>1. /\ fetch[p].state = "asked" /\ UNCHANGED <<rows, coming, lines, channel, buffered, missed>>
      /\ \/ fetch' = [fetch EXCEPT ![p] = [state |-> "read", upto |-> Len(rows)]]
         \/ fetch' = [fetch EXCEPT ![p].state = "refused"]
  BY DEF ListsMessages, serverVars, ghostVars
<1>2. /\ \A q \in Purpose : q # p => fetch'[q] = fetch[q]
      /\ fetch'[p].state = "refused" \/ (fetch'[p].state = "read" /\ fetch'[p].upto = Len(rows))
  <2>1. fetch \in [Purpose -> Fetch] /\ fetch[p] \in Fetch
    BY FitsFacts, ViewFacts
  <2>2. CASE fetch' = [fetch EXCEPT ![p] = [state |-> "read", upto |-> Len(rows)]]
    BY <2>1, <2>2
  <2>3. CASE fetch' = [fetch EXCEPT ![p].state = "refused"]
    BY <2>1, <2>3 DEF Fetch
  <2> QED
    BY <1>1, <2>2, <2>3
<1>3. ASSUME NEW r \in DOMAIN rows, Owed(r) PROVE Owed(r)'
  <2>1. CASE channel \in {"backoff", "stopped"}
    BY <1>1, <2>1 DEF Owed
  <2>2. CASE channel \notin {"backoff", "stopped"}
    <3>1. PICK q \in {"first", "resync"} : fetch[q].state \in {"asked", "refused"} \/ (fetch[q].state = "read" /\ r <= fetch[q].upto)
      BY <1>3, <2>2 DEF Owed
    <3>2. q \in Purpose /\ r <= Len(rows)
      BY FitsFacts, ViewFacts DEF Purpose
    <3>3. fetch'[q].state \in {"asked", "refused"} \/ (fetch'[q].state = "read" /\ r <= fetch'[q].upto)
      BY <1>2, <3>1, <3>2
    <3> QED
      BY <3>1, <3>3 DEF Owed
  <2> QED
    BY <2>1, <2>2
<1>4. ShownIn(lines)' = ShownIn(lines)
  BY <1>1 DEF ShownIn
<1>5. \A r : r \in ShownIn(lines) \cup coming \cup buffered => Way(r)'
  BY <1>1, <1>4 DEF Way
<1>6. \A r \in DOMAIN rows : Owed(r) => Way(r)'
  BY <1>3 DEF Way
<1> QED
  BY <1>1, <1>5, <1>6, WayMoves

LEMMA UserWay == ASSUME PageFits, WayOK, UserStep PROVE WayOK'
<1>1. CASE \E s \in Stream : SendCurrentInput(s) \/ OnAttach(s) \/ OnConfirmProposal(s)
  <2>1. UNCHANGED <<rows, coming, buffered, channel, fetch, missed>>
    BY <1>1 DEF SendCurrentInput, OnAttach, OnConfirmProposal, ghostVars
  <2>2. ShownIn(lines') = ShownIn(lines)
    <3>1. CASE \E s \in Stream : SendCurrentInput(s)
      <4>1. lines' = lines \o <<Optimistic(TRUE, FALSE), Optimistic(FALSE, FALSE)>>
        BY <3>1 DEF SendCurrentInput
      <4> QED
        BY <4>1, FitsFacts, SendShows
    <3>2. CASE \E s \in Stream : OnAttach(s)
      <4>1. lines' = Append(lines, Optimistic(TRUE, TRUE))
        BY <3>2 DEF OnAttach
      <4> QED
        BY <4>1, FitsFacts, OneShows
    <3>3. CASE \E s \in Stream : OnConfirmProposal(s)
      <4>1. lines' = Append(lines, Optimistic(FALSE, FALSE))
        BY <3>3 DEF OnConfirmProposal
      <4> QED
        BY <4>1, FitsFacts, OneShows
    <3> QED
      BY <1>1, <3>1, <3>2, <3>3
  <2> QED
    BY <2>1, <2>2, ShowsWay
<1>2. CASE OnReturn
  <2>1. /\ UNCHANGED <<rows, coming, buffered, channel, lines, missed>> /\ fetch' = [fetch EXCEPT !["refresh"] = Asked]
    BY <1>2 DEF OnReturn, ghostVars
  <2>2. fetch'["first"] = fetch["first"] /\ fetch'["resync"] = fetch["resync"]
    BY <2>1, FitsFacts, ViewFacts
  <2>3. ShownIn(lines) \subseteq ShownIn(lines')
    BY <2>1
  <2> QED
    BY <2>1, <2>2, <2>3, ShowsWay
<1>3. CASE OnMoveHere
  <2>1. fetch' = [fetch EXCEPT !["first"] = Asked] /\ rows' = rows /\ "first" \in Purpose
    BY <1>3 DEF OnMoveHere, serverVars, Purpose
  <2>2. fetch'["first"].state = "asked"
    BY <2>1, FitsFacts, ViewFacts, FetchIs
  <2>3. \A r : Owed(r)'
    BY <2>2 DEF Owed
  <2> QED
    BY <2>1, <2>3 DEF WayOK, Way
<1> QED
  BY <1>1, <1>2, <1>3 DEF UserStep

LEMMA SocketWay ==
  ASSUME PageFits, WayOK,
         \/ Connects \/ ConnectFails \/ (\E taken \in BOOLEAN : LosesSocket(taken))
         \/ (\E s \in Stream : Put(s)) \/ \E p \in Purpose : OnRefused(p)
  PROVE  WayOK'
<1>1. CASE Connects
  <2>1. rows' = rows /\ PassBy(DOMAIN rows)
    BY <1>1, FitsFacts, ConnectsIs
  <2> QED
    BY <2>1, PassedBy DEF WayOK
<1>2. PICK b \in {"listening", "backoff", "resync", "stopped"} : b = channel
  BY FitsFacts, ViewFacts
<1>3. moved \in BOOLEAN
  BY FitsFacts, ViewFacts
<1>4. CASE ConnectFails
  <2>1. UNCHANGED <<rows, coming, up, moved>>
    BY <1>4, FitsFacts, ConnectFailsIs
  <2>2. CASE channel = "listening" /\ Fails({}, "backoff")
    BY <1>3, <2>1, <2>2, FitsFacts, FailsWay
  <2>3. CASE \E p \in Purpose : Fails({p}, channel)
    <3>1. PICK p \in Purpose : Fails({p}, b)
      BY <1>2, <2>3
    <3> QED
      BY <1>2, <1>3, <2>1, <3>1, FitsFacts, FailsWay
  <2>4. CASE \E s \in Stream : Fails({s}, channel)
    <3>1. PICK s \in Stream : Fails({s}, b)
      BY <1>2, <2>4
    <3> QED
      BY <1>2, <1>3, <2>1, <3>1, FitsFacts, FailsWay
  <2> QED
    BY <1>4, <2>2, <2>3, <2>4, FitsFacts, ConnectFailsIs
<1>5. CASE \E taken \in BOOLEAN : LosesSocket(taken)
  <2>1. PICK taken \in BOOLEAN : LosesSocket(taken)
    BY <1>5
  <2>2. PICK F : F = InFlight
    OBVIOUS
  <2>3. PICK c \in {"listening", "backoff", "resync", "stopped"} : c = IF channel = "listening" THEN "backoff" ELSE channel
    BY <1>2
  <2>4. Fails(F, c) /\ moved' \in BOOLEAN /\ UNCHANGED <<rows, coming>>
    BY <2>1, <2>2, <2>3, FitsFacts, LosesSocketIs
  <2> QED
    BY <2>3, <2>4, FitsFacts, FailsWay
<1>6. CASE \E s \in Stream : Put(s)
  <2>1. PICK s \in Stream : Put(s)
    BY <1>6
  <2>2. UNCHANGED <<rows, coming, moved>>
    BY <2>1, FitsFacts, PutIs
  <2>3. CASE UNCHANGED <<lines, channel, buffered, fetch, missed>>
    <3>1. ShownIn(lines) \subseteq ShownIn(lines')
      BY <2>3
    <3> QED
      BY <2>2, <2>3, <3>1, ShowsWay
  <2>4. CASE Fails({s}, channel)
    <3>1. Fails({s}, b)
      BY <1>2, <2>4
    <3> QED
      BY <1>2, <1>3, <2>2, <3>1, FitsFacts, FailsWay
  <2> QED
    BY <2>1, <2>3, <2>4, FitsFacts, PutIs
<1>7. CASE \E p \in Purpose : OnRefused(p)
  <2>1. PICK p \in Purpose : OnRefused(p)
    BY <1>7
  <2>2. UNCHANGED <<rows, coming, moved>> /\ Fails({p}, b)
    BY <1>2, <2>1 DEF OnRefused, serverVars
  <2> QED
    BY <1>2, <1>3, <2>2, FitsFacts, FailsWay
<1> QED
  BY <1>1, <1>4, <1>5, <1>6, <1>7

LEMMA HookWay ==
  ASSUME PageFits, WayOK, BackoffEnds \/ Flush \/ \E r \in coming : OnEvent(r)
  PROVE  WayOK'
<1>1. CASE BackoffEnds
  <2>1. fetch' = [fetch EXCEPT !["resync"] = Asked] /\ rows' = rows /\ "resync" \in Purpose
    BY <1>1 DEF BackoffEnds, serverVars, Purpose
  <2>2. fetch'["resync"].state = "asked"
    BY <2>1, FitsFacts, ViewFacts, FetchIs
  <2>3. \A r : Owed(r)'
    BY <2>2 DEF Owed
  <2> QED
    BY <2>1, <2>3 DEF WayOK, Way
<1>2. CASE Flush
  <2>1. PICK S : S = buffered
    OBVIOUS
  <2>2. PICK ls : Grown(lines, ls, S) /\ Merges(ls)
    BY <1>2, <2>1, FitsFacts, FlushIs
  <2>3. UNCHANGED <<rows, coming, channel, fetch>> /\ buffered' = {}
    BY <1>2, FitsFacts, FlushIs
  <2> QED
    BY <2>1, <2>2, <2>3, FitsFacts, MergesWay
<1>3. CASE \E r \in coming : OnEvent(r)
  <2>1. PICK r \in coming : OnEvent(r)
    BY <1>3
  <2>2. coming' = coming \ {r} /\ UNCHANGED <<rows, channel, fetch>>
    BY <2>1, FitsFacts, OnEventIs
  <2>3. CASE buffered' = buffered \cup {r} /\ UNCHANGED <<lines, missed, clean>>
    <3>1. ShownIn(lines)' = ShownIn(lines)
      BY <2>3 DEF ShownIn
    <3>2. \A q : q \in ShownIn(lines) \cup coming \cup buffered => Way(q)'
      BY <2>2, <2>3, <3>1 DEF Way
    <3>3. \A q : Owed(q) => Way(q)'
      BY <2>2, OwedRests DEF Way
    <3> QED
      BY <2>2, <2>3, <3>2, <3>3, WayMoves
  <2>4. CASE buffered' = {} /\ \E ls : Grown(lines, ls, buffered \cup {r}) /\ Merges(ls)
    <3>1. PICK S : S = buffered \cup {r}
      OBVIOUS
    <3>2. PICK ls : Grown(lines, ls, S) /\ Merges(ls)
      BY <2>4, <3>1
    <3> QED
      BY <2>2, <2>4, <3>1, <3>2, FitsFacts, MergesWay
  <2>5. CASE UNCHANGED <<lines, buffered, clean>> /\ PassBy({r})
    <3>1. missed \subseteq missed' /\ Way(r)'
      BY <2>5, PassedBy
    <3>2. ShownIn(lines)' = ShownIn(lines)
      BY <2>5 DEF ShownIn
    <3>3. \A q : q \in ShownIn(lines) \cup coming \cup buffered => Way(q)'
      BY <2>2, <2>5, <3>1, <3>2 DEF Way
    <3>4. \A q : Owed(q) => Way(q)'
      BY <2>2, OwedRests DEF Way
    <3> QED
      BY <2>2, <3>1, <3>3, <3>4, WayMoves
  <2> QED
    BY <2>1, <2>3, <2>4, <2>5, FitsFacts, OnEventIs
<1> QED
  BY <1>1, <1>2, <1>3

LEMMA OnSnapshotWay == ASSUME PageFits, WayOK, NEW p \in Purpose, OnSnapshot(p) PROVE WayOK'
<1>1. /\ fetch[p].state = "read" /\ fetch' = [fetch EXCEPT ![p] = NotFetched]
      /\ channel' = (IF p = "resync" THEN "listening" ELSE channel)
      /\ UNCHANGED <<rows, coming, buffered>>
  BY FitsFacts, OnSnapshotIs
<1>2. \A q \in Purpose : q # p => fetch'[q] = fetch[q]
  BY <1>1, FitsFacts, ViewFacts
<1>3. p = "resync" => channel = "resync"
  BY <1>1, FitsFacts, FetchIs DEF ChannelFits
<1>4. CASE p = "reload"
  <2>1. PassBy(ShownIn(lines) \ ShownIn(lines')) /\ channel' = channel
    BY <1>1, <1>4, FitsFacts, OnSnapshotIs
  <2>2. fetch'["first"] = fetch["first"] /\ fetch'["resync"] = fetch["resync"]
    BY <1>2, <1>4, PurposeIs
  <2> QED
    BY <1>1, <2>1, <2>2, ShowsWay
<1>5. CASE p # "reload"
  <2>1. PICK S : S = 1..fetch[p].upto
    OBVIOUS
  <2>2. PICK ls : Grown(lines, ls, S) /\ Merges(ls)
    BY <1>5, <2>1, FitsFacts, OnSnapshotIs
  <2>3. lines' = ls /\ PassBy(ShownIn(lines) \ ShownIn(ls))
    BY <2>2, MergesIs, FitsFacts, ViewFacts
  <2>4. ShownIn(lines)' = ShownIn(lines) \cup S
    BY <2>2, <2>3 DEF Grown, ShownIn
  <2>5. missed \subseteq missed'
    BY <2>3, PassedBy
  <2>6. \A r : r \in ShownIn(lines) \cup S \cup coming \cup buffered => Way(r)'
    BY <1>1, <2>4 DEF Way
  <2>7. ASSUME NEW r \in DOMAIN rows, Owed(r) PROVE Way(r)'
    <3>1. CASE channel \in {"backoff", "stopped"}
      <4>1. channel' \in {"backoff", "stopped"}
        BY <1>1, <1>3, <3>1
      <4> QED
        BY <4>1 DEF Way, Owed
    <3>2. CASE channel \notin {"backoff", "stopped"}
      <4>1. PICK q \in {"first", "resync"} : fetch[q].state \in {"asked", "refused"} \/ (fetch[q].state = "read" /\ r <= fetch[q].upto)
        BY <2>7, <3>2 DEF Owed
      <4>2. q \in Purpose /\ r \in Nat /\ r # 0
        BY FitsFacts, BaseFacts, RowFacts DEF Purpose
      <4>3. CASE q # p
        <5>1. fetch'[q] = fetch[q]
          BY <1>2, <4>2, <4>3
        <5> QED
          BY <4>1, <5>1 DEF Way, Owed
      <4>4. CASE q = p
        <5>1. r <= fetch[p].upto /\ fetch[p].upto \in Nat
          BY <1>1, <4>1, <4>4, FitsFacts, ViewFacts, ChatConstants DEF Fetch
        <5>2. r \in S
          BY <2>1, <4>2, <5>1
        <5> QED
          BY <2>6, <5>2
      <4> QED
        BY <4>3, <4>4
    <3> QED
      BY <3>1, <3>2
  <2> QED
    BY <1>1, <2>5, <2>6, <2>7, WayMoves
<1> QED
  BY <1>4, <1>5

LEMMA OnStreamWay == ASSUME PageFits, WayOK, NEW s \in Stream, OnStream(s) PROVE WayOK'
<1>1. UNCHANGED <<rows, coming, up, ready, moved, buffered, happened>> /\ moved' \in BOOLEAN
  BY FitsFacts, OnStreamIs, ViewFacts
<1>2. PICK type \in Chunks(s) :
        \/ OnTurn(s, type, streams[s].row) \/ OnTurnEnd(s, type)
        \/ OnGreeting(s, type, streams[s].row) \/ OnAdded(s, type, streams[s].row)
        \/ type = "fail" /\ Fails({s}, channel)
  BY FitsFacts, OnStreamIs
<1>3. CASE OnTurn(s, type, streams[s].row)
  <2>1. UNCHANGED <<channel, fetch>> /\ PassBy(ShownIn(lines) \ ShownIn(lines'))
    BY <1>3, OnTurnIs
  <2> QED
    BY <1>1, <2>1, ShowsWay
<1>4. CASE OnTurnEnd(s, type)
  <2>1. UNCHANGED <<channel, lines, missed>> /\ (UNCHANGED fetch \/ fetch' = [fetch EXCEPT !["reload"] = Asked])
    BY <1>4 DEF OnTurnEnd, ghostVars
  <2>2. fetch'["first"] = fetch["first"] /\ fetch'["resync"] = fetch["resync"]
    <3>1. CASE fetch' = [fetch EXCEPT !["reload"] = Asked]
      BY <3>1, FitsFacts, ViewFacts
    <3> QED
      BY <2>1, <3>1
  <2>3. ShownIn(lines) \subseteq ShownIn(lines')
    BY <2>1
  <2> QED
    BY <1>1, <2>1, <2>2, <2>3, ShowsWay
<1>5. CASE OnGreeting(s, type, streams[s].row)
  <2>1. UNCHANGED <<channel, fetch>>
    BY <1>5, FitsFacts, OnGreetingIs
  <2>2. CASE UNCHANGED <<lines, missed, clean>>
    <3>1. ShownIn(lines) \subseteq ShownIn(lines')
      BY <2>2
    <3> QED
      BY <1>1, <2>1, <2>2, <3>1, ShowsWay
  <2>3. CASE \E ls : Grown(lines, ls, {streams[s].row}) /\ Merges(ls)
    <3>1. PICK S : S = {streams[s].row}
      OBVIOUS
    <3>2. PICK ls : Grown(lines, ls, S) /\ Merges(ls)
      BY <2>3, <3>1
    <3>3. coming \subseteq coming' \cup S /\ buffered \subseteq buffered' \cup S
      BY <1>1
    <3> QED
      BY <1>1, <2>1, <3>2, <3>3, FitsFacts, MergesWay
  <2> QED
    BY <1>5, <2>2, <2>3, FitsFacts, OnGreetingIs
<1>6. CASE OnAdded(s, type, streams[s].row)
  <2>1. UNCHANGED <<channel, fetch>> /\ PassBy(ShownIn(lines) \ ShownIn(lines'))
    BY <1>6, FitsFacts, OnAddedIs
  <2> QED
    BY <1>1, <2>1, ShowsWay
<1>7. CASE Fails({s}, channel)
  <2>1. PICK b \in {"listening", "backoff", "resync", "stopped"} : b = channel
    BY FitsFacts, ViewFacts
  <2>2. Fails({s}, b)
    BY <1>7, <2>1
  <2> QED
    BY <1>1, <2>1, <2>2, FitsFacts, FailsWay
<1> QED
  BY <1>2, <1>3, <1>4, <1>5, <1>6, <1>7

LEMMA StutterWay == ASSUME PageFits, WayOK, UNCHANGED chatVars PROVE WayOK'
<1>1. UNCHANGED <<rows, coming, lines, channel, buffered, fetch, missed>>
  BY DEF chatVars, serverVars, viewVars, ghostVars
<1>2. ShownIn(lines) \subseteq ShownIn(lines')
  BY <1>1
<1> QED
  BY <1>1, <1>2, ShowsWay

LEMMA StepWay == ASSUME PageFits, WayOK, [ChatNext]_chatVars PROVE WayOK'
<1>1. CASE \/ OthersSpeak \/ \E s \in Stream : Runs(s)
  BY <1>1, ServerWay
<1>2. CASE \E r \in coming : OnEvent(r) \/ LosesEvent(r)
  BY <1>2, HookWay, LosesEventWay
<1>3. CASE \E p \in Purpose : ListsMessages(p) \/ OnSnapshot(p) \/ OnRefused(p)
  BY <1>3, ListsMessagesWay, OnSnapshotWay, SocketWay
<1>4. CASE \E s \in Stream : Put(s) \/ OnStream(s)
  BY <1>4, SocketWay, OnStreamWay
<1>5. CASE UserStep \/ Connects \/ ConnectFails \/ (\E taken \in BOOLEAN : LosesSocket(taken)) \/ BackoffEnds \/ Flush
  BY <1>5, UserWay, SocketWay, HookWay
<1>6. CASE UNCHANGED chatVars
  BY <1>6, StutterWay
<1> QED
  BY <1>1, <1>2, <1>3, <1>4, <1>5, <1>6 DEF ChatNext

LEMMA InitWay == ASSUME ChatInit PROVE WayOK
<1>1. rows = << >> /\ DOMAIN << >> = {}
  BY DEF ChatInit
<1> QED
  BY <1>1 DEF WayOK

\* Once nothing is on its way every row is shown, or passed by.
LEMMA QuietShows == ASSUME WayOK, Quiet PROVE DOMAIN rows \ missed \subseteq ShownIn(lines)
<1>1. channel = "listening" /\ coming = {} /\ buffered = {} /\ fetch["first"] = NotFetched /\ fetch["resync"] = NotFetched
  BY PurposeIs DEF Quiet
<1>2. \A r : ~Owed(r)
  BY <1>1, FetchIs DEF Owed
<1> QED
  BY <1>1, <1>2 DEF WayOK, Way

-----------------------------------------------------------------------------
(* The lines a page without failures shows *)

\* The bubble of a reply that streams; a chip.
IsBubble(l) == l.id = 0 /\ ~l.user /\ ~l.file

\* The lines ls, where the bubble of a turn is open; a turn is busy; it brought
\* steps or proposals (deep); a file is being added.
Shape(ls, open, busy, deep, adding) ==
  /\ Distinct(ls)
  /\ ~(busy /\ adding)
  /\ open => busy /\ ls # << >> /\ IsBubble(ls[Len(ls)])
  /\ adding => ls # << >> /\ ls[Len(ls)].file /\ ls[Len(ls)].user
  /\ \A i \in DOMAIN ls : ls[i].id = 0 /\ ~ls[i].user => busy /\ (open => i = Len(ls)) /\ (~open => deep)
  /\ \A i \in DOMAIN ls : ls[i].id = 0 /\ ls[i].file => adding /\ i = Len(ls)

LEMMA Places ==
  ASSUME NEW n \in Nat, NEW m \in Nat
  PROVE  /\ \A i \in 1..n : i = n \/ (i # n /\ i \in 1..(n - 1))
         /\ \A i \in 1..(n + 1) : i = n + 1 \/ i = n \/ i \in 1..(n - 1)
         /\ \A i \in 1..(n - 1) : i \in 1..n /\ i # n
         /\ \A i \in 1..m : i \in 1..n \/ i > n
         /\ \A i \in 1..(n + 2) : i \in 1..n \/ i = n + 1 \/ i = n + 2
OBVIOUS

\* A line grows no more than its id, and the last one not at all when it is
\* the bubble.
LEMMA GrownLine ==
  ASSUME RowsTyped, NEW ls \in Seq(Line), NEW ms, NEW S \in SUBSET DOMAIN rows, Grown(ls, ms, S), NEW i \in DOMAIN ls
  PROVE  /\ i \in DOMAIN ms
         /\ \/ ms[i] = ls[i]
            \/ /\ ls[i].id = 0 /\ ls[i].user /\ ms[i].id # 0 /\ ms[i].id \in S /\ ms[i].user
               /\ rows[ms[i].id] # "companion" /\ ms[i].file = ls[i].file
<1>1. /\ Len(ls) \in Nat /\ DOMAIN ls = 1..Len(ls) /\ Len(ms) \in Nat /\ DOMAIN ms = 1..Len(ms) /\ Len(ms) >= Len(ls)
  BY SeqFacts DEF Grown
<1>2. i \in DOMAIN ms
  BY <1>1
<1>3. ms[i] = ls[i] \/ \E r \in S : EchoOf(ls[i], r) /\ ms[i] = MessageToLine(r)
  BY DEF Grown
<1>4. CASE \E r \in S : EchoOf(ls[i], r) /\ ms[i] = MessageToLine(r)
  <2>1. PICK r \in S : EchoOf(ls[i], r) /\ ms[i] = MessageToLine(r)
    BY <1>4
  <2>2. ms[i].id = r /\ r # 0 /\ ms[i].user = (rows[r] # "companion") /\ ms[i].file = (rows[r] = "file")
    BY <2>1, RowLine
  <2> QED
    BY <1>2, <2>1, <2>2 DEF EchoOf
<1> QED
  BY <1>2, <1>3, <1>4

\* No line of what was typed is added, and no row of it is shown that was not.
LEMMA EchoedKept ==
  ASSUME RowsTyped, NEW ls \in Seq(Line), NEW ms \in Seq(Line),
         \A i \in DOMAIN ms : ms[i].id = 0 /\ ms[i].user /\ ~ms[i].file =>
                               i \in DOMAIN ls /\ ls[i].id = 0 /\ ls[i].user /\ ~ls[i].file,
         \A r \in ShownIn(ms) : r \in ShownIn(ls) \/ rows[r] # "typed"
  PROVE  \A k \in {0, 1} : Echoed(ls, k) => Echoed(ms, k)
<1>1. Typing(ms) \in SUBSET Typing(ls) /\ Unechoed(ls) \in SUBSET Unechoed(ms)
  BY DEF Typing, Unechoed
<1>2. /\ IsFiniteSet(Typing(ls)) /\ IsFiniteSet(Unechoed(ms))
      /\ Cardinality(Typing(ls)) \in Nat /\ Cardinality(Typing(ms)) \in Nat
      /\ Cardinality(Unechoed(ls)) \in Nat /\ Cardinality(Unechoed(ms)) \in Nat
  BY TypingFinite
<1>3. Cardinality(Typing(ms)) <= Cardinality(Typing(ls)) /\ Cardinality(Unechoed(ls)) <= Cardinality(Unechoed(ms))
  BY <1>1, <1>2, FS_Subset
<1> QED
  BY <1>2, <1>3 DEF Echoed

\* One is, and is still to be said.
LEMMA EchoedMore ==
  ASSUME RowsTyped, NEW ls \in Seq(Line), NEW ms \in Seq(Line), NEW n,
         \A i \in DOMAIN ms : ms[i].id = 0 /\ ms[i].user /\ ~ms[i].file =>
                               i = n \/ (i \in DOMAIN ls /\ ls[i].id = 0 /\ ls[i].user /\ ~ls[i].file),
         ShownIn(ms) = ShownIn(ls), Echoed(ls, 0)
  PROVE  Echoed(ms, 1)
<1>1. Typing(ms) \in SUBSET (Typing(ls) \cup {n}) /\ Unechoed(ms) = Unechoed(ls)
  BY DEF Typing, Unechoed
<1>2. /\ IsFiniteSet(Typing(ls)) /\ Cardinality(Typing(ls)) \in Nat /\ Cardinality(Typing(ms)) \in Nat
      /\ Cardinality(Unechoed(ls)) \in Nat
  BY TypingFinite
<1>3. /\ IsFiniteSet(Typing(ls) \cup {n})
      /\ Cardinality(Typing(ls) \cup {n}) = IF n \in Typing(ls) THEN Cardinality(Typing(ls)) ELSE Cardinality(Typing(ls)) + 1
  BY <1>2, FS_AddElement
<1>4. Cardinality(Typing(ms)) <= Cardinality(Typing(ls) \cup {n})
  BY <1>1, <1>3, FS_Subset
<1> QED
  BY <1>1, <1>2, <1>3, <1>4 DEF Echoed

LEMMA ShapeGrown ==
  ASSUME RowsTyped, NEW ls \in Seq(Line), NEW ms, NEW S \in SUBSET DOMAIN rows, Grown(ls, ms, S),
         NEW o \in BOOLEAN, NEW b \in BOOLEAN, NEW d \in BOOLEAN, NEW a \in BOOLEAN,
         Shape(ls, o, b, d, a), o \/ a => Len(ms) = Len(ls)
  PROVE  Shape(ms, o, b, d, a)
<1>1. /\ ms \in Seq(Line) /\ Len(ls) \in Nat /\ DOMAIN ls = 1..Len(ls) /\ Len(ms) \in Nat /\ DOMAIN ms = 1..Len(ms) /\ Len(ms) >= Len(ls)
      /\ ls # << >> => Len(ls) \in DOMAIN ls
  BY SeqFacts DEF Grown
<1>2. \A i \in DOMAIN ls :
        /\ i \in DOMAIN ms
        /\ \/ ms[i] = ls[i]
           \/ /\ ls[i].id = 0 /\ ls[i].user /\ ms[i].id # 0 /\ ms[i].user
              /\ ms[i].file = ls[i].file
  BY GrownLine
<1>3. \A i \in DOMAIN ms : i \in DOMAIN ls \/ ms[i].id # 0
  <2>1. \A i \in DOMAIN ms : i \in DOMAIN ls \/ i > Len(ls)
    BY <1>1, Places
  <2> QED
    BY <2>1 DEF Grown
<1>4. Distinct(ms)
  BY DEF Shape, Grown
<1>5. ls # << >> => ms # << >>
  <2>1. DOMAIN << >> = {}
    OBVIOUS
  <2> QED
    BY <1>1, <1>2, <2>1
<1>6. \A i \in DOMAIN ms : ms[i].id = 0 => i \in DOMAIN ls /\ ms[i] = ls[i]
  BY <1>2, <1>3
<1>7. \A i \in DOMAIN ms : ms[i].id = 0 /\ ~ms[i].user => b /\ (o => i = Len(ms)) /\ (~o => d)
  BY <1>6 DEF Shape
<1>8. \A i \in DOMAIN ms : ms[i].id = 0 /\ ms[i].file => a /\ i = Len(ms)
  BY <1>6 DEF Shape
<1>9. o => ms # << >> /\ IsBubble(ms[Len(ms)])
  BY <1>1, <1>2, <1>5 DEF Shape, IsBubble
<1>10. a => ms # << >> /\ ms[Len(ms)].file /\ ms[Len(ms)].user
  BY <1>1, <1>2, <1>5 DEF Shape
<1> QED
  BY <1>4, <1>7, <1>8, <1>9, <1>10 DEF Shape

LEMMA ShapeSend ==
  ASSUME RowsTyped, NEW ls \in Seq(Line), NEW c \in BOOLEAN, Shape(ls, FALSE, FALSE, c, FALSE), NEW d \in BOOLEAN, Echoed(ls, 0)
  PROVE  LET ms == ls \o <<Optimistic(TRUE, FALSE), Optimistic(FALSE, FALSE)>>
         IN  Shape(ms, TRUE, TRUE, d, FALSE) /\ Echoed(ms, 1)
<1> DEFINE k == Optimistic(TRUE, FALSE)
           l == Optimistic(FALSE, FALSE)
           ms == ls \o <<k, l>>
<1>1. /\ k \in Line /\ k.id = 0 /\ k.user /\ ~k.file
      /\ l \in Line /\ l.id = 0 /\ ~l.user /\ ~l.file
  BY OptimisticIs
<1> HIDE DEF k, l
<1>2. /\ ms \in Seq(Line) /\ Len(ms) = Len(ls) + 2 /\ Len(ls) \in Nat
      /\ \A i \in 1..Len(ls) : ms[i] = ls[i]
      /\ ms[Len(ls) + 1] = k /\ ms[Len(ls) + 2] = l
  BY <1>1, TwoMore
<1> HIDE DEF ms
<1>3. DOMAIN ls = 1..Len(ls) /\ DOMAIN ms = 1..Len(ms) /\ ms # << >>
  BY <1>2, SeqFacts
<1>4. \A i \in DOMAIN ms : \/ i \in DOMAIN ls /\ ms[i] = ls[i]
                           \/ i = Len(ls) + 1 /\ ms[i] = k
                           \/ i = Len(ms) /\ ms[i] = l
  <2>1. \A i \in DOMAIN ms : i \in 1..Len(ls) \/ i = Len(ls) + 1 \/ i = Len(ls) + 2
    BY <1>2, <1>3, Places
  <2> QED
    BY <1>2, <1>3, <2>1
<1>5. Distinct(ms)
  BY <1>1, <1>4 DEF Distinct, Shape
<1>6. \A i \in DOMAIN ms : ms[i].id = 0 /\ ~ms[i].user => i = Len(ms)
  BY <1>1, <1>4 DEF Shape
<1>7. \A i \in DOMAIN ms : ~(ms[i].id = 0 /\ ms[i].file)
  BY <1>1, <1>4 DEF Shape
<1>8. IsBubble(ms[Len(ms)])
  BY <1>1, <1>2 DEF IsBubble
<1>9. Shape(ms, TRUE, TRUE, d, FALSE)
  BY <1>3, <1>5, <1>6, <1>7, <1>8 DEF Shape
<1>10. ShownIn(ms) = ShownIn(ls)
  <2>1. ShownIn(ls \o <<k, l>>) = ShownIn(ls) \cup ({k.id, l.id} \ {0})
    BY <1>1, TwoShown
  <2> QED
    BY <1>1, <2>1 DEF ms
<1>11. Echoed(ms, 1)
  <2> DEFINE n == Len(ls) + 1
  <2>1. \A i \in DOMAIN ms : ms[i].id = 0 /\ ms[i].user /\ ~ms[i].file =>
          i = n \/ (i \in DOMAIN ls /\ ls[i].id = 0 /\ ls[i].user /\ ~ls[i].file)
    BY <1>1, <1>4
  <2> HIDE DEF n
  <2> QED
    BY <1>2, <1>10, <2>1, EchoedMore
<1> QED
  BY <1>9, <1>11 DEF ms, k, l

LEMMA ShapeOne ==
  ASSUME RowsTyped, NEW ls \in Seq(Line), NEW c \in BOOLEAN, Shape(ls, FALSE, FALSE, c, FALSE), Echoed(ls, 0)
  PROVE  /\ Shape(Append(ls, Optimistic(TRUE, TRUE)), FALSE, FALSE, c, TRUE)
         /\ Shape(Append(ls, Optimistic(FALSE, FALSE)), TRUE, TRUE, TRUE, FALSE)
         /\ Echoed(Append(ls, Optimistic(TRUE, TRUE)), 0) /\ Echoed(Append(ls, Optimistic(FALSE, FALSE)), 0)
<1>1. ASSUME NEW u \in BOOLEAN
      PROVE  /\ u => Shape(Append(ls, Optimistic(u, u)), FALSE, FALSE, c, TRUE)
             /\ ~u => Shape(Append(ls, Optimistic(u, u)), TRUE, TRUE, TRUE, FALSE)
             /\ Echoed(Append(ls, Optimistic(u, u)), 0)
  <2> DEFINE l == Optimistic(u, u)
             ms == Append(ls, l)
  <2>1. l \in Line /\ l.id = 0 /\ l.user = u /\ l.file = u
    BY OptimisticIs
  <2> HIDE DEF l
  <2>2. /\ ms \in Seq(Line) /\ Len(ms) = Len(ls) + 1 /\ Len(ls) \in Nat
        /\ \A i \in 1..Len(ls) : ms[i] = ls[i]
        /\ ms[Len(ls) + 1] = l
    BY <2>1, OneMore
  <2> HIDE DEF ms
  <2>3. DOMAIN ls = 1..Len(ls) /\ DOMAIN ms = 1..Len(ms) /\ ms # << >>
    BY <2>2, SeqFacts
  <2>4. \A i \in DOMAIN ms : (i \in DOMAIN ls /\ ms[i] = ls[i]) \/ (i = Len(ms) /\ ms[i] = l)
    BY <2>2, <2>3
  <2>5. Distinct(ms)
    BY <2>1, <2>4 DEF Distinct, Shape
  <2>6. \A i \in DOMAIN ms : ms[i].id = 0 /\ ~ms[i].user => ~u /\ i = Len(ms)
    BY <2>1, <2>4 DEF Shape
  <2>7. \A i \in DOMAIN ms : ms[i].id = 0 /\ ms[i].file => u /\ i = Len(ms)
    BY <2>1, <2>4 DEF Shape
  <2>8. u => Shape(ms, FALSE, FALSE, c, TRUE)
    BY <2>1, <2>2, <2>3, <2>5, <2>6, <2>7 DEF Shape
  <2>9. ~u => Shape(ms, TRUE, TRUE, TRUE, FALSE)
    <3>1. ~u => IsBubble(ms[Len(ms)])
      BY <2>1, <2>2 DEF IsBubble
    <3> QED
      BY <2>3, <2>5, <2>6, <2>7, <3>1 DEF Shape
  <2>10. ShownIn(ms) = ShownIn(ls)
    <3>1. ShownIn(Append(ls, l)) = ShownIn(ls) \cup ({l.id} \ {0})
      BY <2>1, OneShown
    <3> QED
      BY <2>1, <3>1 DEF ms
  <2>11. Echoed(ms, 0)
    <3>1. \A i \in DOMAIN ms : ms[i].id = 0 /\ ms[i].user /\ ~ms[i].file =>
            i \in DOMAIN ls /\ ls[i].id = 0 /\ ls[i].user /\ ~ls[i].file
      BY <2>1, <2>4
    <3> QED
      BY <2>2, <2>10, <3>1, EchoedKept
  <2> QED
    BY <2>8, <2>9, <2>11 DEF ms, l
<1>2. /\ Shape(Append(ls, Optimistic(TRUE, TRUE)), FALSE, FALSE, c, TRUE)
      /\ Echoed(Append(ls, Optimistic(TRUE, TRUE)), 0)
  BY <1>1
<1>3. /\ Shape(Append(ls, Optimistic(FALSE, FALSE)), TRUE, TRUE, TRUE, FALSE)
      /\ Echoed(Append(ls, Optimistic(FALSE, FALSE)), 0)
  BY <1>1
<1> QED
  BY <1>2, <1>3

\* The chip is taken away.
LEMMA ChipDropped ==
  ASSUME NEW ls \in Seq(Line), NEW o \in BOOLEAN, NEW b \in BOOLEAN, NEW d \in BOOLEAN, Shape(ls, o, b, d, TRUE)
  PROVE  /\ DropAttachmentTail(ls) = Front(ls) /\ ls # << >> /\ ~b /\ ~o
         /\ Front(ls) \in Seq(Line) /\ Len(Front(ls)) = Len(ls) - 1 /\ Len(ls) \in Nat
         /\ \A i \in 1..(Len(ls) - 1) : i \in DOMAIN ls /\ i # Len(ls) /\ Front(ls)[i] = ls[i]
         /\ DOMAIN Front(ls) = 1..(Len(ls) - 1) /\ DOMAIN ls = 1..Len(ls) /\ Len(ls) \in DOMAIN ls
         /\ ls[Len(ls)].file /\ ls[Len(ls)].user
<1>1. ls # << >> /\ ls[Len(ls)].file /\ ls[Len(ls)].user /\ ~b /\ ~o
  BY DEF Shape
<1>2. /\ Front(ls) \in Seq(Line) /\ Len(Front(ls)) = Len(ls) - 1
      /\ \A i \in 1..(Len(ls) - 1) : Front(ls)[i] = ls[i]
  BY <1>1, FrontIs
<1>3. Len(ls) \in Nat /\ DOMAIN ls = 1..Len(ls) /\ Last(ls) = ls[Len(ls)] /\ Len(ls) \in DOMAIN ls
  BY <1>1, SeqFacts
<1>4. DOMAIN Front(ls) = 1..(Len(ls) - 1)
  BY <1>2, SeqFacts
<1>5. DropAttachmentTail(ls) = Front(ls)
  BY <1>1, <1>3, DropIs
<1> QED
  BY <1>1, <1>2, <1>3, <1>4, <1>5

LEMMA ShapeDrop ==
  ASSUME RowsTyped, NEW ls \in Seq(Line), NEW o \in BOOLEAN, NEW b \in BOOLEAN, NEW d \in BOOLEAN, Shape(ls, o, b, d, TRUE)
  PROVE  /\ Shape(DropAttachmentTail(ls), o, b, d, FALSE)
         /\ \A k \in {0, 1} : Echoed(ls, k) => Echoed(DropAttachmentTail(ls), k)
<1> DEFINE ms == Front(ls)
<1>1. /\ ~b /\ ~o /\ DropAttachmentTail(ls) = ms /\ ms \in Seq(Line)
      /\ \A i \in DOMAIN ms : i \in DOMAIN ls /\ i # Len(ls) /\ ms[i] = ls[i]
  BY ChipDropped
<1> HIDE DEF ms
<1>2. Distinct(ms)
  BY <1>1 DEF Distinct, Shape
<1>3. \A i \in DOMAIN ms : ~(ms[i].id = 0 /\ ~ms[i].user) /\ ~(ms[i].id = 0 /\ ms[i].file)
  BY <1>1 DEF Shape
<1>4. Shape(ms, o, b, d, FALSE)
  BY <1>1, <1>2, <1>3 DEF Shape
<1>5. \A k \in {0, 1} : Echoed(ls, k) => Echoed(ms, k)
  <2>1. ShownIn(ms) \subseteq ShownIn(ls)
    BY <1>1, DropShown
  <2>2. \A i \in DOMAIN ms : ms[i].id = 0 /\ ms[i].user /\ ~ms[i].file =>
          i \in DOMAIN ls /\ ls[i].id = 0 /\ ls[i].user /\ ~ls[i].file
    BY <1>1
  <2> QED
    BY <1>1, <2>1, <2>2, EchoedKept
<1> QED
  BY <1>1, <1>4, <1>5

\* The chip gives way to the rows of the file and its acknowledgement.
LEMMA ShapeAdded ==
  ASSUME RowsTyped, NEW ls \in Seq(Line), NEW o \in BOOLEAN, NEW b \in BOOLEAN, NEW d \in BOOLEAN, Shape(ls, o, b, d, TRUE),
         NEW q \in DOMAIN rows, NEW r \in DOMAIN rows, rows[q] = "file", rows[r] = "companion",
         \A i \in 1..(Len(ls) - 1) : ls[i].id # q /\ ls[i].id # r
  PROVE  LET ms == DropAttachmentTail(ls) \o <<MessageToLine(q), MessageToLine(r)>>
         IN  /\ Shape(ms, o, b, d, FALSE)
             /\ \A n \in {0, 1} : Echoed(ls, n) => Echoed(ms, n)
<1> DEFINE fs == Front(ls)
           k == MessageToLine(q)
           l == MessageToLine(r)
           ms == fs \o <<k, l>>
<1>1. /\ ~b /\ ~o /\ DropAttachmentTail(ls) = fs /\ fs \in Seq(Line) /\ Len(fs) = Len(ls) - 1
      /\ DOMAIN fs = 1..(Len(ls) - 1)
      /\ \A i \in DOMAIN fs : i \in DOMAIN ls /\ i # Len(ls) /\ fs[i] = ls[i]
  BY ChipDropped
<1>2. k \in Line /\ l \in Line /\ k.id = q /\ l.id = r /\ q # 0 /\ r # 0 /\ q # r
  BY RowLine
<1> HIDE DEF fs, k, l
<1>3. /\ ms \in Seq(Line) /\ Len(ms) = Len(fs) + 2 /\ Len(fs) \in Nat
      /\ \A i \in 1..Len(fs) : ms[i] = fs[i]
      /\ ms[Len(fs) + 1] = k /\ ms[Len(fs) + 2] = l
  BY <1>1, <1>2, TwoMore
<1>4. DOMAIN fs = 1..Len(fs) /\ DOMAIN ms = 1..Len(ms)
  BY <1>1, <1>3, SeqFacts
<1> HIDE DEF ms
<1>5. \A i \in DOMAIN ms : \/ i \in DOMAIN fs /\ ms[i] = fs[i]
                           \/ i = Len(fs) + 1 /\ ms[i] = k
                           \/ i = Len(ms) /\ ms[i] = l
  <2>1. \A i \in DOMAIN ms : i \in 1..Len(fs) \/ i = Len(fs) + 1 \/ i = Len(fs) + 2
    BY <1>3, <1>4, Places
  <2> QED
    BY <1>3, <1>4, <2>1
<1>6. \A i \in DOMAIN fs : fs[i].id # q /\ fs[i].id # r
  BY <1>1
<1>7. \A i, j \in DOMAIN fs : fs[i].id # 0 /\ fs[i].id = fs[j].id => i = j
  BY <1>1 DEF Shape, Distinct
<1>8. Distinct(ms)
  <2>1. ASSUME NEW i \in DOMAIN ms, NEW j \in DOMAIN ms, ms[i].id # 0, ms[i].id = ms[j].id PROVE i = j
    <3>1. CASE i \in DOMAIN fs /\ ms[i] = fs[i]
      BY <1>2, <1>5, <1>6, <1>7, <2>1, <3>1
    <3>2. CASE i = Len(fs) + 1 /\ ms[i] = k
      BY <1>2, <1>5, <1>6, <2>1, <3>2
    <3>3. CASE i = Len(ms) /\ ms[i] = l
      BY <1>2, <1>5, <1>6, <2>1, <3>3
    <3> QED
      BY <1>5, <3>1, <3>2, <3>3
  <2> QED
    BY <2>1 DEF Distinct
<1>9. \A i \in DOMAIN fs : ~(fs[i].id = 0 /\ ~fs[i].user) /\ ~(fs[i].id = 0 /\ fs[i].file)
  BY <1>1 DEF Shape
<1>10. \A i \in DOMAIN ms : ~(ms[i].id = 0 /\ ~ms[i].user) /\ ~(ms[i].id = 0 /\ ms[i].file)
  BY <1>2, <1>5, <1>9
<1>11. Shape(ms, o, b, d, FALSE)
  BY <1>1, <1>8, <1>10 DEF Shape
<1>12. ShownIn(ms) \subseteq ShownIn(ls) \cup {q, r}
  <2>1. ShownIn(fs \o <<k, l>>) = ShownIn(fs) \cup ({k.id, l.id} \ {0})
    BY <1>1, <1>2, TwoShown
  <2>2. ShownIn(fs) \subseteq ShownIn(ls)
    BY <1>1, DropShown
  <2> QED
    BY <1>2, <2>1, <2>2 DEF ms
<1>13. \A n \in {0, 1} : Echoed(ls, n) => Echoed(ms, n)
  <2>1. \A i \in DOMAIN ms : ms[i].id = 0 /\ ms[i].user /\ ~ms[i].file =>
          i \in DOMAIN ls /\ ls[i].id = 0 /\ ls[i].user /\ ~ls[i].file
    BY <1>1, <1>2, <1>5
  <2> QED
    BY <1>3, <1>12, <2>1, EchoedKept, ZenonT(30)
<1> QED
  BY <1>1, <1>11, <1>13 DEF ms, k, l

\* The bubble takes a chunk of the reply.
LEMMA ShapeToken ==
  ASSUME RowsTyped, NEW ls \in Seq(Line), NEW d \in BOOLEAN, NEW a \in BOOLEAN, Shape(ls, TRUE, TRUE, d, a)
  PROVE  /\ Shape(AppendToLast(ls), TRUE, TRUE, d, a)
         /\ \A k \in {0, 1} : Echoed(ls, k) => Echoed(AppendToLast(ls), k)
<1> DEFINE l == [Last(ls) EXCEPT !.blank = FALSE]
           ms == Append(Front(ls), l)
<1>1. ls # << >> /\ ~a
  BY DEF Shape
<1>2. /\ AppendToLast(ls) = ms
      /\ l \in Line /\ l.id = Last(ls).id /\ l.user = Last(ls).user /\ l.file = Last(ls).file
  BY <1>1, AppendToLastIs
<1> HIDE DEF l
<1>3. /\ ms \in Seq(Line) /\ Len(ms) = Len(ls)
      /\ \A i \in 1..(Len(ls) - 1) : ms[i] = ls[i]
      /\ ms[Len(ls)] = l
  BY <1>1, <1>2, LastChanged
<1> HIDE DEF ms
<1>4. /\ Len(ls) \in Nat /\ DOMAIN ls = 1..Len(ls) /\ DOMAIN ms = 1..Len(ls) /\ Last(ls) = ls[Len(ls)] /\ ms # << >>
      /\ Len(ls) \in 1..Len(ls)
  BY <1>1, <1>3, SeqFacts
<1>5. \A i \in DOMAIN ms : i \in DOMAIN ls /\ ms[i].id = ls[i].id /\ ms[i].user = ls[i].user /\ ms[i].file = ls[i].file
  <2>1. \A i \in 1..Len(ls) : i = Len(ls) \/ i \in 1..(Len(ls) - 1)
    BY <1>4, Places
  <2> QED
    BY <1>2, <1>3, <1>4, <2>1
<1>6. Distinct(ms)
  BY <1>4, <1>5 DEF Distinct, Shape
<1>7. IsBubble(ms[Len(ms)])
  BY <1>3, <1>4, <1>5 DEF IsBubble, Shape
<1>8. Shape(ms, TRUE, TRUE, d, a)
  BY <1>1, <1>3, <1>4, <1>5, <1>6, <1>7 DEF Shape
<1>9. \A k \in {0, 1} : Echoed(ls, k) => Echoed(ms, k)
  <2>1. ShownIn(ms) \subseteq ShownIn(ls)
    BY <1>2, AppendToLastShown
  <2>2. \A i \in DOMAIN ms : ms[i].id = 0 /\ ms[i].user /\ ~ms[i].file =>
          i \in DOMAIN ls /\ ls[i].id = 0 /\ ls[i].user /\ ~ls[i].file
    BY <1>5
  <2> QED
    BY <1>3, <2>1, <2>2, EchoedKept
<1> QED
  BY <1>2, <1>8, <1>9

\* A step goes above the bubble.
LEMMA ShapeStep ==
  ASSUME RowsTyped, NEW ls \in Seq(Line), NEW d \in BOOLEAN, NEW a \in BOOLEAN, Shape(ls, TRUE, TRUE, d, a),
         NEW r \in DOMAIN rows, r \notin ShownIn(ls), rows[r] = "companion"
  PROVE  /\ Shape(InsertStep(ls, r), TRUE, TRUE, TRUE, a)
         /\ \A k \in {0, 1} : Echoed(ls, k) => Echoed(InsertStep(ls, r), k)
<1> DEFINE ms == InsertStep(ls, r)
<1>1. ls # << >> /\ ~a /\ IsBubble(ls[Len(ls)])
  BY DEF Shape
<1>2. MessageToLine(r).id = r /\ r # 0 /\ r \in 0..MaxRows
  BY RowLine, RowFacts
<1>3. /\ ms \in Seq(Line) /\ Len(ms) = Len(ls) + 1
      /\ \A i \in 1..(Len(ls) - 1) : ms[i] = ls[i]
      /\ ms[Len(ls)] = MessageToLine(r)
      /\ ms[Len(ls) + 1] = ls[Len(ls)]
  BY <1>1, <1>2, StepIs
<1> HIDE DEF ms
<1>4. /\ Len(ls) \in Nat /\ DOMAIN ls = 1..Len(ls) /\ DOMAIN ms = 1..Len(ms) /\ Len(ls) \in 1..Len(ls)
  BY <1>1, <1>3, SeqFacts
<1>5. ms # << >>
  BY <1>3, <1>4
<1>6. \A i \in DOMAIN ms : \/ i \in DOMAIN ls /\ i # Len(ls) /\ ms[i] = ls[i]
                           \/ i = Len(ls) /\ ms[i] = MessageToLine(r)
                           \/ i = Len(ms) /\ ms[i] = ls[Len(ls)]
  <2>1. \A i \in 1..(Len(ls) + 1) : i = Len(ls) + 1 \/ i = Len(ls) \/ i \in 1..(Len(ls) - 1)
    BY <1>4, Places
  <2>2. \A i \in 1..(Len(ls) - 1) : i \in 1..Len(ls) /\ i # Len(ls)
    BY <1>4, Places
  <2> QED
    BY <1>3, <1>4, <2>1, <2>2
<1>7. \A i \in DOMAIN ls : ls[i].id # r
  BY <1>2, ShownIs
<1>8. Distinct(ms)
  <2>1. ls[Len(ls)].id = 0
    BY <1>1 DEF IsBubble
  <2> QED
    BY <1>2, <1>6, <1>7, <2>1 DEF Distinct, Shape
<1>9. \A i \in DOMAIN ms : ms[i].id = 0 /\ ~ms[i].user => i = Len(ms)
  BY <1>2, <1>6 DEF Shape
<1>10. \A i \in DOMAIN ms : ~(ms[i].id = 0 /\ ms[i].file)
  <2>1. \A i \in DOMAIN ls : ~(ls[i].id = 0 /\ ls[i].file)
    BY <1>1 DEF Shape
  <2> QED
    BY <1>2, <1>4, <1>6, <2>1
<1>11. IsBubble(ms[Len(ms)])
  BY <1>1, <1>3
<1>12. Shape(ms, TRUE, TRUE, TRUE, a)
  BY <1>1, <1>5, <1>8, <1>9, <1>10, <1>11 DEF Shape
<1>13. \A k \in {0, 1} : Echoed(ls, k) => Echoed(ms, k)
  <2>1. ShownIn(ms) \subseteq ShownIn(ls) \cup {r}
    BY <1>2, StepShown DEF ms
  <2>2. \A i \in DOMAIN ms : ms[i].id = 0 /\ ms[i].user /\ ~ms[i].file =>
          i \in DOMAIN ls /\ ls[i].id = 0 /\ ls[i].user /\ ~ls[i].file
    <3>1. ~ls[Len(ls)].user
      BY <1>1 DEF IsBubble
    <3> QED
      BY <1>2, <1>6, <3>1
  <2> QED
    BY <1>3, <2>1, <2>2, EchoedKept
<1> QED
  BY <1>12, <1>13 DEF ms

\* The bubble becomes the line of the reply.
LEMMA ShapeDone ==
  ASSUME RowsTyped, NEW ls \in Seq(Line), NEW d \in BOOLEAN, NEW a \in BOOLEAN, Shape(ls, TRUE, TRUE, d, a),
         NEW r \in DOMAIN rows, r \notin ShownIn(ls), rows[r] = "companion"
  PROVE  /\ Shape(FinalizeLast(ls, r), FALSE, TRUE, d, a)
         /\ \A k \in {0, 1} : Echoed(ls, k) => Echoed(FinalizeLast(ls, r), k)
<1> DEFINE l == [Last(ls) EXCEPT !.id = r, !.user = FALSE, !.blank = FALSE]
           ms == Append(Front(ls), l)
<1>1. ls # << >> /\ ~a /\ r # 0 /\ r \in 0..MaxRows
  BY RowFacts DEF Shape
<1>2. /\ FinalizeLast(ls, r) = ms
      /\ l \in Line /\ l.id = r
  BY <1>1, FinalizeLastIs
<1> HIDE DEF l
<1>3. /\ ms \in Seq(Line) /\ Len(ms) = Len(ls)
      /\ \A i \in 1..(Len(ls) - 1) : ms[i] = ls[i]
      /\ ms[Len(ls)] = l
  BY <1>1, <1>2, LastChanged
<1> HIDE DEF ms
<1>4. /\ Len(ls) \in Nat /\ DOMAIN ls = 1..Len(ls) /\ DOMAIN ms = 1..Len(ls)
  BY <1>1, <1>3, SeqFacts
<1>5. \A i \in DOMAIN ms : (i \in DOMAIN ls /\ i # Len(ls) /\ ms[i] = ls[i]) \/ (i = Len(ls) /\ ms[i] = l)
  <2>1. \A i \in 1..Len(ls) : i = Len(ls) \/ (i # Len(ls) /\ i \in 1..(Len(ls) - 1))
    BY <1>4, Places
  <2> QED
    BY <1>3, <1>4, <2>1
<1>6. \A i \in DOMAIN ls : ls[i].id # r
  BY <1>1, ShownIs
<1>7. Distinct(ms)
  BY <1>1, <1>2, <1>5, <1>6 DEF Distinct, Shape
<1>8. \A i \in DOMAIN ms : ~(ms[i].id = 0 /\ ~ms[i].user)
  BY <1>1, <1>2, <1>5 DEF Shape
<1>9. \A i \in DOMAIN ms : ~(ms[i].id = 0 /\ ms[i].file)
  BY <1>1, <1>2, <1>5 DEF Shape
<1>10. Shape(ms, FALSE, TRUE, d, a)
  BY <1>1, <1>7, <1>8, <1>9 DEF Shape
<1>11. \A k \in {0, 1} : Echoed(ls, k) => Echoed(ms, k)
  <2>1. ShownIn(ms) \subseteq ShownIn(ls) \cup {r}
    BY <1>1, <1>2, FinalizeLastShown
  <2>2. \A i \in DOMAIN ms : ms[i].id = 0 /\ ms[i].user /\ ~ms[i].file =>
          i \in DOMAIN ls /\ ls[i].id = 0 /\ ls[i].user /\ ~ls[i].file
    BY <1>1, <1>2, <1>5
  <2> QED
    BY <1>3, <2>1, <2>2, EchoedKept
<1> QED
  BY <1>2, <1>10, <1>11

\* The turn leaves the bubble open for the transcript to replace; it ends.
LEMMA ShapeLeft ==
  ASSUME NEW ls, NEW d \in BOOLEAN, NEW a \in BOOLEAN
  PROVE  /\ Shape(ls, TRUE, TRUE, d, a) => Shape(ls, FALSE, TRUE, TRUE, a)
         /\ Shape(ls, FALSE, TRUE, FALSE, a) => Shape(ls, FALSE, FALSE, FALSE, a)
BY DEF Shape

LEMMA ShapeReloaded ==
  ASSUME RowsTyped, NEW n \in 0..MaxRows, n <= Len(rows)
  PROVE  Shape(Reloaded(n), FALSE, FALSE, FALSE, FALSE) /\ Echoed(Reloaded(n), 0)
<1>1. DOMAIN Reloaded(n) = 1..n /\ \A i \in 1..n : Reloaded(n)[i].id = i /\ i # 0
  BY ReloadedIs
<1>2. Distinct(Reloaded(n))
  BY <1>1 DEF Distinct
<1>3. Shape(Reloaded(n), FALSE, FALSE, FALSE, FALSE)
  BY <1>1, <1>2 DEF Shape
<1>4. Typing(Reloaded(n)) = {}
  BY <1>1 DEF Typing
<1>5. Cardinality(Unechoed(Reloaded(n))) \in Nat
  BY ReloadedIs, TypingFinite
<1>6. Cardinality(Typing(Reloaded(n))) = 0
  BY <1>4, FS_EmptySet
<1>7. Echoed(Reloaded(n), 0)
  BY <1>5, <1>6 DEF Echoed
<1> QED
  BY <1>3, <1>7

\* No line is left without its row.
LEMMA ShapeQuiet ==
  ASSUME NEW ls, NEW d, Shape(ls, FALSE, FALSE, d, FALSE)
  PROVE  Distinct(ls) /\ \A i \in DOMAIN ls : ls[i].id = 0 => ls[i].user /\ ~ls[i].file
BY DEF Shape

-----------------------------------------------------------------------------
(* What a page without failures keeps *)

\* The stages of a turn whose bubble is open.
Bubbles == {"unsent", "queued", "approved", "running", "step", "proposal", "done"}

Open == turn # NoStream /\ streams[turn].stage \in Bubbles

\* What was typed is shown, and the server does not have it yet.
Saying == turn # NoStream /\ streams[turn].kind = "send" /\ streams[turn].stage \in {"unsent", "queued"}

Looks ==
  \A o, b, a \in BOOLEAN :
     (o <=> Open) /\ (b <=> turn # NoStream) /\ (a <=> upload # NoStream) => Shape(lines, o, b, rich, a)

Speaks == \A k \in {0, 1} : (k = 1 <=> Saying) => Echoed(lines, k)

\* The rows a stream is about to tell of are not shown yet.
TurnAhead(x, ls) == x.stage \in {"step", "done"} => x.row \notin ShownIn(ls)

UploadAhead(x, ls) ==
  /\ x.stage = "chip" \/ (x.stage = "added" /\ x.row # 0) => \A i \in 1..(Len(ls) - 1) : ls[i].id # x.chip
  /\ x.stage = "added" /\ x.row # 0 => x.row \notin ShownIn(ls)

Ahead ==
  /\ turn # NoStream => TurnAhead(streams[turn], lines)
  /\ upload # NoStream => UploadAhead(streams[upload], lines)

Tidy == Looks /\ Speaks /\ Ahead

CleanOK == clean => Tidy

LEMMA LooksLike ==
  ASSUME Looks
  PROVE  /\ turn = NoStream \/ upload = NoStream
         /\ turn = NoStream /\ upload = NoStream => Shape(lines, FALSE, FALSE, rich, FALSE)
         /\ upload # NoStream => Shape(lines, FALSE, FALSE, rich, TRUE)
         /\ Open => Shape(lines, TRUE, TRUE, rich, FALSE)
         /\ turn # NoStream /\ ~Open => Shape(lines, FALSE, TRUE, rich, FALSE)
<1>1. turn = NoStream \/ upload = NoStream
  <2>1. PICK o \in BOOLEAN, b \in BOOLEAN, a \in BOOLEAN : (o <=> Open) /\ (b <=> turn # NoStream) /\ (a <=> upload # NoStream)
    OBVIOUS
  <2>2. Shape(lines, o, b, rich, a)
    BY <2>1 DEF Looks
  <2> QED
    BY <2>1, <2>2 DEF Shape
<1>2. /\ turn = NoStream /\ upload = NoStream => Shape(lines, FALSE, FALSE, rich, FALSE)
      /\ upload # NoStream /\ turn = NoStream => Shape(lines, FALSE, FALSE, rich, TRUE)
      /\ Open /\ upload = NoStream => Shape(lines, TRUE, TRUE, rich, FALSE)
      /\ turn # NoStream /\ ~Open /\ upload = NoStream => Shape(lines, FALSE, TRUE, rich, FALSE)
  BY DEF Looks, Open
<1> QED
  BY <1>1, <1>2 DEF Open

\* The rows of the transcript are the same.
LEMMA SpeaksSame ==
  ASSUME rows' = rows, \A k \in {0, 1} : (k = 1 <=> Saying') => Echoed(lines', k)
  PROVE  Speaks'
<1>1. Typing(lines)' = Typing(lines') /\ Unechoed(lines)' = Unechoed(lines')
  BY DEF Typing, Unechoed, ShownIn
<1>2. \A k : Echoed(lines, k)' <=> Echoed(lines', k)
  BY <1>1 DEF Echoed
<1> QED
  BY <1>2 DEF Speaks

LEMMA AheadSame ==
  ASSUME turn' # NoStream => TurnAhead(streams'[turn'], lines'), upload' # NoStream => UploadAhead(streams'[upload'], lines')
  PROVE  Ahead'
BY DEF Ahead, TurnAhead, UploadAhead, ShownIn

\* Nothing is shown that was not; rows may be added.
LEMMA SpeaksOn ==
  ASSUME PageBase, Speaks, Kept, RowsTyped', lines' = lines, Saying' => Saying,
         Saying /\ ~Saying' => Len(rows) + 1 \in DOMAIN rows' /\ rows'[Len(rows) + 1] = "typed" /\ Len(rows) + 1 \notin DOMAIN rows
  PROVE  Speaks'
<1>1. Typing(lines)' = Typing(lines) /\ ShownIn(lines)' = ShownIn(lines)
  BY DEF Typing, ShownIn
<1>2. Unechoed(lines) \subseteq Unechoed(lines)'
  BY <1>1 DEF Unechoed, Kept
<1>3. IsFiniteSet(Unechoed(lines)')
  <2>1. rows' \in Seq(RowKind)
    BY DEF RowsTyped
  <2>2. DOMAIN rows' = 1..Len(rows') /\ Len(rows') \in Nat
    BY <2>1, LenProperties
  <2>3. IsFiniteSet(DOMAIN rows')
    BY <2>2, FS_Interval
  <2>4. Unechoed(lines)' \in SUBSET DOMAIN rows'
    BY DEF Unechoed
  <2> QED
    BY <2>3, <2>4, FS_Subset
<1>4. /\ Cardinality(Typing(lines)) \in Nat /\ Cardinality(Unechoed(lines)) \in Nat /\ IsFiniteSet(Unechoed(lines))
      /\ Cardinality(Unechoed(lines)') \in Nat
  BY <1>3, BaseFacts, TypingFinite, FS_CardinalityType
<1>5. Cardinality(Unechoed(lines)) <= Cardinality(Unechoed(lines)')
  BY <1>2, <1>3, FS_Subset
<1>6. CASE Saying <=> Saying'
  <2>1. ASSUME NEW k \in {0, 1}, k = 1 <=> Saying' PROVE Echoed(lines, k)'
    <3>1. Cardinality(Typing(lines)) <= Cardinality(Unechoed(lines)) + k
      BY <1>6, <2>1 DEF Speaks, Echoed
    <3>2. Cardinality(Typing(lines)) <= Cardinality(Unechoed(lines)') + k
      BY <1>4, <1>5, <3>1
    <3> QED
      BY <1>1, <3>2 DEF Echoed
  <2> QED
    BY <2>1 DEF Speaks
<1>7. CASE Saying /\ ~Saying'
  <2>1. PICK n : n = Len(rows) + 1
    OBVIOUS
  <2>2. n \notin Unechoed(lines) /\ n \in Unechoed(lines)'
    <3>1. n \in DOMAIN rows' /\ rows'[n] = "typed" /\ n \notin DOMAIN rows
      BY <1>7, <2>1
    <3>2. n \notin ShownIn(lines)
      BY <3>1, ViewFacts
    <3> QED
      BY <1>1, <3>1, <3>2 DEF Unechoed
  <2>3. Unechoed(lines) \cup {n} \in SUBSET Unechoed(lines)'
    BY <1>2, <2>2
  <2>4. Cardinality(Unechoed(lines) \cup {n}) = Cardinality(Unechoed(lines)) + 1
    BY <1>4, <2>2, FS_AddElement
  <2>5. Cardinality(Unechoed(lines)) + 1 <= Cardinality(Unechoed(lines)')
    BY <1>3, <2>3, <2>4, FS_Subset
  <2>6. Cardinality(Typing(lines)) <= Cardinality(Unechoed(lines)) + 1
    BY <1>7 DEF Speaks, Echoed
  <2>7. Cardinality(Typing(lines)) <= Cardinality(Unechoed(lines)')
    BY <1>4, <2>5, <2>6
  <2>8. Echoed(lines, 0)'
    <3>1. Cardinality(Typing(lines)) <= Cardinality(Unechoed(lines)') + 0
      BY <1>4, <2>7
    <3> QED
      BY <1>1, <3>1 DEF Echoed
  <2> QED
    BY <1>7, <2>8 DEF Speaks
<1> QED
  BY <1>6, <1>7

\* The page rests, and the streams it has are where they were.
LEMMA TidyRests ==
  ASSUME PageBase, Tidy, Kept, RowsTyped', UNCHANGED <<lines, turn, upload, rich>>,
         turn # NoStream => /\ streams'[turn].stage = streams[turn].stage /\ streams'[turn].kind = streams[turn].kind
                            /\ streams'[turn].row = streams[turn].row,
         upload # NoStream => /\ streams'[upload].stage = streams[upload].stage /\ streams'[upload].chip = streams[upload].chip
                              /\ streams'[upload].row = streams[upload].row
  PROVE  Tidy'
<1>1. (Open' <=> Open) /\ (Saying' <=> Saying)
  BY DEF Open, Saying
<1>2. Looks'
  BY <1>1 DEF Tidy, Looks
<1>3. Speaks'
  BY <1>1, SpeaksOn DEF Tidy
<1>4. Ahead'
  <2>1. turn' # NoStream => TurnAhead(streams'[turn'], lines')
    BY DEF Tidy, Ahead, TurnAhead
  <2>2. upload' # NoStream => UploadAhead(streams'[upload'], lines')
    BY DEF Tidy, Ahead, UploadAhead
  <2> QED
    BY <2>1, <2>2, AheadSame
<1> QED
  BY <1>2, <1>3, <1>4 DEF Tidy

\* Rows S are merged.
LEMMA TidyMerges ==
  ASSUME PageFits, Tidy, NEW S \in SUBSET DOMAIN rows, Grown(lines, lines', S), UNCHANGED <<rows, turn, upload, rich>>,
         Open' <=> Open, Saying' <=> Saying,
         Open \/ upload # NoStream => Len(lines') = Len(lines),
         turn # NoStream => streams'[turn].stage \notin {"step", "done"} \/ (streams'[turn] = streams[turn] /\ Open),
         upload # NoStream => streams'[upload] = streams[upload]
  PROVE  Tidy'
<1>1. PageBase /\ RowsTyped /\ lines \in Seq(Line) /\ rich \in BOOLEAN /\ Looks /\ Speaks /\ Ahead
  BY FitsFacts, BaseFacts, ViewFacts DEF Tidy
<1>2. Looks'
  <2>1. ASSUME NEW o \in BOOLEAN, NEW b \in BOOLEAN, NEW a \in BOOLEAN, o <=> Open, b <=> turn # NoStream, a <=> upload # NoStream
        PROVE  Shape(lines', o, b, rich, a)
    <3>1. Shape(lines, o, b, rich, a)
      BY <1>1, <2>1 DEF Looks
    <3>2. o \/ a => Len(lines') = Len(lines)
      BY <2>1
    <3> QED
      BY <1>1, <3>1, <3>2, ShapeGrown
  <2> QED
    BY <2>1 DEF Looks
<1>3. Speaks'
  <2>1. \A k \in {0, 1} : (k = 1 <=> Saying') => Echoed(lines', k)
    BY <1>1 DEF Speaks, Grown
  <2> QED
    BY <2>1, SpeaksSame
<1>4. \A r : r \in ShownIn(lines') => r \in ShownIn(lines) \/ (r \in S /\ (Len(lines') = Len(lines) => rows[r] # "companion"))
  BY DEF Grown
<1>5. turn # NoStream => TurnAhead(streams'[turn], lines')
  <2>1. CASE turn # NoStream /\ streams'[turn] = streams[turn] /\ Open /\ streams[turn].stage \in {"step", "done"}
    <3>1. streams[turn].row \in DOMAIN rows /\ rows[streams[turn].row] = "companion"
      BY <1>1, <2>1, BaseFacts, ViewFacts DEF StageFits, IsKind
    <3>2. streams[turn].row \notin ShownIn(lines)
      BY <1>1, <2>1 DEF Ahead, TurnAhead
    <3> QED
      BY <1>4, <2>1, <3>1, <3>2 DEF TurnAhead
  <2> QED
    BY <2>1 DEF TurnAhead
<1>6. upload # NoStream => UploadAhead(streams'[upload], lines')
  <2>1. SUFFICES ASSUME upload # NoStream PROVE UploadAhead(streams[upload], lines')
    OBVIOUS
  <2>2. PICK x \in StreamState : x = streams[upload]
    BY <1>1, <2>1, BaseFacts, ViewFacts
  <2>3. UploadAhead(x, lines) /\ StageFits(x) /\ Len(lines') = Len(lines) /\ Shape(lines, FALSE, FALSE, rich, TRUE)
    BY <1>1, <2>1, <2>2, BaseFacts, ViewFacts, LooksLike DEF Ahead
  <2>4. x.stage = "added" /\ x.row # 0 => x.row \notin ShownIn(lines')
    BY <1>4, <2>3 DEF UploadAhead, StageFits, IsKind
  <2>5. ASSUME x.stage = "chip" \/ (x.stage = "added" /\ x.row # 0), NEW i \in 1..(Len(lines) - 1), lines'[i].id = x.chip
        PROVE  FALSE
    <3>1. rows[x.chip] = "file"
      BY <2>3, <2>5 DEF StageFits, IsKind
    <3>2. lines[i].id # x.chip
      BY <2>3, <2>5 DEF UploadAhead
    <3>3. i \in DOMAIN lines /\ i # Len(lines)
      BY <1>1, SeqFacts, Places
    <3>4. \/ lines'[i] = lines[i]
          \/ /\ lines[i].id = 0 /\ lines'[i].id \in S /\ lines'[i].file = lines[i].file
             /\ EchoOf(lines[i], x.chip)
      <4>1. lines'[i] = lines[i] \/ \E r \in S : EchoOf(lines[i], r) /\ lines'[i] = MessageToLine(r)
        BY <3>3 DEF Grown
      <4>2. ASSUME NEW r \in S, EchoOf(lines[i], r), lines'[i] = MessageToLine(r)
            PROVE  lines[i].id = 0 /\ lines'[i].id \in S /\ lines'[i].file = lines[i].file /\ EchoOf(lines[i], x.chip)
        <5>1. lines'[i].id = r /\ lines'[i].file = (rows[r] = "file")
          BY <1>1, <4>2, RowLine
        <5> QED
          BY <2>5, <4>2, <5>1 DEF EchoOf
      <4> QED
        BY <4>1, <4>2
    <3>5. lines[i].id = 0 /\ lines[i].file
      BY <2>5, <3>1, <3>2, <3>4 DEF EchoOf
    <3> QED
      BY <2>3, <3>3, <3>5 DEF Shape
  <2>6. UploadAhead(x, lines')
    BY <2>3, <2>4, <2>5 DEF UploadAhead
  <2> QED
    BY <2>2, <2>6
<1>7. Ahead'
  BY <1>5, <1>6, AheadSame
<1> QED
  BY <1>2, <1>3, <1>7 DEF Tidy

\* A turn and an upload are left, or not there: the lines are what they are.
LEMMA TidyIdle ==
  ASSUME rows' = rows, turn' = NoStream, upload' = NoStream, Shape(lines', FALSE, FALSE, rich', FALSE), Echoed(lines', 0)
  PROVE  Tidy'
<1>1. Looks'
  BY DEF Looks, Open
<1>2. Speaks'
  BY SpeaksSame DEF Saying
<1>3. Ahead'
  BY AheadSame
<1> QED
  BY <1>1, <1>2, <1>3 DEF Tidy

\* The lines stay, and the streams of the page go on.
LEMMA TidyServer ==
  ASSUME PageBase, Tidy, Kept, RowsTyped', UNCHANGED <<lines, turn, upload, rich>>,
         Open' <=> Open, Saying' => Saying,
         Saying /\ ~Saying' => Len(rows) + 1 \in DOMAIN rows' /\ rows'[Len(rows) + 1] = "typed" /\ Len(rows) + 1 \notin DOMAIN rows,
         turn # NoStream => TurnAhead(streams'[turn], lines),
         upload # NoStream => UploadAhead(streams'[upload], lines)
  PROVE  Tidy'
<1>1. Looks'
  BY DEF Tidy, Looks
<1>2. Speaks'
  BY SpeaksOn DEF Tidy
<1>3. Ahead'
  BY AheadSame
<1> QED
  BY <1>1, <1>2, <1>3 DEF Tidy

\* One stream goes on.
LEMMA TidyStream ==
  ASSUME PageBase, Tidy, Kept, RowsTyped', UNCHANGED <<lines, turn, upload, rich>>, NEW s \in Stream,
         \A t \in Stream : t # s => streams'[t] = streams[t],
         s = turn => /\ streams'[s].stage \in Bubbles <=> streams[s].stage \in Bubbles
                     /\ streams'[s].kind = streams[s].kind
                     /\ streams'[s].stage \in {"unsent", "queued"} => streams[s].stage \in {"unsent", "queued"}
                     /\ TurnAhead(streams'[s], lines),
         s = turn /\ Saying /\ streams'[s].stage \notin {"unsent", "queued"} =>
           Len(rows) + 1 \in DOMAIN rows' /\ rows'[Len(rows) + 1] = "typed" /\ Len(rows) + 1 \notin DOMAIN rows,
         s = upload => UploadAhead(streams'[s], lines)
  PROVE  Tidy'
<1>1. turn \in Stream \cup {NoStream} /\ upload \in Stream \cup {NoStream} /\ s # NoStream
  BY ViewFacts, StreamIsNoPurpose
<1>2. turn # NoStream /\ turn # s => streams'[turn] = streams[turn]
  BY <1>1
<1>3. upload # NoStream /\ upload # s => streams'[upload] = streams[upload]
  BY <1>1
<1>4. Open' <=> Open
  <2>1. Open' <=> turn # NoStream /\ streams'[turn].stage \in Bubbles
    BY DEF Open, Bubbles
  <2> QED
    BY <1>2, <2>1 DEF Open
<1>5. Saying' <=> turn # NoStream /\ streams'[turn].kind = "send" /\ streams'[turn].stage \in {"unsent", "queued"}
  BY DEF Saying
<1>6. Saying' => Saying
  BY <1>2, <1>5 DEF Saying
<1>7. Saying /\ ~Saying' => s = turn /\ streams'[s].stage \notin {"unsent", "queued"}
  BY <1>2, <1>5 DEF Saying
<1>8. turn # NoStream => TurnAhead(streams'[turn], lines)
  BY <1>2 DEF Tidy, Ahead
<1>9. upload # NoStream => UploadAhead(streams'[upload], lines)
  BY <1>3 DEF Tidy, Ahead
<1> QED
  BY <1>4, <1>6, <1>7, <1>8, <1>9, TidyServer

\* A row that is persisted now is not shown.
LEMMA NewIsHidden ==
  ASSUME PageBase
  PROVE  /\ Len(rows) + 1 \notin ShownIn(lines)
         /\ \A i \in 1..(Len(lines) - 1) : lines[i].id # Len(rows) + 1
<1>1. /\ lines \in Seq(Line) /\ ShownIn(lines) \subseteq DOMAIN rows /\ Len(rows) \in Nat /\ DOMAIN rows = 1..Len(rows)
      /\ Len(lines) \in Nat /\ DOMAIN lines = 1..Len(lines)
  BY ViewFacts, SeqFacts
<1>2. Len(rows) + 1 \notin ShownIn(lines)
  BY <1>1
<1>3. \A i \in 1..(Len(lines) - 1) : i \in DOMAIN lines
  BY <1>1
<1>4. Len(rows) + 1 # 0
  BY <1>1
<1> QED
  BY <1>2, <1>3, <1>4, ShownIs

LEMMA RunsTidy == ASSUME PageFits, CleanOK, NEW s \in Stream, Runs(s) PROVE CleanOK'
<1>1. UNCHANGED <<up, lines, ready, moved, channel, buffered, fetch, turn, rich, upload, greeting, missed, clean>>
  BY DEF Runs, viewVars, turnVars, ghostVars
<1>2. PageBase /\ Owned /\ RowsTyped /\ StageFits(streams[s]) /\ streams \in [Stream -> StreamState] /\ s # NoStream
  BY FitsFacts, BaseFacts, StreamIsNoPurpose
<1>3. SUFFICES ASSUME clean' PROVE Tidy'
  BY DEF CleanOK
<1>4. Tidy
  BY <1>1, <1>3 DEF CleanOK
<1>5. s = turn => streams[s].kind \in {"send", "confirm", "used"}
  BY <1>2 DEF Owned, TurnFits
<1>6. s = upload => streams[s].kind = "upload"
  BY <1>2 DEF Owned, UploadFits
<1>7. s = turn /\ Saying => streams[s].kind = "send" /\ streams[s].stage \in {"unsent", "queued"}
  BY DEF Saying
<1>8. CASE Begins(s)
  <2>1. CASE streams[s].stage = "queued" /\ streams[s].kind = "send" /\ Persist("typed") /\ Restaged(s, "running", 0)
    <3>1. /\ RowsTyped' /\ Kept /\ Len(rows) + 1 \in DOMAIN rows' /\ rows'[Len(rows) + 1] = "typed"
          /\ Len(rows) + 1 \notin DOMAIN rows
      BY <1>2, <2>1, PersistKeeps DEF RowKind
    <3>2. TurnAhead(streams'[s], lines) /\ s # upload
      BY <1>6, <2>1 DEF TurnAhead, Restaged
    <3>3. /\ \A t \in Stream : t # s => streams'[t] = streams[t]
          /\ streams'[s].stage \in Bubbles /\ streams[s].stage \in Bubbles /\ streams'[s].kind = streams[s].kind
          /\ streams'[s].stage \notin {"unsent", "queued"}
      BY <2>1 DEF Restaged, Bubbles
    <3> QED
      BY <1>1, <1>2, <1>4, <3>1, <3>2, <3>3, TidyStream
  <2>2. CASE streams[s].stage = "queued" /\ streams[s].kind = "confirm" /\ Persist("companion") /\ Restaged(s, "approved", 0)
    <3>1. RowsTyped' /\ Kept
      BY <1>2, <2>2, PersistKeeps DEF RowKind
    <3>2. TurnAhead(streams'[s], lines) /\ s # upload /\ ~(s = turn /\ Saying)
      BY <1>6, <1>7, <2>2 DEF TurnAhead, Restaged
    <3>3. /\ \A t \in Stream : t # s => streams'[t] = streams[t]
          /\ streams'[s].stage \in Bubbles /\ streams[s].stage \in Bubbles /\ streams'[s].kind = streams[s].kind
          /\ streams'[s].stage \notin {"unsent", "queued"}
      BY <2>2 DEF Restaged, Bubbles
    <3> QED
      BY <1>1, <1>2, <1>4, <3>1, <3>2, <3>3, TidyStream
  <2>3. CASE /\ streams[s].stage = "queued" /\ streams[s].kind = "upload" /\ Persist("file")
             /\ streams' = [streams EXCEPT ![s].stage = "chip", ![s].chip = Len(rows) + 1]
    <3>1. RowsTyped' /\ Kept
      BY <1>2, <2>3, PersistKeeps DEF RowKind
    <3>2. s # turn
      BY <1>5, <2>3
    <3>3. PICK n : n = Len(rows) + 1
      OBVIOUS
    <3> DEFINE y == [streams[s] EXCEPT !.stage = "chip", !.chip = n]
    <3>4. y.chip = n /\ y.stage = "chip"
      BY <1>2 DEF StreamState
    <3>5. streams' = [streams EXCEPT ![s] = y]
      BY <2>3, <3>3
    <3> HIDE DEF y
    <3>6. streams'[s] = y /\ \A t \in Stream : t # s => streams'[t] = streams[t]
      BY <1>2, <3>5
    <3>7. UploadAhead(y, lines)
      BY <1>2, <3>3, <3>4, NewIsHidden DEF UploadAhead
    <3> QED
      BY <1>1, <1>2, <1>4, <3>1, <3>2, <3>6, <3>7, TidyStream
  <2>4. CASE /\ streams[s].stage = "approved" \/ (streams[s].stage = "queued" /\ streams[s].kind = "greet")
             /\ UNCHANGED <<rows, coming>> /\ Restaged(s, "running", 0)
    <3>1. RowsTyped' /\ Kept
      BY <1>2, <2>4, SameRows
    <3>2. TurnAhead(streams'[s], lines) /\ UploadAhead(streams'[s], lines) /\ ~(s = turn /\ Saying)
      BY <1>7, <2>4 DEF TurnAhead, UploadAhead, Restaged
    <3>3. /\ \A t \in Stream : t # s => streams'[t] = streams[t]
          /\ streams'[s].stage \in Bubbles /\ streams[s].stage \in Bubbles /\ streams'[s].kind = streams[s].kind
          /\ streams'[s].stage \notin {"unsent", "queued"}
      BY <2>4 DEF Restaged, Bubbles
    <3> QED
      BY <1>1, <1>2, <1>4, <3>1, <3>2, <3>3, TidyStream
  <2> QED
    BY <1>2, <1>8, <2>1, <2>2, <2>3, <2>4, BeginsIs
<1>9. CASE Persists(s)
  <2>1. Persist("companion") /\ RowsTyped' /\ Kept
    BY <1>2, <1>9, PersistsIs, PersistKeeps DEF RowKind
  <2>2. PICK stage \in Told :
          /\ stage \in {"step", "proposal"} => streams[s].stage = "running" /\ streams[s].kind \in {"send", "confirm"}
          /\ stage = "done" => streams[s].stage = "running"
          /\ stage = "reflection" => streams[s].stage = "finishing" /\ streams[s].kind = "send"
          /\ stage = "added" => streams[s].stage = "chip"
          /\ Restaged(s, stage, Len(rows) + 1)
    BY <1>2, <1>9, PersistsIs
  <2>3. /\ \A t \in Stream : t # s => streams'[t] = streams[t]
        /\ streams'[s].kind = streams[s].kind /\ streams'[s].chip = streams[s].chip
        /\ streams'[s].stage = stage /\ streams'[s].row = Len(rows) + 1
    BY <2>2 DEF Restaged
  <2>4. TurnAhead(streams'[s], lines)
    BY <1>2, <2>3, NewIsHidden DEF TurnAhead
  <2>5. s = upload => UploadAhead(streams'[s], lines)
    <3>1. s = upload => UploadAhead(streams[s], lines)
      BY <1>2, <1>4 DEF Tidy, Ahead
    <3>2. stage # "chip"
      BY DEF Told
    <3>3. Len(rows) + 1 \notin ShownIn(lines)
      BY <1>2, NewIsHidden
    <3> QED
      BY <2>2, <2>3, <3>1, <3>2, <3>3 DEF UploadAhead
  <2>6. s = turn => stage # "added"
    BY <1>2, <1>5, <2>2 DEF StageFits
  <2>7. stage \notin {"unsent", "queued"} /\ streams[s].stage \notin {"unsent", "queued"}
    BY <2>2 DEF Told
  <2>8. s = turn => (stage \in Bubbles <=> streams[s].stage \in Bubbles)
    BY <2>2, <2>6 DEF Told, Bubbles
  <2>9. ~(s = turn /\ Saying)
    BY <1>7, <2>7
  <2> QED
    BY <1>1, <1>2, <1>4, <2>1, <2>3, <2>4, <2>5, <2>7, <2>8, <2>9, TidyStream
<1>10. CASE SkipsTranscript(s)
  <2>1. streams[s].kind = "upload" /\ streams[s].stage \in {"queued", "chip"} /\ At(s, "added") /\ UNCHANGED <<rows, coming>>
    BY <1>10 DEF SkipsTranscript
  <2>2. Restaged(s, "added", 0)
    BY <1>2, <2>1, AtIs DEF Stages, Told
  <2>3. RowsTyped' /\ Kept /\ s # turn
    BY <1>2, <1>5, <2>1, SameRows
  <2>4. UploadAhead(streams'[s], lines) /\ \A t \in Stream : t # s => streams'[t] = streams[t]
    BY <2>2 DEF UploadAhead, Restaged
  <2> QED
    BY <1>1, <1>2, <1>4, <2>3, <2>4, TidyStream
<1>11. CASE Unheard(s)
  <2>1. ~streams[s].ours /\ streams[s].stage \notin {"unsent", "putting", "over"} /\ UNCHANGED <<rows, coming>>
    BY <1>2, <1>11, UnheardIs
  <2>2. s \notin {turn, upload}
    BY <1>2, <2>1 DEF Owned, TurnFits, UploadFits
  <2>3. RowsTyped' /\ Kept
    BY <1>2, <2>1, SameRows
  <2>4. \A t \in Stream : t # s => streams'[t] = streams[t]
    <3>1. CASE Ends(s)
      BY <3>1 DEF Ends
    <3>2. CASE \E type \in Chunks(s) : GoesOn(s, type)
      <4>1. PICK type \in Chunks(s) : GoesOn(s, type)
        BY <3>2
      <4>2. Ends(s) \/ Restaged(s, "running", 0) \/ Restaged(s, "finishing", 0)
        BY <1>2, <4>1, GoesOnIs
      <4> QED
        BY <4>2 DEF Ends, Restaged
    <3> QED
      BY <1>2, <1>11, <3>1, <3>2, UnheardIs
  <2> QED
    BY <1>1, <1>2, <1>4, <2>2, <2>3, <2>4, TidyStream
<1> QED
  BY <1>8, <1>9, <1>10, <1>11 DEF Runs

\* The steps that leave the lines and the streams of the page alone.
LEMMA RestTidy ==
  ASSUME PageFits, CleanOK,
         \/ OthersSpeak \/ OnReturn \/ OnMoveHere \/ BackoffEnds \/ UNCHANGED chatVars
         \/ (\E r \in coming : LosesEvent(r)) \/ \E p \in Purpose : ListsMessages(p)
  PROVE  CleanOK'
<1>1. PageBase /\ Owned /\ RowsTyped /\ turn \in Stream \cup {NoStream} /\ upload \in Stream \cup {NoStream} /\ up \in BOOLEAN
  BY FitsFacts, BaseFacts, ViewFacts
<1>2. SUFFICES ASSUME clean' PROVE Tidy'
  BY DEF CleanOK
<1>3. ASSUME UNCHANGED <<lines, turn, upload, rich, clean>>, Kept, RowsTyped',
             UNCHANGED streams \/ \E s \in Stream : Opened(s, "greet")
      PROVE  Tidy'
  <2>1. Tidy
    BY <1>2, <1>3 DEF CleanOK
  <2>2. turn # NoStream => streams'[turn] = streams[turn]
    BY <1>1, <1>3, OpenedIsNew
  <2>3. upload # NoStream => streams'[upload] = streams[upload]
    BY <1>1, <1>3, OpenedIsNew
  <2> QED
    BY <1>1, <1>3, <2>1, <2>2, <2>3, TidyRests
<1>4. CASE OthersSpeak
  <2>1. UNCHANGED <<lines, turn, upload, rich, clean, streams>>
    BY <1>4 DEF OthersSpeak, viewVars, turnVars, ghostVars
  <2>2. Kept /\ RowsTyped'
    BY <1>1, <1>4, PersistKeeps DEF OthersSpeak, RowKind
  <2> QED
    BY <1>3, <2>1, <2>2
<1>5. CASE OnReturn
  <2>1. UNCHANGED <<rows, coming, up, lines, turn, upload, rich, clean>> /\ RunGreeting
    BY <1>5 DEF OnReturn, ghostVars
  <2>2. UNCHANGED streams \/ \E s \in Stream : Opened(s, "greet")
    BY <1>1, <2>1, GreetingIs
  <2>3. Kept /\ RowsTyped'
    BY <1>1, <2>1, SameRows
  <2> QED
    BY <1>3, <2>1, <2>2, <2>3
<1>6. CASE OnMoveHere \/ BackoffEnds \/ UNCHANGED chatVars \/ (\E r \in coming : LosesEvent(r)) \/ \E p \in Purpose : ListsMessages(p)
  <2>1. UNCHANGED <<rows, lines, turn, upload, rich, clean, streams>>
    <3>1. CASE OnMoveHere
      BY <3>1 DEF OnMoveHere, serverVars, turnVars, ghostVars
    <3>2. CASE BackoffEnds
      BY <3>2 DEF BackoffEnds, serverVars, turnVars, ghostVars
    <3>3. CASE UNCHANGED chatVars
      BY <3>3 DEF chatVars, serverVars, viewVars, turnVars, ghostVars
    <3>4. CASE \E r \in coming : LosesEvent(r)
      BY <3>4 DEF LosesEvent, viewVars, turnVars
    <3>5. CASE \E p \in Purpose : ListsMessages(p)
      BY <3>5 DEF ListsMessages, serverVars, turnVars, ghostVars
    <3> QED
      BY <1>6, <3>1, <3>2, <3>3, <3>4, <3>5
  <2>2. Kept /\ RowsTyped'
    BY <1>1, <2>1, SameKept DEF RowsTyped
  <2> QED
    BY <1>3, <2>1, <2>2
<1> QED
  BY <1>4, <1>5, <1>6

\* A turn is busy, and says k of what the server does not have.
LEMMA TidyTurn ==
  ASSUME rows' = rows, turn' # NoStream, upload' = NoStream, NEW o \in BOOLEAN, o <=> Open', Shape(lines', o, TRUE, rich', FALSE),
         NEW k \in {0, 1}, k = 1 <=> Saying', Echoed(lines', k), TurnAhead(streams'[turn'], lines')
  PROVE  Tidy'
<1>1. Looks'
  <2>1. ASSUME NEW p \in BOOLEAN, NEW b \in BOOLEAN, NEW a \in BOOLEAN,
               p <=> Open', b <=> turn' # NoStream, a <=> upload' # NoStream
        PROVE  Shape(lines', p, b, rich', a)
    <3>1. p = o /\ b = TRUE /\ a = FALSE
      BY <2>1
    <3> QED
      BY <3>1
  <2> QED
    BY <2>1 DEF Looks
<1>2. Speaks'
  <2>1. \A n \in {0, 1} : (n = 1 <=> Saying') => Echoed(lines', n)
    OBVIOUS
  <2> QED
    BY <2>1, SpeaksSame
<1>3. Ahead'
  BY AheadSame
<1> QED
  BY <1>1, <1>2, <1>3 DEF Tidy

\* A file is being added.
LEMMA TidyChip ==
  ASSUME rows' = rows, turn' = NoStream, upload' # NoStream, Shape(lines', FALSE, FALSE, rich', TRUE), Echoed(lines', 0),
         UploadAhead(streams'[upload'], lines')
  PROVE  Tidy'
<1>1. Looks'
  BY DEF Looks, Open
<1>2. Speaks'
  BY SpeaksSame DEF Saying
<1>3. Ahead'
  BY AheadSame
<1> QED
  BY <1>1, <1>2, <1>3 DEF Tidy

\* What was typed is all with the server, unless a turn is saying it.
LEMMA NoneSaid == ASSUME Speaks, ~Saying PROVE Echoed(lines, 0)
BY DEF Speaks

LEMMA StillSaid == ASSUME Speaks, NEW k \in {0, 1}, k = 1 <=> Saying PROVE Echoed(lines, k)
BY DEF Speaks

\* Whether a turn was rich does not matter once it is over.
LEMMA ShapeIdle ==
  ASSUME NEW ls, NEW d, NEW e, NEW a \in BOOLEAN, Shape(ls, FALSE, FALSE, d, a)
  PROVE  Shape(ls, FALSE, FALSE, e, a)
BY DEF Shape

LEMMA SendTidy == ASSUME PageFits, CleanOK, NEW s \in Stream, SendCurrentInput(s) PROVE CleanOK'
<1>1. /\ turn = NoStream /\ upload = NoStream /\ Asks(s, "send") /\ turn' = s /\ rich' = FALSE
      /\ lines' = lines \o <<Optimistic(TRUE, FALSE), Optimistic(FALSE, FALSE)>>
      /\ UNCHANGED <<rows, upload, clean>>
  BY DEF SendCurrentInput, Locked, ghostVars
<1>2. PageBase /\ RowsTyped /\ streams \in [Stream -> StreamState] /\ up \in BOOLEAN /\ lines \in Seq(Line) /\ rich \in BOOLEAN /\ s # NoStream
  BY FitsFacts, BaseFacts, ViewFacts, StreamIsNoPurpose
<1>3. SUFFICES ASSUME clean' PROVE Tidy'
  BY DEF CleanOK
<1>4. Looks /\ Speaks
  BY <1>1, <1>3 DEF CleanOK, Tidy
<1>5. Shape(lines, FALSE, FALSE, rich, FALSE) /\ Echoed(lines, 0)
  BY <1>1, <1>4, LooksLike, NoneSaid DEF Saying
<1>6. Shape(lines', TRUE, TRUE, FALSE, FALSE) /\ Echoed(lines', 1)
  BY <1>1, <1>2, <1>5, ShapeSend
<1>7. Opened(s, "send")
  BY <1>1, <1>2, AsksIs
<1>8. streams'[s].kind = "send" /\ streams'[s].stage \in {"unsent", "queued"}
  BY <1>7 DEF Opened
<1>9. Open' /\ Saying' /\ TurnAhead(streams'[turn'], lines')
  BY <1>1, <1>2, <1>8 DEF Open, Saying, Bubbles, TurnAhead
<1> QED
  BY <1>1, <1>2, <1>6, <1>9, TidyTurn

LEMMA AttachTidy == ASSUME PageFits, CleanOK, NEW s \in Stream, OnAttach(s) PROVE CleanOK'
<1>1. /\ turn = NoStream /\ upload = NoStream /\ Asks(s, "upload") /\ upload' = s
      /\ lines' = Append(lines, Optimistic(TRUE, TRUE))
      /\ UNCHANGED <<rows, turn, rich, clean>>
  BY DEF OnAttach, Locked, ghostVars
<1>2. PageBase /\ RowsTyped /\ streams \in [Stream -> StreamState] /\ up \in BOOLEAN /\ lines \in Seq(Line) /\ rich \in BOOLEAN /\ s # NoStream
  BY FitsFacts, BaseFacts, ViewFacts, StreamIsNoPurpose
<1>3. SUFFICES ASSUME clean' PROVE Tidy'
  BY DEF CleanOK
<1>4. Looks /\ Speaks
  BY <1>1, <1>3 DEF CleanOK, Tidy
<1>5. Shape(lines, FALSE, FALSE, rich, FALSE) /\ Echoed(lines, 0)
  BY <1>1, <1>4, LooksLike, NoneSaid DEF Saying
<1>6. Shape(lines', FALSE, FALSE, rich, TRUE) /\ Echoed(lines', 0)
  BY <1>1, <1>2, <1>5, ShapeOne
<1>7. Opened(s, "upload")
  BY <1>1, <1>2, AsksIs
<1>8. UploadAhead(streams'[upload'], lines')
  BY <1>1, <1>7 DEF Opened, UploadAhead
<1> QED
  BY <1>1, <1>2, <1>6, <1>8, TidyChip

LEMMA ConfirmTidy == ASSUME PageFits, CleanOK, NEW s \in Stream, OnConfirmProposal(s) PROVE CleanOK'
<1>1. /\ turn = NoStream /\ Asks(s, "confirm") /\ turn' = s /\ rich' = TRUE
      /\ lines' = Append(lines, Optimistic(FALSE, FALSE)) /\ clean' = (clean /\ upload = NoStream)
      /\ UNCHANGED <<rows, upload>>
  BY DEF OnConfirmProposal
<1>2. PageBase /\ RowsTyped /\ streams \in [Stream -> StreamState] /\ up \in BOOLEAN /\ lines \in Seq(Line) /\ rich \in BOOLEAN /\ s # NoStream
  BY FitsFacts, BaseFacts, ViewFacts, StreamIsNoPurpose
<1>3. SUFFICES ASSUME clean' PROVE Tidy'
  BY DEF CleanOK
<1>4. Looks /\ Speaks /\ upload = NoStream
  BY <1>1, <1>3 DEF CleanOK, Tidy
<1>5. Shape(lines, FALSE, FALSE, rich, FALSE) /\ Echoed(lines, 0)
  BY <1>1, <1>4, LooksLike, NoneSaid DEF Saying
<1>6. Shape(lines', TRUE, TRUE, TRUE, FALSE) /\ Echoed(lines', 0)
  BY <1>1, <1>2, <1>5, ShapeOne
<1>7. Opened(s, "confirm")
  BY <1>1, <1>2, AsksIs
<1>8. streams'[s].kind = "confirm" /\ streams'[s].stage \in {"unsent", "queued"}
  BY <1>7 DEF Opened
<1>9. Open' /\ ~Saying' /\ TurnAhead(streams'[turn'], lines')
  BY <1>1, <1>2, <1>8 DEF Open, Saying, Bubbles, TurnAhead
<1>10. 0 \in {0, 1} /\ (0 = 1 <=> Saying')
  BY <1>9
<1>11. upload' = NoStream /\ turn' # NoStream /\ Shape(lines', TRUE, TRUE, rich', FALSE)
  BY <1>1, <1>2, <1>4, <1>6
<1> QED
  BY <1>1, <1>6, <1>9, <1>10, <1>11, TidyTurn

\* What fails takes its line along, as long as it is no turn.
LEMMA FailsTidy ==
  ASSUME PageFits, CleanOK, NEW F, NEW c \in {"listening", "backoff", "resync", "stopped"}, Fails(F, c), moved' \in BOOLEAN,
         rows' = rows, NoStream \notin F,
         turn # NoStream /\ turn \notin F =>
           /\ streams'[turn].stage = streams[turn].stage /\ streams'[turn].kind = streams[turn].kind
           /\ streams'[turn].row = streams[turn].row,
         upload # NoStream /\ upload \notin F =>
           /\ streams'[upload].stage = streams[upload].stage /\ streams'[upload].chip = streams[upload].chip
           /\ streams'[upload].row = streams[upload].row
  PROVE  CleanOK'
<1>1. PageBase /\ RowsTyped /\ lines \in Seq(Line) /\ rich \in BOOLEAN
  BY FitsFacts, BaseFacts, ViewFacts
<1>2. SUFFICES ASSUME clean' PROVE Tidy'
  BY DEF CleanOK
<1>3. /\ clean /\ turn \notin F /\ "reload" \notin F /\ turn' = turn /\ lines' = Failed(F)
      /\ upload' = (IF upload \in F THEN NoStream ELSE upload)
      /\ rich' = (rich /\ turn' # NoStream)
  BY <1>1, <1>2, FailsIs
<1>4. Tidy /\ Looks /\ Speaks /\ Ahead
  BY <1>3 DEF CleanOK, Tidy
<1>5. turn = NoStream => Echoed(lines, 0)
  BY <1>4, NoneSaid DEF Saying
<1>6. CASE upload \in F
  <2>1. upload # NoStream /\ upload' = NoStream /\ lines' = DropAttachmentTail(lines)
    BY <1>3, <1>6 DEF Failed
  <2>2. turn = NoStream /\ Shape(lines, FALSE, FALSE, rich, TRUE)
    BY <1>4, <2>1, LooksLike
  <2>3. Shape(lines', FALSE, FALSE, rich, FALSE) /\ Echoed(lines', 0)
    BY <1>1, <1>5, <2>1, <2>2, ShapeDrop
  <2>4. Shape(lines', FALSE, FALSE, rich', FALSE)
    BY <2>3, ShapeIdle
  <2> QED
    BY <1>3, <2>1, <2>2, <2>3, <2>4, TidyIdle
<1>7. CASE upload \notin F
  <2>1. lines' = lines /\ upload' = upload
    BY <1>3, <1>7 DEF Failed
  <2>2. CASE turn # NoStream
    <3>1. rich' = rich /\ Kept /\ RowsTyped'
      BY <1>1, <1>3, <2>2, SameKept DEF RowsTyped
    <3> QED
      BY <1>1, <1>3, <1>4, <1>7, <2>1, <2>2, <3>1, TidyRests
  <2>3. CASE turn = NoStream /\ upload # NoStream
    <3>1. Shape(lines', FALSE, FALSE, rich', TRUE) /\ Echoed(lines', 0)
      BY <1>4, <1>5, <2>1, <2>3, LooksLike, ShapeIdle
    <3>2. UploadAhead(streams'[upload'], lines')
      BY <1>4, <1>7, <2>1, <2>3 DEF Ahead, UploadAhead
    <3> QED
      BY <1>3, <2>1, <2>3, <3>1, <3>2, TidyChip
  <2>4. CASE turn = NoStream /\ upload = NoStream
    <3>1. Shape(lines', FALSE, FALSE, rich', FALSE) /\ Echoed(lines', 0)
      BY <1>4, <1>5, <2>1, <2>4, LooksLike, ShapeIdle
    <3> QED
      BY <1>3, <2>1, <2>4, <3>1, TidyIdle
  <2> QED
    BY <2>2, <2>3, <2>4
<1> QED
  BY <1>6, <1>7

\* A stream ends with its failure.
LEMMA EndsTidy ==
  ASSUME PageFits, CleanOK, NEW s \in Stream, Ends(s), Fails({s}, channel), moved' \in BOOLEAN, rows' = rows
  PROVE  CleanOK'
<1>1. PICK c \in {"listening", "backoff", "resync", "stopped"} : c = channel
  BY FitsFacts, ViewFacts
<1>2. PICK F : F = {s}
  OBVIOUS
<1>3. Fails(F, c) /\ NoStream \notin F
  BY <1>1, <1>2, StreamIsNoPurpose
<1>4. turn \in Stream \cup {NoStream} /\ upload \in Stream \cup {NoStream}
  BY FitsFacts, ViewFacts
<1>5. \A t \in Stream : t \notin F => streams'[t] = streams[t]
  BY <1>2 DEF Ends
<1> QED
  BY <1>3, <1>4, <1>5, FailsTidy

LEMMA ConnectsTidy == ASSUME PageFits, CleanOK, Connects PROVE CleanOK'
<1>1. PageBase /\ RowsTyped /\ turn \in Stream \cup {NoStream} /\ upload \in Stream \cup {NoStream}
      /\ streams \in [Stream -> StreamState]
  BY FitsFacts, BaseFacts, ViewFacts
<1>2. UNCHANGED <<rows, lines, turn, rich, upload, clean>>
  BY <1>1, ConnectsIs
<1>3. SUFFICES ASSUME clean' PROVE Tidy'
  BY DEF CleanOK
<1>4. Tidy /\ Ahead
  BY <1>2, <1>3 DEF CleanOK, Tidy
<1>5. ASSUME NEW t \in Stream
      PROVE  /\ streams'[t].kind = streams[t].kind
             /\ \/ streams'[t] = streams[t]
                \/ streams[t].stage = "unsent" /\ streams'[t].stage = "queued"
  <2>1. CASE streams[t].stage # "unsent"
    BY <1>1, <2>1, ConnectsIs
  <2>2. CASE streams[t].stage = "unsent"
    <3>1. streams'[t] = [streams[t] EXCEPT !.stage = "queued", !.ours = TRUE]
      BY <1>1, <2>2, ConnectsIs
    <3>2. streams[t] \in StreamState
      BY <1>1
    <3>3. streams'[t].kind = streams[t].kind /\ streams'[t].stage = "queued"
      BY <3>1, <3>2 DEF StreamState
    <3> QED
      BY <2>2, <3>3
  <2> QED
    BY <2>1, <2>2
<1>6. Open' <=> Open
  BY <1>1, <1>2, <1>5 DEF Open, Bubbles
<1>7. Saying' <=> Saying
  BY <1>1, <1>2, <1>5 DEF Saying
<1>8. turn # NoStream => TurnAhead(streams'[turn], lines)
  BY <1>1, <1>4, <1>5 DEF Ahead, TurnAhead
<1>9. upload # NoStream => UploadAhead(streams'[upload], lines)
  BY <1>1, <1>4, <1>5 DEF Ahead, UploadAhead
<1>10. Kept /\ RowsTyped'
  BY <1>1, <1>2, SameKept DEF RowsTyped
<1> QED
  BY <1>1, <1>2, <1>4, <1>6, <1>7, <1>8, <1>9, <1>10, TidyServer

LEMMA ConnectFailsTidy == ASSUME PageFits, CleanOK, ConnectFails PROVE CleanOK'
<1>1. UNCHANGED <<rows, moved>> /\ moved' \in BOOLEAN
  BY FitsFacts, ConnectFailsIs, ViewFacts
<1>2. PICK c \in {"listening", "backoff", "resync", "stopped"} : c = channel
  BY FitsFacts, ViewFacts
<1>3. CASE channel = "listening" /\ UNCHANGED streams /\ Fails({}, "backoff")
  BY <1>1, <1>3, FailsTidy
<1>4. CASE \E p \in Purpose : fetch[p] = Asked /\ UNCHANGED streams /\ Fails({p}, channel)
  <2>1. PICK F : NoStream \notin F /\ Fails(F, c) /\ UNCHANGED streams
    <3>1. PICK p \in Purpose : UNCHANGED streams /\ Fails({p}, channel)
      BY <1>4
    <3>2. NoStream \notin {p}
      BY ChatConstants DEF Purpose
    <3> QED
      BY <1>2, <3>1, <3>2
  <2> QED
    BY <1>1, <2>1, FailsTidy
<1>5. CASE \E s \in Stream : streams[s].stage = "unsent" /\ Ends(s) /\ Fails({s}, channel)
  BY <1>1, <1>5, EndsTidy
<1> QED
  BY <1>3, <1>4, <1>5, FitsFacts, ConnectFailsIs

LEMMA LosesSocketTidy == ASSUME PageFits, CleanOK, NEW taken \in BOOLEAN, LosesSocket(taken) PROVE CleanOK'
<1>1. PICK F : F = InFlight
  OBVIOUS
<1>2. PICK c \in {"listening", "backoff", "resync", "stopped"} : c = IF channel = "listening" THEN "backoff" ELSE channel
  BY FitsFacts, ViewFacts
<1>3. Fails(F, c) /\ moved' \in BOOLEAN /\ rows' = rows
  BY <1>1, <1>2, FitsFacts, LosesSocketIs
<1>4. NoStream \notin F
  BY <1>1, ChatConstants DEF InFlight, Purpose
<1>5. turn \in Stream \cup {NoStream} /\ upload \in Stream \cup {NoStream}
  BY FitsFacts, ViewFacts
<1>6. \A t \in Stream : /\ streams'[t].kind = streams[t].kind /\ streams'[t].stage = streams[t].stage
                        /\ streams'[t].row = streams[t].row /\ streams'[t].chip = streams[t].chip
  BY FitsFacts, LosesSocketIs
<1> QED
  BY <1>3, <1>4, <1>5, <1>6, FailsTidy

LEMMA PutTidy == ASSUME PageFits, CleanOK, NEW s \in Stream, Put(s) PROVE CleanOK'
<1>1. streams[s].stage = "putting" /\ UNCHANGED <<rows, coming, up, moved>> /\ moved' \in BOOLEAN
  BY FitsFacts, PutIs, ViewFacts
<1>2. PageBase /\ Owned /\ RowsTyped /\ StageFits(streams[s]) /\ s # NoStream
  BY FitsFacts, BaseFacts, StreamIsNoPurpose
<1>3. CASE /\ UNCHANGED <<lines, turn, rich, upload, clean>>
           /\ \A t \in Stream : t # s => streams'[t] = streams[t]
           /\ streams'[s].stage = (IF up THEN "queued" ELSE "unsent")
  <2>1. SUFFICES ASSUME clean' PROVE Tidy'
    BY DEF CleanOK
  <2>2. Tidy
    BY <1>3, <2>1 DEF CleanOK
  <2>3. s # turn
    BY <1>1, <1>2 DEF StageFits, Owned, TurnFits
  <2>4. UploadAhead(streams'[s], lines)
    BY <1>3 DEF UploadAhead
  <2>5. Kept /\ RowsTyped'
    BY <1>1, <1>2, SameRows
  <2> QED
    BY <1>2, <1>3, <2>2, <2>3, <2>4, <2>5, TidyStream
<1>4. CASE Ends(s) /\ Fails({s}, channel)
  BY <1>1, <1>4, EndsTidy
<1> QED
  BY <1>3, <1>4, FitsFacts, PutIs

LEMMA OnRefusedTidy == ASSUME PageFits, CleanOK, NEW p \in Purpose, OnRefused(p) PROVE CleanOK'
<1>1. UNCHANGED <<rows, streams, moved>> /\ moved' \in BOOLEAN
  BY FitsFacts, ViewFacts DEF OnRefused, serverVars
<1>2. PICK c \in {"listening", "backoff", "resync", "stopped"} : c = channel
  BY FitsFacts, ViewFacts
<1>3. PICK F : F = {p}
  OBVIOUS
<1>4. Fails(F, c) /\ NoStream \notin F
  BY <1>2, <1>3, ChatConstants DEF OnRefused, Purpose
<1> QED
  BY <1>1, <1>4, FailsTidy

\* Rows S are merged, and the streams of the page rest.
LEMMA MergedTidy ==
  ASSUME PageFits, CleanOK, NEW S \in SUBSET DOMAIN rows, NEW ls, Grown(lines, ls, S), Merges(ls),
         UNCHANGED <<rows, turn, upload, rich>>,
         turn # NoStream => streams'[turn] = streams[turn], upload # NoStream => streams'[upload] = streams[upload]
  PROVE  CleanOK'
<1>1. PageBase /\ clean \in BOOLEAN
  BY FitsFacts, ViewFacts
<1>2. SUFFICES ASSUME clean' PROVE Tidy'
  BY DEF CleanOK
<1>3. lines' = ls /\ clean' = (clean /\ (Locked => Len(ls) = Len(lines)))
  BY <1>1, MergesIs
<1>4. clean /\ Tidy /\ Grown(lines, lines', S)
  BY <1>2, <1>3 DEF CleanOK
<1>5. (Open' <=> Open) /\ (Saying' <=> Saying)
  BY DEF Open, Saying
<1>6. Open \/ upload # NoStream => Len(lines') = Len(lines)
  BY <1>2, <1>3 DEF Locked, Open
<1>7. turn # NoStream => streams'[turn].stage \notin {"step", "done"} \/ (streams'[turn] = streams[turn] /\ Open)
  BY DEF Open, Bubbles
<1> QED
  BY <1>4, <1>5, <1>6, <1>7, TidyMerges

LEMMA FlushTidy == ASSUME PageFits, CleanOK, Flush PROVE CleanOK'
<1>1. PICK S : S = buffered
  OBVIOUS
<1>2. PICK ls : Grown(lines, ls, S) /\ Merges(ls)
  BY <1>1, FitsFacts, FlushIs
<1>3. UNCHANGED <<rows, streams, turn, rich, upload>> /\ S \in SUBSET DOMAIN rows
  BY <1>1, FitsFacts, FlushIs, ViewFacts
<1> QED
  BY <1>2, <1>3, MergedTidy

LEMMA OnEventTidy == ASSUME PageFits, CleanOK, NEW r \in coming, OnEvent(r) PROVE CleanOK'
<1>1. UNCHANGED <<rows, streams, turn, rich, upload>>
  BY FitsFacts, OnEventIs
<1>2. PageBase /\ RowsTyped /\ r \in DOMAIN rows /\ buffered \subseteq DOMAIN rows
  BY FitsFacts, BaseFacts, ViewFacts
<1>3. CASE UNCHANGED <<lines, clean>>
  <2>1. SUFFICES ASSUME clean' PROVE Tidy'
    BY DEF CleanOK
  <2>2. Tidy /\ Kept /\ RowsTyped'
    BY <1>1, <1>2, <1>3, <2>1, SameKept DEF CleanOK, RowsTyped
  <2> QED
    BY <1>1, <1>2, <1>3, <2>2, TidyRests
<1>4. CASE \E ls : Grown(lines, ls, buffered \cup {r}) /\ Merges(ls)
  <2>1. PICK S : S = buffered \cup {r}
    OBVIOUS
  <2>2. PICK ls : Grown(lines, ls, S) /\ Merges(ls)
    BY <1>4, <2>1
  <2>3. S \in SUBSET DOMAIN rows
    BY <1>2, <2>1
  <2> QED
    BY <1>1, <2>2, <2>3, MergedTidy
<1> QED
  BY <1>3, <1>4, FitsFacts, OnEventIs

LEMMA OnSnapshotTidy == ASSUME PageFits, CleanOK, NEW p \in Purpose, OnSnapshot(p) PROVE CleanOK'
<1>1. /\ UNCHANGED <<rows, up, upload>>
      /\ p = "first" => RunGreeting
      /\ p # "first" => UNCHANGED <<streams, greeting>>
  BY FitsFacts, OnSnapshotIs
<1>2. PageBase /\ Owned /\ RowsTyped /\ turn \in Stream \cup {NoStream} /\ upload \in Stream \cup {NoStream}
  BY FitsFacts, BaseFacts, ViewFacts
<1>3. PICK n : n = fetch[p].upto
  OBVIOUS
<1>4. n \in 0..MaxRows /\ n <= Len(rows)
  BY <1>3, FitsFacts, ViewFacts DEF Fetch
<1>5. 1..n \in SUBSET DOMAIN rows
  BY <1>2, <1>4, ReloadedIs
<1>6. CASE /\ p = "reload" /\ turn' = NoStream /\ rich' = FALSE /\ clean' = (upload = NoStream)
           /\ lines' = Reloaded(fetch[p].upto)
  <2>1. SUFFICES ASSUME clean' PROVE Tidy'
    BY DEF CleanOK
  <2>2. upload' = NoStream /\ lines' = Reloaded(n)
    BY <1>1, <1>3, <1>6, <2>1
  <2>3. Shape(lines', FALSE, FALSE, rich', FALSE) /\ Echoed(lines', 0)
    BY <1>2, <1>4, <1>6, <2>2, ShapeReloaded
  <2> QED
    BY <1>1, <1>6, <2>2, <2>3, TidyIdle
<1>7. CASE p # "reload" /\ UNCHANGED <<turn, rich>> /\ \E ls : Grown(lines, ls, 1..fetch[p].upto) /\ Merges(ls)
  <2>1. PICK S : S = 1..n
    OBVIOUS
  <2>2. PICK ls : Grown(lines, ls, S) /\ Merges(ls)
    BY <1>3, <1>7, <2>1
  <2>3. UNCHANGED streams \/ \E s \in Stream : Opened(s, "greet")
    BY <1>1, <1>2, GreetingIs
  <2>4. turn # NoStream => streams'[turn] = streams[turn]
    BY <1>2, <2>3, OpenedIsNew
  <2>5. upload # NoStream => streams'[upload] = streams[upload]
    BY <1>2, <2>3, OpenedIsNew
  <2> QED
    BY <1>1, <1>5, <1>7, <2>1, <2>2, <2>4, <2>5, MergedTidy
<1> QED
  BY <1>6, <1>7, FitsFacts, OnSnapshotIs

\* A chunk of the turn.
LEMMA OnTurnTidy ==
  ASSUME PageFits, CleanOK, NEW s \in Stream, NEW type \in Chunks(s), GoesOn(s, type), OnTurn(s, type, streams[s].row), rows' = rows
  PROVE  CleanOK'
<1> DEFINE r == streams[s].row
<1>1. /\ s = turn /\ UNCHANGED <<turn, upload>> /\ rich' = (rich \/ type \in {"step", "proposal"})
      /\ clean' = (clean /\ type # "error")
      /\ \/ type \in {"token", "error"} /\ lines' = AppendToLast(lines)
         \/ type = "step" /\ lines' = InsertStep(lines, r)
         \/ type = "proposal" /\ lines' = lines
         \/ type = "done" /\ lines' = FinalizeLast(lines, r)
         \/ type = "reflection" /\ lines' = MergeMessage(lines, r)
  BY OnTurnIs
<1>2. PageBase /\ RowsTyped /\ lines \in Seq(Line) /\ rich \in BOOLEAN /\ streams \in [Stream -> StreamState] /\ s # NoStream
  BY FitsFacts, BaseFacts, ViewFacts, StreamIsNoPurpose
<1>3. SUFFICES ASSUME clean' PROVE Tidy'
  BY DEF CleanOK
<1>4. clean /\ type # "error" /\ Tidy /\ Looks /\ Speaks /\ Ahead
  BY <1>1, <1>3 DEF CleanOK, Tidy
<1>5. upload = NoStream /\ upload' = NoStream /\ turn' # NoStream
  BY <1>1, <1>2, <1>4, LooksLike
<1>6. /\ type \in Told => streams[s].stage = type
      /\ type = "token" => streams[s].stage = "running"
  BY <1>2, ChunkIs
<1>7. type \in {"token", "step", "proposal", "done", "reflection"}
  BY <1>1, <1>4
<1>8. ~Saying /\ Echoed(lines, 0)
  <2>1. streams[s].stage \notin {"unsent", "queued"}
    BY <1>6, <1>7 DEF Told
  <2>2. ~Saying
    BY <1>1, <2>1 DEF Saying
  <2> QED
    BY <1>4, <2>2, NoneSaid
<1>9. /\ type \in {"token", "step"} => streams'[s].stage = "running"
      /\ type \notin {"token", "step"} => streams'[s].stage = "finishing"
  BY <1>2, <1>7, GoesOnIs DEF Restaged
<1>10. /\ Open' <=> type \in {"token", "step"}
       /\ ~Saying' /\ TurnAhead(streams'[turn'], lines')
  BY <1>1, <1>2, <1>9 DEF Open, Saying, Bubbles, TurnAhead
<1>11. 0 \in {0, 1} /\ (0 = 1 <=> Saying')
  BY <1>10
<1>12. type # "reflection" => Shape(lines, TRUE, TRUE, rich, FALSE)
  <2>1. type # "reflection" => streams[s].stage \in Bubbles
    BY <1>6, <1>7 DEF Told, Bubbles
  <2>2. type # "reflection" => Open
    BY <1>1, <1>2, <2>1 DEF Open
  <2> QED
    BY <1>4, <2>2, LooksLike
<1>13. type \in {"step", "done"} => r \notin ShownIn(lines)
  BY <1>1, <1>2, <1>4, <1>6 DEF Ahead, TurnAhead, Told
<1>14. type \in {"step", "proposal", "done", "reflection"} => r \in DOMAIN rows /\ rows[r] = "companion"
  BY <1>2, ToldRow
<1> HIDE DEF r
<1>15. CASE type = "token"
  <2>1. Shape(lines', TRUE, TRUE, rich', FALSE) /\ Echoed(lines', 0)
    BY <1>1, <1>2, <1>8, <1>12, <1>15, ShapeToken
  <2> QED
    BY <1>5, <1>10, <1>11, <1>15, <2>1, TidyTurn
<1>16. CASE type = "step"
  <2>1. Shape(lines', TRUE, TRUE, TRUE, FALSE) /\ Echoed(lines', 0)
    BY <1>1, <1>2, <1>8, <1>12, <1>13, <1>14, <1>16, ShapeStep
  <2>2. rich' = TRUE
    BY <1>1, <1>16
  <2> QED
    BY <1>5, <1>10, <1>11, <1>16, <2>1, <2>2, TidyTurn
<1>17. CASE type = "proposal"
  <2>1. Shape(lines', FALSE, TRUE, TRUE, FALSE) /\ Echoed(lines', 0)
    BY <1>1, <1>2, <1>8, <1>12, <1>17, ShapeLeft
  <2>2. rich' = TRUE
    BY <1>1, <1>17
  <2> QED
    BY <1>5, <1>10, <1>11, <1>17, <2>1, <2>2, TidyTurn
<1>18. CASE type = "done"
  <2>1. Shape(lines', FALSE, TRUE, rich', FALSE) /\ Echoed(lines', 0)
    BY <1>1, <1>2, <1>8, <1>12, <1>13, <1>14, <1>18, ShapeDone
  <2> QED
    BY <1>5, <1>10, <1>11, <1>18, <2>1, TidyTurn
<1>19. CASE type = "reflection"
  <2>1. lines' = MergeMessage(lines, r) /\ r \in DOMAIN rows /\ rich' = rich
    BY <1>1, <1>2, <1>14, <1>19
  <2>2. PICK S \in SUBSET DOMAIN rows : S = {r}
    BY <2>1
  <2>3. Grown(lines, lines', S)
    BY <1>2, <2>1, <2>2, MergeGrows
  <2>4. streams[s].stage = "reflection" /\ streams'[s].stage = "finishing"
    BY <1>6, <1>9, <1>19 DEF Told
  <2>5. ~Open /\ ~Open'
    BY <1>1, <1>10, <1>19, <2>4 DEF Open, Bubbles
  <2> QED
    BY <1>1, <1>4, <1>5, <1>8, <1>10, <2>1, <2>3, <2>4, <2>5, TidyMerges
<1> QED
  BY <1>7, <1>15, <1>16, <1>17, <1>18, <1>19

\* The turn is over.
LEMMA OnTurnEndTidy ==
  ASSUME PageFits, CleanOK, NEW s \in Stream, NEW type \in Chunks(s), GoesOn(s, type), OnTurnEnd(s, type), rows' = rows
  PROVE  CleanOK'
<1>1. /\ s = turn /\ type = "end" /\ UNCHANGED <<lines, rich, upload, clean>>
      /\ rich => turn' = turn
      /\ ~rich => turn' = NoStream
  BY DEF OnTurnEnd, ghostVars
<1>2. PageBase /\ rich \in BOOLEAN /\ streams \in [Stream -> StreamState] /\ s # NoStream
  BY FitsFacts, BaseFacts, ViewFacts, StreamIsNoPurpose
<1>3. SUFFICES ASSUME clean' PROVE Tidy'
  BY DEF CleanOK
<1>4. Tidy /\ Looks /\ Speaks /\ Ahead
  BY <1>1, <1>3 DEF CleanOK, Tidy
<1>5. streams[s].stage = "finishing" /\ streams'[s].stage = "over"
  BY <1>1, <1>2, ChunkIs, GoesOnIs, UsedIs DEF Ends
<1>6. ~Open /\ ~Saying
  BY <1>1, <1>5 DEF Open, Saying, Bubbles
<1>7. upload' = NoStream /\ Shape(lines', FALSE, TRUE, rich, FALSE) /\ Echoed(lines', 0)
  BY <1>1, <1>2, <1>4, <1>6, LooksLike, NoneSaid
<1>8. CASE rich
  <2>1. ~Open' /\ ~Saying' /\ TurnAhead(streams'[turn'], lines') /\ turn' # NoStream
    BY <1>1, <1>2, <1>5, <1>8 DEF Open, Saying, Bubbles, TurnAhead
  <2>2. 0 \in {0, 1} /\ (0 = 1 <=> Saying')
    BY <2>1
  <2> QED
    BY <1>1, <1>7, <2>1, <2>2, TidyTurn
<1>9. CASE ~rich
  <2>1. rich = FALSE /\ rich' = FALSE
    BY <1>1, <1>2, <1>9
  <2>2. Shape(lines', FALSE, FALSE, rich', FALSE)
    BY <1>7, <2>1, ShapeLeft
  <2> QED
    BY <1>1, <1>7, <1>9, <2>2, TidyIdle
<1> QED
  BY <1>8, <1>9

\* The file has become a source.
LEMMA OnAddedTidy ==
  ASSUME PageFits, CleanOK, NEW s \in Stream, NEW type \in Chunks(s), OnAdded(s, type, streams[s].row), rows' = rows
  PROVE  CleanOK'
<1>1. PageBase /\ RowsTyped /\ lines \in Seq(Line) /\ rich \in BOOLEAN /\ streams \in [Stream -> StreamState] /\ s # NoStream
  BY FitsFacts, BaseFacts, ViewFacts, StreamIsNoPurpose
<1>2. PICK r, q : r = streams[s].row /\ q = streams[s].chip
  OBVIOUS
<1>3. PICK k \in Line, l \in Line :
        /\ lines' = DropAttachmentTail(lines) \o <<k, l>>
        /\ r # 0 =>
             /\ k = MessageToLine(q) /\ l = MessageToLine(r)
             /\ r \in DOMAIN rows /\ rows[r] = "companion" /\ q \in DOMAIN rows /\ rows[q] = "file"
  BY <1>1, <1>2, OnAddedIs
<1>4. s = upload /\ type = "added" /\ upload' = NoStream /\ clean' = (clean /\ r # 0) /\ UNCHANGED <<turn, rich>>
  BY <1>1, <1>2, OnAddedIs
<1>5. SUFFICES ASSUME clean' PROVE Tidy'
  BY DEF CleanOK
<1>6. r # 0 /\ Looks /\ Speaks /\ Ahead
  BY <1>4, <1>5 DEF CleanOK, Tidy
<1>7. turn = NoStream /\ Shape(lines, FALSE, FALSE, rich, TRUE) /\ Echoed(lines, 0)
  BY <1>1, <1>4, <1>6, LooksLike, NoneSaid DEF Saying
<1>8. streams[s].stage = "added"
  BY <1>1, <1>4, ChunkIs DEF Told
<1>9. (\A i \in 1..(Len(lines) - 1) : lines[i].id # q) /\ r \notin ShownIn(lines)
  BY <1>1, <1>2, <1>4, <1>6, <1>8 DEF Ahead, UploadAhead
<1>10. \A i \in 1..(Len(lines) - 1) : lines[i].id # q /\ lines[i].id # r
  <2>1. \A i \in 1..(Len(lines) - 1) : i \in DOMAIN lines
    BY <1>7, ChipDropped
  <2> QED
    BY <1>6, <1>9, <2>1, ShownIs
<1>11. lines' = DropAttachmentTail(lines) \o <<MessageToLine(q), MessageToLine(r)>>
  BY <1>3, <1>6
<1>12. q \in DOMAIN rows /\ r \in DOMAIN rows /\ rows[q] = "file" /\ rows[r] = "companion"
  BY <1>3, <1>6
<1>13. Shape(lines', FALSE, FALSE, rich, FALSE) /\ Echoed(lines', 0)
  BY <1>1, <1>7, <1>10, <1>11, <1>12, ShapeAdded
<1> QED
  BY <1>4, <1>7, <1>13, TidyIdle

\* The greeting.
LEMMA OnGreetingTidy ==
  ASSUME PageFits, CleanOK, NEW s \in Stream, NEW type \in Chunks(s), GoesOn(s, type), OnGreeting(s, type, streams[s].row), rows' = rows
  PROVE  CleanOK'
<1>1. PageBase /\ RowsTyped /\ streams \in [Stream -> StreamState] /\ turn \in Stream \cup {NoStream} /\ upload \in Stream \cup {NoStream}
      /\ s # NoStream
  BY FitsFacts, BaseFacts, ViewFacts, StreamIsNoPurpose
<1>2. s = greeting /\ UNCHANGED <<turn, rich, upload>>
  BY <1>1, OnGreetingIs
<1>3. s \notin {turn, upload}
  BY <1>1, <1>2, FitsFacts
<1>4. \A t \in Stream : t # s => streams'[t] = streams[t]
  BY <1>1, GoesOnIs DEF Restaged, Ends
<1>5. /\ turn # NoStream => streams'[turn] = streams[turn]
      /\ upload # NoStream => streams'[upload] = streams[upload]
  BY <1>1, <1>3, <1>4
<1>6. CASE UNCHANGED <<lines, clean>>
  <2>1. SUFFICES ASSUME clean' PROVE Tidy'
    BY DEF CleanOK
  <2>2. Tidy /\ Kept /\ RowsTyped'
    BY <1>1, <1>6, <2>1, SameKept DEF CleanOK, RowsTyped
  <2> QED
    BY <1>1, <1>2, <1>5, <1>6, <2>2, TidyRests
<1>7. CASE streams[s].row \in DOMAIN rows /\ \E ls : Grown(lines, ls, {streams[s].row}) /\ Merges(ls)
  <2>1. PICK S : S = {streams[s].row}
    OBVIOUS
  <2>2. PICK ls : Grown(lines, ls, S) /\ Merges(ls)
    BY <1>7, <2>1
  <2>3. S \in SUBSET DOMAIN rows
    BY <1>7, <2>1
  <2> QED
    BY <1>2, <1>5, <2>2, <2>3, MergedTidy
<1> QED
  BY <1>1, <1>6, <1>7, OnGreetingIs

LEMMA OnStreamTidy == ASSUME PageFits, CleanOK, NEW s \in Stream, OnStream(s) PROVE CleanOK'
<1>1. UNCHANGED <<rows, moved>> /\ moved' \in BOOLEAN
  BY FitsFacts, OnStreamIs, ViewFacts
<1>2. PICK type \in Chunks(s) :
        /\ GoesOn(s, type)
        /\ \/ OnTurn(s, type, streams[s].row) \/ OnTurnEnd(s, type)
           \/ OnGreeting(s, type, streams[s].row) \/ OnAdded(s, type, streams[s].row)
           \/ type = "fail" /\ Fails({s}, channel)
  BY FitsFacts, OnStreamIs
<1>3. CASE type = "fail" /\ Fails({s}, channel)
  <2>1. Ends(s)
    BY <1>2, <1>3, FitsFacts, BaseFacts, GoesOnIs
  <2> QED
    BY <1>1, <1>3, <2>1, EndsTidy
<1> QED
  BY <1>1, <1>2, <1>3, OnTurnTidy, OnTurnEndTidy, OnGreetingTidy, OnAddedTidy

LEMMA StepTidy == ASSUME PageFits, CleanOK, [ChatNext]_chatVars PROVE CleanOK'
<1>1. CASE OthersSpeak \/ BackoffEnds \/ UNCHANGED chatVars
  BY <1>1, RestTidy
<1>2. CASE \E r \in coming : OnEvent(r) \/ LosesEvent(r)
  BY <1>2, OnEventTidy, RestTidy
<1>3. CASE \E p \in Purpose : ListsMessages(p) \/ OnSnapshot(p) \/ OnRefused(p)
  BY <1>3, RestTidy, OnSnapshotTidy, OnRefusedTidy
<1>4. CASE \E s \in Stream : Runs(s) \/ Put(s) \/ OnStream(s)
  BY <1>4, RunsTidy, PutTidy, OnStreamTidy
<1>5. CASE UserStep
  BY <1>5, SendTidy, AttachTidy, ConfirmTidy, RestTidy DEF UserStep
<1>6. CASE Connects \/ ConnectFails \/ (\E taken \in BOOLEAN : LosesSocket(taken)) \/ Flush
  BY <1>6, ConnectsTidy, ConnectFailsTidy, LosesSocketTidy, FlushTidy
<1> QED
  BY <1>1, <1>2, <1>3, <1>4, <1>5, <1>6 DEF ChatNext

LEMMA InitTidy == ASSUME ChatInit PROVE CleanOK
<1>1. rows = << >> /\ lines = << >> /\ turn = NoStream /\ upload = NoStream /\ rich = FALSE
  BY DEF ChatInit
<1>2. RowsTyped
  BY InitBase, BaseFacts
<1>3. 0 \in 0..MaxRows /\ 0 <= Len(rows) /\ Len(rows) \in Nat
  BY <1>2, RowFacts, ChatConstants
<1>4. Shape(lines, FALSE, FALSE, FALSE, FALSE) /\ Echoed(lines, 0)
  <2>1. Reloaded(0) = << >>
    <3>1. Reloaded(0) \in Seq(Line) /\ Len(Reloaded(0)) = 0
      BY <1>2, <1>3, ReloadedIs
    <3> QED
      BY <3>1, EmptySeq
  <2> QED
    BY <1>1, <1>2, <1>3, <2>1, ShapeReloaded
<1>5. Looks
  BY <1>1, <1>4 DEF Looks, Open
<1>6. Speaks
  BY <1>1, <1>4 DEF Speaks, Saying
<1> QED
  BY <1>1, <1>5, <1>6 DEF CleanOK, Tidy, Ahead

\* Once nothing is on its way, the lines are those of the rows.
LEMMA QuietConverges ==
  ASSUME PageFits, WayOK, CleanOK
  PROVE  ViewConverges
<1>1. SUFFICES ASSUME Quiet
               PROVE  /\ DOMAIN rows \ missed \subseteq ShownIn(lines)
                      /\ clean /\ missed = {} =>
                           \A i, j \in DOMAIN lines : lines[i].id # 0 /\ (lines[i].id = lines[j].id => i = j)
  BY DEF ViewConverges
<1>2. DOMAIN rows \ missed \subseteq ShownIn(lines)
  BY <1>1, QuietShows
<1>3. ASSUME clean, missed = {}
      PROVE  \A i, j \in DOMAIN lines : lines[i].id # 0 /\ (lines[i].id = lines[j].id => i = j)
  <2>1. Looks /\ Speaks /\ turn = NoStream /\ upload = NoStream
    BY <1>1, <1>3 DEF CleanOK, Tidy, Quiet, Locked
  <2>2. Shape(lines, FALSE, FALSE, rich, FALSE) /\ Echoed(lines, 0)
    BY <2>1, LooksLike, NoneSaid DEF Saying
  <2>3. Distinct(lines) /\ \A i \in DOMAIN lines : lines[i].id = 0 => lines[i].user /\ ~lines[i].file
    BY <2>2, ShapeQuiet
  <2>4. Unechoed(lines) = {}
    BY <1>2, <1>3 DEF Unechoed
  <2>5. RowsTyped /\ lines \in Seq(Line)
    BY FitsFacts, BaseFacts
  <2>6. /\ IsFiniteSet(Typing(lines)) /\ Cardinality(Typing(lines)) \in Nat
        /\ Cardinality(Typing(lines)) <= Cardinality(Unechoed(lines)) + 0
    BY <2>2, <2>5, TypingFinite DEF Echoed
  <2>7. Cardinality(Typing(lines)) = 0
    BY <2>4, <2>6, FS_EmptySet
  <2>8. Typing(lines) = {}
    BY <2>6, <2>7, FS_EmptySet
  <2>9. \A i \in DOMAIN lines : lines[i].id # 0
    BY <2>3, <2>8 DEF Typing
  <2> QED
    BY <2>3, <2>9 DEF Distinct
<1> QED
  BY <1>2, <1>3

PageInv == PageFits /\ WayOK /\ CleanOK

LEMMA InitPage == ChatInit => PageInv
  BY InitFits, InitWay, InitTidy DEF PageInv

LEMMA StepPage == PageInv /\ [ChatNext]_chatVars => PageInv'
  BY StepFits, StepWay, StepTidy DEF PageInv

LEMMA PageSafe == PageInv => ChatTypeOK /\ ViewConverges
  BY FitsFacts, BaseFacts, PageIsTyped, QuietConverges DEF PageInv

\* The lines of the page, its streams, the transcript and what is under way
\* between them keep their types.
THEOREM PageTypeCorrect == ChatInit /\ [][ChatNext]_chatVars => []ChatTypeOK
<1>1. PageInv => ChatTypeOK
  BY PageSafe
<1> QED
  BY <1>1, InitPage, StepPage, PTL

\* Subscribe first, then snapshot, then merge by id: once nothing is on its way
\* to the page, it shows every row that did not pass it by; and if nothing failed
\* besides, every line is of a row and no row has two.
THEOREM ViewConvergesHolds == ChatInit /\ [][ChatNext]_chatVars => []ViewConverges
<1>1. PageInv => ViewConverges
  BY PageSafe
<1> QED
  BY <1>1, InitPage, StepPage, PTL
=============================================================================
