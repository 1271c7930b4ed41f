----------------------------- MODULE UserFacts ------------------------------
(***************************************************************************)
(* The identity facts of one user (core/src/user-model/store.ts): what the *)
(* read after a turn captures (harness/post-turn-perception.ts), the name  *)
(* seeded from the sign-in (api/src/ws/handshake.ts), and the user's own   *)
(* edits and deletions.  A capture replaces the fact in a transaction of   *)
(* two statements; captures of a user are chained in the memory of the     *)
(* one process that runs his companions, seeds and edits are not.          *)
(***************************************************************************)
EXTENDS Integers, FiniteSets, FiniteSetsExt

CONSTANTS
  MaxStated,     \* bound on the turns that state a fact
  Seeder,        \* sign-ins at once
  MaxEdits,      \* bound on the user's edits and deletions
  MaxFactFaults  \* bound on statements that throw and on process deaths

ASSUME FactConstants == MaxStated \in Nat /\ MaxEdits \in Nat /\ MaxFactFaults \in Nat

VARIABLES
  facts,         \* the committed rows: predicate, source, and the turn that stated it
  capture,       \* the capture of each turn: where it is, its predicate, the rows it deletes
  stated,        \* turns that stated a fact, numbered 1..stated
  seeding,       \* where each seeding of the name is
  newest,        \* ghost: the newest turn whose statement was stored, by predicate
  edits, factFaults   \* how much of each bound is used

factVars == <<facts, capture, stated, seeding, newest, edits, factFaults>>

\* Two singular predicates: a user has one name by an index, one home by care.
Predicate == {"name", "livesIn"}

Statement == 1..MaxStated

NoCapture == [at |-> "none", predicate |-> "name", deletes |-> {}]

FactsInit ==
  /\ facts = {}
  /\ capture = [t \in Statement |-> NoCapture]
  /\ stated = 0
  /\ seeding = [s \in Seeder |-> "idle"]
  /\ newest = [p \in Predicate |-> 0]
  /\ edits = 0 /\ factFaults = 0

FactFault == factFaults < MaxFactFaults /\ factFaults' = factFaults + 1

Capturing(t) == capture[t].at # "none"

Of(p) == {f \in facts : f.predicate = p}

\* Rows a transaction has deleted and not committed: other writers wait.
Locked == UNION {capture[t].deletes : t \in Statement}

CaptureOver(t) == capture' = [capture EXCEPT ![t] = NoCapture]

-----------------------------------------------------------------------------
(* captureAndStore, recordTranscriptFact *)

\* A turn that states p ends, and its capture is queued.
StatesFact(p) ==
  /\ stated < MaxStated
  /\ stated' = stated + 1
  /\ capture' = [capture EXCEPT ![stated + 1] = [NoCapture EXCEPT !.at = "queued", !.predicate = p]]
  /\ UNCHANGED <<facts, seeding, newest, edits, factFaults>>

\* Mutant: the captures of a user are not chained.
UserChainedNot(t) == TRUE

\* chainUserFacts: a capture waits for the ones launched before it.
UserChained(t) == \A u \in 1..(t - 1) : ~Capturing(u)

\* The transaction deletes the prior value, out of others' sight.
DeletesPrior(t) ==
  /\ capture[t].at = "queued"
  /\ UserChained(t)
  /\ Of(capture[t].predicate) \cap Locked = {}
  /\ capture' = [capture EXCEPT ![t].at = "insert", ![t].deletes = Of(capture[t].predicate)]
  /\ UNCHANGED <<facts, stated, seeding, newest, edits, factFaults>>

\* user_facts_one_current_name_uniq: a name seeded since the delete conflicts.
Conflicts(t) == capture[t].predicate = "name" /\ Of("name") \ capture[t].deletes # {}

\* Then it inserts and commits; a conflict rolls it back, which is logged.
InsertsFact(t) ==
  LET p == capture[t].predicate
  IN  /\ capture[t].at = "insert"
      /\ IF Conflicts(t)
         THEN UNCHANGED <<facts, newest>>
         ELSE /\ facts' = (facts \ capture[t].deletes)
                            \cup {[predicate |-> p, source |-> "transcript", turn |-> t]}
              /\ newest' = [newest EXCEPT ![p] = Max({@, t})]
      /\ CaptureOver(t)
      /\ UNCHANGED <<stated, seeding, edits, factFaults>>

\* The read finds no fact, which is no fault.
CapturesNothing(t) ==
  /\ capture[t].at = "queued" /\ UserChained(t)
  /\ CaptureOver(t)
  /\ UNCHANGED <<facts, stated, seeding, newest, edits, factFaults>>

\* A statement throws: the transaction rolls back.
CaptureFails(t) ==
  /\ capture[t].at = "insert"
  /\ FactFault
  /\ CaptureOver(t)
  /\ UNCHANGED <<facts, stated, seeding, newest, edits>>

\* The process dies with every capture in its memory, and with its sign-ins.
CapturesDie ==
  /\ \E t \in Statement : Capturing(t)
  /\ FactFault
  /\ capture' = [t \in Statement |-> NoCapture]
  /\ seeding' = [s \in Seeder |-> "idle"]
  /\ UNCHANGED <<facts, stated, newest, edits>>

-----------------------------------------------------------------------------
(* seedName, editFact, deleteFact *)

\* The handshake seeds the name unless it sees one.
SeedReads(s) ==
  /\ seeding[s] = "idle"
  /\ Of("name") = {}
  /\ seeding' = [seeding EXCEPT ![s] = "insert"]
  /\ UNCHANGED <<facts, capture, stated, newest, edits, factFaults>>

\* ON CONFLICT DO NOTHING.
SeedInserts(s) ==
  /\ seeding[s] = "insert"
  /\ facts' = IF Of("name") # {} THEN facts
              ELSE facts \cup {[predicate |-> "name", source |-> "auth_seed", turn |-> 0]}
  /\ seeding' = [seeding EXCEPT ![s] = "idle"]
  /\ UNCHANGED <<capture, stated, newest, edits, factFaults>>

\* The user edits a fact in place, or deletes it.
Edited(f) ==
  /\ f \notin Locked
  /\ edits < MaxEdits
  /\ edits' = edits + 1
  /\ \/ facts' = (facts \ {f}) \cup {[f EXCEPT !.source = "user_edit"]}
     \/ facts' = facts \ {f}
  /\ UNCHANGED <<capture, stated, seeding, newest, factFaults>>

FactsNext ==
  \/ CapturesDie
  \/ \E p \in Predicate : StatesFact(p)
  \/ \E t \in Statement : DeletesPrior(t) \/ InsertsFact(t) \/ CapturesNothing(t) \/ CaptureFails(t)
  \/ \E s \in Seeder : SeedReads(s) \/ SeedInserts(s)
  \/ \E f \in facts : Edited(f)

FactsSpec == FactsInit /\ [][FactsNext]_factVars

-----------------------------------------------------------------------------
Fact == [predicate : Predicate, source : {"transcript", "auth_seed", "user_edit"}, turn : 0..MaxStated]

FactsTypeOK ==
  /\ facts \subseteq Fact
  /\ capture \in [Statement -> [at : {"none", "queued", "insert"}, predicate : Predicate, deletes : SUBSET Fact]]
  /\ stated \in 0..MaxStated
  /\ seeding \in [Seeder -> {"idle", "insert"}]
  /\ newest \in [Predicate -> 0..MaxStated]
  /\ edits \in 0..MaxEdits /\ factFaults \in 0..MaxFactFaults

\* A singular fact has one value, and one learned in conversation is the last
\* that could be stored: an earlier turn's capture neither doubles nor
\* overwrites a later one's, whatever sign-ins seed and the user edits
\* meanwhile (recordTranscriptFact, chainUserFacts: "one row per (userId,
\* predicate)").
CurrentFact ==
  \A p \in Predicate :
    /\ Cardinality(Of(p)) <= 1
    /\ \A f \in Of(p) : f.source = "transcript" => f.turn = newest[p]
=============================================================================
