------------------------------ MODULE Rewards -------------------------------
(***************************************************************************)
(* Proactive acts and what the user's reactions teach: the motivation tick *)
(* and its burst (core/src/motivation), the arrival greeting               *)
(* (core/src/greeting/greeter.ts), and the two ways a reaction scores an   *)
(* act, the mood delta of a turn (reinforce.ts) and an emoji on the report *)
(* note (reactions/learner.ts).  They share the proactive_outcomes rows.   *)
(* Every await is a step.  A drain superseded by its lease may overlap its *)
(* successor, so no two of them are assumed to be serialised.              *)
(***************************************************************************)
EXTENDS Integers, Sequences, FiniteSets, FiniteSetsExt

CONSTANTS
  Lead,          \* URLs the companion may go and read
  Limit,         \* the burst's limit on reads
  Greeter,       \* arrivals being greeted at once
  Ambient,       \* turns whose mood delta is being attributed
  Addressed,     \* emoji reactions being learned from
  MaxNotes,      \* bound on report notes and greetings
  MaxSlips       \* bound on store calls that throw and processes that die

ASSUME RewardConstants == Limit \in Nat /\ MaxNotes \in Nat /\ MaxSlips \in Nat

VARIABLES
  leads,         \* status of each lead
  outcomes,      \* the proactive_outcomes rows in seq order
  posted,        \* report notes and greetings in the transcript
  burst,         \* the motivation tick
  greeter,       \* each arrival greeting: where it is and the note it posted
  scoring,       \* each reaction: where it is, the outcome it found, its reward
  moved,         \* ghost: by how much reactions to each note moved the weights
  slips          \* how much of MaxSlips is used

rewardVars == <<leads, outcomes, posted, burst, greeter, scoring, moved, slips>>

Scorer == Ambient \cup Addressed

Note == 1..MaxNotes

Reward == {-1, 0, 1}

NoBurst == [at |-> "idle", todo |-> {}, tried |-> {}, read |-> {}, note |-> 0]

NoGreeting == [at |-> "idle", note |-> 0]

NotScoring == [at |-> "idle", note |-> 0, reward |-> 0]

RewardInit ==
  /\ leads = [l \in Lead |-> "new"]
  /\ outcomes = << >>
  /\ posted = 0
  /\ burst = NoBurst
  /\ greeter = [g \in Greeter |-> NoGreeting]
  /\ scoring = [s \in Scorer |-> NotScoring]
  /\ moved = [n \in Note |-> 0]
  /\ slips = 0

-----------------------------------------------------------------------------
(* ProactiveOutcomeStore *)

Unresolved == {i \in DOMAIN outcomes : ~outcomes[i].resolved}

Record(n) == outcomes' = Append(outcomes, [note |-> n, resolved |-> FALSE, reward |-> 0])

\* findUnresolvedByNoteMessageId finds one.
Awaited(n) == \E i \in Unresolved : outcomes[i].note = n

\* Mutant: the update does not ask for reward IS NULL.
ClaimsResolvedToo(n) == \E i \in DOMAIN outcomes : outcomes[i].note = n

\* The WHERE of setReward: only a row nobody has scored.
Claimable(n) == Awaited(n)

SetReward(n, r) ==
  outcomes' = [i \in DOMAIN outcomes |->
    IF outcomes[i].note = n THEN [note |-> n, resolved |-> TRUE, reward |-> r] ELSE outcomes[i]]

Slips == slips < MaxSlips /\ slips' = slips + 1

-----------------------------------------------------------------------------
(* engine.ts tick and autonomous-burst.ts *)

\* The tick chose a move and no act awaits a reaction: up to Limit leads.
TickBegins ==
  /\ burst.at = "idle"
  /\ Unresolved = {}
  /\ \E todo \in SUBSET {l \in Lead : leads[l] = "new"} :
       /\ todo # {} /\ Cardinality(todo) <= Limit
       /\ burst' = [NoBurst EXCEPT !.at = "reading", !.todo = todo]
  /\ UNCHANGED <<leads, outcomes, posted, greeter, scoring, moved, slips>>

\* A lead is read into memory, or its ingestion fails.
BurstReads(ok) ==
  /\ burst.at = "reading"
  /\ \E l \in burst.todo :
       burst' = [burst EXCEPT !.todo = @ \ {l}, !.tried = @ \cup {l}, !.read = IF ok THEN @ \cup {l} ELSE @]
  /\ UNCHANGED <<leads, outcomes, posted, greeter, scoring, moved, slips>>

\* The read throws: the lead is parked, best effort.
BurstParks ==
  /\ burst.at = "reading"
  /\ Slips
  /\ \E l \in burst.todo :
       /\ burst' = [burst EXCEPT !.todo = @ \ {l}]
       /\ leads' \in {leads, [leads EXCEPT ![l] = "read"]}
  /\ UNCHANGED <<outcomes, posted, greeter, scoring, moved>>

\* Out of energy, or out of leads.
BurstStopsReading ==
  /\ burst.at = "reading"
  /\ burst' = IF burst.tried = {} THEN NoBurst ELSE [burst EXCEPT !.at = "marking", !.todo = {}]
  /\ UNCHANGED <<leads, outcomes, posted, greeter, scoring, moved, slips>>

\* markStatus of every attempt, each of which may fail and be skipped, then
\* the report note if anything was read.
BurstMarks ==
  /\ burst.at = "marking"
  /\ \E skipped \in SUBSET burst.tried :
       /\ IF skipped = {} THEN UNCHANGED slips ELSE Slips
       /\ leads' = [l \in Lead |-> IF l \notin burst.tried \ skipped THEN leads[l]
                                  ELSE IF l \in burst.read THEN "ingested" ELSE "read"]
  /\ burst' = IF burst.read = {} THEN NoBurst ELSE [NoBurst EXCEPT !.at = "noting"]
  /\ UNCHANGED <<outcomes, posted, greeter, scoring, moved>>

BurstNotes ==
  /\ burst.at = "noting" /\ posted < MaxNotes
  /\ posted' = posted + 1
  /\ burst' = [NoBurst EXCEPT !.at = "recording", !.note = posted + 1]
  /\ UNCHANGED <<leads, outcomes, greeter, scoring, moved, slips>>

BurstRecords ==
  /\ burst.at = "recording"
  /\ Record(burst.note)
  /\ burst' = NoBurst
  /\ UNCHANGED <<leads, posted, greeter, scoring, moved, slips>>

\* The record or a store call of the burst throws, or the process dies.
BurstLost ==
  /\ burst.at # "idle"
  /\ Slips
  /\ burst' = NoBurst
  /\ UNCHANGED <<leads, outcomes, posted, greeter, scoring, moved>>

-----------------------------------------------------------------------------
(* greeter.ts *)

\* prepare: quiet while an act awaits a reaction.
GreetingPrepares(g) ==
  /\ greeter[g].at = "idle"
  /\ Unresolved = {}
  /\ greeter' = [greeter EXCEPT ![g].at = "voicing"]
  /\ UNCHANGED <<leads, outcomes, posted, burst, scoring, moved, slips>>

\* compose posts the greeting; an exhausted one has no outcome.
GreetingPosts(g, exhausted) ==
  /\ greeter[g].at = "voicing" /\ posted < MaxNotes
  /\ posted' = posted + 1
  /\ greeter' = [greeter EXCEPT ![g] = IF exhausted THEN NoGreeting ELSE [at |-> "recording", note |-> posted + 1]]
  /\ UNCHANGED <<leads, outcomes, burst, scoring, moved, slips>>

GreetingRecords(g) ==
  /\ greeter[g].at = "recording"
  /\ Record(greeter[g].note)
  /\ greeter' = [greeter EXCEPT ![g] = NoGreeting]
  /\ UNCHANGED <<leads, posted, burst, scoring, moved, slips>>

\* Voicing fails, the record throws, or the process dies.
GreetingLost(g) ==
  /\ greeter[g].at # "idle"
  /\ Slips
  /\ greeter' = [greeter EXCEPT ![g] = NoGreeting]
  /\ UNCHANGED <<leads, outcomes, posted, burst, scoring, moved>>

-----------------------------------------------------------------------------
(* reinforce.ts and learner.ts *)

\* reinforceFromDelta finds the latest unresolved outcome.
AmbientFinds(s, r) ==
  /\ scoring[s].at = "idle"
  /\ Unresolved # {}
  /\ scoring' = [scoring EXCEPT ![s] = [at |-> "claim", note |-> outcomes[Max(Unresolved)].note, reward |-> r]]
  /\ UNCHANGED <<leads, outcomes, posted, burst, greeter, moved, slips>>

\* ReactionLearner.run reads the reaction to note n: its act's outcome if one
\* is pending, else an ordinary answer.
AddressedReads(s, n, r) ==
  /\ scoring[s].at = "idle"
  /\ n <= posted
  /\ \/ Awaited(n) /\ scoring' = [scoring EXCEPT ![s] = [at |-> "claim", note |-> n, reward |-> r]]
     \/ ~Awaited(n) /\ r # 0 /\ scoring' = [scoring EXCEPT ![s] = [at |-> "nudge", note |-> 0, reward |-> r]]
  /\ UNCHANGED <<leads, outcomes, posted, burst, greeter, moved, slips>>

\* The claim: the loser of a race stops, and so does a neutral reward.
Claims(s) ==
  LET n == scoring[s].note
      r == scoring[s].reward
  IN  /\ scoring[s].at = "claim"
      /\ IF Claimable(n) THEN SetReward(n, r) ELSE UNCHANGED outcomes
      /\ scoring' = [scoring EXCEPT ![s] = IF Claimable(n) /\ r # 0 THEN [@ EXCEPT !.at = "nudge"] ELSE NotScoring]
      /\ UNCHANGED <<leads, posted, burst, greeter, moved, slips>>

\* updateDriveWeights: the served drive, or for an ordinary answer approval.
Nudges(s) ==
  LET n == scoring[s].note
  IN  /\ scoring[s].at = "nudge"
      /\ moved' = IF n = 0 THEN moved ELSE [moved EXCEPT ![n] = @ + scoring[s].reward]
      /\ scoring' = [scoring EXCEPT ![s] = NotScoring]
      /\ UNCHANGED <<leads, outcomes, posted, burst, greeter, slips>>

\* A store call throws, the read is null, or the process dies.
ScoringLost(s) ==
  /\ scoring[s].at # "idle"
  /\ Slips
  /\ scoring' = [scoring EXCEPT ![s] = NotScoring]
  /\ UNCHANGED <<leads, outcomes, posted, burst, greeter, moved>>

RewardNext ==
  \/ TickBegins \/ BurstParks \/ BurstStopsReading \/ BurstMarks \/ BurstNotes \/ BurstRecords \/ BurstLost
  \/ \E ok \in BOOLEAN : BurstReads(ok)
  \/ \E g \in Greeter : \/ GreetingPrepares(g) \/ GreetingRecords(g) \/ GreetingLost(g)
                        \/ \E e \in BOOLEAN : GreetingPosts(g, e)
  \/ \E s \in Ambient, r \in Reward : AmbientFinds(s, r)
  \/ \E s \in Addressed, n \in Note, r \in Reward : AddressedReads(s, n, r)
  \/ \E s \in Scorer : Claims(s) \/ Nudges(s) \/ ScoringLost(s)

RewardSpec == RewardInit /\ [][RewardNext]_rewardVars

-----------------------------------------------------------------------------
Outcome == [note : Note, resolved : BOOLEAN, reward : Reward]

RewardTypeOK ==
  /\ leads \in [Lead -> {"new", "ingested", "read"}]
  /\ outcomes \in Seq(Outcome)
  /\ posted \in 0..MaxNotes
  /\ burst \in [at : {"idle", "reading", "marking", "noting", "recording"},
               todo : SUBSET Lead, tried : SUBSET Lead, read : SUBSET Lead, note : 0..MaxNotes]
  /\ greeter \in [Greeter -> [at : {"idle", "voicing", "recording"}, note : 0..MaxNotes]]
  /\ scoring \in [Scorer -> [at : {"idle", "claim", "nudge"}, note : 0..MaxNotes, reward : Reward]]
  /\ moved \in [Note -> Int]
  /\ slips \in 0..MaxSlips

\* An act teaches once: reactions to a report note move the drive weights by
\* the reward its outcome holds, or not at all, whichever of a mood delta and
\* an emoji came first and however many were in flight (rewards.setReward).
ScoredOnce ==
  \A n \in Note : moved[n] # 0 =>
    \E i \in DOMAIN outcomes : outcomes[i].note = n /\ outcomes[i].resolved /\ outcomes[i].reward = moved[n]
=============================================================================
