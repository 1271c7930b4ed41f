-------------------------------- MODULE Mood --------------------------------
(***************************************************************************)
(* The mood reads that follow the turns of a companion                     *)
(* (core/src/harness/post-turn-perception.ts): each senses the user's      *)
(* mood, stores it over the last one and hands the change to the will.     *)
(* A turn does not wait for its read, so reads of several turns are under  *)
(* way at once and are chained in memory; one process runs the companion   *)
(* ("single-instance", affect-store.ts) and may die and be started again.  *)
(***************************************************************************)
EXTENDS Integers, Sequences, SequencesExt

CONSTANTS
  Valence,       \* what the model may sense
  MaxReads,      \* bound on the turns read
  MaxMoodFaults  \* bound on calls that throw and on process deaths

ASSUME MoodConstants ==
  /\ Valence \subseteq Int /\ MaxReads \in Nat /\ MaxMoodFaults \in Nat

VARIABLES
  reads,         \* turns whose reads were launched, numbered 1..reads
  read,          \* each read: where it is, the prior it loaded, what it sensed
  moods,         \* the valences upserted; the companion_affect row is the last
  taught,        \* ghost: the sum of the changes the will learned from
  untaught,      \* ghost: the sum of the changes lost to a failure
  moodFaults     \* how much of MaxMoodFaults is used

moodVars == <<reads, read, moods, taught, untaught, moodFaults>>

Read == 1..MaxReads

\* A read that is over, or whose turn is yet to come.
NoRead == [at |-> "none", prior |-> << >>, senses |-> 0]

MoodInit ==
  /\ reads = 0
  /\ read = [n \in Read |-> NoRead]
  /\ moods = << >>
  /\ taught = 0 /\ untaught = 0
  /\ moodFaults = 0

MoodFault == moodFaults < MaxMoodFaults /\ moodFaults' = moodFaults + 1

UnderWay(n) == read[n].at # "none"

\* The stored reading, if there is one.
Stored == IF moods = << >> THEN << >> ELSE <<Last(moods)>>

\* The change from the prior; the first reading ever has none.
Delta(n) == IF read[n].prior = << >> THEN 0 ELSE read[n].senses - read[n].prior[1]

\* What a failure of read n loses: a change stored and not yet learned from.
Unlearned(n) == IF read[n].at = "reinforce" THEN Delta(n) ELSE 0

\* The read with such a change, if there is one: the chain lets one through.
Unlearning == {n \in Read : read[n].at = "reinforce"}

\* What the death of the process loses.
OnItsWay == IF Unlearning = {} THEN 0 ELSE Delta(CHOOSE n \in Unlearning : TRUE)

ReadOver(n) == read' = [read EXCEPT ![n] = NoRead]

\* A turn ends, and its read is queued.
AfterTurn ==
  /\ reads < MaxReads
  /\ reads' = reads + 1
  /\ read' = [read EXCEPT ![reads + 1].at = "queued"]
  /\ UNCHANGED <<moods, taught, untaught, moodFaults>>

\* Mutant: the reads of a companion are not chained.
ChainedNot(n) == TRUE

\* chainAffect: a read waits for the ones launched before it.
Chained(n) == \A m \in 1..(n - 1) : ~UnderWay(m)

LoadsPrior(n) ==
  /\ read[n].at = "queued"
  /\ Chained(n)
  /\ read' = [read EXCEPT ![n] = [at |-> "sense", prior |-> Stored, senses |-> 0]]
  /\ UNCHANGED <<reads, moods, taught, untaught, moodFaults>>

Senses(n, v) ==
  /\ read[n].at = "sense"
  /\ read' = [read EXCEPT ![n].at = "upsert", ![n].senses = v]
  /\ UNCHANGED <<reads, moods, taught, untaught, moodFaults>>

\* The model declines or the provider fails: no evidence, nothing stored.
SensesNothing(n) ==
  /\ read[n].at = "sense"
  /\ ReadOver(n)
  /\ UNCHANGED <<reads, moods, taught, untaught, moodFaults>>

Upserts(n) ==
  /\ read[n].at = "upsert"
  /\ moods' = Append(moods, read[n].senses)
  /\ read' = [read EXCEPT ![n].at = "reinforce"]
  /\ UNCHANGED <<reads, taught, untaught, moodFaults>>

Reinforces(n) ==
  /\ read[n].at = "reinforce"
  /\ taught' = taught + Delta(n)
  /\ ReadOver(n)
  /\ UNCHANGED <<reads, moods, untaught, moodFaults>>

\* A store call throws, the reply of a committed upsert perhaps: the read is
\* over, and the next in the chain goes on.
ReadFails(n) ==
  /\ read[n].at \notin {"none", "queued"}
  /\ MoodFault
  /\ untaught' = untaught + Unlearned(n)
  /\ ReadOver(n)
  /\ UNCHANGED <<reads, moods, taught>>

\* The process dies with every read in its memory.
MoodDies ==
  /\ \E n \in Read : UnderWay(n)
  /\ MoodFault
  /\ untaught' = untaught + OnItsWay
  /\ read' = [n \in Read |-> NoRead]
  /\ UNCHANGED <<reads, moods, taught>>

MoodNext ==
  \/ AfterTurn \/ MoodDies
  \/ \E n \in Read : \/ LoadsPrior(n) \/ SensesNothing(n) \/ Upserts(n) \/ Reinforces(n) \/ ReadFails(n)
                     \/ \E v \in Valence : Senses(n, v)

MoodSpec == MoodInit /\ [][MoodNext]_moodVars

-----------------------------------------------------------------------------
MoodTypeOK ==
  /\ reads \in 0..MaxReads
  /\ read \in [Read -> [at : {"none", "queued", "sense", "upsert", "reinforce"},
                         prior : {<< >>} \cup {<<v>> : v \in Valence},
                         senses : Valence \cup {0}]]
  /\ moods \in Seq(Valence)
  /\ taught \in Int /\ untaught \in Int
  /\ moodFaults \in 0..MaxMoodFaults

\* No mood swing is learned twice or made up: the changes the will learned
\* from add up to the way from the first mood to the stored one, but for those
\* on their way or lost to a failure, although turns end while earlier reads
\* are under way (post-turn-perception.ts chainAffect, perceiveAndLearn: "no
\* double-counted delta").
SwingsAddUp ==
  moods # << >> =>
    taught + untaught + OnItsWay = Last(moods) - Head(moods)
=============================================================================
