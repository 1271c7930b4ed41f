------------------------------- MODULE Growth -------------------------------
(***************************************************************************)
(* The growth mirror of packages/core/src/growth: axis readings derived    *)
(* from what the companion has read, remembered and done, and the stored   *)
(* high-water mark whose advance posts a reflection.  recompute            *)
(* (service.ts) runs at the tail of a turn with no claim of its own, so    *)
(* recomputes of a companion overlap, and readings move meanwhile.         *)
(***************************************************************************)
EXTENDS Integers, FiniteSets, FiniteSetsExt

CONSTANTS
  Recompute,     \* overlapping recomputes of the companion
  Counted,       \* the counts of the substrate that move, with their bounds
  BandWidth,     \* points per knowledge and bond band
  MaxMisses      \* bound on lost recomputes and failed posts

ASSUME GrowthConstants ==
  /\ IsFiniteSet(Recompute)
  /\ Counted \in [{"sources", "episodes", "initiations", "procedures"} -> Nat]
  /\ BandWidth \in Nat \ {0}
  /\ MaxMisses \in Nat

VARIABLES
  substrate,     \* what the stores count, as GrowthSubstrate
  mark,          \* the companion_growth row
  recompute,     \* each recompute: where it is and what it has read
  notes,         \* ghost: reflections posted on each axis
  told,          \* ghost: reflections posted on each capability
  misses         \* how much of MaxMisses is used

growthVars == <<substrate, mark, recompute, notes, told, misses>>

Axis == {"knowledge", "bond", "initiative"}

Capability == {"reading_sources", "first_routine"}

Count == DOMAIN Counted

TopBand == (Counted.sources + Counted.episodes + Counted.initiations) \div BandWidth

Mark == [band : [Axis -> 0..TopBand], observed : SUBSET Capability]

EmptyMark == [band |-> [a \in Axis |-> 0], observed |-> {}]

Idle == [at |-> "idle", view |-> EmptyMark, from |-> EmptyMark, todo |-> {}]

-----------------------------------------------------------------------------
(* levels.ts and capabilities.ts *)

\* bandFromPoints: linear bands, the top one open-ended.
BandFromPoints(points, top) == Min({points \div BandWidth, top})

\* bandFromThresholds, with the thresholds 0..top: the last one reached.
BandFromThresholds(value, top) == Max({i \in 0..top : value >= i})

KnowledgeBand(s) == BandFromPoints(s.sources + s.episodes, TopBand)

BondBand(s) == BandFromPoints(s.episodes, TopBand)

InitiativeBand(s) == BandFromThresholds(s.initiations, TopBand)

\* computeObserved: two of the capabilities, each read off a count.
Observed(s) ==
  {k \in Capability : \/ k = "reading_sources" /\ s.sources > 0
                      \/ k = "first_routine" /\ s.procedures > 0}

\* computeView, its reads taken at one instant.
View(s) ==
  [band |-> [a \in Axis |-> CASE a = "knowledge"  -> KnowledgeBand(s)
                              [] a = "bond"       -> BondBand(s)
                              [] a = "initiative" -> InitiativeBand(s)],
   observed |-> Observed(s)]

-----------------------------------------------------------------------------
GrowthInit ==
  /\ substrate = [f \in Count |-> 0]
  /\ mark = EmptyMark
  /\ recompute = [r \in Recompute |-> Idle]
  /\ notes = [a \in Axis |-> 0]
  /\ told = [k \in Capability |-> 0]
  /\ misses = 0

\* A count of the substrate rises: a source read, an episode appended, an
\* initiation logged or a routine learned.
Progress ==
  /\ \E f \in Count :
       /\ substrate[f] < Counted[f]
       /\ substrate' = [substrate EXCEPT ![f] = @ + 1]
  /\ UNCHANGED <<mark, recompute, notes, told, misses>>

\* deleteSource: the readings dip.
SourceDeleted ==
  /\ substrate.sources > 0
  /\ substrate' = [substrate EXCEPT !.sources = @ - 1]
  /\ UNCHANGED <<mark, recompute, notes, told, misses>>

\* recompute derives the view.
ComputeView(r) ==
  /\ recompute[r].at = "idle"
  /\ recompute' = [recompute EXCEPT ![r] = [Idle EXCEPT !.at = "view", !.view = View(substrate)]]
  /\ UNCHANGED <<substrate, mark, notes, told, misses>>

\* The axes a view advances past a snapshot, and the capabilities new in it.
AxisSteps(view, from) == {a \in Axis : view.band[a] > from.band[a]}

News(view, from) == AxisSteps(view, from) \cup (view.observed \ from.observed)

\* getSnapshot: with no forward progress the recompute is over.
GetSnapshot(r) ==
  /\ recompute[r].at = "view"
  /\ recompute' = [recompute EXCEPT ![r] =
       IF News(@.view, mark) = {} THEN Idle ELSE [@ EXCEPT !.at = "advance", !.from = mark]]
  /\ UNCHANGED <<substrate, mark, notes, told, misses>>

\* The monotonic target.
Target(view, from) ==
  [band |-> [a \in Axis |-> Max({from.band[a], view.band[a]})],
   observed |-> from.observed \cup view.observed]

\* Mutant: the guard compares the bands alone.
StillAtBandsOnly(from) == mark.band = from.band

\* advance's WHERE: the bands, and the length of the capability list.
StillAt(from) ==
  /\ mark.band = from.band
  /\ Cardinality(mark.observed) = Cardinality(from.observed)

\* advance: the loser of a race posts nothing.
Advance(r) ==
  /\ recompute[r].at = "advance"
  /\ LET view == recompute[r].view
         from == recompute[r].from
     IN  IF StillAt(from)
         THEN /\ mark' = Target(view, from)
              /\ recompute' = [recompute EXCEPT ![r] = [Idle EXCEPT !.at = "announce", !.todo = News(view, from)]]
         ELSE /\ recompute' = [recompute EXCEPT ![r] = Idle]
              /\ UNCHANGED mark
  /\ UNCHANGED <<substrate, notes, told, misses>>

\* Done with one note, in whatever order.
AnnounceDone(r, n) ==
  recompute' = [recompute EXCEPT ![r] =
    IF @.todo = {n} THEN Idle ELSE [@ EXCEPT !.todo = recompute[r].todo \ {n}]]

\* announce posts a note.
Announce(r) ==
  /\ recompute[r].at = "announce"
  /\ \E n \in recompute[r].todo :
       /\ AnnounceDone(r, n)
       /\ IF n \in Axis
          THEN notes' = [notes EXCEPT ![n] = @ + 1] /\ UNCHANGED told
          ELSE told' = [told EXCEPT ![n] = @ + 1] /\ UNCHANGED notes
  /\ UNCHANGED <<substrate, mark, misses>>

\* A failed post is logged and skipped.
AnnounceFails(r) ==
  /\ recompute[r].at = "announce"
  /\ misses < MaxMisses
  /\ misses' = misses + 1
  /\ \E n \in recompute[r].todo : AnnounceDone(r, n)
  /\ UNCHANGED <<substrate, mark, notes, told>>

\* A store call throws, or the process dies.
RecomputeLost(r) ==
  /\ recompute[r].at # "idle"
  /\ misses < MaxMisses
  /\ misses' = misses + 1
  /\ recompute' = [recompute EXCEPT ![r] = Idle]
  /\ UNCHANGED <<substrate, mark, notes, told>>

GrowthNext ==
  \/ Progress \/ SourceDeleted
  \/ \E r \in Recompute : \/ ComputeView(r) \/ GetSnapshot(r) \/ Advance(r)
                          \/ Announce(r) \/ AnnounceFails(r) \/ RecomputeLost(r)

GrowthSpec == GrowthInit /\ [][GrowthNext]_growthVars

-----------------------------------------------------------------------------
Recomputing ==
  [at : {"idle", "view", "advance", "announce"}, view : Mark, from : Mark, todo : SUBSET (Axis \cup Capability)]

GrowthTypeOK ==
  /\ substrate \in [Count -> Nat] /\ \A f \in Count : substrate[f] <= Counted[f]
  /\ mark \in Mark
  /\ recompute \in [Recompute -> Recomputing]
  /\ notes \in [Axis -> Nat]
  /\ told \in [Capability -> Nat]
  /\ misses \in 0..MaxMisses

\* The companion celebrates no step twice: a band of an axis is behind at
\* most one reflection and a capability is announced at most once, however
\* recomputes overlap, readings dip and rise again, and recomputes die
\* (growth/service.ts recompute, growth-store.ts advance).
ReflectedOnce ==
  /\ \A a \in Axis : notes[a] <= mark.band[a]
  /\ \A k \in Capability : told[k] <= IF k \in mark.observed THEN 1 ELSE 0
=============================================================================
