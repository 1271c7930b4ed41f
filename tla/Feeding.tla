------------------------------ MODULE Feeding ------------------------------
(***************************************************************************)
(* The feeding economy: a user's pantry (core/src/growth/food-store.ts),   *)
(* feed (growth/economy.ts) and the two vitality wallets of a companion    *)
(* (quota/vitality-store.ts).  A pantry row is seeded on first use by      *)
(* whichever of the concurrent feeds gets there first, and consuming a     *)
(* food and granting its tokens to each wallet are separate statements.    *)
(***************************************************************************)
EXTENDS Integers, FiniteSets

CONSTANTS
  Feeder,        \* requests that feed the companion
  InitialFood,   \* FOOD_INITIAL: what a pantry is seeded with
  StartTokens,   \* STARTING_VITALITY_TOKENS
  MaxFeeds,      \* bound on feeds
  MaxBills,      \* bound on turns and runs billed
  MaxLostFeeds   \* bound on feeds that throw or die halfway

ASSUME FeedingConstants ==
  /\ IsFiniteSet(Feeder)
  /\ InitialFood \in Nat /\ StartTokens \in Nat
  /\ MaxFeeds \in Nat /\ MaxBills \in Nat /\ MaxLostFeeds \in Nat

VARIABLES
  pantry,        \* the user_food row: a count of each food, or absent
  wallet,        \* the companion's stamina and energy columns
  feeder,        \* each request: where it is and the food it feeds
  consumed,      \* ghost: foods taken out of the pantry
  granted,       \* ghost: foods whose tokens reached the wallet
  feeds, bills, lostFeeds   \* how much of each bound is used

feedingVars == <<pantry, wallet, feeder, consumed, granted, feeds, bills, lostFeeds>>

Food == {"ration", "spark", "treat"}

Wallet == {"stamina", "energy"}

\* FOODS, in units of 40000 tokens: what each food adds to each wallet.
Grant ==
  [ration |-> [stamina |-> 5, energy |-> 0],
   spark  |-> [stamina |-> 0, energy |-> 5],
   treat  |-> [stamina |-> 2, energy |-> 2]]

Feeds(w) == {f \in Food : Grant[f][w] > 0}

Absent == [f \in Food |-> -1]

Seeded == [f \in Food |-> InitialFood]

Resting == [at |-> "idle", food |-> "treat"]

FeedingInit ==
  /\ pantry = Absent
  /\ wallet = [w \in Wallet |-> StartTokens]
  /\ feeder = [r \in Feeder |-> Resting]
  /\ consumed = [f \in Food |-> 0]
  /\ granted = [w \in Wallet |-> [f \in Food |-> 0]]
  /\ feeds = 0 /\ bills = 0 /\ lostFeeds = 0

FeederAt(r, at) == feeder' = [feeder EXCEPT ![r].at = at]

FeedEnds(r) == feeder' = [feeder EXCEPT ![r] = Resting]

\* A feed begins with the load of consume: it finds the row or goes to seed.
FeedBegins(r, f) ==
  /\ feeder[r].at = "idle"
  /\ feeds < MaxFeeds
  /\ feeds' = feeds + 1
  /\ feeder' = [feeder EXCEPT ![r] = [at |-> IF pantry = Absent THEN "seed" ELSE "consume", food |-> f]]
  /\ UNCHANGED <<pantry, wallet, consumed, granted, bills, lostFeeds>>

\* Mutant: the seeding replaces the row it conflicts with.
SeedRowOverwrites == pantry' = Seeded

\* INSERT ... ON CONFLICT DO NOTHING.
SeedRow == pantry' = IF pantry = Absent THEN Seeded ELSE pantry

\* load inserts the seed and reads the row again.
Seeds(r) ==
  /\ feeder[r].at = "seed"
  /\ SeedRow
  /\ FeederAt(r, "consume")
  /\ UNCHANGED <<wallet, consumed, granted, feeds, bills, lostFeeds>>

\* The guarded decrement: without a food left the feed ends with a reason.
Consumes(r) ==
  LET f == feeder[r].food
  IN  /\ feeder[r].at = "consume"
      /\ IF pantry[f] > 0
         THEN /\ pantry' = [pantry EXCEPT ![f] = @ - 1]
              /\ consumed' = [consumed EXCEPT ![f] = @ + 1]
              /\ FeederAt(r, "stamina")
         ELSE FeedEnds(r) /\ UNCHANGED <<pantry, consumed>>
      /\ UNCHANGED <<wallet, granted, feeds, bills, lostFeeds>>

\* VitalityStore.add, an atomic increment.
Add(w, f) ==
  /\ wallet' = [wallet EXCEPT ![w] = @ + Grant[f][w]]
  /\ granted' = IF f \in Feeds(w) THEN [granted EXCEPT ![w][f] = @ + 1] ELSE granted

AddsStamina(r) ==
  /\ feeder[r].at = "stamina"
  /\ Add("stamina", feeder[r].food)
  /\ FeederAt(r, "energy")
  /\ UNCHANGED <<pantry, consumed, feeds, bills, lostFeeds>>

AddsEnergy(r) ==
  /\ feeder[r].at = "energy"
  /\ Add("energy", feeder[r].food)
  /\ FeedEnds(r)
  /\ UNCHANGED <<pantry, consumed, feeds, bills, lostFeeds>>

\* A statement throws or the process dies: the food may be lost.
FeedLost(r) ==
  /\ feeder[r].at # "idle"
  /\ lostFeeds < MaxLostFeeds
  /\ lostFeeds' = lostFeeds + 1
  /\ FeedEnds(r)
  /\ UNCHANGED <<pantry, wallet, consumed, granted, feeds, bills>>

\* spend: a turn bills stamina, a burst energy, floored at zero.
Spend(w) ==
  /\ bills < MaxBills
  /\ bills' = bills + 1
  /\ wallet' = [wallet EXCEPT ![w] = IF @ > 2 THEN @ - 2 ELSE 0]
  /\ UNCHANGED <<pantry, feeder, consumed, granted, feeds, lostFeeds>>

FeedingNext ==
  \/ \E r \in Feeder : \/ Seeds(r) \/ Consumes(r) \/ AddsStamina(r) \/ AddsEnergy(r) \/ FeedLost(r)
                       \/ \E f \in Food : FeedBegins(r, f)
  \/ \E w \in Wallet : Spend(w)

FeedingSpec == FeedingInit /\ [][FeedingNext]_feedingVars

-----------------------------------------------------------------------------
FeedingTypeOK ==
  /\ pantry \in [Food -> -1..InitialFood]
  /\ wallet \in [Wallet -> Nat]
  /\ feeder \in [Feeder -> [at : {"idle", "seed", "consume", "stamina", "energy"}, food : Food]]
  /\ consumed \in [Food -> Nat]
  /\ granted \in [Wallet -> [Food -> Nat]]
  /\ feeds \in 0..MaxFeeds /\ bills \in 0..MaxBills /\ lostFeeds \in 0..MaxLostFeeds

\* Requests that took food f and have not yet granted it to wallet w.
Owing(f, w) ==
  {r \in Feeder : /\ feeder[r].food = f
                  /\ feeder[r].at \in IF w = "stamina" THEN {"stamina"} ELSE {"stamina", "energy"}}

\* No food is created and none is granted for free: what is left and what was
\* eaten add up to the seed however many first feeds race to seed the row, and
\* a wallet was granted each food consumed but the ones in flight and the ones
\* lost to a failure (food-store.ts load and consume, economy.ts feed).
FoodAccounted ==
  \A f \in Food :
    /\ pantry[f] + consumed[f] = IF pantry = Absent THEN -1 ELSE InitialFood
    /\ \A w \in Wallet : f \in Feeds(w) =>
         consumed[f] - granted[w][f] - Cardinality(Owing(f, w)) \in 0..lostFeeds
=============================================================================
