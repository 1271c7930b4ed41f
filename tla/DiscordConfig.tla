---------------------------- MODULE DiscordConfig ----------------------------
(***************************************************************************)
(* The discord_config row of one user (db/src/discord-config-store.ts),    *)
(* the settings methods that write it (api/src/ws/methods/discord-         *)
(* config.ts) and the `/link` handshake that binds the owner of the bot    *)
(* (discord/src/router.ts).  A write that may change what the gateway runs *)
(* on owes the Discord service a trigger (reconcile-notifier.ts); the      *)
(* service is GatewayManager.                                              *)
(***************************************************************************)
EXTENDS Integers, FiniteSets

CONSTANTS
  Linker,        \* Discord users who run /link
  Nobody,        \* the owner column is null
  MaxSaves,      \* bound on saves of the settings
  MaxEditsWake,  \* bound on changes of the mission wake
  MaxReissues,   \* bound on link codes issued again
  MaxDeletes     \* bound on deletions of the row

ASSUME DiscordConstants ==
  /\ Nobody \notin Linker
  /\ MaxSaves \in Nat /\ MaxEditsWake \in Nat /\ MaxReissues \in Nat /\ MaxDeletes \in Nat

VARIABLES
  botRow,        \* the discord_config row, or NoRow
  version,       \* ghost: writes of the row that the gateway depends on
  owed,          \* triggers the API has yet to deliver
  linker,        \* each Discord user: idle, or holding the code the handshake matched
  saves, wakeEdits, reissues, deletes,  \* how much of each bound is used
  bound,         \* ghost: the pairs of a code and the owner it bound
  savedCode      \* ghost: the code issued by the last save

discordConfigVars ==
  <<botRow, version, owed, linker, saves, wakeEdits, reissues, deletes, bound, savedCode>>

\* A token is the save that stored it, since each save encrypts anew; a wake
\* pair is the edit that stored it; 0 is null.
NoRow == [token |-> 0, wake |-> 0, code |-> 0, owner |-> Nobody, bot |-> 0]

DiscordConfigInit ==
  /\ botRow = NoRow
  /\ version = 0 /\ owed = 0
  /\ linker = [u \in Linker |-> 0]
  /\ saves = 0 /\ wakeEdits = 0 /\ reissues = 0 /\ deletes = 0
  /\ bound = {} /\ savedCode = 0

\* generateLinkCode: a code never issued before.
FreshCode == saves + reissues + 1

\* The trigger goes out once the write is done.
Triggers == version' = version + 1 /\ owed' = owed + 1

\* discord.config.set: a save forgets the owner, and keeps the wake pair and
\* the bot's id of a row that is there.
Saved ==
  /\ saves < MaxSaves
  /\ saves' = saves + 1
  /\ botRow' = [botRow EXCEPT !.token = saves + 1, !.code = FreshCode, !.owner = Nobody]
  /\ savedCode' = FreshCode
  /\ Triggers
  /\ UNCHANGED <<linker, wakeEdits, reissues, deletes, bound>>

\* discord.config.regenerateLink: the owner stays, and no trigger is due.
Relinked ==
  /\ botRow.token # 0
  /\ reissues < MaxReissues
  /\ reissues' = reissues + 1
  /\ botRow' = [botRow EXCEPT !.code = FreshCode]
  /\ UNCHANGED <<version, owed, linker, saves, wakeEdits, deletes, bound, savedCode>>

\* configureMissionWake.
WakeStored ==
  /\ botRow.token # 0
  /\ wakeEdits < MaxEditsWake
  /\ wakeEdits' = wakeEdits + 1
  /\ botRow' = [botRow EXCEPT !.wake = wakeEdits + 1]

\* discord.config.setMissionWake.
WakeSet ==
  /\ WakeStored
  /\ Triggers
  /\ UNCHANGED <<linker, saves, reissues, deletes, bound, savedCode>>

\* discord.config.delete.
Deleted ==
  /\ botRow.token # 0
  /\ deletes < MaxDeletes
  /\ deletes' = deletes + 1
  /\ botRow' = NoRow
  /\ Triggers
  /\ UNCHANGED <<linker, saves, wakeEdits, reissues, bound, savedCode>>

\* /link finds a pending code, in time, and the one it was given.
LinkMatches(u) ==
  /\ linker[u] = 0
  /\ botRow.code # 0
  /\ linker' = [linker EXCEPT ![u] = botRow.code]
  /\ UNCHANGED <<botRow, version, owed, saves, wakeEdits, reissues, deletes, bound, savedCode>>

\* Mutant: the update of bindOwner takes the row the handshake has read.
BindableAsRead(u) == botRow.token # 0

\* The predicate of bindOwner's update.
Bindable(u) == botRow.code = linker[u] /\ botRow.owner = Nobody

\* bindOwner; a /link that comes second is told that the code was used.
Binds(u) ==
  /\ linker[u] # 0
  /\ linker' = [linker EXCEPT ![u] = 0]
  /\ IF Bindable(u)
     THEN /\ botRow' = [botRow EXCEPT !.owner = u, !.code = 0]
          /\ bound' = bound \cup {<<linker[u], u>>}
     ELSE UNCHANGED <<botRow, bound>>
  /\ UNCHANGED <<version, owed, saves, wakeEdits, reissues, deletes, savedCode>>

DiscordConfigNext ==
  \/ Saved \/ Relinked \/ WakeSet \/ Deleted
  \/ \E u \in Linker : LinkMatches(u) \/ Binds(u)

-----------------------------------------------------------------------------
DiscordConfigTypeOK ==
  /\ botRow \in [token : 0..MaxSaves, wake : 0..MaxEditsWake, code : 0..(MaxSaves + MaxReissues),
              owner : Linker \cup {Nobody}, bot : 0..MaxSaves]
  /\ version \in Nat /\ owed \in Nat
  /\ linker \in [Linker -> 0..(MaxSaves + MaxReissues)]
  /\ saves \in 0..MaxSaves /\ wakeEdits \in 0..MaxEditsWake
  /\ reissues \in 0..MaxReissues /\ deletes \in 0..MaxDeletes

\* A code binds one owner, though two users send it at once, and the owner was
\* bound by a code of the last save or a later one, although the settings may
\* be saved or deleted in the middle of a handshake: "changing the token means
\* re-linking", "the code is single-use under concurrency" (upsert, bindOwner).
LinkOnce ==
  /\ \A p, q \in bound : p[1] = q[1] => p = q
  /\ botRow.owner # Nobody => \E p \in bound : p[1] >= savedCode /\ p[2] = botRow.owner
=============================================================================
