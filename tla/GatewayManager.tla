--------------------------- MODULE GatewayManager ---------------------------
(***************************************************************************)
(* The gateway manager of the Discord service (discord/src/gateway/        *)
(* manager.ts), for one user: the startup pass, the reconciles that the    *)
(* API's triggers and /notifybot start (control-server.ts, service.ts,     *)
(* notify-command.ts), each a JavaScript task cut at its awaits, and the   *)
(* gateway connections they start and stop.  Nothing orders the reconciles *)
(* of one user.                                                            *)
(***************************************************************************)
EXTENDS DiscordConfig, Sequences

CONSTANTS
  Reconciler,        \* reconciles that may be in progress
  MaxGatewayFaults,  \* bound on calls that fail and triggers lost or repeated
  MaxServiceDeaths   \* bound on deaths of the service

ASSUME GatewayConstants == MaxGatewayFaults \in Nat /\ MaxServiceDeaths \in Nat

VARIABLES
  service,      \* "down", "listing" (the startup pass reads), "starting", "listening"
  gateways,     \* the connections made, each [token, state]
  bot,          \* the user's entry in `bots`: gateway (0: none), token, wake
  task,         \* each reconcile and the startup pass: where it is and what it read
  acted,        \* ghost: the latest version of the row a task has acted on
  spoilt,       \* ghost: a fault, a lost trigger or a race since the service started
  faults, deaths   \* how much of each bound is used

managerVars == <<service, gateways, bot, task, acted, spoilt, faults, deaths>>

gatewayVars == <<discordConfigVars, managerVars>>

Startup == "startup"

Task == Reconciler \cup {Startup}

NoBot == [gateway |-> 0, token |-> 0, wake |-> 0]

Free == [at |-> "idle", token |-> 0, wake |-> 0, version |-> 0, gateway |-> 0]

GatewayInit ==
  /\ DiscordConfigInit
  /\ service = "down"
  /\ gateways = <<>>
  /\ bot = NoBot
  /\ task = [t \in Task |-> Free]
  /\ acted = 0
  /\ spoilt = FALSE
  /\ faults = 0 /\ deaths = 0

GatewayFault == faults < MaxGatewayFaults /\ faults' = faults + 1 /\ spoilt' = TRUE

TaskAt(t, at) == task' = [task EXCEPT ![t].at = at]

Ends(t) == task' = [task EXCEPT ![t] = Free]

\* The task goes on with a row that another has since found changed.
Late(t) == task[t].version < acted

\* gateway.stop of connection g, which cuts it at once.
Stopping(g) == gateways' = [gateways EXCEPT ![g].state = "stopped"]

-----------------------------------------------------------------------------
(* The service *)

\* The startup pass is under way.
Boots ==
  /\ service = "down"
  /\ service' = "listing"
  /\ UNCHANGED <<discordConfigVars, gateways, bot, task, acted, spoilt, faults, deaths>>

\* What a task notes of the row it read.
ReadOf(at) ==
  [Free EXCEPT !.at = at, !.token = botRow.token, !.wake = botRow.wake, !.version = version]

\* list answers, or fails and the service runs without its bots.
Lists ==
  /\ service = "listing"
  /\ service' = "starting"
  /\ \/ task' = [task EXCEPT ![Startup] = ReadOf("read")] /\ UNCHANGED <<spoilt, faults>>
     \/ GatewayFault /\ UNCHANGED task
  /\ UNCHANGED <<discordConfigVars, gateways, bot, acted, deaths>>

\* start() has returned: the control server takes triggers.
Listens ==
  /\ service = "starting"
  /\ task[Startup].at = "idle"
  /\ service' = "listening"
  /\ UNCHANGED <<discordConfigVars, gateways, bot, task, acted, spoilt, faults, deaths>>

\* The process ends, and its connections and tasks with it.
ServiceDies ==
  /\ service # "down"
  /\ deaths < MaxServiceDeaths
  /\ deaths' = deaths + 1
  /\ service' = "down"
  /\ gateways' = [g \in DOMAIN gateways |-> [gateways[g] EXCEPT !.state = "stopped"]]
  /\ bot' = NoBot
  /\ task' = [t \in Task |-> Free]
  /\ acted' = 0
  /\ spoilt' = FALSE
  /\ UNCHANGED <<discordConfigVars, faults>>

-----------------------------------------------------------------------------
(* Triggers *)

\* A trigger is delivered; its answer may be lost, and it is sent again.
Delivered(t) ==
  /\ service = "listening"
  /\ owed > 0
  /\ task[t].at = "idle"
  /\ TaskAt(t, "reading")
  /\ \/ owed' = owed - 1 /\ UNCHANGED faults
     \/ faults < MaxGatewayFaults /\ faults' = faults + 1 /\ UNCHANGED owed
  /\ UNCHANGED <<botRow, version, linker, saves, wakeEdits, reissues, deletes, bound, savedCode,
                 service, gateways, bot, acted, spoilt, deaths>>

\* Every attempt fails, because nobody listens or by a fault.  The startup
\* pass makes up for it if it has yet to read the botRow.
TriggerLost ==
  /\ owed > 0
  /\ owed' = owed - 1
  /\ CASE service \in {"down", "listing"} -> UNCHANGED <<spoilt, faults>>
       [] service = "starting" -> spoilt' = TRUE /\ UNCHANGED faults
       [] OTHER -> GatewayFault
  /\ UNCHANGED <<botRow, version, linker, saves, wakeEdits, reissues, deletes, bound, savedCode,
                 service, gateways, bot, task, acted, deaths>>

\* /notifybot, heard by a connection that is up, stores the wake pair and
\* reconciles without a trigger.
NotifyBot(t) ==
  /\ \E g \in DOMAIN gateways : gateways[g].state = "up"
  /\ task[t].at = "idle"
  /\ WakeStored
  /\ version' = version + 1
  /\ TaskAt(t, "reading")
  /\ UNCHANGED <<owed, linker, saves, reissues, deletes, bound, savedCode,
                 service, gateways, bot, acted, spoilt, faults, deaths>>

-----------------------------------------------------------------------------
(* A reconcile *)

\* findByUserId answers, or fails, which is left for the next trigger.
ReadsRow(t) ==
  /\ task[t].at = "reading"
  /\ \/ task' = [task EXCEPT ![t] = ReadOf("read")] /\ UNCHANGED <<spoilt, faults>>
     \/ GatewayFault /\ Ends(t)
  /\ UNCHANGED <<discordConfigVars, service, gateways, bot, acted, deaths>>

\* Mutant: the wake pair is compared first, and a new one hides a new token.
ObsoleteUnlessRewired(t) == task[t].token # bot.token /\ task[t].wake = bot.wake

\* The running connection is on another token than the row, or the row is gone.
Obsolete(t) == task[t].token # bot.token

\* startBot: the connection and its record, before the first await.
StartsBot(t) ==
  LET g == Len(gateways) + 1
  IN  /\ gateways' = Append(gateways, [token |-> task[t].token, state |-> "starting"])
      /\ bot' = [gateway |-> g, token |-> task[t].token, wake |-> task[t].wake]
      /\ task' = [task EXCEPT ![t].at = "starting", ![t].gateway = g]

\* The user has no bot: one is started if a row was read.
DecidesWithout(t) ==
  /\ bot.gateway = 0
  /\ IF task[t].token = 0 THEN Ends(t) /\ UNCHANGED <<gateways, bot>> ELSE StartsBot(t)

\* The bot runs on another token, or its row is gone: it is stopped first.
DecidesToStop(t) ==
  /\ bot.gateway # 0
  /\ Obsolete(t)
  /\ Stopping(bot.gateway)
  /\ task' = [task EXCEPT ![t].at = "stopping", ![t].gateway = bot.gateway]
  /\ UNCHANGED bot

\* refreshMissionWake.
DecidesToKeep(t) ==
  /\ bot.gateway # 0
  /\ ~Obsolete(t)
  /\ bot' = [bot EXCEPT !.wake = task[t].wake]
  /\ Ends(t)
  /\ UNCHANGED gateways

\* The task compares what it read with the bot that runs by now.
Decides(t) ==
  /\ task[t].at = "read"
  /\ DecidesWithout(t) \/ DecidesToStop(t) \/ DecidesToKeep(t)
  /\ acted' = IF Late(t) THEN acted ELSE task[t].version
  /\ spoilt' = (spoilt \/ Late(t))
  /\ UNCHANGED <<discordConfigVars, service, faults, deaths>>

\* safeStop is over: the user's record goes, whichever it is by now, and the
\* bot starts on the token that was read.
Stopped(t) ==
  /\ task[t].at = "stopping"
  /\ IF task[t].token = 0
     THEN bot' = NoBot /\ Ends(t) /\ UNCHANGED gateways
     ELSE StartsBot(t)
  /\ spoilt' = \/ spoilt
               \/ bot.gateway \notin {0, task[t].gateway}
               \/ task[t].token # 0 /\ Late(t)
  /\ UNCHANGED <<discordConfigVars, service, acted, faults, deaths>>

\* gateway.start: the connection hears events from here on.
LogsIn(t) ==
  LET g == task[t].gateway
  IN  /\ task[t].at = "starting"
      /\ gateways[g].state = "starting"
      /\ gateways' = [gateways EXCEPT ![g].state = "up"]
      /\ TaskAt(t, "registering")
      /\ UNCHANGED <<discordConfigVars, service, bot, acted, spoilt, faults, deaths>>

\* captureBotUserId, which a row that is gone or a failed write leaves out.
Registers(t) ==
  /\ task[t].at = "registering"
  /\ Ends(t)
  /\ \/ /\ botRow' = IF botRow.token = 0 THEN botRow ELSE [botRow EXCEPT !.bot = task[t].token]
        /\ spoilt' = (spoilt \/ gateways[task[t].gateway].state = "stopped")
        /\ UNCHANGED faults
     \/ GatewayFault /\ UNCHANGED botRow
  /\ UNCHANGED <<version, owed, linker, saves, wakeEdits, reissues, deletes, bound, savedCode,
                 service, gateways, bot, acted, deaths>>

\* The start fails, by a fault or because the connection was cut meanwhile:
\* the user's record goes, whichever it is by now, and the connection stops.
StartFails(t) ==
  LET g == task[t].gateway
  IN  /\ task[t].at \in {"starting", "registering"}
      /\ \/ GatewayFault
         \/ /\ gateways[g].state = "stopped"
            /\ spoilt' = (spoilt \/ bot.gateway \notin {0, g})
            /\ UNCHANGED faults
      /\ bot' = NoBot
      /\ Stopping(g)
      /\ Ends(t)
      /\ UNCHANGED <<discordConfigVars, service, acted, deaths>>

Steps(t) ==
  ReadsRow(t) \/ Decides(t) \/ Stopped(t) \/ LogsIn(t) \/ Registers(t) \/ StartFails(t)

\* The code and the owner are columns the manager does not read.
GatewayNext ==
  \/ (Saved \/ WakeSet \/ Deleted) /\ UNCHANGED managerVars
  \/ Boots \/ Lists \/ Listens \/ ServiceDies \/ TriggerLost
  \/ \E t \in Reconciler : Delivered(t) \/ NotifyBot(t)
  \/ \E t \in Task : Steps(t)

GatewaySpec == GatewayInit /\ [][GatewayNext]_gatewayVars

-----------------------------------------------------------------------------
Place == {"idle", "reading", "read", "stopping", "starting", "registering"}

GatewayTypeOK ==
  /\ DiscordConfigTypeOK
  /\ service \in {"down", "listing", "starting", "listening"}
  /\ \A g \in DOMAIN gateways :
       gateways[g] \in [token : 1..MaxSaves, state : {"starting", "up", "stopped"}]
  /\ bot \in [gateway : 0..Len(gateways), token : 0..MaxSaves, wake : 0..MaxEditsWake]
  /\ task \in [Task -> [at : Place, token : 0..MaxSaves, wake : 0..MaxEditsWake,
                        version : 0..version, gateway : 0..Len(gateways)]]
  /\ acted \in 0..version /\ spoilt \in BOOLEAN
  /\ faults \in 0..MaxGatewayFaults /\ deaths \in 0..MaxServiceDeaths

\* Connections of the user's bot to Discord.
Live == {g \in DOMAIN gateways : gateways[g].state # "stopped"}

AtRest == service = "listening" /\ owed = 0 /\ \A t \in Task : task[t].at = "idle"

\* Discord allows one connection per bot, and a user has no more; and once the
\* triggers have been served the manager holds the very connection, wake pair
\* and bot id that the row asks for.  Reconciles, writes and /notifybot may
\* overlap and the service may restart (start, reconcileUser).  Except after a
\* fault, a trigger lost behind the startup read, or one of three races: a task
\* acts on an older row than another has, drops the record of a bot it did not
\* start, or stores the id of a bot that was stopped.
GatewayMatchesRow ==
  ~spoilt =>
    /\ Cardinality(Live) <= 1
    /\ AtRest => /\ Live = {bot.gateway} \ {0}
                 /\ <<bot.token, bot.wake>> = <<botRow.token, botRow.wake>>
                 /\ botRow.bot = botRow.token
=============================================================================
