# CobbleCompanion: specification and verification

TLA+ modules that model the concurrent core of CobbleCompanion, TLC
configurations that check them on small instances, and theorems about them
checked by TLAPS. `PROJECT.json` is the machine-readable index: components,
runs, mutants, the map from definitions to source lines, findings, hazards,
theorems. Paths below are relative to the repository.

## 1. Inventory

A companion is an AI character with durable memory. Three kinds of processes
work on it: API nodes (`packages/api`, which host the engine of
`packages/core`), a Discord bridge (`packages/discord`) and browsers
(`packages/web`). They share one Postgres database; nodes talk to each other
only through its tables.

| component | state | operations | interacts with | hard behaviour | what makes it correct |
|---|---|---|---|---|---|
| Job queue (`core/jobs/job-queue.ts`) | `jobs`, `companion_claims` | enqueue, claim, renew, release, mark done/failed | every producer of background work | lease expiry against the database clock, fencing, coalescing | a recorded outcome is final, one drain per companion, no row is stranded |
| Job processor (`core/jobs/job-processor.ts`) | drain loops, lease objects, timers | nudge, poll, drain, heartbeat, close | queue, handlers | stalls, failed calls, crashes, shutdown | as above, and an aborted drain learns it |
| Embodiment (`core/embodiment`, `api/ws/register.ts`, `api/ws/fencing.ts`) | `active_embodiment`, sockets, heartbeats | claim, renew, release, fence | web, Discord, harness | last-writer-wins claims, connections that close in the middle of registration | one connection speaks for a companion; a closed one becomes absent |
| Event log (`core/events`) | `companion_events`, cursors | append, read settled, advance | heartbeats, all producers | sequence numbers against commit order | no event is lost (a repeat is allowed) |
| Web client (`web/src/api/ws.ts`) | one socket, pending calls and streams | ensure, call, stream, events, teardown | API node | concurrent calls, switching companions, drops | every call settles; nothing is sent before the claim |
| Chat page (`web/src/pages/Chat.tsx`, `pages/chat`) | lines, event buffer, turn, upload, greeting | merge, stream, flush, re-snapshot, reload | web client, transcript, event log | rows that arrive by event, snapshot and stream at once; drops and takeovers in between | the lines come to be the rows, each once |
| Web session (`web/src/auth/session-manager.ts`) | token, refresh in flight | sign in, sign out, refresh | every call of the browser | refresh racing sign-out | a signed-out session stays so |
| Discord bridge (`discord/bridge.ts`, `connection.ts`, `turn-render.ts`, `proactive.ts`, `router.ts`) | embodiments, holders, justified, the ids already posted | summon, dismiss, trigger, retract, teardown | API node, Discord gateway | triggers racing the user's commands; a reply comes by stream and by event | an embodiment the user opened stays; nothing is posted twice |
| Gateway manager (`discord/gateway/manager.ts`) | running bots by user | reconcile, start, stop | configuration store, control server | reconciles interleaving at awaits | one gateway per bot, with the current token |
| Consolidation (`core/memory`) | messages, episodes, cursor | run a window, commit, backfill | job queue | two runs on one companion | a message is covered by exactly one episode span |
| Ingestion (`core/ingestion`) | sources, sections, ingestion jobs, staged uploads | enqueue, run, defer, announce | job queue | rerun of a job whose runner is alive | terminal statuses stay, sections once |
| Proposals and gate (`core/tools`, `api/proposals`) | proposals | propose, confirm, reject, dispatch | harness, missions | double confirmation, crash in dispatch | an action runs at most once and only if allowed |
| Missions (`core/mission`) | missions, journal, scheduler jobs | draft, arm, activate, stop, reconcile | gate, scheduler | partial failure, stop racing activation | one live mission, no orphan job |
| Motivation, greeting, reinforcement (`core/motivation`, `core/greeting`, `core/reactions`) | drive weights, outcomes | nudge, burst, greet, reward | job queue, embodiment | read-modify-write, check-then-record | each outcome is rewarded once, no update lost |
| Vitality, feeding (`core/quota`, `core/growth/economy.ts`) | wallet | spend, top up, feed | harness | concurrent spends | balance within bounds |
| Growth (`core/growth`) | level bands | advance, announce | harness | crash between the two | one announcement per band |
| User model (`core/user-model`) | facts, beliefs | record, edit, reflect, reinforce | reflector, chat | delete-then-insert, read-then-insert | one value per singular fact |
| Equipped tools (`core/acquisition`) | equipped set | equip, touch, evict | harness | eviction by a stale order | cap respected, a tool in use stays |
| Harness turn (`core/harness`) | the turn, its messages and tokens | run loop, finish, stand down | everything | superseded while running | no effect after supersession |
| Post-turn perception (`core/harness/post-turn-perception.ts`) | mood and fact chains of one process | read, store, capture | user model, motivation | turns that end faster than their reads | changes add up, the newest statement stays |
| Discord configuration (`db/discord-config-store.ts`, `api/ws/methods/discord-config.ts`) | the `discord_config` row | save, delete, set the wake, link | gateway manager | writes against a handshake or a reconcile | a code binds one owner |

The last section says what is not modelled, and why.


## 2. Plan

In order of value; each component is one module, with an MC module when its
instance needs definitions, and proofs in a module of their own.

Done:

1. `JobQueue`, `JobProcessor`, `JobProcessorProofs`: the lease protocol every
   background task depends on. `JobLedger` is what they promise, and
   `JobRefinement` the mapping under which they keep it.
2. `WsClient`, `DiscordBridge`: event-loop interleavings of the browser and the
   bridge. `ChatView`: the chat page over the transport; `Web` checks the two.
   `DiscordRelay`: what is posted over an embodiment; `WireTransport`: its requests. `DiscordConfig` and
   `GatewayManager`: the configuration of the bots and the reconciles it triggers. `Discord` checks the service as a whole.
3. `EventLog`, `Embodiment`: the claim of a companion by a connection and the
   delivery of its events.
4. `Turns`, `Missions`, `Consolidation`, `Ingestion`, `Rewards`, `Feeding`,
   `Growth`, `Mood`, `UserFacts`, `Segmentation`: the companion itself, checked together in
   `Companion`.

5. Proofs: the type invariant and every safety property of `JobProcessor`,
   `WsClient`, `ChatView`, `Embodiment`, `DiscordBridge`, `DiscordRelay`, `WireTransport`, `DiscordConfig`, `GatewayManager`, `Turns`,
   `Consolidation`, `Ingestion`, `Segmentation`, `Growth`, `Rewards`, `Feeding`, `Mood` and `UserFacts`,
   the refinement of the job ledger, and what follows for `Companion`, `Discord` and `Web`
   (section 5).

## 3. Modules
### JobQueue and JobProcessor

`JobQueue` holds the two tables and one operator per statement of
`job-queue.ts`. `jobs` is a sequence in creation order (no caller sets a run
time, so the order of the rows is the order they run in); a claim's
`claimed_until` is the time left until it lapses. `JobProcessor` holds the
processes: each loop slot has a program counter that stops at every `await` of
`drainLoop`, `drainCompanion` and `runJob`, and each drain has its heartbeat
(timer, renewal in flight, `lastRenewedAt`, abort flag). `Trigger`,
`TriggerLost` and `Sweep` are the producers, `Tick` is time, `Close`, `Exit`,
`Crash` and `Boot` are the processes.

Abstractions: the candidate query and its reply are one step, and so is the
renewal between two jobs; a renewal in flight when its drain ends is dropped
(nothing reads its reply); every job type has a handler; a handler is reduced
to the moment it reads its input; the instant at which a lease lapses counts as
lapsed and claimable. `PromptTimers` is the assumption that no event loop or
database call stalls for a tick; the runs that say nothing about timing set it
to FALSE.

| run | checks | bounds |
|---|---|---|
| JobProcessorFence | `OutcomeFinal`, `LedgerImplemented` with any stall; one loop per node | 2 nodes, 1 companion, 2 jobs, 3 generations, one fault |
| JobProcessorLive | `OneLiveDrain`, `JobSettles`, `ShutdownSettles`, `EventuallySeen` under `FairSpec` with prompt timers; one loop per node | lease of 4 beats, one fault: a failed call, a lost enqueue, a crash or a shutdown |
| JobProcessorAba (violation) | `OutcomeFinal` with two loops per node | see findings |

`JobLedger` is what the queue promises its callers, with no claim, lease or fence:
a row is added unless one of its companion and key is pending, a free worker
begins the oldest pending row of a companion, the worker that runs a pending row
settles it, and a run may be abandoned. `JobRefinement` maps the queue and the
drain loops onto it (`rows` is `jobs`, `running` the row a loop is between
`nextDueJob` and the end of its terminal write) and `LedgerImplemented` says that every step is a
step of the ledger or none. With two loops per node it fails as `OutcomeFinal` does.

`MaxFaults` bounds failed calls, crashes and shutdowns together.
Two nodes and one companion are enough for a takeover; three generations for a
takeover of a takeover; a lease of two ticks for a lapse between two beats when
timers may stall.

Fairness: `FairSpec` assumes that a live process runs its callbacks, that the
database answers, that the poll and the sweeps fire and that a dead node is
restarted. Those are `setInterval` timers and a container restart policy;
failed calls, crashes and triggers are never owed.

Finding. The generation is not ABA-safe: `JOB_CONCURRENCY` defaults to 4, every
loop of a node uses one owner id and the generation restarts at 1 when a claim
is deleted, so a superseded drain's fence may open again (`Aba`).

Limits of the passing run, each a difference between code and text that the same
modules show when its constants change: with `K = 2` `OneLiveDrain` fails, since
`release` is scoped to the owner and a stale one deletes a sibling's claim
(`job-queue.ts:319`); with `LeaseMs = 3`, the ratio of the defaults,
one failed renewal aborts a drain (`Beat`), since it brings the lease into the
near-expiry guard (against `job-processor.ts:31-33` and `config.ts:84-86`). A
renewal that throws does not abort the drain, as the table of abort triggers in
`docs/companion-background-job-lease.md:119` has it.

`JobProcessorProofs` proves, for any numbers of nodes, loops, companions and
keys and any lease longer than the heartbeat (`config.ts:439` requires it):

- `TypeCorrect`, through the inductive `TypeInv`: the types, and the facts that a drain
  holds a real claim, runs a row of its own companion and has an outcome to write when
  it writes.
- `OutcomeFinalHolds` and `LedgerImplementedHolds`, both from `OneLoopPerNode`, through
  `FenceInv`: while the claim table shows a drain's owner and generation, the row
  it runs is pending. The typing alone is not enough because a terminal write is
  only harmless if the row it hits is still pending, which is a fact about the
  claim table and not about the drain. Under `FenceInv` every step is a step of the
  ledger or leaves its variables alone, statement by statement.
- `OneLiveDrainHolds`, from `OneLoopPerNode` and `PromptTimers`, through `LeaseInv`:
  what is left of a live drain's claim plus the time since its last renewal is at least the
  lease, and the next beat comes before the lease is used up. So the claim of a
  drain that was not aborted never lapses, and nobody can take it.

`OneLoopPerNode` (`JOB_CONCURRENCY` of 1) is needed: `Aba` is the counterexample
without it, and the passing runs use it as well. `PromptTimers` is needed for
`OneLiveDrain` alone: a drain whose event loop stalls past its lease goes on until it
runs its next timer, which is what the fence is there for. Liveness is
model-checked only.

### The browser: WsClient, ChatView

`Web` puts the transport and the chat page side by side. The page takes the
transport by what it promises and shares no variable with it, so a behaviour of
`Web` is a behaviour of the part that `part` names, and one run checks both.

`WsClient` is the transport singleton of `web/src/api/ws.ts`. `socket`, `embodied`,
`opening`, `pendingOpen` and `superseded` are the fields of the class; `conn`
holds every socket created with its `readyState`, the handlers installed on it
and its server end (`register.ts`, `dispatch.ts` as a client can observe them).
Each caller makes one call, stream or event subscription and stops at the
awaits of `ensure`, `open` and the request. JavaScript runs the continuations
of a settled promise before the next task: `micro` is that queue, and a socket
event needs it to be empty. A callback of the socket is one action with all it
does (`Opens`, `Closes`, `OnMessage`), and so is a pass of `ensure`'s loop.
A stream is a call here: they settle at the same places.

`ChatView` is the chat page: `useEmbodimentSync.ts` (`ready`, `moved`, the loop of the
standing subscription in `channel`, `bufferedRef` in `buffered`), the folds of
`chat-lines.ts` over `lines`, and the turns, approvals, greetings and uploads of
`Chat.tsx` (`turn` is `busy`, `upload` is `attaching`). A frame, a timer, a click or
a focus is one task. The server is there as far as the page can tell: the
transcript `rows`, the rows whose event has yet to reach the page (`coming`:
`PublishingMemoryStore` does not await the log), the chunks of each stream in the
order `emitAll` sends them, and one serial chain per connection. A transcript fetch is
asked, read by the server, and lands, and anything may happen between. What
the page shows can be as wrong as the text allows: every message has the same text
and every file the same name, so an echo is matched to the first line without an id.

| run | checks | bounds |
|---|---|---|
| WebSafe | transport: `OneSocket`, `RightRoom`; page: `ViewConverges` | 2 companions and agnostic calls, 3 callers, 3 sockets, losses after the grant, CLOSING observable; 2 streams, 3 rows, 2 happenings (a turn, an upload, a return, a row of others, a drop, a failure) |
| WsClientSettles | `CallSettles`, `NoClaimWar` under `FairSpec` | 1 companion, 3 callers, 3 sockets, losses after the grant |
| WsClientSwitch (violation) | `OpeningSettles` | 2 companions, 2 callers |

Each caller makes one call, so no run needs more sockets than callers.
Three callers are one that opens, one that waits and one that comes when the
open has settled. On the page the hazards are pairs: a turn and a row that is
not of it, a drop and a row in the gap, an upload and an approval; a third happening
was checked once, outside the runs (3 happenings, 13.6 million states, no error).

Fairness: continuations run, `getAccessToken` and the upgrade settle, a server
that is up grants and answers, frames and closes are delivered. Calls, losses,
takeovers, aborts and `reclaim` are never owed.

Finding: switching companions while a socket awaits its grant leaves the open
pending for ever, and every later call with it (`Switch`).

A second one is outside the runs, which find it when `WebSafe.cfg` sets
`EarlyLoss` to TRUE: `OneSocket` fails when a socket may be lost before its grant and may
also be seen CLOSING ("One companion, one room, one socket.", the comment at the end of
`ws.ts`). The open of a first socket is refused by `embodiment.superseded`, which leaves
its opening handlers installed; the user reclaims the room while that socket is
CLOSING; the next call opens a second one; the late close event of the first
calls `settleOpen`, which fails the open of the second and clears `opening` while the
second goes on connecting; and the call after that opens a third.

`WebProofs` proves for any companions, callers and sockets:

- `ClientTypeCorrect`, through `TransportInv`: the opener's continuation runs before
  any other, and an agnostic socket is told of no claim.
- `RightRoomHolds`, whatever is lost when, through `RoomInv`: a caller about to send
  named the companion of the current socket or none, and a request in flight
  keeps what its caller named. It rests on the order of `micro`: between
  the last look of `ensure` and the send nothing but continuations runs.
- `OneSocketHolds`, from `LossSeen`, which is `~EarlyLoss \/ ~CloseWindow` and so excludes exactly
  the behaviour above; through `SocketInv`: only the current socket takes frames, an
  open in progress is that of the current socket, and a socket that closes has
  the handlers of one that was granted.
- `NoClaimWarHolds`, from `~EarlyLoss`, through `YieldInv`: a client that yielded has no open in
  progress and no continuation that could begin one. With `EarlyLoss` it is false, as said below.
- `WebComposes` and `WebCorrect`: the same of the browser as a whole, and `ViewConverges` of its page.

`ChatProofs` proves of the page `ViewConvergesHolds`, for any streams and rows, through `PageInv`,
whose three parts build on each other:

- `PageFits` (`PageTypeCorrect`): what a stream holds is a row of the companion, a
  chip is a row of a file; `up` and the streams of the page agree (`Owned`: a turn that is
  past its wait is on the connection the page has, so no node goes on with it unheard);
  and the loop is in `resync` while its fetch is under way (`ChannelFits`).
- `WayOK`: every row has passed by, is shown, is to come by an event or in the buffer, or
  is owed: the loop is going to fetch, or a fetch that the page will merge is not read
  yet or was read with the row in it. It is the whole argument that subscribing,
  fetching and merging by id drops nothing. When nothing is on its way, `missed` and
  the lines are all that is left.
- `CleanOK`: while the page is `clean`, its lines are `Tidy`. They have one `Shape` for
  each of idle, a turn with its bubble open, a turn whose reply is there, and an upload: a
  line without a row is a user's, or the bubble in the last place, or the chip in
  the last place. The row a stream is about to tell of is not shown yet (`Ahead`),
  else a reply would be shown twice. And the lines of what was typed are no more than the typed
  rows not shown, one more while the server does not have it (`Speaks`): every
  message has the same text, so which line is the echo of which row cannot be said,
  only that there are enough rows for the lines. When every row is shown there are none
  left, and so no line without one.

`Grown` says what merging leaves, for any lines and any set of rows (`MergeAllGrows`): `MergeAll` is a
recursive function on the rows, and a recursion as a function on `Nat` can be proved about.

Limits of `WsClientSettles`, where the code does less than one would expect. With
`EarlyLoss` TRUE a socket may be lost before its grant: its calls are not failed
(`ws.ts:401`), and a caller that awaited the lost open claims the room again.
With `CloseWindow` TRUE a socket may be seen CLOSING before its close event: a new
call replaces it, and the calls it carried are never failed. With an agnostic
call among those `Named`, an agnostic socket is torn down with its calls when a
companion is named. A call made between the upgrade and the grant is sent before
the claim and answered `not_embodied`.

What `ViewConverges` excepts, where the page does less than it says. `missed` holds
the rows that pass by it: one whose event is pushed after the re-snapshot was
read and before the loop has subscribed again (`useEmbodimentSync.ts:155`, `137`:
after a drop the loop fetches first and subscribes second, the reverse of the
order its comment gives for the first time), one in the gap of a re-snapshot that
failed, one whose append to the log failed, and one whose line was overwritten:
`finalizeLast` writes to the last line (`chat-lines.ts:205`), which is another row's
when a greeting, a returning tab or a re-snapshot has merged a row below the open
bubble. A return of the tab or the next drop brings a missed row back. `clean` is
lost when a failed turn, an error chunk or a failed reload leaves the optimistic
lines, when rows are merged below an open bubble or chip, when an approval starts
during an upload (`Chat.tsx:314` minds `busy` alone), and when an upload succeeds
without transcript rows; the reload of a rich turn restores it.

Not modelled: in the transport, event frames (a subscription outlives a switch of
companions and hears the new one); on the page, reactions and citations, the order
of the lines, greetings that stay quiet (as if not asked for), the limit of 200 rows
of a snapshot, several frames buffered ahead of their handling, and leaving the page.

### Discord: DiscordBridge, DiscordRelay, WireTransport, DiscordConfig, GatewayManager

`Discord` puts the five parts of the service of one user side by side: the
bridge, what is posted over one of its embodiments, the requests that carry it, the configuration row with its
`/link` handshake, and the gateways. They
share no state in the models, so a behaviour of `Discord` is a behaviour of the
part that `part` names, and one run checks them all.

`DiscordBridge` is `discord/src/bridge.ts`. `active` is the entry of the map of that
name, `queue` the chain of promises in `establishing` (its head dials), `conn`
every connection dialled together with the embodiment registered over it
(`holders`, `justified`) and the state of its transport. A caller is one
command (`/summon` and `/mission` change the same state) or one mission wake,
and stops at the reads, the handshake and the advance. A step is a task with
the continuations it causes; several frames may come in one task, which is how
a room can be lost between its grant and its registration (`Refused`), and a
close may not. The events of a socket outlive its embodiment, so late events of
a replaced connection are in the model.

`DiscordRelay` follows one embodiment from its registration and shows what the owner
gets to read: the streams of messages, approvals and wakes with what each has
buffered (`stream`), rendered as `turn-render.ts` does; the greeting, then the loop
that forwards autonomous messages (`relay`, `inbox`); and the filter between them
(`TurnDepth`, `produced`), since every reply comes by its stream and by an event.
The server is there as far as it decides that order: rows are numbered as they are
written (`written`), their events are pushed in that order at any later time
(`pushed`), and turns run one after another (`serving`), with held actions, failures,
refusals and approvals of autonomous proposals, which run beside them. The
embodiment may be given up and the socket may close anywhere, and posts may fail.

`WireTransport` is one connection from end to end: the client of
`shared/src/ws-transport.ts` (`ask` holds each call or stream with its queue, the chunk in the
hands of its waiter and what its reader has got) and the server's `register.ts`,
`dispatch.ts` and `connection.ts` (`slots`, `served`, and the chain of turns as each
turn's predecessor, `after`), with the frames under way between them. A request
is plain or streams a turn, handlers and turns return or throw, a reader may leave,
the backlog closes the socket, and either end or the network may at any time.
Several frames may be delivered in one task, so a failure may overtake the chunk
that woke a reader (`Resumes`): a stream that fails may lose its last chunk, one that returns may not.

`DiscordConfig` is the `discord_config` row: the settings methods, the trigger each
write owes the service, and `/link`, cut between its read of the code and
`bindOwner`. A token stands for the save that stored it, since every save encrypts
anew.

`GatewayManager` is `discord/src/gateway/manager.ts`: the startup pass and the
reconciles are tasks cut at their awaits (the read of the row, the stop of a
connection, its login, the registration of commands and the capture of the bot's
id), over every connection ever made. The three attempts of a trigger
are one step, since they follow one another at once. A trigger may be repeated or
lost, calls may fail, the service may die and start again. Nothing in the code
orders the reconciles of a user, so the ghost `spoilt` records the three races they
can lose, and faults, until the next start: `GatewayMatchesRow` says that
nothing else can go wrong, and that a restart repairs everything.

| run | checks | bounds |
|---|---|---|
| DiscordService | bridge: `OneConnection`, `StaleUndone`, `LossReported`, `SomeoneDials`, `GivenUpForCause`; relay: `RelayOnce`; transport: `RequestsAccounted`; row: `LinkOnce`; gateways: `GatewayMatchesRow` | 3 callers with losses and late events anywhere; the greeting and 1 turn, 3 rows, 1 refused post; 2 requests, 1 or 2 slots, 2 chunks a turn, a backlog of 2; 2 users of `/link`; 2 reconciles in progress, 2 saves, 1 wake pair, 1 code issued again, 1 deletion, 1 fault, 1 restart |
| DiscordBridgeRelied (violation) | `ReliedStays` | 2 callers |

Three callers are an embodiment's opener, a wake over it, and a command or a
wake that meets either; a replaced connection and its successor need two. A
connection is dialled by a caller, so the callers bound the connections. In the relay the
greeting and a turn overlap, and three rows are a card, a reply and something said
of the companion's own accord. Two
saves give an old and a new token, and two reconciles are what races; with the
wake pair and the deletion there are four writes to read late.
There is no liveness run: nothing here waits for a timer, and what could strand a
caller is an invariant (`SomeoneDials`: whoever waits for a handshake has a
handshake in progress to wait for; `LossReported`: an embodiment whose connection
is gone still has the event coming that gives it up).

Finding: `/summon` and `/mission` over an existing embodiment do not justify it,
so a stale wake retracts it from under the user (`Relied`). `StaleUndone` leaves
out embodiments over which an advance threw while the connection lived: of two
wakes over one embodiment, one skipped and one failed, nobody retracts it,
against `bridge.ts:275-276`.

What `GatewayMatchesRow` excepts. A token corrected while the first one is still
logging in: the second reconcile stops the first connection, whose start then
times out and deletes the record of its successor (`manager.ts:365`), which goes
on answering and can no longer be stopped. Two changes of a token at once: both
stop the old connection and both start a new one. A row read late: a reconcile
that read before another acts after it. And a trigger lost between the startup
read and the first request served, which the startup pass does not make up for
(`reconcile-notifier.ts:8-9` calls it the recovery floor).

What `RelayOnce` does not say. The filter knows the rows of `done` chunks only, so a
step, a reflection or the outcome of an approval whose event comes after the turn is
posted by the loop, and a message the companion writes of its own accord is dropped
when its event is read during a turn, against `connection.ts:57-61` ("forwards only
genuinely autonomous messages"). And a stream opened once the socket has closed is
never failed (`Marked`, `unsent`), against the comment at `ws-transport.ts:329`.

What `RequestsAccounted` excepts. A frame over the slots is answered to the empty id
(`register.ts:87`, `docs/companion-endpoints.md:375`), which no client can match to a
request: whoever made it waits until the socket closes (`shed`). A request made after
the close waits for ever (`late`).

`DiscordProofs` proves for any callers, users, saves and restarts:

- of the bridge, `OneConnection`, `StaleUndone`, `LossReported`, `SomeoneDials`,
  `GivenUpForCause` and the types, all from one inductive invariant, `BridgeInv`. Its
  parts are the queue (`QueueOK`: who waits is in it once, and its head dials) and what
  each connection implies (`ConnRow`: only the last may be dialling, only the
  registered one is up and wanted, `holders` counts the wakes over it, `justified`
  remembers what keeps it). None of the five is inductive alone: that a loss is reported, say,
  needs that the registered connection is the one that is up, which needs that a
  handshake ends only for the head of the queue.
- of the row, `LinkOnce`, through `LinkInv`: codes are issued in order, the pending one by the
  last save or later, and it has bound nobody.
- of the gateways and the tasks that reconcile them, the types and `GatewayMatchesRow`,
  through `ManagerInv`. It says there is a history `H` of the row, with the token and the wake
  pair of each version, in which a token that was replaced does not come back (`History`); that a
  task that has read goes on with the row of the version it read (`ReadsOK`); and, while no
  fault or race has spoilt the run, that whatever changed last is acted on or will be
  (`Due`), and that the record fits the latest version acted on, or a task is at
  work on exactly what is missing (`BotFits`): a connection that was cut is being
  replaced by the task that cut it (`BotCut`), one that is starting has its starter
  (`LogsInNext`), one that is up without its id has the task that stores it
  (`IdStored`). The history is what makes it inductive: a late task that keeps a bot needs
  that the bot's token was not cut by another, hence that no later row has it
  again (`CutObsolete`).
- `BridgeComposes`, `RelayComposes`, `WireComposes` and `DiscordCorrect`: the same of the service as a whole.

`RelayProofs` proves `RelayOnce` and the types of the relay, for any number of streams and rows,
through `RelayInv`. It says that each stream keeps rows of its own (`Apart`): those it may yet
be sent by the turn being served, the one reply in its queue and the one it has read
(`StreamOK`). The first two are posted by nobody and the loop is not posting them; one that was
read is in `producedIds`, and posted just if the stream posted it. Events come in order and
once, so what was posted is behind those still queued, or recorded (`EventsOK`). The
step that needs all of it is the filter: with no stream open (`turnDepth` is 0, which only says so
because finitely many streams were ever opened) no row is one a stream still awaits,
and the recorded ones are suppressed.

It also proves `RequestsAccounted` and the types of the transport, for any requests, slots,
backlog and length of a turn, through `WireInv`. A request is sent, served and answered once,
and is in at most one of those places (`PlaceOK`); what a stream was given is numbered from
one without a gap (`RowOK`), the chunks under way go on from there, in order and ahead of the
answer (`FlowOK`), and a stream that has its end was given what its turn said
(`AskOK`). `ChainOK` says that the turns have positions, one behind another, and that
whatever runs or is over has everything in front of it over: `after` alone, which is all
`ChainFree` looks at, would not give that two turns never run at once.

No hypothesis is needed.

Not modelled: the chunk an autonomous approval emits outside the chain, frames
that cannot be parsed, the router's checks of the author, the bound on `producedIds`, the
texts of notices, the read-only commands and the reject button, a token that cannot be decrypted, and the
removal loop of `sync`, which finds nothing to remove at startup.
### EventLog and Embodiment

`EventLog` is `companion_events` of one companion. A row is the position of its
sequence number in `log`; an append takes the number (`Number`), its transaction
id (`Stamp`) and commits or fails (`Ends`), interleaved with other appends.
`Settled` is the horizon of `log.ts`: committed rows whose transaction is older
than every running one.

`Embodiment` extends it with the row of `active_embodiment` (`claim`) and the
connections that contend for it. `pc` follows `embody()` of `register.ts` through
its awaits; `beatIn` and `renewing` are the heartbeat, `reads` the calls of
`readSince` in flight, `releasing` the release of a close. `given` is a ghost: the
rows the client has, from its snapshot or by push. A connection is its ULID, so
a greater number is a newer connection; connections arrive in any order since
they are minted on nodes whose clocks differ.

Abstractions: a statement on the claim takes effect when it replies; a read of
the log executes and replies in two steps, so reads may overlap; a connection
that is done with forgets its closure (`Forgets`), which only spares states; no
event loop stalls for a tick while a beat is due, a renewal in flight or the
cursor being read (`Late`). Several renewals of one connection are not in flight
at once; `MaxReads` bounds its reads.

| run | checks | bounds |
|---|---|---|
| EmbodimentRoom | `NothingSkipped`, `HolderKept`, `SupersededTold`, `AbsentWhenGone`, `EventDelivered` under `FairSpec` | 2 connections, 2 appends, batches of 1, 2 overlapping reads, a time to live of 3 beats (the ratio of the defaults), one failed statement or crash |
| EmbodimentGone (violation) | `AbsentWhenGone` when a socket may close before its heartbeat is armed (`EarlyClose`) | 2 connections, no fault |
| EmbodimentLost (violation) | `NothingSkipped` when an append may come between the two numbers of another (`StampsInOrder` FALSE) | 1 connection, 2 appends |

Two appends are the least that commit out of order, a batch of one the least that
leaves some for the next beat; a takeover needs two connections.

Fairness: live nodes run their callbacks, the database replies, transactions end.
Connects, closes, appends and faults are never owed.

Findings: a client that leaves before its close handler is registered leaves a
heartbeat that renews its claim until the node dies or a newer connection takes
the room (`Gone`); the horizon is only right if sequence number and transaction
id are taken in the same order, which nothing enforces (`Lost`).

`EmbodimentProofs` proves for any connections, appends, batches, reads and faults:

- `EmbodimentTypeCorrect` and `RoomInvHolds`: in `RoomInv` the claim of a connection that
  beats is younger than `Patience`, one heartbeat for every fault so far and one more.
- `HolderKeptHolds`, from `TtlMs > (MaxFaults + 1) * HeartbeatMs`: it holds its room
  against all but newer connections. The hypothesis says how many failed renewals in a row
  the ratio of the two constants forgives; the defaults (30 and 10 seconds,
  `config.ts:254-255`) forgive one, as in the run.
- `NothingSkippedHolds`, from `StampsInOrder`, through `DeliveryInv`: below a settled row every
  append has ended, so what a read returns continues what the client has without a gap,
  although reads overlap and the cursor moves between a read and its reply. `Lost` is
  the counterexample without the hypothesis, which Postgres does not give by itself.

Not modelled: the activity and visibility written on the claim, the dispatch of
frames and its fence (a check before the operation, not part of it), the slow
consumer's close (a close like any other), the in-process bus. `claim_seq`
restarts at 1 after a release, so it tells claims apart only together with a
ULID that does not recur.


### Companion: growth, rewards, feeding, missions, turns, perception, consolidation, ingestion, segmentation

Ten modules, one per component of the companion itself, and `Companion`, which
checks them side by side. The components share no state in the models: where one
reads what another writes (the stamina wallet in `Consolidation` and `Ingestion`,
the counted rows in `Growth`, the room in `Turns`) the value changes freely. So
no interleaving of two components can break a property of one that it does not
break alone, and a behaviour of `Companion` is a behaviour of the one component
that `part` names; the state counts of the ten add up instead of multiplying.
One run checks them all, each on its own small instance (`Companion.cfg`).

| module | code | state | what it must get right |
|---|---|---|---|
| `Growth` | `growth/service.ts`, `growth-store.ts`, `levels.ts`, `capabilities.ts` | counted rows, the `companion_growth` mark, overlapping recomputes (view, snapshot, guarded advance, posts) | `ReflectedOnce`: no step is celebrated twice, though readings dip and rise and recomputes overlap and die |
| `Rewards` | `motivation/engine.ts`, `autonomous-burst.ts`, `greeting/greeter.ts`, `reinforce.ts`, `reactions/learner.ts`, `reward-store.ts` | leads, `proactive_outcomes`, one burst, greetings and reactions at their awaits | `ScoredOnce`: an act moves the weights by the one reward its row holds |
| `Feeding` | `growth/economy.ts`, `food-store.ts`, `quota/vitality-store.ts` | the `user_food` row, both wallets, feeds at their statements | `FoodAccounted`: no food is made, and none granted for free, by racing first feeds |
| `Missions` | `mission/start-mission-tool.ts`, `mission-reconcile.ts`, `mission-store.ts`, `mission-service.ts`, `api/ws/methods/missions.ts` | status, `job_ids`, armed jobs, starts, wakes and stops at their awaits | `StaleWakesEnd`: a job the row has named does not outlive its mission |
| `Turns` | `harness/harness.ts`, `usage.ts`, `tools/gate.ts`, `proposal-store.ts`, `api/proposals/confirm-proposal.ts`, `api/ws/methods/streaming.ts`, `turn-stream.ts` | the claim, overlapping turns at the points of `runLoop`, missions, proposals, confirmations | `ExecutedOnce`, `StopRegates`, `OverlapBounded`, `BilledOnce` |
| `Mood` | `harness/post-turn-perception.ts` (`chainAffect`), `motivation/affect-store.ts` | reads in flight, the valences stored | `SwingsAddUp`: the changes learned from add up to the way the stored mood has gone |
| `UserFacts` | `harness/post-turn-perception.ts` (`chainUserFacts`), `user-model/store.ts`, `api/ws/handshake.ts` | fact rows, capture transactions of two statements, seeds | `CurrentFact`: a singular fact has one value, the newest statement that could be stored |
| `Consolidation` | `memory/consolidation-service.ts`, `episodic-store.ts`, `personality/evolve.ts`, `user-model/reflector.ts`, `synthesize.ts` | transcript length, four cursors, runs at their reads and writes | `NothingForgotten`, `BacklogConsolidated` |
| `Ingestion` | `ingestion/pipeline.ts`, `ingest-job.ts`, `ingest-sweep.ts`, `announcer.ts`, `api/sources/stage-file-source.ts` | the row's status, its job, its staged bytes, runs at their statements | `AnnouncedOnce`, `IngestSettles` |
| `Segmentation` | `ingestion/segmenter.ts`, `pipeline.ts` (`toNewSection`), `memory/semantic-store.ts` (`insertSections`) | paragraphs and their lengths, the boundaries kept, the section rows | `SectionsCover`: whatever the model answers, the rows are the whole source, each paragraph once and in order |

Each module states its type invariant (`...TypeOK`), for its proofs.

How the code is cut into steps. A statement of the database is a step, or part
of one with the local code that follows it; a call to a model, a scheduler or an
embedding is a step whose result is chosen freely. A fault (`...Fault`, `...Lost`,
`...Dies`, `...Fails`) is a call that throws or a process that dies, bounded by
a constant of its own. The job processor promises `Consolidation` and
`Ingestion` one runner per companion except after a lapsed lease
(`JobRefinement` says what it promises of rows); `RunClaimed` and `IngestClaimed`
allow a bounded number of overlaps accordingly.

Ghosts. `notes` and `told`, `moved`, `consumed` and `granted`, `executed`,
`lostConfirms`, `taught` and `untaught`, `newest`, `spans` and `believed`,
`notices`, `missed` and `thrown` record what happened and guard nothing. In a
turn, `late` counts groups of rows written after the room moved since the last
fence, `slack` claim reads that failed and so counted as held, `ungatedLate`
ungated calls run after the mission had stopped, and `lost` is why a run that is
over was not billed. `spent` is what the run's owner had of it: its retrieval and each call
of the model that answered or was cut short by the consumer count as one. `metered`
is the code's own `retrievalUsage` and `acc` in the same unit, which every debit adds
up; the two are set by each exit on its own, and `BilledOnce` compares the bill with
`spent`.

Bounds (`Companion.cfg`) and why they are enough. Two of whatever races: two
recomputes, feeders, missions, turns, reflectors, ingesters, three
scorers of an act (here one ambient and one addressed over two notes). One fault each, and two for
missions, where a stale wake takes two calls that fail. Two claims of the room and two calls in a
step, so that a turn can be superseded between any two fences and a mission
stopped between two calls. The retrieval of the first turn costs something, that of the second
nothing (`MCRetrievalCost`): a run may fail at its first stream owing its retrieval, or
owing nothing. Three messages, with `MinTurns` 2 and `MaxWindow` 3,
are the least for two runs to hold spans of different length. Three reads and
three statements are a chain with a middle. Growth counts one source, one
episode and one routine, which moves the knowledge band by one and two
capabilities; both readings dip when the source goes. Sources have up to four
paragraphs of two lengths, with `BatchSize` 3, `BatchBudget` 4 and `FallbackSize` 2:
batches closed by count, by length and by a paragraph over the budget, and a
fallback whose last section is short; an answer marks up to two sections at any
whole or half number, and either of its entries may be null.

Fairness (`CompanionFairness`), needed by the three liveness properties. The
scheduler fires an armed job again and again, and a live handler goes on
(`MissionFairness`). The sweeps are `setInterval` timers; a free worker takes a
pending job, which `JobProcessorLive` shows; and calls return. Taking one
source's job is strongly fair, since a worker serves one job at a time and the
queue runs oldest first. Users, turns, uploads and faults are never owed.
`BacklogConsolidated` and `IngestSettles` assume that the wallet eventually stays
fed.

What the properties except, each a place where the code does less than its text
or its neighbours suggest:

- `BilledOnce` charges a run for what its owner had of it. A call that the provider broke is
  free, at whatever token (`usage.ts:84-86`, `harness.ts:643-645`), and so is an arm of the
  retrieval that throws: it yields nothing and reports no usage
  (`semantic-retrieve.ts:89-95`), even when its embedding had returned. A consumer that stops
  at a token pays for the calls and the retrieval before it and an estimate of what it was
  sent. `emitAll` (`turn-stream.ts:75-82`) and the harness promise that case; the only
  consumer in the repository, `Connection`, swallows errors of its socket
  (`connection.ts:116-146`), so there a client that leaves lets its turn run on.
  The property excepts four exits that bill nothing, each named by `lost`:
  - `entry`: the snapshot throws, or the consumer stops at the citations
    (`harness.ts:244`, `430-432`), after the retrieval and before the `try` whose `finally` bills;
  - `finish`: `settledNormally` is set before `finish` writes and bills, so a reply that cannot
    be stored, or a consumer gone at a proposal event, leaves the run unbilled
    (`harness.ts:531`), against `harness.ts:446-448`;
  - `debit`: the debit itself fails, and is logged;
  - `death`: the process dies, the bill being in its memory.
- `OverlapBounded` allows the rows behind the last fence. A superseded turn also
  leaves the proposal it held pending, with no row in the transcript, as the
  gate creates it without a fence (`gate.ts:64`).
- `StaleWakesEnd` speaks of jobs a row has named. A job armed by a call that
  timed out is named by none and fires for ever, which `start-mission-tool.ts:292-302`
  expects of a hard kill only.
- `ScoredOnce` is about rows. The weights are read and written back unguarded, so
  reactions to different messages may lose one another's update
  (`reinforce.ts:79-82` says none is lost); and a greeting is recorded outside the
  claim that serialises ticks, so two acts may await a reaction
  (`engine.ts:149-156` says no).
- `NothingForgotten` allows repetition: a run outrun by a shorter one appends
  over it, so turns are remembered twice (`episodic-store.ts:144-167`).
  `BacklogConsolidated` is about the episode cursor: the sweep does not look at
  the facts cursor.
- `AnnouncedOnce` and `IngestSettles` except overlaps (`ingest-job.ts:111-121`
  takes the new claim as proof that the old runner is gone), rows whose first or
  last status could not be written, and handlers that threw and left a row no
  sweep looks for. A crash between the notice of `done` and its write ends in
  `failed` (`pipeline.ts:154`); an upload whose request is lost stays `queued`
  (`stage-file-source.ts:184-201`).
- `SectionsCover` says of rows that are stored what they are, and of a pass that ends without
  any that it left the rows before it alone. Besides a call that fails there are two ways to
  end so, both against "Invalid model output falls back to fixed-size grouping so ingestion
  always completes" (`segmenter.ts:6-8`). An answer with a null entry where the next section
  should be, or with `sections` that are no list (`{"sections":[null]}`, `{"sections":5}`), makes
  `parseBoundaries` throw a TypeError (`segmenter.ts:167-168`) that nothing turns into the
  fallback, and the source ends in `failed`: the action `SegmentThrows`. And boundaries that are
  contiguous but not whole numbers pass the validation (`segmenter.ts:170-184`) and are refused
  by the integer columns: `refused`.
- `FoodAccounted` lets a feed that dies between its statements lose its food.
- `SwingsAddUp` and `CurrentFact` hold in one process: the chains are in its
  memory, as `affect-store.ts` says. A name seeded between the two statements of
  a capture makes the capture fail, so a name just stated gives way to the seed,
  against `user-model/store.ts:150-153`; a capture that is slow overwrites an
  edit the user made after that turn.

Proved in `CompanionProofs`, for any number of turns, runs, rows and faults, each from an inductive
invariant that says what the place of each process implies:

- `ExecutedOnce`, `StopRegates`, `OverlapBounded` and `BilledOnce`, through
  `TurnInv`. A turn that still holds its claim has written nothing late, and one between
  a fence and the rows behind it owes each late group to a failed claim read
  (`OverlapRow`); a turn that is not over is metered for what its owner had of it, and
  has been billed nothing (`BillRow`); approved actions that have not run are, one for one, the confirmations under
  way and those that died (`ConfirmsOK`).
- `NothingForgotten`, through `ConsolidationInv` (what a run holds is still true
  of the rows, whatever others wrote since it read them), and `AnnouncedOnce`, through a budget
  (`BudgetOK`): outcomes told, and runs that may yet tell one, against what is excused.
  Runs that have read the row count differently from those that have not, and a row
  that sends its readers off frees one more. Also `SectionsCover`, through
  `SegmentationInv`: the boundaries kept cover the paragraphs before the batch to come, which
  begins where they end (`Covered`, `AtBatch`), and rows stored before are the whole source. The
  recursions, of the batches and of `FlattenSeq`, are shown to have a solution by induction
  (`BatchesExist`, `FlatExists`); then a usable answer, which has no null entry (`NoNullFits`), joins what was kept
  (`UsableJoins`), the sections of a fixed size are one (`FallbackCovers`), and the sections of
  a cover by whole numbers, flattened, are the paragraphs (`SectionsOfCover`).
- `CurrentFact`, `FoodAccounted`, `ReflectedOnce`, `ScoredOnce` and
  `SwingsAddUp`, whose invariants count what is under way as already done: the recomputes about
  to post a note, the grants owed by the requests between two statements, the change of mood
  stored and not yet learned. `CompanionComposes` shows that a behaviour of `Companion` is one
  of each component, and `CompanionCorrect` that all twelve invariants hold in it.

The proofs assume of the constants that the sets of processes whose members are counted
(`Confirm`, `Feeder`, `Recompute`, `Ingester`) are finite and that there is a source. They made
two definitions of the models sharper: `Mood` names the one read whose change is on its
way, where it folded over all of them, and the type invariants say which function each
variable is. `StaleWakesEnd`, `BacklogConsolidated` and `IngestSettles` are liveness and stay
with TLC.

Left out: what is said, chosen, retrieved or embedded (a retrieval keeps its
cost, `RetrievalCost`); the embeddings a tool makes, which nothing meters (`memory-search.ts:62-75`); the token
budget of a turn, a second ceiling beside `MaxIterations` that the api does not set; the debounce and the belief
of `Rewards`; the mission journal; the bookkeeping of a confirmed action;
many-valued facts and beliefs; `MAX_SAFE_BALANCE`.
## 4. Reading and running

`tlc -workers 2 -config <run>.cfg <module>` for a run, `tlapm <module>` for the
proofs. Every property of a passing run has a mutant operator, defined just
before the definition it replaces and named for the bug: the property fails
when the mutant takes that definition's place.

## 5. What is proved and what is not

Eight modules hold the proofs; the sections above give each invariant and why it is
needed. Every invariant was checked by TLC on the instance of a run before it was
proved. `NumberLemmas` has the facts about numbers that the others cite: the extremes of
a finite set and induction on the naturals, which the provers can use when the
predicate is given as a set.

30 of the 40 properties of the passing runs are stated by a theorem. The rest is
liveness and stays with TLC: `JobSettles`, `ShutdownSettles`, `EventuallySeen`, `CallSettles`, `SupersededTold`, `AbsentWhenGone`,
`EventDelivered`, `StaleWakesEnd`, `BacklogConsolidated`, `IngestSettles`. They need fairness and ENABLED, and are
checked under the fairness each section names.

The hypotheses are few, and each has its counterexample: one drain loop per node (`Aba`),
timers that are not late, sequence numbers and transaction ids in one order (`Lost`), a lease
that outlasts the faults, and in the browser no loss before the grant that is also seen
CLOSING. What a theorem says of a component holds of the system it is part of by the
composition theorems, since the parts share no variable.

## 6. Not modelled

- The browser's session (`web/src/auth/session-manager.ts`, `api/routes/auth.routes.ts`)
  is one token and one refresh in flight. What could go wrong in it does: a
  refresh that is in flight at a sign-out stores its token after the sign-out, and
  sets the cookie again (lines 83-97); one sent for an old session and answered
  401 clears the session of a new sign-in (line 104). A property that excepts
  both says no more than the assignments of its methods.
- Equipped tools (`core/acquisition`) are an upsert, then a read and deletes by
  id, oldest use first. Overlapping loads leave at most the cap; the code promises
  nothing about which tools they keep.
- Parts of modelled components are named at the end of each section above:
  the mission journal, many-valued facts and beliefs, routing, retrieval.
- The adapters of models, embeddings and tracing, the command line, REST routes
  and MCP formatting, start-up validation, the rest of the React interface, infrastructure
  templates and evaluation data are I/O or presentation, and keep no protocol
  state that another component reads.
