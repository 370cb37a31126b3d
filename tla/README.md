# Formal model of the multi-game host

This directory holds a TLA+ model of the repository's game host: the rooms in
which automatic hosting of Werewolf and Blood on the Clocktower takes place, the
commands that change them, what survives retries, restarts and lost connections,
the timeouts of secret actions, and what each client is shown of it all. TLC
checks the modules on small instances; TLAPS proves the theorems of the
`*Proofs` modules for every value of the constants. Every definition is a
reading of the TypeScript sources; the file and the lines are in `PROJECT.json`
(`map`).

## The system

A room is one unit of consistency. On Cloudflare it is a Durable Object
(`GameRoomDurableObject`); in the Node host it is an object in the memory of
`server.ts`. Clients (browser page, WeChat mini program) hold a WebSocket or a
Socket.IO connection, send commands with a `commandId`, and show the newest
authoritative state they were sent.

| Component | State | Operations | Talks to | Correct when |
|---|---|---|---|---|
| Command ledger, room command runtime (`core/command`, `RoomCommandRuntime`) | bounded receipts, in-flight promises, the receipts published on the room | `execute`, `remember`, `restore`, lifecycle reset | every transport; mutations of a room | a retry is applied again only after its receipt was dropped; shared answers are real |
| Durable Object room (`GameRoomDurableObject`, repositories, realtime, raw WebSocket protocol) | snapshot, tickets, recovery state, timeout state: four storage keys, plus sockets and one alarm | create, join, ticket, upgrade, recovery, commands, alarm | Web Crypto, storage, clients | stored snapshots are sound, sockets belong to present credentials, nothing leaks from an earlier room with the same code |
| Room management (`RoomCore`, `roomManagementCommand`, `CloudflareRoomManagementRuntime`) | roster, host, moderator, seats, ready flags | rename, seat, ready, moderator, remove, transfer, leave, close | snapshot, sockets, recovery grants | one host, who is a member; the roster is frozen during a game |
| Identity recovery (`IdentityRecoveryService`) | grants by code hash, failed attempts | issue, claim, invalidate | snapshot, sockets | a code buys one new credential, for one player, of this room |
| Interaction timeouts (`interactionTimeoutPolicy`, `CloudflareInteractionTimeoutRuntime`) | timeout setting, active timer, receipts, alarm | set, extend, reconcile, alarm, expire | snapshot, Werewolf timeout policy | nobody loses time that was granted; no pending action waits for ever |
| Werewolf (`domain/game.ts`, `games/werewolf`) | phase, roles, life, choices of the night, votes | start, confirm, night actions, votes, hunter, recovery | room commands, timeouts | phases in order, roles act once, dead players do not act, the right side wins |
| Blood on the Clocktower (`games/botc`) | roles held and shown, deaths, the night step and what it told, the day's nominations and votes | confirm, choose, commit and acknowledge information, nominate, vote, close the day, begin the night | room commands | the night asks whom it should, what it tells is true, nights and games end, the dead vote once |
| Client session (`client/runtime`) | connection state machine, session generation, newest state, pending requests | connect, resume, reconnect, deliver, retry | ticket endpoint, WebSocket | never shows an older or a foreign state; a retry uses the same `commandId` |
| Node host (`server.ts`, `timedServer.ts`, `runtime/node`) | rooms, sockets, recovery codes, test prompts, timeouts by room number | the same commands over Socket.IO, one interval for all timeouts | the same ledger and game | seats, hosts and connections agree, all who are online see the room as it is, actions get their time |
| Views and projections (`*GameModule` views, `runtime/shared/*Projection`) | none of their own | what a state shows to whom | games, rooms | nobody is sent what is secret (but for one bit, Remarks); views and commands agree |
| Worker entry, delivery, parsing, presentation | none of their own | routing, parsing, layout | all of the above | (pure) |

What is hard here:

* **Overlap at awaits.** A handler that awaits Web Crypto keeps what it has read
  (snapshot, grants) and writes from it afterwards. Executions of one command
  may overlap and share a promise.
* **Several writes, no transaction.** Snapshot, timeout state, recovery state,
  tickets and alarm are written one after the other; a restart may come between
  any two.
* **Things that outlive what they are about.** Tickets, recovery codes, sockets,
  timers and alarms outlive members, credentials, actions and even rooms, whose
  code may be used again.
* **Retries and redelivery.** Commands are retried by clients, alarms are
  delivered again by the platform, receipts are bounded.
* **Time.** Deadlines, warnings and extensions race the alarm.
* **One fact in two places.** The planner and the rules each work out who is to
  act, the views and the commands each what a player may do, the night's steps
  are worked out again after each from facts the step has changed.
* **Secrets.** The same state is sent to everybody, cut down for each.

`PROJECT.json` lists the hazards one by one, at the line where each bites, with
the properties that would notice.

## The modules

| Module | Models | Status |
|---|---|---|
| `CommandWindow` | abstract specification: a command is applied only while no memory of it lives | done |
| `CommandLedger` | `IdempotentCommandLedger` driven by `RoomCommandRuntime.execute`; implements `CommandWindow` | done |
| `CommandLedgerProofs` | its theorems | done |
| `GameRoom` | Durable Object room: create, join, tickets, upgrade, recovery, room management, game lifecycle, crashes | done |
| `GameRoomProofs` | its theorems | done |
| `InteractionTimeout` | timeouts of secret Werewolf actions, split at every write | done |
| `InteractionTimeoutProofs` | its theorems | done |
| `WerewolfGame` | the rules of Werewolf, the death hook, the planner, the timeout recovery, and what each host does by itself after a command | done |
| `WerewolfGameProofs` | its theorems, and that of the views | done |
| `WerewolfHistoryProofs` | theorems about what holds of a whole game: limits of the roles, the shot, complete nights | done |
| `WerewolfViews` | what a Werewolf game shows to players, human moderators and the Room Owner | done |
| `TroubleBrewing` | the stateless rules of the script: setups, registration, information | done |
| `BotcGame` | `BotcGameModule`: roles confirmed, nights, days, votes, deaths, what is offered | done |
| `BotcViews` | what a game of Blood on the Clocktower shows to players and storyteller | done |
| `BotcGameProofs` | theorems about the script, the game and its views | done |
| `NodeRoom` | the Socket.IO host: rooms in memory, connections, recovery, prompts, timeouts, broadcasts | done |
| `NodeRoomProofs` | its theorems | done |
| `ClientView` | abstract specification: a client shows views the server had, each newer than the last | done |
| `ClientSession` | connection state machine, state store, session, raw WebSocket request engine and lifecycle bridge, over a faulty network; implements `ClientView` | done |
| `ClientSessionProofs` | its theorems | done |
| `MC...` | small sets and symmetry for TLC | done |

### CommandLedger

One action is one microtask of `execute`: the part before the await (`Replay`,
`Join`, `Start`), the mutation settling (`Mutate`, `MutationThrows`), the owner
of the mutation resuming (`OwnerResumes`, `OwnerFails`; the executions that
joined it are woken in the same microtask checkpoint, so that nothing runs in
between), and the continuation of `RoomCommandRuntime.execute` (`Publish`,
`Reset`, `ResetRefused`). `Reconstruct` is a new runtime meeting the room. A
result is the ordinal of the application that produced it: two answers are equal
exactly when they are the same answer. `applied` and `forgotten` are history.

`CommandWindow` leaves out promises, receipts and callers: a command may be
applied when no application of it is remembered, memories may be dropped
(eviction, lifecycle reset) and recalled. The refinement takes as remembered what
has a receipt or has resolved and is about to get one.

### GameRoom

A handler that awaits only storage is one action, because the storage operations
of a Durable Object hold other events back. A handler that awaits Web Crypto is
split there, and `pending[r]` is what it keeps in its local variables. Whether
other events run during such an await is the platform's choice; the contract of
the crypto provider is a promise, so the constant `Yields` names the awaits that
let other events in, and the runs and theorems say for which sets a property
holds. Credentials are numbered per player (`cred[p]`, 0 for somebody who is no
member): equality of numbers is equality of token hashes. Names, seats and ready
flags are one action `Edit`; what a game is about is left to other modules, here
only its participants (`playing`) matter. `Crash` drops requests and sockets;
`CrashBetweenWrites` stops a request after the first of its writes.

### InteractionTimeout

The snapshot (reduced to where the room is and the number of the action that is
pending), the timeout state, and the alarm of the object. `todo` is the rest of
the handler that is running: each write is a step, and `Crash` may come before
each. `ringing` is the alarm being handled: if its handler does not return the
platform delivers it again, unless another alarm is set; after the handler
deleted the alarm, redelivery is the platform's choice. Handlers take no time;
`Tick` moves the clock while something lies ahead. Not modelled: the check that
the player is an actor of the action (a refusal like the others), the limit of
128 receipts, and the delivery of timeout states to clients.

### WerewolfGame

`game` is the `GameState`, with absent ids as `None` and the deck already dealt;
of the seer's target only matters whether there is one. The functions of
`domain/game.ts` change a game in place; here each is an operator from the game
it is given to the game it leaves (`SettleNight`, `NightFrom`, `HunterTurn`,
`Eliminate`, `CloseVote`, ...), named after it, and the commands of the game
module are the actions that apply them (`SubmitWolfTarget`, `CloseDayVote`, ...).
`Asked` is the planner's and `Acting` the game module's account of who is to
act; `WitchCanAct` and `ShouldRun` are the two copies of one condition.

A command made for another phase carries an outdated `actionId` and is refused,
and a repeated one is answered without a change; both are stuttering steps, so
the action id itself is left out. Start, restart and abort are in `GameRoom`.

What a host does by itself after a command is part of the command's action:
`Answer` and `SubmitVote` start the vote of a finished night and close a vote all
have cast when `host = "node"` (`afterNightAction`, `deliverCommandOutcome`), and
do neither when `host = "cloudflare"`. Of the time limit there is one action,
`Timeout`, which may come at any moment of a timed phase and starts the vote on
both hosts (`expire`, `timedServer`); module `InteractionTimeout` says when it
does come. `past` is history: whom the guard protected each night, the potions
used, how the hunter died, the shots offered, which roles had their turn.

### WerewolfViews

The views are operators of the game: `PlayerView` and `ModeratorView` of
`WerewolfGameModule`, the interaction sent with them, and `Envelopes`, all a
member is sent of one state. `Altered(g, p)` is the game with everything in it
changed that `p` may not know, `DealtRound` and `Swapped` exchange roles among
players: `SecretsKept` says that a view does not change with it. Names, texts and
action ids are left out; a player stands for the reference sent of it.

### TroubleBrewing, BotcGame, BotcViews

`TroubleBrewing` has what keeps no state: which setups are legal and which the
automatic setup draws, what a player may register as, and the information each
ability may be given (`ChefValues`, `EmpathValues`, `PairValues`, ...), each a set
of the candidates the code enumerates.

`BotcGame` is one game. `handleCommand` works on a draft and keeps it only if
nothing throws, so that a command is one action and a throwing one leaves no
trace. Rules are operators from a game to the game they leave. Players are their
seats. A night is a sequence of steps of which `game.step` is the one at the
cursor; what is left of it is worked out again after each (`FirstNightSteps`,
`OtherNightSteps`), as `nextStepAfter` and
`advanceTroubleBrewingOtherNightProgress` do. With the automatic storyteller
(`auto`) the information is committed in the command that reaches the step. A
deal gives each seat the role it holds and the one it is shown, and bounds whom
choices name and who speaks. `past` is history: who was shown what at dusk, who
was woken, what the spy was shown, whose dead votes were counted.

`BotcViews` has the views; `BotcGame` has the part of them that offers something
(`PlayerView`, `ModeratorView`), which `OfferedIsAccepted` compares with what the
commands accept. `Altered` is here, too, the game with all changed that a player
may not know: a drunk may not tell that it is drunk, nobody who died before dawn.

### NodeRoom

A room is its members by seat; one without members does not exist. An action is
a handler of `server.ts` or `timedServer.ts` with its broadcast, or one tick of
the interval. The awaits of this host (a hash, a recovery grant in memory, the
ledger) let neither another connection's packet nor a tick in, but the packets of
one payload are all taken up before the first handler that awaits goes on. So a
handler that awaits is two actions, named for what is asked and for what is done
(`JoinRoom` and `Joined`, `Resume` and `Resumed`, `IssueRecovery` and `Issued`,
`RemovePlayer` and `Departed`, `Command` and `Started`, `Played`, ...; `GivenUp` is
a refusal after the await). `pending` holds who is between the two, with what the
handler remembers; the first to go on sets `answering`, after which nothing more is
taken up (`Heard`) until the payload is done (`Quiet`). The handlers of a payload
go on in any order, each at once from its await to its end; those that await more
than once (`issue`, `claim`) end, however they are interleaved further, as one of
these orders does. `pipelined` remembers on which connection two seats were asked for in one
payload, `strays` whose codes were made too late; both are history. `seen` is the
`room:state` a connection was sent last. A game is told apart by the action it waits for: a
timed one, something untimed, or the lobby; `WerewolfGame` says which actions
come. Timeouts (`limit`, `timer`) are kept by room number, outside the room, and
outlive it; `age` is history, the ticks since the action came up. The recovery
of a timeout is one action with the tick that finds it due.

### ClientSession

An action is one event of the client's event loop with the microtasks it starts:
a timer, a message, the end of a socket, a call of the user interface. `client`
is the whole client as a record (status, generation, the store's and the room
view's revision, the transport's active generation and socket, the requests
pending, the one command of the session), and what the state machine, the store
and the request engine do to it are operators from the client to the client it
leaves, named after the code (`ReceiveState`, `AcceptSync`, `Disconnect`, ...).
A view is its revision. The server is as much of the Durable Object as a client
can tell: it answers synchronisations, applies a command once (see
`CommandLedger`), refuses, fails, and pushes the room's view and then the
player's after each change. `up` and `down` are the messages of each connection;
whether the network keeps order is chosen at the start (`ordered`): WebSockets
do, but the code says it tolerates reordering. `Die` is a connection that carries
nothing more without anybody noticing; what has reached the device still arrives.
The browser and the WeChat transport differ in their platform calls only, so one
model stands for both. `opened` is history.

`ClientView` leaves out connections: the truth advances, the client may show a
newer view it has had, and when the session is over it shows none.

## What the runs check

| Run | Question | Properties |
|---|---|---|
| `command_ledger` | three executions of two commands and one lifecycle command, window of two receipts | `TypeOK`, `AtMostOnce`, `LedgerSound`, `WindowRefined`, `EveryCallAnswered` |
| `room` | two requests, three players; other events run during the await of a ticket | `SessionCurrent`, `GrantsSound` |
| `room_awaits` | one request at any of its awaits while members act; snapshots and grants saved from stale reads | `TypeOK`, `StorageSound`, `RoomSteps` |
| `interaction_timeout` | two timed actions, two commands, two faults | `TypeOK`, `TimersSound`, `WaitingActionKept`, `AlarmedActionEnds` |
| `redelivery_loses_timer` | finding 1 | `RedeliveryCompletes` is violated |
| `werewolf_rules` | five players, two decks, two nights and days, both hosts | `TypeOK`, `DecidedIsOver`, `NightIsComplete`, `ShotIsEarned`, `LimitsKept`, `SecretsKept` |
| `werewolf_node` | one night and day of the Node host, three votes standing | `VotesAreLive`, `NightLeadsToDay` |
| `werewolf_cloudflare` | finding 2 | `NightLeadsToDay` is violated |
| `botc_rules` | nine games, each with the roles between which one of its difficulties lies | `TypeOK`, `DecidedIsOver`, `NightWakes`, `InformationTrue`, `GrimoireForetells`, `OfferedIsAccepted`, `GhostVoteOnce`, `SecretsKept`, `NightEnds` |
| `botc_empath` | finding 3 | `EveryNightEnds` is violated |
| `node_room` | three scenes: three players in a room, with games and timeouts; two awaiting packets of one payload; these beside another connection | `RoomsSound`, `ViewsCurrent`, `TimedActionEnds`, `TimeoutKeepsPromise` |
| `client_session` | one client, two connections, one thing going wrong at any moment | `TypeOK`, `SessionSound`, `ViewForward`, `CatchesUp`, `CommandAnswered` |

Some are conjunctions whose parts are named in the modules: `LedgerSound` of
`AnswerIsReal`, `FlightHasOneOwner` and `OneReceiptPerId`; `GrantsSound` of
`GrantOnce` and `GrantsOfThisRoom`; `RoomSteps` of `RevisionAdvances`,
`HostKeepsCredential` and `RosterFrozen`; `StorageSound` of `SnapshotSound` and
`OneGrantPerPlayer`; `TimersSound` of `ExtendedOnce` and `TimerOfThisRoom`;
`NightIsComplete` of `PendingHasActor` and `EveryRoleHasItsTurn`; `NightWakes` of
`OnlyTheEntitledAct` and `EveryOneWakes`; `SessionSound` of `TransportAgrees`,
`FreshWhenConnected`, `RoomKeepsUp` and `NoFalseAlarm`; `RoomsSound` of `OneHost`,
`OneSeat`, `GrantsServe` and `PromptServes`.

`CHECK_DEADLOCK FALSE` stands where a system may come to rest: nobody calls, or
a bound is reached.

Bounds. *CommandLedger*: a window of 2 with 3 commands makes every eviction and
every return of an evicted command happen; 3 callers are an owner, a joiner and
somebody else; `MaxApplied = 2` is one wrong second application. *GameRoom*:
with 3 players there are a host, a target and a bystander; one ticket and one
code at a time suffice for their races with 2 requests, two codes for replacing
one by another; `MaxCred` lets a credential be rotated once or twice, `MaxRev`
lets a room be changed twice and closed. With every await yielding and two
requests the state space is out of reach, so the runs choose the awaits a
property is about. *InteractionTimeout*: two actions are one and its successor;
a timeout, a warning and an extension of two ticks put warning, deadline and
extended deadline at different instants; two faults are a restart and one during
the redelivery after it. *WerewolfGame*: five is the fewest players the code
accepts; members are interchangeable, so one deal stands for a deck; one deck
has every special role, the other two wolves and a hunter among plain villagers.
Two nights (`MaxDays`) are what limits that span nights are about: the guard's
last choice, spent potions, a poisoned dead player. One standing vote
(`MaxVotes`) is an elimination or an empty round; three make ties, second
rounds, empty second rounds and the round that closes by itself. Every run ends
when its days are used up. *BotcGame*: a script has 22 characters and no run
could deal them all, so each deal of `MCBotcGame` holds one difficulty:
protection, poison and the killed ravenkeeper; the executed imp, its successor
and the undertaker; the spy and the drunk; the butler and the red herring; the
outsiders who mislead; the saint; seven players, where the evil know each other;
two minions, where the imp made by an execution makes another in the same night;
and two ballots in a day. A deal also says how many nights are played, whom
choices and nominations name and who speaks, and from which three characters
bluffs are drawn; these hold the roles the deal is about. One nomination a day
is an execution or none; the ninth deal has two, for ties and for a hand that is
raised in both ballots. *NodeRoom*: packets of one payload and timeouts
have little to do with each other (a tick waits for the payload), so a behaviour
of the run keeps to one of three scenes (`MCNodeRoom`), which use as much of the
constants as they need. In `Timeouts` a payload has one packet that awaits; one
number that is used again meets the leftovers of all rooms before; two connections
are one and its replacement, or the host's and another's; three players are the
host, a second member and whoever comes after one has left; an action needs another
to be told from, whose timer may have stayed; limits 0 and 1 are off and on. In
`Payload` and `Peers` a payload has two packets that await and any number that do
not, which is what every pair of handlers needs; two rooms are what one connection
may have two seats in; games are not timed. With one connection and three players,
two seats in one room pass the limit of two; with two connections and two players
the other connection is replaced, removed, and shown things. A connection with two
seats that is replaced at one of them also loses the other (`left` of `Resumed`).
More packets, players and connections, and all of it at once, are for the proofs.
`MaxAge` lies beyond what an action can last, so that the cap on `age`
is never what ends it. *ClientSession*: two connections are one and its
replacement; three revisions are one seen, one missed and one newer, the last
kept for the command; two requests are a command and a synchronisation, and a
request id is used again only when no message speaks of it (the code never
does); one fault (a refusal, an error, a lost ticket, a slow answer, a closed or
dead connection) may come at any moment, and what follows from it (timeouts on a
dead connection, its closing) is free.

## Fairness

*CommandLedger*: the event loop runs every queued microtask, so mutations
settle, owners resume and answers are sent (`WF` each); nobody is forced to
call. *InteractionTimeout*: a handler goes on to its end (`WF(Handle)`); time
passes and a due alarm is delivered however many other events the object is
given meanwhile (`SF(Tick)`, `SF(HandleAlarm)`: other events disable them again
and again, but the platform serves them in turn). `MaxFaults` bounds restarts:
an object that is restarted for ever does nothing. *WerewolfGame*: a timed phase
is ended by its time limit if nobody acts (`WF(Timeout)`), which is the
configuration with the limit on; players and moderator are never forced to act.
Each phase of a night is a new action with its own limit, so weak fairness is
enough. *BotcGame*: this game has no time limit, so a night ends only if those it
waits for answer (`WF(NightGoesOn)`); nobody is forced to nominate, to vote or to
go to bed. *NodeRoom* assumes no fairness: that actions end is stated in ticks,
as a bound on `age`.

*ClientSession*: timers run out, the network delivers the next message of a
connection that lives, the server answers, and the user comes back again and
again (`WF(Resync)`, `WF(Reconnect)`): without a user who comes back nothing in
the code notices a dead connection. Nobody is forced to change anything, to send
or to dispose.

## What is proved

Assumptions are those the modules name: limits are naturals, windows and numbers
of players positive, a warning lead no longer than an extension, lifecycle
commands are commands, Werewolf deals are decks the code accepts dealt to the
players, those of Blood on the Clocktower are setups of five to fifteen players
that `TroubleBrewing` calls legal, actions differ from what is none, and `None`
is no player and no connection.

*CommandLedgerProofs* - `TypeCorrect`, `AppliedAtMostOnce`, `LedgerStaysSound`
(from `AnswersReal`, `PromiseOwned`, `WindowBounded`) and
`LedgerImplementsWindow`, for any commands, callers and window. At-most-once is
not inductive by itself: the invariant says that the one application in excess
belongs to a command that is remembered or has just resolved, that a command in
flight is not remembered, that receipts stand for applications that happened,
and that a promise has one owner; the lemma `RememberSound` says what `remember`
does to a window.

*GameRoomProofs* - `TypeCorrect` and `StorageStaysSound` (from `SnapshotsSound`
and `GrantsUnique`), for any players, codes, tickets, requests and any set of
awaits that yield. Because snapshots are written from stale reads, the invariant
is about what suspended requests hold: every snapshot in a local variable is
sound as well, a suspended join holds one without a game and with a free place,
a suspended claim one that has its player, and every set of grants held gives
one code to a player. The proof covers handlers that interleave in ways the
platform may never allow. So does that of `RoomStepsHold`, which relates a save
to the snapshot it was made from (`Read`): the newcomer of a join is in no
snapshot anybody holds, no credential in one being ahead of those generated, and
a recovery under way is of nobody who was host when it was checked (`AllBacked`).
It does not say that nothing comes between a read and its save: that is
overwritten, see the remarks. `SessionsStayCurrent` and `GrantsStaySound` are
about what does depend on the awaits and have the hypothesis `Gated`: no await lets another event in but that of a ticket, which is what the
run `room` takes, and what the storage of a Durable Object gives all handlers
that await nothing else. (With two overlapping claims `GrantsSound` is false, see
the remarks.) Their invariant `SerialInv` says that whatever a request may have
read is what is stored (`ReadsFresh`), that no credential is newer than the last
one made, and that a code stands for one grant, which has bought nothing yet.

*InteractionTimeoutProofs* - `TypeCorrect`, `TimersStaySound` (from
`TimersOfThisRoom` and `ExtensionsBounded`) and `WaitingActionsKept`, for any
settings, lengths, commands, actions and number of faults. The invariant relates
the timer to what was granted (`TimerInv`), says what each step of an
interrupted handler finds (`TodoInv`), and, for extensions, keeps the allowance
that is left: that of the timer, none for a pending action without a timer that
never had an expiry throw, all of it otherwise, plus one allowance for each
throw.

*WerewolfGameProofs* - `TypeCorrect`, `OverWhenDecided`, `ActorsPending`,
`VotesOfTheLiving`, for any players, legal deals, hosts and bounds. The
invariant `Sound` is a predicate of one game, so that each rule has a lemma of
its own: what it makes of any game it may be applied to (`SettleNightSound`,
`NightFromSound`, `EliminateSound`, `CloseVoteSound`, ...); the actions then
follow from `BecomeSound` and `AnswerSound`. Besides the properties it says what
night and day it is in each phase (`Calendar`: a night's number may only be
advanced at dusk) and that there is one hunter (`OneHunter`: the planner asks the
dead hunters, the game module all of them). That the seer has somebody to check
follows from an undecided game having a wolf, who is not the seer (`WolfLives`).
`SecretsStayKept` needs of the invariant only the cast (`CastSound`: who holds
which role); that views are the same is shown part by part of each view, for each
of the three ways to change a game.

*WerewolfHistoryProofs* - `OneShot`, `LimitsOfRoles`, `NightComplete`. These
relate the game to `past`, so the invariant `HInv` adds what the one has to do
with the other: a recorded check was chosen (`SeerKept`), a potion is spent when
it is used (`PotionsKept`), `guardLast` is whom the guard protected the night
before, and no night's record is written twice (`GuardKept`), the hunter has
fallen when dead and had one shot offered unless poisoned (`HunterKept`), and
every role awake at dusk whose place in the night the phase has reached was
asked, but for a witch with nothing she could use (`TurnsKept`).

*NodeRoomProofs* - `TimedActionsEnd` and `TimeoutsKeepPromise`, for any rooms,
members, connections, actions, limits and extension. The invariant (`TimingInv`)
is a law of conservation: what a timer has left and the age of the action it is
about add up to the time granted, one extension included. It is inductive only
because no other timer is ever taken for that of the pending action, though
timers outlive games and rooms: an action that comes up is none a timer is about
(`FreshActions`, the ids of actions being new), the limit changes in the lobby
alone, and a room with a game exists, so that every tick visits it.
`RoomsStaySound` and `ViewsStayCurrent` are about payloads of any number of packets
and have the invariant `SeatInv`: a player sits once and in one room, hosts and
those online sit, a connection not in `pipelined` holds one member. Between the
actions of a payload codes and prompts may also be about a player whose departure
has not gone on to them (`Leaving`), and who asks for a seat has none and is alone
in asking (`OneArrival`), unless it is taken down in `pipelined`. The invariant
makes the searches of the code (`findMembership`, which goes through all rooms)
find the member they are meant to, so that a handler changes one room, shows it to
all who are in it and leaves the views of the others alone (`Untouched`); only a
departure leaves views behind, until its handler goes on (`Unsettled`). That
nothing is pending then gives the two properties as they are stated.

*BotcGameProofs* - for any legal deals, any number of nights, storytellers, and
choices. `TypeCorrect`, `DecidedStaysOver`, `DeadVoteOnce` and `OnlyTheEntitled`
(the one half of `NightWakes`) come from `GameInv`, a predicate of one game
(`Holds`) with one lemma per rule of the module: who is who (`People`: one living
imp at most, only the drunk is shown another role, whoever a transition made the
imp is the imp), what belongs to which phase (`Timely`), whom the step at the
cursor is for, when a game is over; and, of the history, that a dead player whose
vote was counted has spent it. `SecretsStayKept` follows from it for each part of
a view. `KnowInv` adds what the information of a night rests on: the first night
changes no role (`Dealt`), the step at the cursor is one of those worked out from
the game of now (`Listed`), what is told is one of its candidates (`Informed`),
the spy saw the pairs that are told after it (`Foretold`), bluffs are out of play.
From it `PairsAreForetold`; `OffersAreAccepted`, which has to show that a decision
offered can be made: a count of the legal setups (`DealtSeats`) finds a townsfolk
and a minion in each for the pairs to show, and the sums of the chef and the
number of the empath exist; and `InformationIsTrue`, which compares what the code
enumerates with a definition that does not enumerate: the walk round the circle
of `EmpathValues` ends at the nearest living neighbours (`NeighboursNear`), the
recursive sum of `ChefValues` lies between the sure and the possible pairs
(`SumsBounded`, by a least counterexample, as induction is not at hand).
`EveryoneIsWoken` is `NightWakes` whole. The steps of a night are worked out again
after each from a game that step has changed, so `NightInv` ties them to what the
history has of the dusk: which place of the order is whose (`Turn`), that whoever's
place the cursor has passed was woken (`WokenSoFar`), that a step at a place is for
that one player (one holder per character, `OneOfEach`), that whoever became the imp
stands in a transition (`Recorded`, `Passing`) and was told when its place came
(`NewImpsTold`). A later night always has a step, for a game that goes on has a
living imp (`ImpIsAsked`): only the first night may be over at once.

*ClientSessionProofs* - `TypeCorrect`, `TransportAgreed`, `FreshAlways`,
`SessionStaysSound`, `SessionImplementsView`, for any number of connections,
revisions, requests, retries and faults, with and without order on the network.
The invariant is a predicate of the client (`Sound`), for which every operator of
the client has a lemma that says how it may move it (`Moves`), and one of the wire
(`OnWire`): a connection carries nothing older than what the server had when it
accepted it, nothing newer than what it has, and nothing at all before. Freshness
needs both, because a session is Connected by whichever message comes first.
`RoomKeepsUp` and `NoFalseAlarm`, which complete `SessionSound`, need the order of
what is on the wire as well (`OrderInv`): on an ordered network each message fits
behind the one before it (the room's view of a revision precedes the player's),
and no connection is accepted before the client asks for it.

Only model-checked: liveness (`EveryCallAnswered`, `AlarmedActionEnds`,
`NightLeadsToDay`, `NightEnds`, `CatchesUp`, `CommandAnswered`), which the prover
cannot do.

## Findings

1. **Redelivery after an expiry loses the next timer**
   (`redelivery_loses_timer`). `expire` saves the next snapshot, drops the timer
   and the alarm, and then reconciles. A restart in between leaves the next
   action without a timer, and the redelivered alarm finds none and stops.
2. **A finished night does not become day on Cloudflare**
   (`werewolf_cloudflare`). The step from `night_complete` to the vote is the
   host's. The Node host takes it after every command; the Durable Object only
   after a timeout, and no client command asks for it. A game whose night is
   ended by a player's own action stays there, without a pending action and so
   without a time limit, until the host aborts or restarts it.
3. **A night that leaves an empath with one other player does not end**
   (`botc_empath`). When a killing leaves two players alive, the empath among
   them, its two neighbours are one, and its information is a throw
   (`TroubleBrewingInformation.ts:569`). The step can be neither answered nor
   passed, and the victory of evil, decided already, is never entered; with the
   automatic storyteller the command that reaches the step is refused each time.

## Remarks

Met while modelling; no run claims them.

* **A recovery code may survive a resume** (`GameRoom`).
  `issueWebSocketTicket` invalidates the player's grants because a normal resume
  proves the credential is still in the player's possession
  (`GameRoomDurableObject.ts:631-632`); the resume is complete only with
  `upgradeWebSocket` (675), which does not. A code issued between the two stays
  valid while the player is online.
* **What comes between a read and its save** (`GameRoom`). If the platform lets
  other events run while a token or a code is hashed, `joinRoomSession` and
  `handleIdentityRecovery` save from the snapshot of before: a command is lost, a
  room that was closed comes back, two creates overwrite one another. `RoomSteps`
  says of such a save what it does to what was read, `StorageSound` that it makes
  sense.
* **Two claims of one code** (`GameRoom`). `claim` loads the grants, awaits a digest
  and consumes the grant in its copy (`IdentityRecoveryService.ts:170`). If the
  platform lets another event run during the digest (`Yields` with `"claim"`),
  two claims both succeed and `GrantsSound` fails in four steps. `room` assumes it
  does not.
* **A resynchronisation may be ended by an older answer** (`ClientSession`). The
  user's return resynchronises because a connection may only look healthy
  (`ClientSession.ts:232-233`); any acceptable view of the connection ends it, a
  push or answer already on its way as well, and the failure of the request is
  then ignored (334). `CatchesUp` needs the user to return once more.
* **The owner's recovery panel** (`WerewolfViews`). Its counts name nobody. Beside
  the connected flags of the members, `offlineWaitingCount` tells of somebody
  offline whether the night asks for them (`hostRecovery.ts:8-10`,
  `GameModerator.ts:18-23`, which `tests/hostRecoveryStatus.test.ts:54` expects);
  `SecretsKept` is about the counts with everybody connected.
* **Packets of one payload** (`NodeRoom`). Two packets that Socket.IO decodes from
  one payload both pass their checks before either is carried out. Create, join,
  resume and claim, in any pair, then give one connection two seats, in one room
  (also one more than it has) or in two, and only one of them is freed when it ends
  (`server.ts:290`, 336, 384, 472); two creates may draw one number, and the second
  takes the place of the first. A recovery code may be made after its player was
  removed, came back, or was given another (`IdentityRecoveryService.ts:132`,
  `server.ts:591`): a code that serves nobody is kept, or two for one player. A
  join sent behind the leave of the last member joins a room that is being deleted
  (`server.ts:703`): it is acknowledged, and the room is gone. Nothing in the
  repository promises otherwise, so these are no findings; `RoomsSound` and
  `ViewsCurrent` except what comes of them by name (`pipelined`, `strays`) and hold
  for everything else.
* **A timeout setting survives its room** (`NodeRoom`). Timers and limits are kept by
  number; closing a room clears neither. The timer does no harm
  (`TimeoutsKeepPromise`); the limit is the next room's.
* **Everybody is told when a minion becomes the imp** (`BotcViews`).
  `publicView.canCompleteNightStep` (`BotcGameModule.ts:549-553`) says whether the
  step that is due only tells, and every member of the room is sent it
  (`botcClientRoomProjection.ts:95-97`). In a night after the first the one such
  step is that of a new imp, so that all clients learn of it, against
  `docs/B0B_TROUBLE_BREWING_NIGHT_SEQUENCING_HANDOFF_2026-09-30.md:99` ("PublicView
  receives no active-step secret") and 213. `SecretsKept` states that bit as what
  it is, and that nothing else of the step is sent.
* **The shown role of a new imp** (`BotcGame`) changes at the death it follows, and
  before the night tells the player so.
* **Closing a vote** (`WerewolfGame`). `closeDayVote` carries no action id: a press
  meant for a round that closed since closes the next.

## Not modelled

* *GameRoom*: protocol parsing and the delivery of states. *InteractionTimeout*: the
  limit of 128 receipts, that the caller is an actor, the delivery of timeout
  states. *WerewolfGame*: action ids (an outdated one is refused, a repeated one
  changes nothing).
* *BotcGame*: `setDemonBluffs`, which no client command reaches; the snapshots and
  receipts around it are those of `GameRoom` and `CommandLedger`.
* *NodeRoom*: names and renaming, the receipts of commands and extensions (those of
  `CommandLedger`), warnings and alerts, a recovery that throws; what a deleted room
  or one whose number was drawn twice still does to handlers that hold it (nobody
  finds it); two first codes of a room in one payload, of which the code keeps the
  last and the model both.
* *ClientSession*: the Socket.IO transport, the bootstrap client and the credential
  store, realtime events (no state), and views of another session.
* The experimental roles (nothing reaches them), the worker entry (routing by room
  code), presentation, the simulator under `dev/`, build scripts, static pages.

## Plan

What is left, most important first:

1. The Socket.IO transport of the client and the bootstrap client.
