# Verification of dzfoot-gf-server

`gf_server` runs one football match per process: it steps the GameplayFootball
engine 60 times a second, applies the inputs of mobile players, publishes the
state and the events of the match on Redis and posts the result to a statistics
service. `scripts/gf-worker.sh` starts such a process for every room that is
requested. This directory holds TLA+ models of the program's own logic, the TLC
configurations that check them on small instances, and proofs, checked by
TLAPS, that the most important properties hold for all values of the constants.

## 1. The system

| Component | Source | State | Operations | Interacts with |
|---|---|---|---|---|
| Server loop | `GameServer.cpp` | `tickCounter_`, `currentState_`, `previousState_`, `eventQueue_`, `stats_`, `running_` | `run`, `tick`, `broadcastGameState`, `broadcastTacticalState`, `applyPendingInputs`, `receiveInput`, `postMatchResult` | engine (calls), Redis (publishes), listener thread (`inputQueue_` under `inputMutex_`) |
| Match statistics | `GameServer.cpp` 558-601, 1036-1144 | `MatchStats`, expiry ticks per player | `resolveShotsOnGoal`, `accumulateStats` | engine (function types, ball owner) |
| Process | `main_server.cpp` | `gRunning` | `main`, signal handler, input thread | server loop, Redis |
| Redis client | `RedisClient.cpp` | connections, mutex | `publish`, `publishBinary`, `hset`, `subscribeNext` | used by both threads |
| Stats poster | `StatsPoster.cpp` | none | one HTTP POST | called after the loop |
| Worker | `scripts/gf-worker.sh` | `gf.active`, `gf.worker_map`, `gf.workers` in Redis | poll loop, a watchdog per room, clean-up | Redis lists and channels, `gf_server` processes |
| Engine | `GameplayFootball/src` | match, referee, teams, players | `GameEnv::action`, `step`, `get_info` | called by the server loop |
| Referee and phases | `referee.cpp`, `match.cpp` | the clock, fouls, cards, set pieces | `Referee::Process`, `Match::Process` | a stage of the engine's step |
| Player selection | `team.cpp`, `humangamer.cpp`, `playerbase.cpp`, `player.cpp` | `selectedPlayer`, `externalController`, `mainSelectedPlayer`, `designatedTeamPossessionPlayer` | `UpdateSwitch`, `HumanGamersSelectAnyone`, `SelectPlayer`, `DeselectPlayer`, `SendOff`, the Switch button | passes, cards and stoppages change it; it resets a gamer's controls |
| Gamer's controls | `humancontroller.cpp`, `ai_keyboard.cpp`, `humanoid.cpp`, `game_env.cpp` | pressed buttons, the queued action with its power and buffer time, the animation | `Process`, `RequestCommand`, `applyPendingInputs`, `ResetNotSticky`, `Humanoid::Process` | fed by the server loop, cut short by the selection and by trips |
| Match configuration | `MatchConfig.cpp` | parsed structure | JSON parsing | read once |
| LiveKit bridges | `LiveKitBridge*.cpp` | none in this build | transport | not instantiated by `main` |
| Tools | `tools`, `scripts`, build files | none | asset and build scripts | none |

What is hard, and where the properties aim (the full list, line by line, is
`hazards` in `PROJECT.json`):

* two threads and a signal handler around one loop (inputs, shutdown, join);
* calls that fail and are not retried, in the middle of a flush too;
* events derived by comparing two ticks, so that the order of copies matters;
* a match clock that jumps, and a restart that is due in one window of a step;
* boundaries counted in ticks (half time, end, broadcast phase, pending windows);
* an exception that leaves a tick half done;
* who is controlled is written down in three places and changed from five;
* packets that come late, several at once or not at all, between a press and
  the kick it is to make, while trips and stoppages interrupt the animation;
* several workers, their watchdogs and clean-ups on one Redis, command by
  command, with a shell option (`set -e`) that ends a watchdog early.

## 2. The modules

| Module | Models | Lines of |
|---|---|---|
| `MatchEngine` | what one `GameEnv::step()` may change, as a relation | `match.cpp`, `referee.cpp`, `player.cpp`, `game_env.cpp` |
| `GameServer` | one process: main thread, listener, signal, Redis link | `GameServer.cpp`, `main_server.cpp`, `RedisClient.cpp`, `StatsPoster.cpp` |
| `MatchFeed` | abstract: what a subscriber of a room is promised | none; refined by `GameServer` |
| `RoomServer` | abstract: the life of one gf_server as its worker knows it | none; refined by `GameServer`, assumed and shown by `GfWorker` |
| `MatchStats` | shots, passes and tackles of the match report | `GameServer.cpp` |
| `GfWorker` | the worker script on several machines | `gf-worker.sh` |
| `RedisClient` | the two connections of the process, their mutex and hiredis's reader | `RedisClient.cpp`, `main_server.cpp` |
| `RedisLink` | abstract: what the process may expect of them | none; refined by `RedisClient` |
| `Referee` | the referee, the match clock, cards and sendings-off | `referee.cpp`, `match.cpp`, `player.cpp` |
| `Selection` | which player of a team its gamer controls | `team.cpp`, `humangamer.cpp`, `playerbase.cpp`, `player.cpp`, `humanoid.cpp`, `AIfunctions.cpp` |
| `Controls` | from the buttons of a packet to the kick | `humancontroller.cpp`, `ai_keyboard.cpp`, `game_env.cpp`, `humanoid.cpp`, `GameServer.cpp` |
| `GameServerProofs`, `GameServerRefinement`, `MatchStatsProofs`, `GfWorkerProofs`, `RedisClientProofs`, `RefereeProofs`, `SelectionProofs`, `ControlsProofs` | theorems | |
| `MCGameServer`, `MCMatchStats`, `MCGfWorker`, `MCRedisClient`, `MCReferee`, `MCSelection`, `MCControls` | instances for TLC | |

### GameServer

`main` is the program counter of the main thread. Each value stands before one
group of statements of `Server::run()` and `main()`:

| `main` | code |
|---|---|
| `setup`, `ready` | `sendMatchSetup()`; gf.ready (260-264) |
| `loop` | loop head with the shutdown flag (279-284) |
| `tick`, `lock`, `drain` | counter (336-344); `applyPendingInputs()` (953-1034), mutex held in `drain` |
| `step` | `GameEnv::step()`, the copy of the state and all event detection (346-658), in one action |
| `state`, `events` | `broadcastGameState()`: the state, then one event after the other, then `clear()` (912-942) |
| `tactical`, `heartbeat` | 308-318 |
| `crash`, `finish` | the catch blocks (287-303); gf.finished (327-329) |
| `stop`, `join`, `post`, `exited` | `main()` after `run()` (173-183) |

The detection is one action because nothing else reads or writes what it
touches: the other thread shares `inputQueue_` only, and the signal handler
`gRunning` only. Every publish is an action of its own, because the listener, a
signal or a failure can come between any two. A publish is stored or lost:
`RedisClient` drops the connection and returns false, and no caller looks. How
that comes about is the subject of `RedisClient`, below.

Abstractions: positions, animations, tactical payloads and time stamps are left
out, as no event or statistic modelled here depends on them. The direction of a
packet is the sector that `applyPendingInputs()` computes. The 22 players are a
constant set, so that the flags of one or two can be followed. Waiting for the
next frame is not modelled: nothing depends on wall-clock time. Goals keep their
width: scores are sent and posted as `uint8_t` (`Bytes`), so they start again at
256, while `stats_.goals` and the engine count on as int. `generated`,
`delivered`, `arrived`, `applied`, `signalTick` and `thrown` are history
variables that no action of the code reads.

### MatchEngine

The engine is far larger than the server. The module states as a relation what
the server's comparisons depend on: at most one goal per step, of one team
(`Match::Process` 930-953), in play and within a set piece alike; a set piece ends before another is awarded; cards
are never taken back; only a carded player is sent off, and for good. That the
referee and the match keep to it is `EngineRelation` of `Referee`.

### Referee

`at` is the stage of `Match::Process()` that comes next:

| `at` | code |
|---|---|
| `collide` | `CheckBallCollisions()` while in play (`Touch`); then `Referee::Process()` begins (`Begin`) |
| `half`, `lines`, `sideline`, `foul` | in play: half time, goal lines, sidelines, last `CheckFoul()` (`referee.cpp` 96-220) |
| `restart` | not in play: preparation and start of the set piece (222-256) |
| `taken` | the set piece is taken; the relax time (258-279) |
| `hold` | the clock alone moves, or the step is simulated (`match.cpp` 864-870) |
| `teams` | the players are processed: touches, sendings-off (883-901) |
| `trips` | `CheckHumanoidCollisions()` with `TripNotice()` (926); the clock, goals (928-953) |

Stages exist because each reads what the one before has written: two of them may
stop play in one step, and every award moves the clock. `CheckFoul` takes what is
to happen when no foul is punished as its second argument, as its callers do.
Where the ball is, who touches it, who trips whom and how hard, whether the
victim's team has lost the ball and what the half-time test answers are chosen
freely. Positions, the two sides and the team that restarts are left out, and of
the offside list only whether it is empty: whoever touches the ball may be on it.
`AlterSetPiecePrepareTime` is left out: it is reached only when the referee has
time for an animation, which the jumps of the clock take away (`animations` is
false in the server). `seen` is a history variable, the answer of `GetState()`
after each step in the terms of `MatchEngine`; `prepared` is another.

The delays are constants with the relations that matter: a jump of the clock is
shorter than the delay to the preparation it jumps towards, and a card takes
effect later than one more jump reaches.

### Selection

One team with one gamer, who may control every player of it, as the server sets
up its two teams. `at` is the stage of `GameEnv::step()` that comes next:

| `at` | code |
|---|---|
| `input` | `GameEnv::action()` between two steps enables the keyboard and presses Switch (`Input`) |
| `referee` | play stops, the set piece is prepared (`Team::ResetSituation()`, which resets the controllers and so Switch), play starts |
| `switch` | `Team::UpdateSwitch()`, or the early return of `Match::Process()` while the match is on hold (`Hold`) |
| `select` | `Team::HumanGamersSelectAnyone()` |
| `players`, `cards` | player after player (`turn`): a pass is commanded or played; then a card takes effect (`SendOff`) |
| `button` | the Switch button in play; everybody deselected out of play (`team.cpp` 415-463) |
| `designate` | `UpdateDesignatedTeamPossessionPlayer()`; the step ends and the buttons are cleared |

The stages matter because each reads books that the one before has written: a
player deselected in `cards` must have a successor when `button` reads the
gamer's player. `SetSelected` is `HumanGamer::SetSelectedPlayer()` with its
refusal of a player who has a controller, which is what could set the three
books apart. Positions are left out: the closest player is any player on the
pitch that the search looks at, the target of a switch any that the possession
estimates can name. One pass is under way at a time. `stray` and `moved` are
history variables.

### Controls

One player from the packet to the kick. `at` goes from `inputs`
(`applyPendingInputs()`) to `control` (`HumanController::Process()`), `anim`
(`Humanoid::Process()`) and `end` (collisions, `ResetNotSticky()`). The queued
action is `mode`, `button`, `gauge` and `buffer`, the code's `actionMode`,
`actionButton`, `gauge_ms` and `actionBufferTime_ms`. A packet names the
buttons that are down; the last one of a step counts. `Reselected` is what
`Selection` does to the controls: another player, in the midst of something
the AI has begun, and a `Reset()`. Whether the ball is near, when an animation
comes to its touch and which animation is found for a command are chosen
freely. Time is counted in steps, as the code adds 10 ms to power and buffer per
step (a step of the match is 16 ms of real time at 60 ticks per second).
Directions, the strength of a kick, and Pressure, TeamPressure and KeeperRush,
which no packet can press, are left out. `held`, `late`, `kicks` and `felled`
are history variables.

`GameServer` keeps the part of this that its own thread sees (`Pad`,
`ResetNotSticky`).

### MatchStats

One action, `Tick`: a goal or none (`resolveShotsOnGoal`), then
`accumulateStats` for all players at once; the loop over players has no
dependence from one to the next. Inputs are what the engine may report: the
function type of every player, the owner of the ball, the goal. `Catch` and
`Deflect` are one value, and all types that nothing counts are one value;
the three passes are kept apart, since a change from one to another counts.
Possession and distance are sums of floats over positions, and are left out.

### GfWorker

A watchdog subshell is followed command by command, a clean-up call by call, and
the gf_server process is seen from outside (starting, up, thrown, closing,
exited). Each `redis-cli ... || true` takes effect or is lost. Process ids count
up from 1 on each machine and are not used twice. Watchdogs go on when the
worker's main shell has left, as background subshells of a script do.
The requests come from outside the repository (`Request` is external). Payload
parsing, rejected payloads and the heartbeat subshell are left out.

### RedisClient, RedisLink

The main thread issues commands on `ctx_`, the listener reads the input channel
on `subCtx_`, and one mutex guards both.

| `main` | code | `listener` | code |
|---|---|---|---|
| `free` | between two calls | `head` | the loop in `main_server.cpp` 159 |
| `locked` | `ensureConnected()` (55-82) | `lock`, `relock` | waiting for the mutex (175, 187) |
| `connected` | before `redisCommand` (96) | `locked`, `confirm` | `ensureSubscribed()` (132-170), up to SUBSCRIBE and its answer |
| `sent` | Redis has answered | `poll` | `poll()`, without the mutex (184) |
| `joining`, `joined` | `main_server.cpp` 175-176 | `get`, `left` | `redisGetReply()` (191); the thread is over |

hiredis and the network are external. A message of the subscription is in the
`socket`, then in hiredis's `reader`, then `returned`; `half` says that the first
half of one has come. `poll()` looks at the socket. A read takes all that is
there. A connection that `Break` has closed is `broken` until a call on it fails.
`publish`, `publishBinary` and `hset` differ in the text of the command only and
are one operation. AUTH (which fails as a connection does), `configure()`,
`unsubscribe()` and a peer that vanishes without closing are left out.

`RedisLink` has three variables: commands issued, commands that took effect,
messages handed over. Each command takes effect at most once and in order, each
message is handed over at most once and in order, any may be lost.
`RedisClient` implements it with a command counted as issued from the moment
Redis answers it (`Link`).

### MatchFeed, and how it is refined

`MatchFeed` has two variables, the messages Redis has accepted and a stage
(`opening`, `live`, `failed`, `closed`). It says: set-up and ready at most once
and first; reports of one kind in the order of the match clock and never
repeated; perhaps a crash report; then the closing, and nothing after it.
`GameServer` implements it with `feed <- channel, stage <- Stage`, checked as
the property `FeedSpec`, with lost messages, exceptions and signals.

### RoomServer, between GameServer and GfWorker

`GfWorker` sees a server from outside, `GameServer` one from inside. `RoomServer`
is what joins them: the states of a server process (`starting`, `up`, `thrown`,
`closing`, `exited`) and what it says about its room, word by word: the set-up
while it is starting, "ready" once, reports only while it is up and so after
"ready", "crashed" when the engine throws, "finished" at the end of either, and
nothing after it; each word may be lost, and the process may die at any time
(`Dies`).
`GameServer` implements it (`ServerLife`) with the state read off its program
counter and the word off each channel; it never takes `Dies`. In `GfWorker` every
`server[r]` is one (`ServersLive`), among watchdogs and clean-ups that speak about
the room as well: that is why `Shared` constrains the steps of the state only,
and `Alone` everything that is said too.

## 3. The runs

`feed` is the main run; the others ask one question each.

| Run | Bounds | Question |
|---|---|---|
| `feed` | 2 ticks/s, 1 broadcast/s, 2 s, 2 goals, a corner, 1 lost call, exception, signal | the feed, the result, the life and the end of the process; refinement of `MatchFeed` and `RoomServer` |
| `inputs` | 2 packets, some of them refused, one player of each team who may be booked and sent off, in play or not, 3 ticks, exception, signal | order of inputs; card events against flags and statistics |
| `stats` | 2 teams of 2, windows of 2, 3 ticks, one change of action per tick | accounting of shots and passes |
| `on_target_scorer` | as `stats`, shots only | **violation**: not the scorer's shot |
| `rooms` | 2 workers, 1 room, both clean up, 1 lost call, 1 early exit, deaths at any time | outcome of a room, early deaths included; clean-up against watchdog; servers are `RoomServer`s |
| `crash_lost` | 1 worker, 1 room | **violation**: a late death is not reported |
| `redis` | 2 commands, 3 messages, 1 break | what a command's result means, no message skipped or repeated, refinement of `RedisLink`, nobody waits for ever |
| `input_stuck` | 1 command, 2 messages, no break | **violation**: a message hiredis has read is not returned |
| `referee` | 2 players of a team, steps of 2, in play until time 20, 1 goal | restarts, fouls, the relation of `MatchEngine`, play goes on |
| `taker_sent_off` | 3 players of two teams | **violation**: the taker of a set piece is sent off before he takes it |
| `selection` | 4 players, 2 second cards, 2 stoppages | whom the gamer controls, one goalkeeper, no null selection in play and no selection left out of play |
| `controls` | 5 sets of buttons, power full at 4 steps, early kick after 2, an action waits 3 | releases are real, one kick per action, no action waits for ever |

What the passing runs leave to others. `feed` has Redis configured: without it
the queue grows for the whole match, which `NoEventLost` covers, as it is proved
for both. `NoStaleRoom` and the verdicts of `WatchdogHasTheLastWord` speak of exit
code 0; any other code is the subject of `crash_lost`. With a clean-up a "crashed"
may be anywhere among a room's words, between the server's "finished" and the
watchdog's too: `WatchdogHasTheLastWord` then says only that this verdict follows
that "finished".

Why the bounds are enough. The loop of the server has no memory beyond one
broadcast period but its queue and its counters: two periods, with the half time
in the first and the end in the second, show every combination of a due and a
skipped broadcast with every kind of event. Two goals give both the same team
twice and both teams. Two packets are one before and one behind any point of a
drain. In `MatchStats`
a window of two ticks shows beginning, overlap and expiry within three ticks;
two players per team make a passer, a receiver and a keeper. Two workers and one
room show all that the clean-up of one can do to the other; two rooms and two
clean-ups together are out of TLC's reach, and `GfWorkerProofs` covers any
number. In `RedisClient` two commands show one before and one
after a break, and three messages put one in the reader, one in the socket and
one in between. In `Referee` the delays are scaled down with their order kept:
the preparation (2000 ms, here 4) is jumped towards by 1900 (3), neither is a
multiple of the step, the start is two steps later, and a card (6000, here 12)
takes effect after the restart but within the time left for one more award.
In `Selection` four players leave, after two sendings-off, a goalkeeper and
one more; the goalkeeper and his successor can both be sent off, and the second
stoppage finds them gone. In `Controls` the order of the three limits is kept and
each is passed: full power, an early kick before it, and an action that has waited
too long. Time 20 is enough for a kick-off, a foul with its card, the free kick, the next
stoppage and the sending-off. Where a bound might matter, the theorems of section 4
have none.

A stoppage under way when the bound of `Referee` is reached is played to its
end: steps in play, not steps, are bounded, so `PlayResumes` is not cut off.

`CHECK_DEADLOCK FALSE` stands in the configurations of `MatchStats`, where the
match is over after `MaxTicks`, and of `GfWorker`, where all requests may be
settled. `GameServer` has an explicit final state and is checked for deadlock:
that covers the join of the listener and the mutex.

### Fairness

* `GameServer`: weak fairness of the main thread as a whole and of the
  listener's own steps (`ReceiveInput`, `ListenerStops`). The operating system
  schedules both threads; `subscribeNext` has a timeout of 100 ms, so the
  listener looks at `gRunning` again and again. Packets, signals, failures and
  exceptions are the environment's and are not fair.
* `RedisClient`: weak fairness of both threads outside the mutex, strong fairness
  of taking it. `std::mutex` does not promise that, but the listener gives the
  mutex up in every round, while it polls, and the main thread after each call.
  The rest of a message comes or the connection breaks, and Redis comes back. The
  end of the match (`StopListener`) is not fair: it may outlast what a liveness
  property of the listener waits for.
* `GfWorker`: weak fairness of each watchdog, each server, each poll loop and
  each clean-up, which are separate processes. That a server comes to its end is
  `Terminates` of `GameServer`, whose states are those of the servers here by
  `ServerLife` and `ServersLive`. Requests and interruptions are not fair.
* `Controls`: weak fairness of the stages, as the server steps the engine again
  and again; strong fairness of `Request` and `Touch`: an animation that is let
  go on comes to its touch and to its end; and of finding a fall for a player who
  is tripped for ever. Packets and reselections are not fair. `ActionsEnd` is
  about a gamer who leaves the button up and no set piece: within one, a queued
  kick may wait for as long as the set piece does.
* `Referee`: weak fairness of `Process`, the stages of a step: the server steps
  the engine again and again. Touches and trips, which a step has finitely many
  of, are not fair. `PlayResumes` speaks of the time between a stoppage and the
  restart only; that the set piece is then taken needs its taker, and
  `taker_sent_off` shows that he may be missing.

### What the violations show

1. `OnlyTheScorersShotCounts` (`on_target_scorer`): a goal is attributed by the
   index of the ball's owner, whichever team he plays for; with no owner and team
   1 the index is the last player of team 0.
2. `CrashIsDetected` (`crash_lost`): `set -e` ends the watchdog at `wait` for every
   exit code but 0; the lines that report a crash are never reached.
3. `ReceivedIsReturned` (`input_stuck`): two packets in one read, or one behind
   the confirmation of SUBSCRIBE: the second stays in hiredis's reader, `poll()`
   times out, and it is returned only after the next packet has come. From then
   on every packet is one behind. What does hold is `BacklogMoves`.
4. `TakerIsOnThePitch` (`taker_sent_off`): a red card takes effect 6 seconds of
   match time after it is given, which is 3.9 seconds after the free kick has
   started. A set piece awarded within 1.9 seconds of that start is prepared
   before and starts after the effect, and may get the carded player as its
   taker. No player is processed until it starts; then he is sent off, nobody
   touches the ball, and the match stays in the set piece.

More places where a comment or document and the code differ came up while
modelling and have no run of their own. `README.md:188` promises goal, half-time
and end events; the loop leaves without a last flush, so END_MATCH, and goals of
the same ticks, stay in the queue when the last tick is not due for a broadcast.
At 60 ticks per second that happens with 8 broadcasts per second (one every 7
ticks) unless the duration is a multiple of 7 seconds, and with 7 (one every 8
ticks) when it is odd; at every other rate the last tick is due. The run `feed`
has such a rate, and there `EndMatchIsAnnounced` holds. The theorems
`TheEndIsAnnounced` and `TheEndIsLost` say that this is exactly when. `gf-worker.sh:45` speaks of "processes managed by
this worker", but a stopped worker removes the rooms of all workers from
gf.active and reports them as crashed. A foul of the first second of a match is
forgotten after 600 ms instead of 3000, as `now - 3000` is unsigned
(`referee.cpp:490`). The half-time test multiplies 1800 by 999999999 in an int
(`referee.cpp:101`). A goal with no owner of the ball counts no shot on
target, where `GameServer.cpp:1121` says that goals after a shot are counted.
Shots and passes stay pending for 60 and 30 ticks, one second and half of one at
60 ticks per second, where lines 1089 and 1096 say about six and three. A room
whose server has just been started is not in gf.active yet, and a clean-up
misses it (`gf-worker.sh:45`: "Terminate all active GF processes managed by this
worker").

In the engine: a second press while a kick is queued is not "more power"
(`humancontroller.cpp:135` says there is still time to add some): power grows
while the button is down and stays afterwards. Power and buffer time count 10 ms
per step, though a step is 16. `GetPreviousButtonState` always answers false for
an `AIControlledKeyboard`, so Switch held over several packets switches with each
of them. The cancel of a sliding after a second of buffer time is never reached,
as only kicks count buffer time. A packet that is late for a step is a release
(`game_env.cpp:344`; `README.md:173` promises 60 per second), and a tap that is
pressed and released within one tick is lost (`GameServer.cpp:957`).
`Player::Deactivate()` deselects "when this player is still selected"
(`player.cpp:122`), but a restart or a stale pass may select a player who has
left: `OffPitchSelection` says that these are the only two ways. The loop of
`CalculateDynamicRoles()` does not advance its iterator (`teamAIcontroller.cpp:486`):
it ends as long as the first active player is the goalkeeper, which
`OneGoalkeeper` shows for formations that begin with one.

## 4. The proofs

The eight proof modules are checked by TLAPS from the assumptions of the modules
on their constants alone (`EngineAssumption`, `ServerAssumption`,
`StatsAssumption`, `WorkerAssumption`, `ClientAssumption`, `RefereeAssumption`,
`SelectionAssumption`, `ControlsAssumption`, which TLC evaluates in every run).
Two theorems take a case on the rates besides: `TheEndIsAnnounced` assumes
`EndIsDue`, that the last tick is due for a broadcast, and `TheEndIsLost` that it
is not. Between them they leave no case out.

| Theorem | States | Argument |
|---|---|---|
| `GameServerProofs!TypeCorrect` | `TypeOK` | `TypeOK` is inductive; the engine step, the detection and the publish have lemmas of their own, because a set of card events must be shown finite before a sequence of them is a sequence |
| `SignalStops` | `SignalStopsWithinATick` | `SignalInv`: after the signal a counter that has moved on means the main thread is past the point where it looks at the flag |
| `ResultIsTheMatch` | `ResultAgrees` | `ResultInv`: goals counted = `lastScore`, the score is its bytes, and the engine's goals are the same unless a step threw; at most one goal per step keeps the count in line |
| `FeedOrder` | `FeedIsWellFormed` | `FeedInv`: which channels may already occur at each program counter; then appending keeps the order |
| `NoEventLost` | `EventsConserved` | `QueueInv`: the invariant, and the index of the flush within the queue |
| `InputsKeepTheirOrder` | `InputsInOrder` | inductive: a packet that is drained gets the next place if it is accepted, and what waits stays the end of what has arrived |
| `TheEndIsAnnounced` | `EndMatchIsAnnounced` | under `EndIsDue`: `ClockInv` and `EndInv`: the end is detected only by the last tick, the one that clears `running_`; `DueInv`: that tick still broadcasts, and the flush ends with the event. A match of no duration is included |
| `TheEndIsLost` | the event stays queued for ever | under `~EndIsDue`: `LostInv`: the tick that detects the end does not broadcast, and no tick follows |
| `MainRunsDown` | every step of the main thread lowers a triple of numbers, in lexicographic order, that no other step touches | ticks left, the place in the tick, and the packets or events left in a drain or flush; `ClockInv` bounds the ticks |
| `JoinIsAnswered` | the listener's way to its end after `gRunning` is cleared | every listener step shortens it, no other step touches it, and `main()` joins only after the flag is cleared |
| `GameServerRefinement!EventsSeenInOrder` | `EventsInOrderOnce` | `Order`: no two events ever detected are the same (lemma `NewEvents`: those of one tick differ, and later ticks have later stamps), the queue is the end of the history, and what has been delivered has had its turn in it |
| `ImplementsFeed` | `FeedSpec` | `Order` and `FeedInv` say which reports the feed may hold at each program counter; then each step is `Open`, `Report`, `Fail`, `Close` or a stutter |
| `ImplementsServer` | `ServerLife` | one lemma per group of program counters; `Order` says which index of the queue a flush is at, so that a publish appends one word |
| `ScoreIsTheGoals` | `ScoreMatchesGoalEvents` | `Counted`: `stats_.goals` is the tally of the goal events detected (lemma `TallyOfTick`); `Shown`: the latest game state carries the score counted, modulo 256, when its broadcast began, and by `ClearEvents` all that was counted is delivered (`QueueInv`) |
| `CardsAreConsistent` | `CardEventsAgree` | `CardInv`: a player with a card has one yellow event, one with a red event is gone for good, and the flags of the tick before are the engine's unless a step threw; so only a player whose yellow event is there already is sent off |
| `MatchStatsProofs!TypeCorrect` | `TypeOK` | directly inductive |
| `PassesCounted` | `PassesAccountedFor` | lemma `Resolution`: who succeeds and who stays pending were pending or have just begun, and are disjoint; then cardinalities |
| `ShotsCounted` | `ShotsAccountedFor` | `Resolution` and `GoalSettles` |
| `PendingRecent` | `PendingIsRecent` | inductive with the types |
| `GoalsSettleShots` | `NoShotOutlivesAGoal` | strengthened by: goals lie in the past |
| `GfWorkerProofs!Typed` | `TypeOK` | inductive; every action of a watchdog, a clean-up and a server once |
| `NothingStaleIsLeft` | `NoStaleRoom` | `TakenOnce`: a request is taken once, so a room has one watchdog, and clean-ups only remove; `Removed`: what it has removed stays so; `OverIsGone`: by then the server is gone |
| `RunningRoomsAreKnown` | `RunningIsRegistered` | without faults and clean-ups the room is in gf.active from its registration to the watchdog's verdict |
| `TheLastWord` | `WatchdogHasTheLastWord` | `Announced`: of every room whose watchdog is past `announce`, or whose server has come up, something has been said, and that begins with "ready". `Words`: a server that ends with code 0 has said "finished", without a clean-up after any "crashed"; `Report` adds the verdict to that, and nobody but a clean-up speaks after it (`OverIsGone`) |
| `ServersAreRoomServers` | `ServersLive` | step by step: what a server does is a step of `RoomServer`, and watchdogs, clean-ups and polls leave its state alone or start it |
| `DoneIsReported` | a watchdog that is done has published a verdict, unless a call was lost or the exit code was not 0 | inductive with `IInv`: what is published is only appended to |
| `EarlyExitIsReported` | the watchdog of a server that is gone within the grace period ends with "crashed" said and the room out of gf.active | the early report is the last step, and `Removed` holds by then |
| `RoomsRunDown` | each step of a watchdog or a server lowers `RoomLeft`, at most 16 and raised by nobody | commands left in the subshell and stages left of the process |
| `CleanUpsRunDown` | each step of a clean-up lowers `CleanLeft`, raised by nobody | rooms still to be dealt with; the list was read once, so gf.active may change meanwhile |
| `RedisClientProofs!TypeCorrect` | `TypeOK` | inductive with `Underway` (a call under way has its number, half a message is of one published); holds the mutual exclusion |
| `TrueIsExecuted` | `TrueMeansExecuted` | `Executed`: the log has returned commands, and the one under way only when its answer is "ok"; a connection is broken only after a break |
| `NoMessageSkipped` | `NoneSkipped` | lemma `MessageSteps`: every step leaves `returned \o reader \o socket` as it is, appends the next message, lets one pass while not subscribed, or drops what was received; then `Consecutive` |
| `ImplementsLink` | `LinkSpec` | the same lemma keeps the messages `Sorted` across reconnections; then each step is a `Command`, a `HandOver` or a stutter |
| `TheReadIsFed` | `redisGetReply()` is called only when something of a message, or a break, has come | `ReadInv`: `poll()` has seen it, and nothing but the listener takes it away |
| `CommandsRunOut` | each step of the main thread lowers `CommandsLeft`, which no step raises | calls left and the place in the call |
| `RefereeProofs!TypeCorrect` | `TypeOK` | inductive; what the referee decides is a `Stoppage` or `Calm`, which the lemmas on `CheckFoul` show of every caller; `RelaxSteady`: the relax time stays a multiple of the step |
| `RestartNeverMissed` | `RestartAhead` | `Timing`: where play may be at each stage, preparation before start, and every award leaves both ahead of the clock it has moved; a window entered is seen in the same step |
| `FoulsAreSettled` | `FoulsSettled` | the same invariant: every stoppage settles the foul, and `CheckSettles` bounds one that waits |
| `ImplementsEngine` | `EngineRelation` | `Shown`: the set piece shown is the one at the beginning of the step; a card not shown yet belongs to a stoppage and takes effect later than the clock gets before it is shown |
| `TheRestartComes` | while a decided stoppage waits, each stage lowers `UntilPlay` and none raises it | `Timing`: the restart is ahead; a step of the clock lowers the distance by more than the stages of a step |
| `SelectionProofs!Typed` | `TypeOK` | inductive with `Manned`: a player is left on the pitch in every state, so there is somebody to designate |
| `TheBooksAgree` | `BooksAgree` | lemma on `SetSelected`: refused or not, the gamer's player and the controller stay one; every caller asks for a player who has no controller or is the one selected |
| `TheGoalkeeperIsFirst` | `OneGoalkeeper` | a sending-off of the goalkeeper hands his entry to the first who is left, who was no goalkeeper |
| `SelectionIsInStep` | `SelectionFollowsPlay` | `Selecting`: in play somebody is selected from `select` on; a sending-off finds a successor, because more than one player is left and nobody else is controlled. `Resting`: out of play `button` undoes any selection before the step ends, and none is made before the players are processed |
| `PressesAreCleared` | `PressIsForOneSelection` | a selection of another player in this step has reset the controller |
| `WhoIsSelectedOffThePitch` | `OffPitchSelection` | who may be designated, the target of a pass or selected at each stage |
| `ControlsProofs!Typed` | `TypeOK` | directly inductive |
| `TheQueueIsClean` | `QueueIsClean` | a slide charges nothing, and every way out of a kick empties both counts |
| `ReleasesAreReal` | `ReleaseIsReal` | `Fresh`, `Seen`: until the engine looks, what is pressed is what the latest packet of this step holds, or the player has just been selected |
| `ActionsAreKickedOnce` | `OneKickPerAction` | `KickIsPlayed`: an action whose kick has touched the ball is still in that animation, whose end asks for the next command and finds it `Done`; only a fall is without that request |
| `ReleasedActionsRunOut` | a queued action whose button is up counts up its waiting time at every control step, nothing takes the count back, and once it is over the next command ends it | by cases of the step, from `IInv` |

Some statements are proved only and belong to no run. Six are implied by, or
less than, what the runs check: `SignalStopsWithinATick`, `FeedIsWellFormed`,
`PendingIsRecent`, `RunningIsRegistered`, `QueueIsClean`, `PressIsForOneSelection`.
The others are about measures, or about a case the runs' rates exclude; TLC has
found no counterexample to them on the instances of section 3 either.

Every invariant and every safety property of the passing runs is stated by a
theorem. Only model-checked is liveness (`Terminates`, `EveryRoomIsSettled`,
`MainGoesOn`, `BacklogMoves`, `PlayResumes`, `ActionsEnd`): each depends on
fairness, and so on ENABLED, which the prover does not reach. What can be proved
of five of them is the half that no fairness can replace: the way to the goal is
finite, whatever else happens, and at its end is what was promised.

| Liveness (TLC) | What is proved of it |
|---|---|
| `Terminates` | `MainRunsDown`: the main thread takes finitely many steps; `JoinIsAnswered`: so does the listener once the flag is cleared. That neither is stuck before its end is the deadlock check and the fairness of the run |
| `EveryRoomIsSettled` | `RoomsRunDown`, `CleanUpsRunDown`: finitely many steps; `DoneIsReported`, `EarlyExitIsReported`: the verdict is there at the end |
| `MainGoesOn` | `CommandsRunOut`: finitely many steps; `TheReadIsFed`: the listener holds the mutex only for a message of which half has come, or a break. That the other half comes is fairness |
| `PlayResumes` | `TheRestartComes`: finitely many stages to the restart |
| `ActionsEnd` | `ReleasedActionsRunOut`: the waiting time runs out, and then the next command ends the action |

Nothing of this kind is proved of `BacklogMoves`: that a message moves on waits
for the next packet, which is the environment's.

## 5. Not modelled

* Engine physics, animation and AI: floating-point geometry. The referee, the
  selection and the controls are the parts of the engine whose logic is discrete;
  what the rest may answer them is chosen freely.
* Which animation is found for a command, directions and strength of a kick,
  positions in the offside and goal-line tests.
* The payload of state and tactical packets, byte layouts (tests/test_protocol_layout.cpp).
* `MatchConfig`: parsing of a file, with no state of its own.
* LiveKit bridges: not instantiated. Most lines of the repository are the
  protocol-buffer code generated for them, in two copies, and vendored libraries,
  which is why the models map a small share of all lines.
* Tools and build files.
* `detectEvents()` and `processInputs()` are empty in the code.
* In `Selection`: several gamers in one team, players who cannot be controlled,
  two passes at once. gf_server makes none of the first two.

## 6. What is left

1. Compose `RedisClient` with the listener of `GameServer`, so that lost and late
   packets are those of the connection.
2. `RoomServer` joins `GfWorker` and `GameServer` by what the process goes through
   and says; its exit codes and the requests' parameters are not part of it yet.
   Add heartbeat and rejected payloads.
3. Compose `Selection` with `Controls` and the sectors of `Pad`, so that
   `Reselected` is a step of `Selection`.
