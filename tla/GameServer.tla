------------------------------ MODULE GameServer ------------------------------
(***************************************************************************)
(* One gf_server process: main() and Server::run() on the main thread, the *)
(* input listener thread, the signal handler and the Redis link.           *)
(*                                                                         *)
(* The main thread's program counter "main" follows Server::run():         *)
(*   setup -> ready -> loop -> tick -> lock -> drain -> step -> state      *)
(*     -> events -> tactical -> heartbeat -> loop -> ...                   *)
(*     -> (crash ->) finish -> stop -> join -> post -> exited              *)
(* Every publish is a step of its own: the listener, a signal or a Redis   *)
(* failure may come between any two of them.                               *)
(***************************************************************************)
EXTENDS MatchEngine, Sequences

CONSTANTS
  SimTicksPerSec,   \* simTicksPerSec, 60 in the code
  TacticalRateHz,   \* 10 in the code
  BroadcastRateHz,  \* --broadcast-hz
  Duration,         \* cfg_.duration, in seconds
  GameMode,         \* cfg_.gameMode: 0 = 1v1, 1 = vs AI, 2 = AI vs AI
  Configured,       \* redis->isConfigured()
  Packets,          \* input packets addressed to this room
  MaxPackets,       \* bound: packets the listener receives
  MaxFaults,        \* bound: Redis or HTTP calls that fail
  CanThrow,         \* whether GameEnv::step() may throw
  CanSignal         \* whether SIGINT or SIGTERM may arrive

(* A packet as parseInputPacket() returns it: the sector of its direction  *)
(* (or a value that is no number) and one button.                          *)
Directions == {"idle", "left", "top_left", "top", "top_right", "right",
               "bottom_right", "bottom", "bottom_left"}
Packet == [team : 0..255, player : 0..255, dir : Directions \cup {"nan"},
           press : BOOLEAN]

ASSUME ServerAssumption ==
  /\ SimTicksPerSec \in Nat \ {0} /\ TacticalRateHz \in Nat \ {0}
  /\ BroadcastRateHz \in Int /\ Duration \in Nat
  /\ GameMode \in {0, 1, 2} /\ Configured \in BOOLEAN
  /\ Packets \subseteq Packet
  /\ MaxPackets \in Nat /\ MaxFaults \in Nat
  /\ CanThrow \in BOOLEAN /\ CanSignal \in BOOLEAN

Larger(a, b) == IF a > b THEN a ELSE b
Smaller(a, b) == IF a < b THEN a ELSE b

BroadcastHz == Larger(1, Smaller(BroadcastRateHz, SimTicksPerSec))
BroadcastSkip == Larger(1, SimTicksPerSec \div BroadcastHz)
TacticalSkip == Larger(1, SimTicksPerSec \div TacticalRateHz)

(* Scores travel as uint8_t, the counters of goals are int.                *)
Byte == 0..255
Bytes(goals) == [t \in Teams |-> goals[t] % 256]

EventTypes == {"goal", "yellow_card", "red_card", "half_time", "end_match"}
                \cup SetPieces
Event == [type : EventTypes, team : Teams, who : Nat, tick : Nat,
          score : [Teams -> Byte]]
Message ==
  [ch : {"gf.setup", "gf.ready", "gf.crashed", "gf.finished"}]
    \cup [ch : {"gf.gamestate"}, tick : Nat, score : [Teams -> Byte]]
    \cup [ch : {"gf.event"}, ev : Event]
    \cup [ch : {"gf.tactical"}, tick : Nat]
Stats == [goals : [Teams -> Nat], yellow_cards : [Teams -> Nat],
          red_cards : [Teams -> Nat]]
Result == [score : [Teams -> Byte], stats : Stats]
NoResult == [none |-> TRUE]

VARIABLES
  main, listener,       \* program counters of the two threads
  gRunning, running_,   \* the shared stop flag and the loop's own
  tickCounter_, engine, \* gameEnv_
  score,                \* currentState_.score
  previousFlags,        \* flags of previousState_.players
  lastScore, lastGameMode_, halfTimeSent_,
  eventQueue_, sending, \* queued events; how many this broadcast has sent
  stats_,
  packet, inputQueue_, controllers,
  channel,              \* what Redis has accepted, in order
  delivered,            \* history: the events among it
  heartbeat,            \* tick of the last gf.heartbeat that was stored
  result,               \* what the stats service has received
  faults,               \* failed calls so far
  signalTick, thrown,   \* history: tick at the signal (or Never); a step threw
  generated,            \* history: every event ever queued
  arrived, applied      \* history: packets queued; packets applied

loopVars == <<gRunning, running_, signalTick, thrown>>
matchVars == <<tickCounter_, engine, score, previousFlags, lastScore,
               lastGameMode_, halfTimeSent_, stats_, generated>>
inputVars == <<packet, inputQueue_, controllers, arrived, applied>>
linkVars == <<channel, delivered, heartbeat, faults>>
vars == <<main, listener, loopVars, matchVars, eventQueue_, sending, inputVars,
          linkVars, result>>

None == [none |-> TRUE]
Never == 0 - 1
Idle == [dir |-> "idle", press |-> FALSE]
Keys == Teams \X (0..10)

Init ==
  /\ main = "setup" /\ listener = "poll"
  /\ gRunning = TRUE /\ running_ = TRUE /\ signalTick = Never /\ thrown = FALSE
  /\ tickCounter_ = 0 /\ engine = KickedOff
  /\ score = [t \in Teams |-> 0] /\ lastScore = [t \in Teams |-> 0]
  /\ previousFlags = [p \in Players |-> [active |-> FALSE, card |-> FALSE]]
  /\ lastGameMode_ = "unset" /\ halfTimeSent_ = FALSE
  /\ stats_ = [goals |-> [t \in Teams |-> 0],
               yellow_cards |-> [t \in Teams |-> 0],
               red_cards |-> [t \in Teams |-> 0]]
  /\ eventQueue_ = <<>> /\ sending = 0 /\ generated = <<>>
  /\ packet = None /\ inputQueue_ = <<>>
  /\ controllers = [k \in Keys |-> Idle]
  /\ arrived = <<>> /\ applied = <<>>
  /\ channel = <<>> /\ delivered = <<>> /\ heartbeat = 0 /\ faults = 0 /\ result = NoResult

-----------------------------------------------------------------------------
(* The Redis link.  A publish reaches Redis or is lost: RedisClient drops  *)
(* the connection and returns false, and no caller looks at the answer.    *)

Fault == faults < MaxFaults /\ faults' = faults + 1

Publish(m) ==
  \/ /\ Configured /\ channel' = Append(channel, m) /\ UNCHANGED faults
     /\ delivered' = IF m.ch = "gf.event" THEN Append(delivered, m.ev) ELSE delivered
  \/ Configured /\ Fault /\ UNCHANGED <<channel, delivered>>
  \/ ~Configured /\ UNCHANGED <<channel, delivered, faults>>

-----------------------------------------------------------------------------
(* Server::run() up to the loop.                                           *)

SendMatchSetup ==
  /\ main = "setup" /\ main' = "ready"
  /\ Publish([ch |-> "gf.setup"])
  /\ UNCHANGED <<listener, loopVars, matchVars, eventQueue_, sending, inputVars,
                 heartbeat, result>>

AnnounceReady ==
  /\ main = "ready" /\ main' = "loop"
  /\ Publish([ch |-> "gf.ready"])
  /\ UNCHANGED <<listener, loopVars, matchVars, eventQueue_, sending, inputVars,
                 heartbeat, result>>

(* The loop head: running_, then the shutdown flag.                        *)
MayTick == running_ /\ gRunning

LoopHead ==
  /\ main = "loop"
  /\ running_' = MayTick
  /\ main' = IF MayTick THEN "tick" ELSE "finish"
  /\ UNCHANGED <<listener, gRunning, signalTick, thrown, matchVars, eventQueue_,
                 sending, inputVars, linkVars, result>>

-----------------------------------------------------------------------------
(* tick(), first part: the counter, then applyPendingInputs().  The input  *)
(* mutex is held while main = "drain".                                     *)

BeginTick ==
  /\ main = "tick" /\ main' = "lock"
  /\ tickCounter_' = tickCounter_ + 1
  /\ UNCHANGED <<listener, loopVars, engine, score, previousFlags, lastScore,
                 lastGameMode_, halfTimeSent_, stats_, generated, eventQueue_,
                 sending, inputVars, linkVars, result>>

LockInputs ==
  /\ main = "lock" /\ main' = "drain"
  /\ UNCHANGED <<listener, loopVars, matchVars, eventQueue_, sending, inputVars,
                 linkVars, result>>

Accepted(p) ==
  /\ p.team <= 1
  /\ GameMode # 2
  /\ ~(GameMode = 1 /\ p.team = 1)
  /\ p.player <= 10
  /\ p.dir # "nan"

(* The direction is released and set anew, every button set or released.   *)
Pad(old, p) == [dir |-> p.dir, press |-> p.press]

\* Mutant of ApplyInput: the newest packet first.
ApplyInput_NewestFirst ==
  /\ main = "drain" /\ inputQueue_ # <<>>
  /\ LET n == Len(inputQueue_)
         p == inputQueue_[n]
     IN /\ IF Accepted(p)
             THEN /\ controllers' = [controllers EXCEPT ![<<p.team, p.player>>] = Pad(@, p)]
                  /\ applied' = Append(applied, p)
             ELSE UNCHANGED <<controllers, applied>>
        /\ inputQueue_' = SubSeq(inputQueue_, 1, n - 1)
  /\ UNCHANGED <<main, listener, loopVars, matchVars, eventQueue_, sending,
                 packet, arrived, linkVars, result>>

ApplyInput ==
  /\ main = "drain" /\ inputQueue_ # <<>>
  /\ LET p == Head(inputQueue_) IN
       IF Accepted(p)
         THEN /\ controllers' = [controllers EXCEPT ![<<p.team, p.player>>] = Pad(@, p)]
              /\ applied' = Append(applied, p)
         ELSE UNCHANGED <<controllers, applied>>
  /\ inputQueue_' = Tail(inputQueue_)
  /\ UNCHANGED <<main, listener, loopVars, matchVars, eventQueue_, sending,
                 packet, arrived, linkVars, result>>

UnlockInputs ==
  /\ main = "drain" /\ inputQueue_ = <<>> /\ main' = "step"
  /\ UNCHANGED <<listener, loopVars, matchVars, eventQueue_, sending, inputVars,
                 linkVars, result>>

-----------------------------------------------------------------------------
(* tick(), second part: step the engine, compare its answer with what the  *)
(* previous tick saw, queue one event per difference.                      *)

When(cond, e) == IF cond THEN <<e>> ELSE <<>>
TeamOf(p) == IF p < 11 THEN 0 ELSE 1

Mk(type, team, who, info) ==
  [type |-> type, team |-> team, who |-> who, tick |-> tickCounter_,
   score |-> Bytes(info.goals)]

\* Mutant of YellowRise: the flag itself instead of its rise.
YellowRise_Level(info, p) == info.flags[p].card

YellowRise(info, p) == ~previousFlags[p].card /\ info.flags[p].card
ActiveFall(info, p) ==
  previousFlags[p].active /\ ~info.flags[p].active /\ tickCounter_ > 1

CardEvents(info) ==
  {Mk("yellow_card", TeamOf(p), p, info) : p \in {q \in Players : YellowRise(info, q)}}
    \cup
  {Mk("red_card", TeamOf(p), p, info) : p \in {q \in Players : ActiveFall(info, q)}}

(* The loop over the players tests yellow before red for each of them.     *)
CardBefore(a, b) ==
  a.who < b.who \/ (a.who = b.who /\ a.type = "yellow_card" /\ b.type = "red_card")

CardOrders(info) ==
  LET S == CardEvents(info) IN
  {s \in [1..Cardinality(S) -> S] :
     \A i, j \in DOMAIN s : i < j => CardBefore(s[i], s[j])}

\* Mutant of Scored: lastScore is never moved on.
Scored_SinceKickOff(info, t) == info.goals[t] > 0

Scored(info, t) == info.goals[t] > lastScore[t]
\* Mutant of FullTimeReached: one tick late.
FullTimeReached_Late == tickCounter_ > Duration * SimTicksPerSec

HalfTimeReached == ~halfTimeSent_ /\ 2 * tickCounter_ >= Duration * SimTicksPerSec
FullTimeReached == tickCounter_ >= Duration * SimTicksPerSec

OtherEvents(info) ==
  When(Scored(info, 0), Mk("goal", 0, 0, info)) \o
  When(Scored(info, 1), Mk("goal", 1, 0, info)) \o
  When(info.mode # lastGameMode_ /\ info.mode # "normal", Mk(info.mode, 0, 0, info)) \o
  When(HalfTimeReached, Mk("half_time", 0, 0, info)) \o
  When(FullTimeReached, Mk("end_match", 0, 0, info))

CountStats(info) ==
  [goals |-> [t \in Teams |-> stats_.goals[t] + IF Scored(info, t) THEN 1 ELSE 0],
   yellow_cards |-> [t \in Teams |-> stats_.yellow_cards[t] +
     Cardinality({p \in Players : TeamOf(p) = t /\ YellowRise(info, p)})],
   red_cards |-> [t \in Teams |-> stats_.red_cards[t] +
     Cardinality({p \in Players : TeamOf(p) = t /\ ActiveFall(info, p)})]]

(* AIControlledKeyboard::ResetNotSticky on every controller, in play only. *)
ResetNotSticky(inPlay) ==
  IF inPlay THEN [k \in Keys |-> [controllers[k] EXCEPT !.press = FALSE]]
            ELSE controllers

ScoreShown_Stale(info) == Bytes(lastScore)  \* Mutant: copied before it is brought up to date.
ScoreShown(info) == Bytes(info.goals)

Detect(info, cards) ==
  LET new == cards \o OtherEvents(info) IN
  /\ eventQueue_' = eventQueue_ \o new
  /\ generated' = generated \o new
  /\ stats_' = CountStats(info)
  /\ previousFlags' = info.flags
  /\ score' = ScoreShown(info)
  /\ lastScore' = [t \in Teams |-> IF Scored(info, t) THEN info.goals[t]
                                                     ELSE lastScore[t]]
  /\ lastGameMode_' = info.mode
  /\ halfTimeSent_' = (halfTimeSent_ \/ HalfTimeReached)
  /\ running_' = (running_ /\ ~FullTimeReached)

StepAndDetect ==
  /\ main = "step" /\ main' = "state"
  /\ \E info \in EngineStep(engine) :
       /\ engine' = info
       /\ controllers' = ResetNotSticky(info.inPlay)
       /\ \E cards \in CardOrders(info) : Detect(info, cards)
  /\ UNCHANGED <<listener, gRunning, signalTick, thrown, tickCounter_, sending,
                 packet, inputQueue_, arrived, applied, linkVars, result>>

(* The engine throws out of step(), perhaps with half of the step done:    *)
(* the server records nothing of this tick.                                *)
StepThrows ==
  /\ main = "step" /\ CanThrow /\ main' = "crash"
  /\ thrown' = TRUE
  /\ engine' \in EngineStep(engine) \cup {engine}
  /\ UNCHANGED <<listener, gRunning, running_, signalTick, tickCounter_, score,
                 previousFlags, lastScore, lastGameMode_, halfTimeSent_, stats_,
                 generated, eventQueue_, sending, inputVars, linkVars, result>>

-----------------------------------------------------------------------------
(* The rest of the loop body: the broadcasts and the heartbeat.            *)

BroadcastDue == tickCounter_ % BroadcastSkip = 0

MayBroadcast == Configured

BroadcastState ==
  /\ main = "state"
  /\ IF MayBroadcast /\ BroadcastDue
       THEN /\ main' = "events"
            /\ Publish([ch |-> "gf.gamestate", tick |-> tickCounter_,
                        score |-> score])
       ELSE main' = "tactical" /\ UNCHANGED <<channel, delivered, faults>>
  /\ UNCHANGED <<listener, loopVars, matchVars, eventQueue_, sending, inputVars,
                 heartbeat, result>>

\* Mutant of BroadcastEvent: the newest event first.
BroadcastEvent_Reversed ==
  /\ main = "events" /\ sending < Len(eventQueue_)
  /\ sending' = sending + 1
  /\ Publish([ch |-> "gf.event", ev |-> eventQueue_[Len(eventQueue_) - sending]])
  /\ UNCHANGED <<main, listener, loopVars, matchVars, eventQueue_, inputVars,
                 heartbeat, result>>

BroadcastEvent ==
  /\ main = "events" /\ sending < Len(eventQueue_)
  /\ sending' = sending + 1
  /\ Publish([ch |-> "gf.event", ev |-> eventQueue_[sending + 1]])
  /\ UNCHANGED <<main, listener, loopVars, matchVars, eventQueue_, inputVars,
                 heartbeat, result>>

\* Mutants of ClearEvents: cleared before all is sent; never cleared; the
\* loop index not reset.
ClearEvents_Early ==
  /\ main = "events" /\ main' = "tactical"
  /\ eventQueue_' = <<>> /\ sending' = 0
  /\ UNCHANGED <<listener, loopVars, matchVars, inputVars, linkVars, result>>
ClearEvents_Never ==
  /\ main = "events" /\ sending = Len(eventQueue_) /\ main' = "tactical"
  /\ sending' = 0
  /\ UNCHANGED <<listener, loopVars, matchVars, eventQueue_, inputVars, linkVars,
                 result>>
ClearEvents_KeepsIndex ==
  /\ main = "events" /\ sending = Len(eventQueue_) /\ main' = "tactical"
  /\ eventQueue_' = <<>>
  /\ UNCHANGED <<listener, loopVars, matchVars, sending, inputVars, linkVars,
                 result>>

(* eventQueue_.clear(): whether or not its events reached Redis.           *)
ClearEvents ==
  /\ main = "events" /\ sending = Len(eventQueue_) /\ main' = "tactical"
  /\ eventQueue_' = <<>> /\ sending' = 0
  /\ UNCHANGED <<listener, loopVars, matchVars, inputVars, linkVars, result>>

BroadcastTactical ==
  /\ main = "tactical" /\ main' = "heartbeat"
  /\ IF tickCounter_ % TacticalSkip = 0
       THEN Publish([ch |-> "gf.tactical", tick |-> tickCounter_])
       ELSE UNCHANGED <<channel, delivered, faults>>
  /\ UNCHANGED <<listener, loopVars, matchVars, eventQueue_, sending, inputVars,
                 heartbeat, result>>

HeartbeatDue == tickCounter_ % SimTicksPerSec = 0

Heartbeat ==
  /\ main = "heartbeat" /\ main' = "loop"
  /\ IF Configured /\ HeartbeatDue
       THEN \/ heartbeat' = tickCounter_ /\ UNCHANGED faults
            \/ Fault /\ UNCHANGED heartbeat
       ELSE UNCHANGED <<heartbeat, faults>>
  /\ UNCHANGED <<listener, loopVars, matchVars, eventQueue_, sending, inputVars,
                 channel, delivered, result>>

-----------------------------------------------------------------------------
(* Leaving the loop, and main() after run().                               *)

\* Mutant of AnnounceCrash: run() returns without gf.finished.
AnnounceCrash_Returns ==
  /\ main = "crash" /\ main' = "stop"
  /\ running_' = FALSE
  /\ Publish([ch |-> "gf.crashed"])
  /\ UNCHANGED <<listener, gRunning, signalTick, thrown, matchVars, eventQueue_,
                 sending, inputVars, heartbeat, result>>
AnnounceCrash ==
  /\ main = "crash" /\ main' = "finish"
  /\ running_' = FALSE
  /\ Publish([ch |-> "gf.crashed"])
  /\ UNCHANGED <<listener, gRunning, signalTick, thrown, matchVars, eventQueue_,
                 sending, inputVars, heartbeat, result>>

AnnounceFinished ==
  /\ main = "finish" /\ main' = "stop"
  /\ Publish([ch |-> "gf.finished"])
  /\ UNCHANGED <<listener, loopVars, matchVars, eventQueue_, sending, inputVars,
                 heartbeat, result>>

\* Mutant of StopListener: main() does not clear gRunning before the join.
StopListener_Forgets ==
  /\ main = "stop" /\ main' = "join"
  /\ UNCHANGED <<listener, loopVars, matchVars, eventQueue_, sending, inputVars,
                 linkVars, result>>

StopListener ==
  /\ main = "stop" /\ main' = "join"
  /\ gRunning' = FALSE
  /\ UNCHANGED <<listener, running_, signalTick, thrown, matchVars, eventQueue_,
                 sending, inputVars, linkVars, result>>

JoinListener ==
  /\ main = "join" /\ listener = "done" /\ main' = "post"
  /\ UNCHANGED <<listener, loopVars, matchVars, eventQueue_, sending, inputVars,
                 linkVars, result>>

(* One POST, never retried.                                                *)
PostMatchResult ==
  /\ main = "post" /\ main' = "exited"
  /\ \/ result' = [score |-> score, stats |-> stats_] /\ UNCHANGED faults
     \/ Fault /\ UNCHANGED result
  /\ UNCHANGED <<listener, loopVars, matchVars, eventQueue_, sending, inputVars,
                 channel, delivered, heartbeat>>

-----------------------------------------------------------------------------
(* The listener thread and the signal handler.                             *)

(* subscribeNext() answers a packet of this room, or nothing that matters: *)
(* a timeout, an error, a packet of another room.                          *)
SubscribeNext ==
  /\ listener = "poll" /\ gRunning /\ Configured
  /\ Len(arrived) < MaxPackets
  /\ \E p \in Packets : packet' = p
  /\ listener' = "deliver"
  /\ UNCHANGED <<main, loopVars, matchVars, eventQueue_, sending, inputQueue_,
                 controllers, arrived, applied, linkVars, result>>

SubscribeIdles == listener = "poll" /\ gRunning /\ UNCHANGED vars

(* receiveInput() waits for the mutex that applyPendingInputs() holds.     *)
ReceiveInput ==
  /\ listener = "deliver" /\ main # "drain"
  /\ inputQueue_' = Append(inputQueue_, packet)
  /\ arrived' = Append(arrived, packet)
  /\ listener' = "poll" /\ packet' = None
  /\ UNCHANGED <<main, loopVars, matchVars, eventQueue_, sending, controllers,
                 applied, linkVars, result>>

ListenerStops ==
  /\ listener = "poll" /\ ~gRunning /\ listener' = "done"
  /\ UNCHANGED <<main, loopVars, matchVars, eventQueue_, sending, inputVars,
                 linkVars, result>>

Signal ==
  /\ CanSignal /\ main # "exited" /\ gRunning
  /\ gRunning' = FALSE /\ signalTick' = tickCounter_
  /\ UNCHANGED <<main, listener, running_, thrown, matchVars, eventQueue_,
                 sending, inputVars, linkVars, result>>

Terminated == main = "exited" /\ UNCHANGED vars

Main ==
  \/ SendMatchSetup \/ AnnounceReady \/ LoopHead
  \/ BeginTick \/ LockInputs \/ ApplyInput \/ UnlockInputs
  \/ StepAndDetect \/ StepThrows
  \/ BroadcastState \/ BroadcastEvent \/ ClearEvents
  \/ BroadcastTactical \/ Heartbeat
  \/ AnnounceCrash \/ AnnounceFinished
  \/ StopListener \/ JoinListener \/ PostMatchResult

Listener == SubscribeNext \/ SubscribeIdles \/ ReceiveInput \/ ListenerStops

Next == Main \/ Listener \/ Signal \/ Terminated

Spec == Init /\ [][Next]_vars

(* The operating system schedules both threads.  The listener's packets    *)
(* and the signals are the environment's and are never owed.               *)
Fairness ==
  /\ WF_vars(Main)
  /\ WF_vars(ReceiveInput \/ ListenerStops)
FairSpec == Spec /\ Fairness

-----------------------------------------------------------------------------
(* What has to hold.                                                       *)

MainPc == {"setup", "ready", "loop", "tick", "lock", "drain", "step", "state",
           "events", "tactical", "heartbeat", "crash", "finish", "stop", "join",
           "post", "exited"}

ThreadTypes ==
  /\ main \in MainPc /\ listener \in {"poll", "deliver", "done"}
  /\ gRunning \in BOOLEAN /\ running_ \in BOOLEAN /\ thrown \in BOOLEAN
  /\ signalTick \in Nat \cup {Never}
MatchTypes ==
  /\ tickCounter_ \in Nat /\ engine \in Engine
  /\ score \in [Teams -> Byte] /\ lastScore \in [Teams -> Nat]
  /\ previousFlags \in [Players -> Flags]
  /\ lastGameMode_ \in Modes \cup {"unset"} /\ halfTimeSent_ \in BOOLEAN
  /\ stats_ \in Stats
QueueTypes ==
  /\ eventQueue_ \in Seq(Event) /\ generated \in Seq(Event)
  /\ sending \in 0..Len(eventQueue_)
InputTypes ==
  /\ packet \in Packet \cup {None} /\ (listener = "deliver" => packet \in Packet)
  /\ inputQueue_ \in Seq(Packet)
  /\ arrived \in Seq(Packet) /\ applied \in Seq(Packet)
  /\ controllers \in [Keys -> [dir : Directions, press : BOOLEAN]]
LinkTypes ==
  /\ channel \in Seq(Message) /\ delivered \in Seq(Event) /\ heartbeat \in Nat
  /\ faults \in 0..MaxFaults /\ result \in Result \cup {NoResult}

\* Every variable keeps its type; the index of the flush never passes the end
\* of eventQueue_, and a listener about to deliver holds a packet.
TypeOK == ThreadTypes /\ MatchTypes /\ QueueTypes /\ InputTypes /\ LinkTypes

\* As long as no call fails, every event ever detected has been published or
\* still waits in eventQueue_, in the order of detection and exactly once:
\* the flush in broadcastGameState() neither drops, repeats nor reorders.
EventsConserved ==
  faults = 0 =>
    generated = delivered \o SubSeq(eventQueue_, sending + 1, Len(eventQueue_))

\* Even when Redis fails in the middle of a flush, subscribers see the events
\* in the order they were detected and never twice.
EventsInOrderOnce ==
  LET At(e) == {i \in DOMAIN generated : generated[i] = e} IN
  /\ \A i, j \in DOMAIN generated : i # j => generated[i] # generated[j]
  /\ \A i, j \in DOMAIN delivered : i < j =>
       \E k, l \in DOMAIN generated :
          k < l /\ k \in At(delivered[i]) /\ l \in At(delivered[j])

\* A subscriber that adds up goal events agrees with the score of the game
\* state it was sent with them: once a broadcast is over, and until the next,
\* the goals published so far make up the last score published, a byte.
ScoreMatchesGoalEvents ==
  LET states == {i \in DOMAIN channel : channel[i].ch = "gf.gamestate"}
      last == CHOOSE i \in states : \A j \in states : j <= i
      goals(t) == Cardinality({i \in DOMAIN delivered :
                     delivered[i].type = "goal" /\ delivered[i].team = t})
  IN (faults = 0 /\ states # {} /\ main # "events") =>
       \A t \in Teams : channel[last].score[t] = goals(t) % 256

\* The room's feed: set-up and ready come first, a crash report can only be
\* followed by gf.finished, and nothing at all follows gf.finished.
FeedIsWellFormed ==
  \A i, j \in DOMAIN channel : i < j =>
    /\ channel[i].ch # "gf.finished"
    /\ channel[i].ch = "gf.crashed" => channel[j].ch = "gf.finished"
    /\ channel[j].ch # "gf.setup"
    /\ channel[j].ch = "gf.ready" => channel[i].ch = "gf.setup"

\* "Events (goal, halftime, end) -> reliable topic": when no call fails, the
\* end of the match has been published by the time gf.finished is sent.
EndMatchIsAnnounced ==
  LET Ended(q) == \E i \in DOMAIN q : q[i].type = "end_match" IN
  (Configured /\ faults = 0 /\ ~thrown /\ main \in {"finish", "stop"}
     /\ Ended(generated)) => Ended(delivered)

\* Cards as subscribers see them: at most one yellow and one red event per
\* player, no red without an earlier yellow, and as many as stats_ counts.
CardEventsAgree ==
  LET Of(type, p) == {i \in DOMAIN generated :
                        generated[i].type = type /\ generated[i].who = p}
      Total(type, t) == Cardinality({i \in DOMAIN generated :
                        generated[i].type = type /\ generated[i].team = t})
  IN /\ \A p \in Players :
          /\ Cardinality(Of("yellow_card", p)) <= 1
          /\ Cardinality(Of("red_card", p)) <= 1
          /\ \A i \in Of("red_card", p) : \E j \in Of("yellow_card", p) : j < i
     /\ \A t \in Teams : /\ stats_.yellow_cards[t] = Total("yellow_card", t)
                          /\ stats_.red_cards[t] = Total("red_card", t)

\* What the stats service stores: the goals counted one by one from score
\* changes are the engine's own unless the last step threw, and the final
\* score, a byte, is made up of them.
ResultAgrees ==
  result # NoResult =>
    /\ result.score = Bytes(result.stats.goals)
    /\ ~thrown => result.stats.goals = engine.goals

\* Packets of human players are applied once each and in arrival order,
\* whatever the interleaving of the listener with the draining loop: what
\* waits is the end of what has arrived, and of the rest each packet that is
\* accepted has been applied at its place.
InputsInOrder ==
  LET drained == Len(arrived) - Len(inputQueue_)
      due == {i \in 1..drained : Accepted(arrived[i])}
  IN /\ drained >= 0
     /\ \A i \in DOMAIN inputQueue_ : inputQueue_[i] = arrived[drained + i]
     /\ \E place \in [DOMAIN applied -> due] :
          /\ \A i \in due : \E j \in DOMAIN applied : place[j] = i
          /\ \A i, j \in DOMAIN applied : i < j => place[i] < place[j]
          /\ \A j \in DOMAIN applied : applied[j] = arrived[place[j]]

\* After a signal at most one more tick is begun.
SignalStopsWithinATick ==
  signalTick # Never => tickCounter_ <= signalTick + 1

\* The feed refines what MatchFeed promises to a subscriber.
Stage ==
  CASE main \in {"setup", "ready"} -> "opening"
    [] main = "finish" /\ thrown -> "failed"
    [] main \in {"stop", "join", "post", "exited"} -> "closed"
    [] OTHER -> "live"
Feed == INSTANCE MatchFeed WITH feed <- channel, stage <- Stage
FeedSpec == Feed!Spec

\* The process lives the life that the worker counts on (RoomServer): the
\* set-up, "ready", then reports, "crashed" at most once, "finished", and the
\* end; each word at its step or, when the call fails, not at all.
ServerState ==
  CASE main \in {"setup", "ready"} -> "starting"
    [] main = "finish" /\ thrown -> "thrown"
    [] main \in {"stop", "join", "post"} -> "closing"
    [] main = "exited" -> "exited"
    [] OTHER -> "up"
Word(ch) ==
  CASE ch = "gf.setup" -> "setup" [] ch = "gf.ready" -> "ready"
    [] ch = "gf.crashed" -> "crashed" [] ch = "gf.finished" -> "finished"
    [] OTHER -> "report"
Life == INSTANCE RoomServer
          WITH state <- ServerState, said <- [i \in DOMAIN channel |-> Word(channel[i].ch)]
ServerLife == Life!Alone

\* The process always comes to its end: the loop stops at full time, on a
\* signal or on a crash, the listener notices, and main() returns.
Terminates == <>(main = "exited")

=============================================================================
