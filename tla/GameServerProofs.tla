-------------------------- MODULE GameServerProofs --------------------------
(* Theorems of GameServer, for every value of its constants.               *)
EXTENDS GameServer, FiniteSetTheorems, SequenceTheorems, TLAPS

(* One step of the engine leads from engine states to engine states.       *)
LEMMA EngineStepType ==
  ASSUME NEW e \in Engine, NEW n \in EngineStep(e)
  PROVE  n \in Engine
<1>1. GoalsAfter(e) \subseteq [Teams -> Nat]
  <2>1. e.goals \in [Teams -> Nat]
    BY DEF Engine
  <2>2. ASSUME NEW t \in Teams
        PROVE  [e.goals EXCEPT ![t] = @ + 1] \in [Teams -> Nat]
    BY <2>1
  <2> QED BY <2>1, <2>2 DEF GoalsAfter
<1>2. ModeAfter(e) \subseteq Modes
  BY DEF ModeAfter, Modes, Engine
<1>3. FlagsAfter(e) \subseteq [Players -> Flags]
  BY DEF FlagsAfter
<1>4. InPlayValues \cup {TRUE} \subseteq BOOLEAN
  BY EngineAssumption
<1>5. n \in [goals : GoalsAfter(e), mode : ModeAfter(e),
             inPlay : InPlayValues \cup {TRUE}, flags : FlagsAfter(e)]
  BY DEF EngineStep
<1> QED BY <1>1, <1>2, <1>3, <1>4, <1>5 DEF Engine

(* The counts that tick() adds to stats_ are numbers.                      *)
LEMMA CountStatsType ==
  ASSUME MatchTypes, NEW info
  PROVE  CountStats(info) \in Stats
<1>1. \A S \in SUBSET Players : Cardinality(S) \in Nat
  BY EngineAssumption, FS_Subset, FS_CardinalityType
<1>2. \A t \in Teams : Cardinality({p \in Players : TeamOf(p) = t /\ YellowRise(info, p)}) \in Nat
  BY <1>1
<1>3. \A t \in Teams : Cardinality({p \in Players : TeamOf(p) = t /\ ActiveFall(info, p)}) \in Nat
  BY <1>1
<1>4. stats_ \in Stats
  BY DEF MatchTypes
<1>5. \A t \in Teams : stats_.goals[t] + (IF Scored(info, t) THEN 1 ELSE 0) \in Nat
  BY <1>4 DEF Stats
<1> QED BY <1>2, <1>3, <1>4, <1>5 DEF Stats, CountStats

(* A score is a pair of bytes, whatever the goals.                         *)
LEMMA BytesType ==
  ASSUME NEW goals \in [Teams -> Nat]
  PROVE  Bytes(goals) \in [Teams -> Byte]
<1>1. \A n \in Nat : n % 256 \in 0..255
  OBVIOUS
<1> QED BY <1>1 DEF Bytes, Byte

(* Every event built in a tick is an Event.                                *)
LEMMA MkType ==
  ASSUME MatchTypes, NEW info \in Engine, NEW type \in EventTypes,
         NEW team \in Teams, NEW who \in Nat
  PROVE  Mk(type, team, who, info) \in Event
<1>1. Bytes(info.goals) \in [Teams -> Byte]
  BY BytesType DEF Engine
<1> QED BY <1>1 DEF MatchTypes, Mk, Event

(* The card events of a tick are events, and finitely many: two for each   *)
(* player at most.                                                         *)
LEMMA CardEventsType ==
  ASSUME MatchTypes, NEW info \in Engine
  PROVE  /\ CardEvents(info) \subseteq Event
         /\ Cardinality(CardEvents(info)) \in Nat
<1>1. \A p \in Players : p \in Nat /\ TeamOf(p) \in Teams
  BY EngineAssumption DEF TeamOf, Teams
<1>2. \A p \in Players : /\ Mk("yellow_card", TeamOf(p), p, info) \in Event
                         /\ Mk("red_card", TeamOf(p), p, info) \in Event
  BY <1>1, MkType DEF EventTypes
<1> DEFINE Both == Players \X {"yellow_card", "red_card"}
           f == [x \in Both |-> Mk(x[2], TeamOf(x[1]), x[1], info)]
           Image == {f[x] : x \in Both}
<1>3. IsFiniteSet(Both)
  <2>1. {"yellow_card", "red_card"} = {"yellow_card"} \cup {"red_card"}
    OBVIOUS
  <2>2. IsFiniteSet({"yellow_card"}) /\ IsFiniteSet({"red_card"})
    BY FS_Singleton
  <2>3. IsFiniteSet({"yellow_card"} \cup {"red_card"})
    BY <2>2, FS_Union
  <2> QED BY <2>1, <2>3, EngineAssumption, FS_Product
<1>4. f \in Surjection(Both, Image)
  BY DEF Surjection
<1>5. CardEvents(info) \in SUBSET Image
  <2>1. ASSUME NEW p \in Players
        PROVE  /\ Mk("yellow_card", TeamOf(p), p, info) = f[<<p, "yellow_card">>]
               /\ Mk("red_card", TeamOf(p), p, info) = f[<<p, "red_card">>]
    OBVIOUS
  <2> HIDE DEF f
  <2>2. \A p \in Players : f[<<p, "yellow_card">>] \in Image /\ f[<<p, "red_card">>] \in Image
    OBVIOUS
  <2>3. \A p \in Players : /\ Mk("yellow_card", TeamOf(p), p, info) \in Image
                           /\ Mk("red_card", TeamOf(p), p, info) \in Image
    BY <2>1, <2>2
  <2> HIDE DEF Image
  <2> QED BY <2>3 DEF CardEvents
<1>6. Cardinality(CardEvents(info)) \in Nat
  <2> HIDE DEF Both, f, Image
  <2>1. IsFiniteSet(Image)
    BY <1>3, <1>4, FS_Surjection
  <2> QED BY <2>1, <1>5, FS_Subset, FS_CardinalityType
<1> QED BY <1>2, <1>6 DEF CardEvents

(* Goals, set pieces, half time and the end are queued as events.          *)
LEMMA OtherEventsType ==
  ASSUME MatchTypes, NEW info \in Engine
  PROVE  OtherEvents(info) \in Seq(Event)
<1>1. \A e \in Event, b \in BOOLEAN : When(b, e) \in Seq(Event)
  BY DEF When
<1>2. \A t \in Teams : Mk("goal", t, 0, info) \in Event
  BY MkType DEF EventTypes
<1>3. info.mode # "normal" => Mk(info.mode, 0, 0, info) \in Event
  BY MkType DEF EventTypes, Engine, Modes, Teams
<1>4. /\ Mk("half_time", 0, 0, info) \in Event
      /\ Mk("end_match", 0, 0, info) \in Event
  BY MkType DEF EventTypes, Teams
<1>5. When(info.mode # lastGameMode_ /\ info.mode # "normal", Mk(info.mode, 0, 0, info))
        \in Seq(Event)
  BY <1>3 DEF When
<1>6. /\ When(Scored(info, 0), Mk("goal", 0, 0, info)) \in Seq(Event)
      /\ When(Scored(info, 1), Mk("goal", 1, 0, info)) \in Seq(Event)
      /\ When(HalfTimeReached, Mk("half_time", 0, 0, info)) \in Seq(Event)
      /\ When(FullTimeReached, Mk("end_match", 0, 0, info)) \in Seq(Event)
  BY <1>2, <1>4 DEF When, Teams
<1> QED BY <1>5, <1>6, ConcatProperties DEF OtherEvents

(* The player loop queues the card events in some order, each an event.    *)
LEMMA CardOrdersType ==
  ASSUME MatchTypes, NEW info \in Engine, NEW s \in CardOrders(info)
  PROVE  s \in Seq(Event)
<1>1. s \in [1..Cardinality(CardEvents(info)) -> CardEvents(info)]
  BY DEF CardOrders
<1>2. s \in Seq(CardEvents(info))
  BY <1>1, CardEventsType
<1> QED BY <1>2, CardEventsType, SeqMonotonic

-----------------------------------------------------------------------------
(* Type correctness.                                                       *)

(* A publish, stored or lost, keeps the types of the link.                 *)
LEMMA PublishType ==
  ASSUME LinkTypes, NEW m \in Message, Publish(m)
  PROVE  /\ channel' \in Seq(Message) /\ delivered' \in Seq(Event)
         /\ faults' \in 0..MaxFaults
<1>1. m.ch = "gf.event" => m.ev \in Event
  BY DEF Message
<1>2. channel' \in Seq(Message) /\ faults' \in 0..MaxFaults
  <2>1. channel' \in {channel, Append(channel, m)}
    BY DEF Publish
  <2>2. channel \in Seq(Message) /\ faults \in 0..MaxFaults
    BY DEF LinkTypes
  <2>3. channel' \in Seq(Message)
    BY <2>1, <2>2, AppendProperties
  <2>4. faults' = faults \/ (faults < MaxFaults /\ faults' = faults + 1)
    BY DEF Publish, Fault
  <2>5. MaxFaults \in Nat
    BY ServerAssumption
  <2> QED BY <2>2, <2>3, <2>4, <2>5
<1>3. delivered' \in {delivered, Append(delivered, m.ev)}
      /\ (delivered' # delivered => m.ch = "gf.event")
  BY DEF Publish
<1>4. delivered \in Seq(Event)
  BY DEF LinkTypes
<1>5. delivered' \in Seq(Event)
  BY <1>1, <1>3, <1>4, AppendProperties
<1> QED BY <1>2, <1>5

(* Comparing a tick with the one before keeps the types of the match.      *)
LEMMA DetectType ==
  ASSUME TypeOK, NEW info \in Engine, NEW cards \in CardOrders(info),
         Detect(info, cards), UNCHANGED sending
  PROVE  /\ eventQueue_' \in Seq(Event) /\ generated' \in Seq(Event)
         /\ sending' \in 0..Len(eventQueue_')
         /\ stats_' \in Stats /\ previousFlags' \in [Players -> Flags]
         /\ score' \in [Teams -> Byte] /\ lastScore' \in [Teams -> Nat]
         /\ lastGameMode_' \in Modes /\ halfTimeSent_' \in BOOLEAN
         /\ running_' \in BOOLEAN
<1> DEFINE new == cards \o OtherEvents(info)
<1>1. new \in Seq(Event)
  BY CardOrdersType, OtherEventsType, ConcatProperties DEF TypeOK
<1>2. eventQueue_' = eventQueue_ \o new /\ generated' = generated \o new
  BY DEF Detect
<1>3. eventQueue_ \in Seq(Event) /\ generated \in Seq(Event) /\ sending \in 0..Len(eventQueue_)
  BY DEF TypeOK, QueueTypes
<1>4. /\ eventQueue_' \in Seq(Event) /\ generated' \in Seq(Event)
      /\ sending' \in 0..Len(eventQueue_')
  <2> HIDE DEF new
  <2>1. Len(eventQueue_ \o new) = Len(eventQueue_) + Len(new) /\ Len(new) \in Nat
    BY <1>1, <1>3, ConcatProperties, LenProperties
  <2>2. eventQueue_ \o new \in Seq(Event) /\ generated \o new \in Seq(Event)
    BY <1>1, <1>3, ConcatProperties
  <2> QED BY <1>2, <1>3, <2>1, <2>2
<1>5. stats_' \in Stats
  BY CountStatsType DEF Detect, TypeOK
<1>6. /\ previousFlags' \in [Players -> Flags] /\ score' \in [Teams -> Byte]
      /\ lastGameMode_' \in Modes
  BY BytesType DEF Detect, ScoreShown, Engine
<1>7. lastScore' \in [Teams -> Nat]
  BY DEF Detect, TypeOK, MatchTypes, Engine
<1>8. halfTimeSent_' \in BOOLEAN /\ running_' \in BOOLEAN
  BY DEF Detect, TypeOK, MatchTypes, ThreadTypes, HalfTimeReached, FullTimeReached
<1> QED BY <1>4, <1>5, <1>6, <1>7, <1>8

(* The constructors leave everything in its type.                          *)
LEMMA InitType == Init => TypeOK
<1> SUFFICES ASSUME Init PROVE TypeOK
  OBVIOUS
<1>1. ThreadTypes
  BY DEF Init, ThreadTypes, MainPc
<1>2. MatchTypes
  <2>1. score \in [Teams -> Byte]
    BY DEF Init, Byte
  <2> QED BY <2>1 DEF Init, MatchTypes, KickedOff, Engine, Flags, Modes, Stats, Teams
<1>3. QueueTypes
  BY DEF Init, QueueTypes
<1>4. InputTypes
  BY DEF Init, InputTypes, Idle, Directions
<1>5. LinkTypes
  BY ServerAssumption DEF Init, LinkTypes
<1> QED BY <1>1, <1>2, <1>3, <1>4, <1>5 DEF TypeOK

(* No step of either thread, and no signal, breaks a type.                 *)
LEMMA NextType == TypeOK /\ [Next]_vars => TypeOK'
<1> SUFFICES ASSUME TypeOK, [Next]_vars PROVE TypeOK'
  OBVIOUS
<1> USE DEF TypeOK, loopVars, matchVars, inputVars, linkVars
<1>m. /\ [ch |-> "gf.setup"] \in Message /\ [ch |-> "gf.ready"] \in Message
      /\ [ch |-> "gf.crashed"] \in Message /\ [ch |-> "gf.finished"] \in Message
  BY DEF Message
<1>1. CASE SendMatchSetup
  <2>1. channel' \in Seq(Message) /\ delivered' \in Seq(Event) /\ faults' \in 0..MaxFaults
    BY <1>1, <1>m, PublishType DEF SendMatchSetup
  <2> QED BY <1>1, <2>1 DEF SendMatchSetup, ThreadTypes, MatchTypes, QueueTypes, InputTypes, LinkTypes, MainPc
<1>2. CASE AnnounceReady
  <2>1. channel' \in Seq(Message) /\ delivered' \in Seq(Event) /\ faults' \in 0..MaxFaults
    BY <1>2, <1>m, PublishType DEF AnnounceReady
  <2> QED BY <1>2, <2>1 DEF AnnounceReady, ThreadTypes, MatchTypes, QueueTypes, InputTypes, LinkTypes, MainPc
<1>3. CASE AnnounceCrash
  <2>1. channel' \in Seq(Message) /\ delivered' \in Seq(Event) /\ faults' \in 0..MaxFaults
    BY <1>3, <1>m, PublishType DEF AnnounceCrash
  <2> QED BY <1>3, <2>1 DEF AnnounceCrash, ThreadTypes, MatchTypes, QueueTypes, InputTypes, LinkTypes, MainPc
<1>4. CASE AnnounceFinished
  <2>1. channel' \in Seq(Message) /\ delivered' \in Seq(Event) /\ faults' \in 0..MaxFaults
    BY <1>4, <1>m, PublishType DEF AnnounceFinished
  <2> QED BY <1>4, <2>1 DEF AnnounceFinished, ThreadTypes, MatchTypes, QueueTypes, InputTypes, LinkTypes, MainPc
<1>5. CASE LoopHead
  BY <1>5 DEF LoopHead, ThreadTypes, MatchTypes, QueueTypes, InputTypes, LinkTypes, MainPc, MayTick
<1>6. CASE BeginTick
  BY <1>6 DEF BeginTick, ThreadTypes, MatchTypes, QueueTypes, InputTypes, LinkTypes, MainPc
<1>7. CASE LockInputs
  BY <1>7 DEF LockInputs, ThreadTypes, MatchTypes, QueueTypes, InputTypes, LinkTypes, MainPc
<1>8. CASE UnlockInputs
  BY <1>8 DEF UnlockInputs, ThreadTypes, MatchTypes, QueueTypes, InputTypes, LinkTypes, MainPc
<1>9. CASE StepThrows
  BY <1>9, EngineStepType DEF StepThrows, ThreadTypes, MatchTypes, QueueTypes, InputTypes, LinkTypes, MainPc
<1>10. CASE StopListener
  BY <1>10 DEF StopListener, ThreadTypes, MatchTypes, QueueTypes, InputTypes, LinkTypes, MainPc
<1>11. CASE JoinListener
  BY <1>11 DEF JoinListener, ThreadTypes, MatchTypes, QueueTypes, InputTypes, LinkTypes, MainPc
<1>12. CASE ClearEvents
  BY <1>12 DEF ClearEvents, ThreadTypes, MatchTypes, QueueTypes, InputTypes, LinkTypes, MainPc
<1>13. CASE ApplyInput
  <2> DEFINE p == Head(inputQueue_)
  <2>1. Head(inputQueue_) \in Packet
        /\ Tail(inputQueue_) \in Seq(Packet)
    BY <1>13, HeadTailProperties DEF ApplyInput, InputTypes
  <2>2. p \in Packet
    BY <2>1
  <2>3. Accepted(p) => <<p.team, p.player>> \in Keys
                       /\ Pad(controllers[<<p.team, p.player>>], p) \in [dir : Directions, press : BOOLEAN]
    BY <2>2 DEF Accepted, Packet, Keys, Teams, Pad
  <2> HIDE DEF p
  <2>4. controllers' \in [Keys -> [dir : Directions, press : BOOLEAN]] /\ applied' \in Seq(Packet)
    <3>1. CASE Accepted(p)
      <4>1. /\ controllers' = [controllers EXCEPT ![<<p.team, p.player>>] = Pad(@, p)]
            /\ applied' = Append(applied, p)
        BY <1>13, <3>1 DEF ApplyInput, p
      <4> QED BY <2>2, <2>3, <3>1, <4>1 DEF InputTypes
    <3>2. CASE ~Accepted(p)
      BY <1>13, <3>2 DEF ApplyInput, InputTypes, p
    <3> QED BY <3>1, <3>2
  <2>5. UNCHANGED <<main, listener, gRunning, running_, signalTick, thrown, tickCounter_, engine,
                    score, previousFlags, lastScore, lastGameMode_, halfTimeSent_, stats_, generated,
                    eventQueue_, sending, packet, arrived, channel, delivered, heartbeat, faults, result>>
        /\ inputQueue_' = Tail(inputQueue_)
    BY <1>13 DEF ApplyInput
  <2> QED BY <2>1, <2>4, <2>5 DEF ThreadTypes, MatchTypes, QueueTypes, InputTypes, LinkTypes
<1>14. CASE StepAndDetect
  <2>0. PICK info \in EngineStep(engine) :
          /\ engine' = info /\ controllers' = ResetNotSticky(info.inPlay)
          /\ \E cards \in CardOrders(info) : Detect(info, cards)
    BY <1>14 DEF StepAndDetect
  <2>1. PICK cards \in CardOrders(info) : Detect(info, cards)
    BY <2>0
  <2>2. info \in Engine
    BY EngineStepType DEF MatchTypes
  <2>3. /\ main' = "state"
        /\ UNCHANGED <<listener, gRunning, signalTick, thrown, tickCounter_, sending, packet,
                       inputQueue_, arrived, applied, channel, delivered, heartbeat, faults, result>>
    BY <1>14 DEF StepAndDetect
  <2>4. controllers' \in [Keys -> [dir : Directions, press : BOOLEAN]]
    BY <2>0 DEF ResetNotSticky, InputTypes
  <2>5. /\ eventQueue_' \in Seq(Event) /\ generated' \in Seq(Event)
        /\ sending' \in 0..Len(eventQueue_')
        /\ stats_' \in Stats /\ previousFlags' \in [Players -> Flags]
        /\ score' \in [Teams -> Byte] /\ lastScore' \in [Teams -> Nat]
        /\ lastGameMode_' \in Modes /\ halfTimeSent_' \in BOOLEAN /\ running_' \in BOOLEAN
    BY <2>1, <2>2, <2>3, DetectType
  <2> QED BY <2>0, <2>2, <2>3, <2>4, <2>5 DEF ThreadTypes, MatchTypes, QueueTypes, InputTypes, LinkTypes, MainPc
<1>15. CASE BroadcastState
  <2>1. [ch |-> "gf.gamestate", tick |-> tickCounter_, score |-> score] \in Message
    BY DEF MatchTypes, Message
  <2>2. channel' \in Seq(Message) /\ delivered' \in Seq(Event) /\ faults' \in 0..MaxFaults
    BY <1>15, <2>1, PublishType DEF BroadcastState, LinkTypes
  <2> QED BY <1>15, <2>2 DEF BroadcastState, ThreadTypes, MatchTypes, QueueTypes, InputTypes, LinkTypes, MainPc
<1>16. CASE BroadcastEvent
  <2>1. sending + 1 \in 1..Len(eventQueue_)
    BY <1>16 DEF BroadcastEvent, QueueTypes
  <2>2. eventQueue_[sending + 1] \in Event
    BY <2>1, ElementOfSeq DEF QueueTypes
  <2>3. [ch |-> "gf.event", ev |-> eventQueue_[sending + 1]] \in Message
    BY <2>2 DEF Message
  <2>4. channel' \in Seq(Message) /\ delivered' \in Seq(Event) /\ faults' \in 0..MaxFaults
    BY <1>16, <2>3, PublishType DEF BroadcastEvent
  <2> QED BY <1>16, <2>1, <2>4 DEF BroadcastEvent, ThreadTypes, MatchTypes, QueueTypes, InputTypes, LinkTypes, MainPc
<1>17. CASE BroadcastTactical
  <2>1. [ch |-> "gf.tactical", tick |-> tickCounter_] \in Message
    BY DEF MatchTypes, Message
  <2>2. channel' \in Seq(Message) /\ delivered' \in Seq(Event) /\ faults' \in 0..MaxFaults
    BY <1>17, <2>1, PublishType DEF BroadcastTactical, LinkTypes
  <2> QED BY <1>17, <2>2 DEF BroadcastTactical, ThreadTypes, MatchTypes, QueueTypes, InputTypes, LinkTypes, MainPc
<1>18. CASE Heartbeat
  BY <1>18, ServerAssumption DEF Heartbeat, Fault, ThreadTypes, MatchTypes, QueueTypes, InputTypes, LinkTypes, MainPc
<1>19. CASE PostMatchResult
  <2>1. [score |-> score, stats |-> stats_] \in Result
    BY DEF MatchTypes, Result
  <2> QED BY <1>19, <2>1, ServerAssumption DEF PostMatchResult, Fault, ThreadTypes, MatchTypes, QueueTypes, InputTypes, LinkTypes, MainPc
<1>20. CASE SubscribeNext
  BY <1>20, ServerAssumption DEF SubscribeNext, ThreadTypes, MatchTypes, QueueTypes, InputTypes, LinkTypes
<1>21. CASE ReceiveInput
  BY <1>21 DEF ReceiveInput, ThreadTypes, MatchTypes, QueueTypes, InputTypes, LinkTypes
<1>22. CASE ListenerStops
  BY <1>22 DEF ListenerStops, ThreadTypes, MatchTypes, QueueTypes, InputTypes, LinkTypes
<1>23. CASE Signal
  BY <1>23 DEF Signal, ThreadTypes, MatchTypes, QueueTypes, InputTypes, LinkTypes
<1>24. CASE UNCHANGED vars
  BY <1>24 DEF vars, ThreadTypes, MatchTypes, QueueTypes, InputTypes, LinkTypes
<1> QED
  BY <1>1, <1>2, <1>3, <1>4, <1>5, <1>6, <1>7, <1>8, <1>9, <1>10, <1>11, <1>12, <1>13, <1>14, <1>15, <1>16, <1>17, <1>18, <1>19, <1>20, <1>21, <1>22, <1>23, <1>24
     DEF Next, Main, Listener, SubscribeIdles, Terminated

(* TypeOK holds in every reachable state of the process, whatever its      *)
(* rates, players and faults: counters, queues, score, stats_ and messages *)
(* keep their types, and the index of the flush in broadcastGameState()    *)
(* stays within eventQueue_.                                               *)
THEOREM TypeCorrect == Spec => []TypeOK
  BY InitType, NextType, PTL DEF Spec

-----------------------------------------------------------------------------
(* After a signal at most one more tick.  The counter may pass signalTick  *)
(* only if the loop head had already been left when the signal came.       *)

SignalInv ==
  signalTick # Never =>
    /\ ~gRunning /\ tickCounter_ <= signalTick + 1
    /\ main = "tick" => tickCounter_ = signalTick

(* SignalInv is inductive.                                                 *)
LEMMA SignalInvNext ==
  ASSUME TypeOK, SignalInv, [Next]_vars
  PROVE  SignalInv'
<1> USE DEF SignalInv, loopVars, matchVars, inputVars, linkVars
<1>1. CASE SendMatchSetup
  BY <1>1 DEF SendMatchSetup
<1>2. CASE AnnounceReady
  BY <1>2 DEF AnnounceReady
<1>3. CASE LoopHead
  BY <1>3 DEF LoopHead, MayTick
<1>4. CASE BeginTick
  BY <1>4 DEF BeginTick, TypeOK, ThreadTypes, MatchTypes, Never
<1>5. CASE LockInputs
  BY <1>5 DEF LockInputs
<1>6. CASE ApplyInput
  BY <1>6 DEF ApplyInput
<1>7. CASE UnlockInputs
  BY <1>7 DEF UnlockInputs
<1>8. CASE StepAndDetect
  BY <1>8 DEF StepAndDetect, Detect
<1>9. CASE StepThrows
  BY <1>9 DEF StepThrows
<1>10. CASE BroadcastState
  BY <1>10 DEF BroadcastState
<1>11. CASE BroadcastEvent
  BY <1>11 DEF BroadcastEvent
<1>12. CASE ClearEvents
  BY <1>12 DEF ClearEvents
<1>13. CASE BroadcastTactical
  BY <1>13 DEF BroadcastTactical
<1>14. CASE Heartbeat
  BY <1>14 DEF Heartbeat
<1>15. CASE AnnounceCrash
  BY <1>15 DEF AnnounceCrash
<1>16. CASE AnnounceFinished
  BY <1>16 DEF AnnounceFinished
<1>17. CASE StopListener
  BY <1>17 DEF StopListener
<1>18. CASE JoinListener
  BY <1>18 DEF JoinListener
<1>19. CASE PostMatchResult
  BY <1>19 DEF PostMatchResult
<1>20. CASE SubscribeNext
  BY <1>20 DEF SubscribeNext
<1>21. CASE ReceiveInput
  BY <1>21 DEF ReceiveInput
<1>22. CASE ListenerStops
  BY <1>22 DEF ListenerStops
<1>23. CASE Signal
  BY <1>23 DEF Signal, TypeOK, MatchTypes
<1>24. CASE UNCHANGED vars
  BY <1>24 DEF vars
<1> QED
  BY <1>1, <1>2, <1>3, <1>4, <1>5, <1>6, <1>7, <1>8,
     <1>9, <1>10, <1>11, <1>12, <1>13, <1>14, <1>15, <1>16,
     <1>17, <1>18, <1>19, <1>20, <1>21, <1>22, <1>23, <1>24
     DEF Next, Main, Listener, SubscribeIdles, Terminated

(* SIGINT and SIGTERM stop the simulation: after the signal handler has    *)
(* cleared gRunning, the loop of Server::run() begins at most one more     *)
(* tick, wherever in the loop the signal came.                             *)
THEOREM SignalStops == Spec => []SignalStopsWithinATick
<1>1. Init => SignalInv
  BY DEF Init, SignalInv, Never
<1>2. TypeOK /\ SignalInv /\ [Next]_vars => SignalInv'
  BY SignalInvNext
<1>3. SignalInv => SignalStopsWithinATick
  BY DEF SignalInv, SignalStopsWithinATick
<1> QED BY <1>1, <1>2, <1>3, TypeCorrect, PTL DEF Spec

-----------------------------------------------------------------------------
(* The final score: goals counted one by one, the score broadcast and the  *)
(* engine's own advance together, except in a tick that throws.            *)

ResultInv ==
  /\ score = Bytes(lastScore) /\ stats_.goals = lastScore
  /\ ~thrown => engine.goals = lastScore
  /\ thrown => main \in {"crash", "finish", "stop", "join", "post", "exited"}
  /\ result # NoResult => result = [score |-> score, stats |-> stats_]
  /\ result # NoResult => main = "exited"

(* A match begins with no goal.                                            *)
LEMMA InitResult == Init => ResultInv
<1> DEFINE none == [t \in Teams |-> 0]
<1>1. Bytes(none) = none
  BY DEF Bytes
<1> QED BY <1>1 DEF Init, ResultInv, KickedOff

(* ResultInv is inductive.                                                 *)
LEMMA ResultInvNext ==
  ASSUME TypeOK, ResultInv, [Next]_vars
  PROVE  ResultInv'
<1> USE DEF ResultInv, loopVars, matchVars, inputVars, linkVars
<1>1. CASE SendMatchSetup
  BY <1>1 DEF SendMatchSetup
<1>2. CASE AnnounceReady
  BY <1>2 DEF AnnounceReady
<1>3. CASE LoopHead
  BY <1>3 DEF LoopHead
<1>4. CASE BeginTick
  BY <1>4 DEF BeginTick
<1>5. CASE LockInputs
  BY <1>5 DEF LockInputs
<1>6. CASE ApplyInput
  BY <1>6 DEF ApplyInput
<1>7. CASE UnlockInputs
  BY <1>7 DEF UnlockInputs
<1>8. CASE StepAndDetect
  <2>1. ~thrown /\ result = NoResult /\ main' = "state" /\ UNCHANGED <<result, thrown>>
    BY <1>8 DEF StepAndDetect
  <2>2. PICK info \in EngineStep(engine) :
          engine' = info /\ \E cards \in CardOrders(info) : Detect(info, cards)
    BY <1>8 DEF StepAndDetect
  <2>3. /\ stats_' = CountStats(info) /\ score' = Bytes(info.goals)
        /\ lastScore' = [t \in Teams |-> IF Scored(info, t) THEN info.goals[t] ELSE lastScore[t]]
    BY <2>2 DEF Detect, ScoreShown
  <2>4. info.goals \in GoalsAfter(engine)
    BY DEF EngineStep
  <2>5. engine.goals = lastScore /\ lastScore \in [Teams -> Nat]
    BY <2>1 DEF TypeOK, MatchTypes
  <2>6. info.goals = lastScore \/ \E u \in Teams : info.goals = [lastScore EXCEPT ![u] = @ + 1]
    BY <2>4, <2>5 DEF GoalsAfter
  <2>7. /\ info.goals \in [Teams -> Nat]
        /\ \A t \in Teams : info.goals[t] = IF Scored(info, t) THEN lastScore[t] + 1 ELSE lastScore[t]
    <3>1. CASE info.goals = lastScore
      BY <2>5, <3>1 DEF Scored
    <3>2. ASSUME NEW u \in Teams, info.goals = [lastScore EXCEPT ![u] = @ + 1]
          PROVE  /\ info.goals \in [Teams -> Nat]
                 /\ \A t \in Teams : info.goals[t] = IF Scored(info, t) THEN lastScore[t] + 1
                                                                       ELSE lastScore[t]
      <4>1. \A t \in Teams : info.goals[t] = IF t = u THEN lastScore[t] + 1 ELSE lastScore[t]
        BY <2>5, <3>2
      <4>2. \A t \in Teams : lastScore[t] \in Nat
        BY <2>5
      <4>3. \A t \in Teams : Scored(info, t) <=> t = u
        BY <4>1, <4>2 DEF Scored
      <4>4. info.goals \in [Teams -> Nat]
        BY <2>5, <3>2
      <4> QED BY <4>1, <4>3, <4>4
    <3> QED BY <2>6, <3>1, <3>2
  <2>8. lastScore' = info.goals
    BY <2>3, <2>5, <2>7 DEF Scored
  <2>9. stats_'.goals = info.goals
    <3>1. stats_'.goals = [t \in Teams |-> lastScore[t] + IF Scored(info, t) THEN 1 ELSE 0]
      BY <2>3 DEF CountStats
    <3> QED BY <3>1, <2>5, <2>7
  <2> QED BY <2>1, <2>2, <2>3, <2>8, <2>9
<1>9. CASE StepThrows
  BY <1>9 DEF StepThrows
<1>10. CASE BroadcastState
  BY <1>10 DEF BroadcastState
<1>11. CASE BroadcastEvent
  BY <1>11 DEF BroadcastEvent
<1>12. CASE ClearEvents
  BY <1>12 DEF ClearEvents
<1>13. CASE BroadcastTactical
  BY <1>13 DEF BroadcastTactical
<1>14. CASE Heartbeat
  BY <1>14 DEF Heartbeat
<1>15. CASE AnnounceCrash
  BY <1>15 DEF AnnounceCrash
<1>16. CASE AnnounceFinished
  BY <1>16 DEF AnnounceFinished
<1>17. CASE StopListener
  BY <1>17 DEF StopListener
<1>18. CASE JoinListener
  BY <1>18 DEF JoinListener
<1>19. CASE PostMatchResult
  BY <1>19 DEF PostMatchResult
<1>20. CASE SubscribeNext
  BY <1>20 DEF SubscribeNext
<1>21. CASE ReceiveInput
  BY <1>21 DEF ReceiveInput
<1>22. CASE ListenerStops
  BY <1>22 DEF ListenerStops
<1>23. CASE Signal
  BY <1>23 DEF Signal
<1>24. CASE UNCHANGED vars
  BY <1>24 DEF vars
<1> QED
  BY <1>1, <1>2, <1>3, <1>4, <1>5, <1>6, <1>7, <1>8,
     <1>9, <1>10, <1>11, <1>12, <1>13, <1>14, <1>15, <1>16,
     <1>17, <1>18, <1>19, <1>20, <1>21, <1>22, <1>23, <1>24
     DEF Next, Main, Listener, SubscribeIdles, Terminated

(* The result that postMatchResult() sends is the match that was played:   *)
(* stats_.goals, counted by tick() from score changes, make up the score   *)
(* it sends, and that is the engine's unless the last step threw.          *)
THEOREM ResultIsTheMatch == Spec => []ResultAgrees
<1>1. Init => ResultInv
  BY InitResult
<1>2. TypeOK /\ ResultInv /\ [Next]_vars => ResultInv'
  BY ResultInvNext
<1>3. ResultInv => ResultAgrees
  BY DEF ResultInv, ResultAgrees
<1> QED BY <1>1, <1>2, <1>3, TypeCorrect, PTL DEF Spec

-----------------------------------------------------------------------------
(* The order of the feed.                                                  *)

Closed == {"stop", "join", "post", "exited"}
FeedInv ==
  /\ FeedIsWellFormed
  /\ main = "setup" => channel = <<>>
  /\ main = "ready" => \A i \in DOMAIN channel : channel[i].ch = "gf.setup"
  /\ main \notin Closed => \A i \in DOMAIN channel : channel[i].ch # "gf.finished"
  /\ main \notin Closed \cup {"finish"} =>
       \A i \in DOMAIN channel : channel[i].ch # "gf.crashed"

(* A publish leaves the channel alone or adds one message at its end.      *)
LEMMA PublishExtends ==
  ASSUME LinkTypes, NEW m \in Message, Publish(m)
  PROVE  \/ channel' = channel
         \/ /\ channel' = Append(channel, m)
            /\ DOMAIN channel' = DOMAIN channel \cup {Len(channel) + 1}
            /\ channel'[Len(channel) + 1] = m
            /\ \A i \in DOMAIN channel : i < Len(channel) + 1 /\ channel'[i] = channel[i]
<1>1. channel' = channel \/ channel' = Append(channel, m)
  BY DEF Publish
<1>2. channel \in Seq(Message)
  BY DEF LinkTypes
<1>3. /\ Append(channel, m) \in Seq(Message) /\ Len(Append(channel, m)) = Len(channel) + 1
      /\ Append(channel, m)[Len(channel) + 1] = m
      /\ \A i \in 1..Len(channel) : Append(channel, m)[i] = channel[i]
  BY <1>2, AppendProperties
<1>4. /\ Len(channel) \in Nat /\ DOMAIN channel = 1..Len(channel)
      /\ DOMAIN Append(channel, m) = 1..Len(channel) + 1
  BY <1>2, <1>3, LenProperties
<1>5. DOMAIN Append(channel, m) = DOMAIN channel \cup {Len(channel) + 1}
  BY <1>4
<1>6. \A i \in DOMAIN channel : i < Len(channel) + 1 /\ Append(channel, m)[i] = channel[i]
  BY <1>3, <1>4
<1> QED BY <1>1, <1>3, <1>5, <1>6

(* What may be said next without breaking the order.                       *)
LEMMA AppendKeepsOrder ==
  ASSUME LinkTypes, NEW m \in Message, Publish(m), FeedIsWellFormed,
         \A i \in DOMAIN channel : /\ channel[i].ch # "gf.finished"
                                   /\ channel[i].ch = "gf.crashed" => m.ch = "gf.finished"
                                   /\ m.ch = "gf.ready" => channel[i].ch = "gf.setup"
                                   /\ m.ch # "gf.setup"
  PROVE  FeedIsWellFormed'
<1>1. CASE channel' = channel
  BY <1>1 DEF FeedIsWellFormed
<1>2. CASE /\ DOMAIN channel' = DOMAIN channel \cup {Len(channel) + 1}
           /\ channel'[Len(channel) + 1] = m
           /\ \A i \in DOMAIN channel : i < Len(channel) + 1 /\ channel'[i] = channel[i]
  <2> SUFFICES ASSUME NEW i \in DOMAIN channel', NEW j \in DOMAIN channel', i < j
               PROVE  /\ channel'[i].ch # "gf.finished"
                      /\ channel'[i].ch = "gf.crashed" => channel'[j].ch = "gf.finished"
                      /\ channel'[j].ch # "gf.setup"
                      /\ channel'[j].ch = "gf.ready" => channel'[i].ch = "gf.setup"
    BY DEF FeedIsWellFormed
  <2>1. DOMAIN channel \subseteq Int /\ Len(channel) \in Nat
    BY LenProperties DEF LinkTypes
  <2>2. i \in DOMAIN channel /\ channel'[i] = channel[i]
    BY <1>2, <2>1
  <2>3. CASE j \in DOMAIN channel
    BY <1>2, <2>2, <2>3 DEF FeedIsWellFormed
  <2>4. CASE j = Len(channel) + 1
    BY <1>2, <2>2, <2>4
  <2> QED BY <1>2, <2>3, <2>4
<1> QED BY <1>1, <1>2, PublishExtends

(* The opening, crash and closing messages are messages.                   *)
LEMMA MessageTypes ==
  /\ [ch |-> "gf.setup"] \in Message /\ [ch |-> "gf.ready"] \in Message
  /\ [ch |-> "gf.crashed"] \in Message /\ [ch |-> "gf.finished"] \in Message
  BY DEF Message

(* So are the reports, with the events that wait in the queue.             *)
LEMMA ReportTypes ==
  ASSUME TypeOK
  PROVE  /\ [ch |-> "gf.gamestate", tick |-> tickCounter_, score |-> score] \in Message
         /\ [ch |-> "gf.tactical", tick |-> tickCounter_] \in Message
         /\ sending < Len(eventQueue_) => [ch |-> "gf.event", ev |-> eventQueue_[sending + 1]] \in Message
<1>1. sending < Len(eventQueue_) => eventQueue_[sending + 1] \in Event
  <2> SUFFICES ASSUME sending < Len(eventQueue_) PROVE eventQueue_[sending + 1] \in Event
    OBVIOUS
  <2>1. sending + 1 \in 1..Len(eventQueue_)
    BY LenProperties DEF TypeOK, QueueTypes
  <2> QED BY <2>1, ElementOfSeq DEF TypeOK, QueueTypes
<1> QED BY <1>1 DEF TypeOK, MatchTypes, Message

(* A report in the middle of the match keeps the order.                    *)
LEMMA ReportKeepsFeed ==
  ASSUME TypeOK, FeedInv, NEW m \in Message,
         m.ch \in {"gf.gamestate", "gf.event", "gf.tactical"},
         Publish(m) \/ channel' = channel,
         main \notin Closed \cup {"finish", "setup", "ready"},
         main' \notin Closed \cup {"finish", "setup", "ready"}
  PROVE  FeedInv'
<1>1. CASE channel' = channel
  BY <1>1 DEF FeedInv, FeedIsWellFormed
<1>2. CASE Publish(m)
  <2>1. FeedIsWellFormed'
    BY <1>2, AppendKeepsOrder DEF FeedInv, TypeOK
  <2>2. \A i \in DOMAIN channel' : channel'[i].ch \notin {"gf.finished", "gf.crashed"}
    BY <1>2, PublishExtends DEF FeedInv, TypeOK
  <2> QED BY <2>1, <2>2 DEF FeedInv
<1> QED BY <1>1, <1>2

(* FeedInv is inductive.                                                   *)
LEMMA FeedInvNext ==
  ASSUME TypeOK, FeedInv, [Next]_vars
  PROVE  FeedInv'
<1> USE DEF FeedInv, loopVars, matchVars, inputVars, linkVars
<1>1. CASE SendMatchSetup
  <2>1. channel = <<>> /\ main' = "ready"
    BY <1>1 DEF SendMatchSetup
  <2>2. channel' = <<>> \/ channel' = <<[ch |-> "gf.setup"]>>
    BY <1>1, <2>1 DEF SendMatchSetup, Publish
  <2> QED BY <2>1, <2>2 DEF FeedIsWellFormed, Closed
<1>2. CASE AnnounceReady
  <2>1. Publish([ch |-> "gf.ready"]) /\ LinkTypes
    BY <1>2 DEF AnnounceReady, TypeOK
  <2>2. FeedIsWellFormed'
    BY <1>2, <2>1, MessageTypes, AppendKeepsOrder DEF AnnounceReady, Closed
  <2>3. \/ channel' = channel
        \/ /\ DOMAIN channel' = DOMAIN channel \cup {Len(channel) + 1}
           /\ channel'[Len(channel) + 1] = [ch |-> "gf.ready"]
           /\ \A i \in DOMAIN channel : channel'[i] = channel[i]
    BY <2>1, MessageTypes, PublishExtends
  <2> QED BY <1>2, <2>2, <2>3 DEF AnnounceReady, Closed
<1>3. CASE LoopHead
  BY <1>3 DEF LoopHead, FeedIsWellFormed, Closed
<1>4. CASE BeginTick
  BY <1>4 DEF BeginTick, FeedIsWellFormed, Closed
<1>5. CASE LockInputs
  BY <1>5 DEF LockInputs, FeedIsWellFormed, Closed
<1>6. CASE ApplyInput
  BY <1>6 DEF ApplyInput, FeedIsWellFormed, Closed
<1>7. CASE UnlockInputs
  BY <1>7 DEF UnlockInputs, FeedIsWellFormed, Closed
<1>8. CASE StepAndDetect
  BY <1>8 DEF StepAndDetect, FeedIsWellFormed, Closed
<1>9. CASE StepThrows
  BY <1>9 DEF StepThrows, FeedIsWellFormed, Closed
<1>10. CASE BroadcastState
  <2>1. Publish([ch |-> "gf.gamestate", tick |-> tickCounter_, score |-> score]) \/ channel' = channel
    BY <1>10 DEF BroadcastState
  <2>2. [ch |-> "gf.gamestate", tick |-> tickCounter_, score |-> score] \in Message
    BY <1>10, ReportTypes DEF BroadcastState
  <2> QED BY <1>10, <2>1, <2>2, ReportKeepsFeed DEF BroadcastState, Closed
<1>11. CASE BroadcastEvent
  <2>1. Publish([ch |-> "gf.event", ev |-> eventQueue_[sending + 1]]) \/ channel' = channel
    BY <1>11 DEF BroadcastEvent
  <2>2. [ch |-> "gf.event", ev |-> eventQueue_[sending + 1]] \in Message
    BY <1>11, ReportTypes DEF BroadcastEvent
  <2> QED BY <1>11, <2>1, <2>2, ReportKeepsFeed DEF BroadcastEvent, Closed
<1>12. CASE ClearEvents
  BY <1>12 DEF ClearEvents, FeedIsWellFormed, Closed
<1>13. CASE BroadcastTactical
  <2>1. Publish([ch |-> "gf.tactical", tick |-> tickCounter_]) \/ channel' = channel
    BY <1>13 DEF BroadcastTactical
  <2>2. [ch |-> "gf.tactical", tick |-> tickCounter_] \in Message
    BY <1>13, ReportTypes DEF BroadcastTactical
  <2> QED BY <1>13, <2>1, <2>2, ReportKeepsFeed DEF BroadcastTactical, Closed
<1>14. CASE Heartbeat
  BY <1>14 DEF Heartbeat, FeedIsWellFormed, Closed
<1>15. CASE AnnounceCrash
  <2>1. Publish([ch |-> "gf.crashed"]) /\ LinkTypes
    BY <1>15 DEF AnnounceCrash, TypeOK
  <2>2. FeedIsWellFormed'
    BY <1>15, <2>1, MessageTypes, AppendKeepsOrder DEF AnnounceCrash, Closed
  <2>3. \/ channel' = channel
        \/ /\ DOMAIN channel' = DOMAIN channel \cup {Len(channel) + 1}
           /\ channel'[Len(channel) + 1] = [ch |-> "gf.crashed"]
           /\ \A i \in DOMAIN channel : channel'[i] = channel[i]
    BY <2>1, MessageTypes, PublishExtends
  <2> QED BY <1>15, <2>2, <2>3 DEF AnnounceCrash, Closed
<1>16. CASE AnnounceFinished
  <2>1. Publish([ch |-> "gf.finished"]) /\ LinkTypes
    BY <1>16 DEF AnnounceFinished, TypeOK
  <2>2. FeedIsWellFormed'
    BY <1>16, <2>1, MessageTypes, AppendKeepsOrder DEF AnnounceFinished, Closed
  <2>3. \/ channel' = channel
        \/ /\ DOMAIN channel' = DOMAIN channel \cup {Len(channel) + 1}
           /\ channel'[Len(channel) + 1] = [ch |-> "gf.finished"]
           /\ \A i \in DOMAIN channel : channel'[i] = channel[i]
    BY <2>1, MessageTypes, PublishExtends
  <2> QED BY <1>16, <2>2, <2>3 DEF AnnounceFinished, Closed
<1>17. CASE StopListener
  BY <1>17 DEF StopListener, FeedIsWellFormed, Closed
<1>18. CASE JoinListener
  BY <1>18 DEF JoinListener, FeedIsWellFormed, Closed
<1>19. CASE PostMatchResult
  BY <1>19 DEF PostMatchResult, FeedIsWellFormed, Closed
<1>20. CASE SubscribeNext
  BY <1>20 DEF SubscribeNext, FeedIsWellFormed, Closed
<1>21. CASE ReceiveInput
  BY <1>21 DEF ReceiveInput, FeedIsWellFormed, Closed
<1>22. CASE ListenerStops
  BY <1>22 DEF ListenerStops, FeedIsWellFormed, Closed
<1>23. CASE Signal
  BY <1>23 DEF Signal, FeedIsWellFormed, Closed
<1>24. CASE UNCHANGED vars
  BY <1>24 DEF vars, FeedIsWellFormed
<1> QED
  BY <1>1, <1>2, <1>3, <1>4, <1>5, <1>6, <1>7, <1>8,
     <1>9, <1>10, <1>11, <1>12, <1>13, <1>14, <1>15, <1>16,
     <1>17, <1>18, <1>19, <1>20, <1>21, <1>22, <1>23, <1>24
     DEF Next, Main, Listener, SubscribeIdles, Terminated

(* Server::run() publishes set-up, then ready, each once, before anything  *)
(* else; after gf.crashed only gf.finished; after gf.finished nothing.     *)
(* This holds whichever of the publishes are lost.                         *)
THEOREM FeedOrder == Spec => []FeedIsWellFormed
<1>1. Init => FeedInv
  BY DEF Init, FeedInv, FeedIsWellFormed, Closed
<1>2. TypeOK /\ FeedInv /\ [Next]_vars => FeedInv'
  BY FeedInvNext
<1>3. FeedInv => FeedIsWellFormed
  BY DEF FeedInv
<1> QED BY <1>1, <1>2, <1>3, TypeCorrect, PTL DEF Spec

-----------------------------------------------------------------------------
(* No event is lost, repeated or reordered between its detection and its   *)
(* publication.  Outside a broadcast the index is 0, and a broadcast only  *)
(* takes place when Redis is configured.                                   *)

QueueInv ==
  /\ sending # 0 => main = "events"
  /\ main = "events" => Configured
  /\ EventsConserved

(* QueueInv is inductive.                                                  *)
LEMMA QueueInvNext ==
  ASSUME TypeOK, QueueInv, [Next]_vars
  PROVE  QueueInv'
<1> USE DEF QueueInv, loopVars, matchVars, inputVars, linkVars
<1>1. CASE SendMatchSetup
  <2>1. UNCHANGED <<delivered, eventQueue_, sending, generated>>
    BY <1>1 DEF SendMatchSetup, Publish
  <2>2. faults' = 0 => faults = 0
    BY <1>1 DEF SendMatchSetup, Publish, Fault, TypeOK, LinkTypes
  <2> QED BY <1>1, <2>1, <2>2 DEF SendMatchSetup, EventsConserved, Publish
<1>2. CASE AnnounceReady
  <2>1. UNCHANGED <<delivered, eventQueue_, sending, generated>>
    BY <1>2 DEF AnnounceReady, Publish
  <2>2. faults' = 0 => faults = 0
    BY <1>2 DEF AnnounceReady, Publish, Fault, TypeOK, LinkTypes
  <2> QED BY <1>2, <2>1, <2>2 DEF AnnounceReady, EventsConserved, Publish
<1>3. CASE LoopHead
  BY <1>3 DEF LoopHead, EventsConserved
<1>4. CASE BeginTick
  BY <1>4 DEF BeginTick, EventsConserved
<1>5. CASE LockInputs
  BY <1>5 DEF LockInputs, EventsConserved
<1>6. CASE ApplyInput
  BY <1>6 DEF ApplyInput, EventsConserved
<1>7. CASE UnlockInputs
  BY <1>7 DEF UnlockInputs, EventsConserved
<1>8. CASE StepAndDetect
  <2>1. /\ main = "step" /\ main' = "state" /\ sending = 0
        /\ UNCHANGED <<sending, delivered, faults>>
    BY <1>8 DEF StepAndDetect
  <2>2. PICK info \in EngineStep(engine) : \E cards \in CardOrders(info) : Detect(info, cards)
    BY <1>8 DEF StepAndDetect
  <2>3. PICK cards \in CardOrders(info) : Detect(info, cards)
    BY <2>2
  <2>4. info \in Engine
    BY EngineStepType DEF TypeOK, MatchTypes
  <2> DEFINE new == cards \o OtherEvents(info)
  <2>5. new \in Seq(Event)
    BY <2>4, CardOrdersType, OtherEventsType, ConcatProperties DEF TypeOK
  <2>6. eventQueue_' = eventQueue_ \o new /\ generated' = generated \o new
    BY <2>3 DEF Detect
  <2> HIDE DEF new
  <2>7. eventQueue_ \in Seq(Event) /\ eventQueue_' \in Seq(Event) /\ delivered \in Seq(Event)
    BY <2>5, <2>6, ConcatProperties DEF TypeOK, QueueTypes, LinkTypes
  <2>8. /\ SubSeq(eventQueue_, 1, Len(eventQueue_)) = eventQueue_
        /\ SubSeq(eventQueue_', 1, Len(eventQueue_')) = eventQueue_'
    BY <2>7, SubSeqFull
  <2>9. faults = 0 => generated = delivered \o eventQueue_
    <3>1. sending + 1 = 1
      BY <2>1
    <3> QED BY <3>1, <2>8 DEF EventsConserved
  <2>10. (delivered \o eventQueue_) \o new = delivered \o (eventQueue_ \o new)
    BY <2>5, <2>7, ConcatAssociative
  <2>11. faults' = 0 => generated' = delivered' \o eventQueue_'
    BY <2>1, <2>6, <2>9, <2>10
  <2>12. sending' + 1 = 1
    BY <2>1
  <2> QED BY <2>1, <2>8, <2>11, <2>12 DEF EventsConserved
<1>9. CASE StepThrows
  BY <1>9 DEF StepThrows, EventsConserved
<1>10. CASE BroadcastState
  <2>1. UNCHANGED <<delivered, eventQueue_, sending, generated>>
    BY <1>10 DEF BroadcastState, Publish
  <2>2. faults' = 0 => faults = 0
    BY <1>10 DEF BroadcastState, Publish, Fault, TypeOK, LinkTypes
  <2> QED BY <1>10, <2>1, <2>2 DEF BroadcastState, EventsConserved, Publish, MayBroadcast
<1>11. CASE BroadcastEvent
  <2> DEFINE ev == eventQueue_[sending + 1]
             rest == SubSeq(eventQueue_, sending + 2, Len(eventQueue_))
  <2>1. /\ main = "events" /\ main' = "events" /\ sending' = sending + 1
        /\ UNCHANGED <<eventQueue_, generated>>
    BY <1>11 DEF BroadcastEvent
  <2>2. /\ sending \in Nat /\ sending + 1 \in 1..Len(eventQueue_)
        /\ eventQueue_ \in Seq(Event) /\ delivered \in Seq(Event)
    BY <1>11, LenProperties DEF BroadcastEvent, TypeOK, QueueTypes, LinkTypes
  <2>3. SubSeq(eventQueue_, sending + 1, Len(eventQueue_)) = <<ev>> \o rest
    <3>1. Len(eventQueue_) \in (sending + 1)..Len(eventQueue_)
      BY <2>2, LenProperties
    <3>2. (sending + 1) + 1 = sending + 2
      BY <2>2
    <3> QED BY <2>2, <3>1, <3>2, SubSeqRecursiveFirst
  <2>4. ev \in Event
    BY <2>2, ElementOfSeq
  <2>5. rest \in Seq(Event)
    <3>1. \A i \in (sending + 2)..Len(eventQueue_) : eventQueue_[i] \in Event
      BY <2>2, ElementOfSeq
    <3>2. sending + 2 \in Int /\ Len(eventQueue_) \in Int
      BY <2>2, LenProperties
    <3> QED BY <3>1, <3>2, SubSeqProperties
  <2>6. faults' = 0 => faults = 0 /\ delivered' = Append(delivered, ev)
    BY <1>11, <2>1 DEF BroadcastEvent, Publish, Fault, TypeOK, LinkTypes
  <2> HIDE DEF ev, rest
  <2>7. delivered \o (<<ev>> \o rest) = Append(delivered, ev) \o rest
    <3>1. <<ev>> \in Seq(Event) /\ Append(delivered, ev) = delivered \o <<ev>>
      BY <2>2, <2>4, AppendIsConcat
    <3> QED BY <2>2, <2>5, <3>1, ConcatAssociative
  <2>8. sending' + 1 = sending + 2
    BY <2>1, <2>2
  <2> QED BY <2>1, <2>3, <2>6, <2>7, <2>8 DEF EventsConserved, rest
<1>12. CASE ClearEvents
  <2>1. /\ sending = Len(eventQueue_) /\ eventQueue_' = <<>> /\ sending' = 0
        /\ main' = "tactical" /\ UNCHANGED <<delivered, generated, faults>>
    BY <1>12 DEF ClearEvents
  <2>2. Len(eventQueue_) \in Nat
    BY LenProperties DEF TypeOK, QueueTypes
  <2>3. SubSeq(eventQueue_, sending + 1, Len(eventQueue_)) = <<>>
    BY <2>1, <2>2, SubSeqEmpty
  <2>4. SubSeq(<<>>, 1, 0) = <<>>
    BY SubSeqEmpty
  <2>5. SubSeq(eventQueue_', sending' + 1, Len(eventQueue_')) = <<>>
    BY <2>1, <2>4, EmptySeq
  <2> QED BY <2>1, <2>3, <2>5 DEF EventsConserved
<1>13. CASE BroadcastTactical
  <2>1. UNCHANGED <<delivered, eventQueue_, sending, generated>>
    BY <1>13 DEF BroadcastTactical, Publish
  <2>2. faults' = 0 => faults = 0
    BY <1>13 DEF BroadcastTactical, Publish, Fault, TypeOK, LinkTypes
  <2> QED BY <1>13, <2>1, <2>2 DEF BroadcastTactical, EventsConserved, Publish
<1>14. CASE Heartbeat
  BY <1>14 DEF Heartbeat, EventsConserved, Fault, TypeOK, LinkTypes
<1>15. CASE AnnounceCrash
  <2>1. UNCHANGED <<delivered, eventQueue_, sending, generated>>
    BY <1>15 DEF AnnounceCrash, Publish
  <2>2. faults' = 0 => faults = 0
    BY <1>15 DEF AnnounceCrash, Publish, Fault, TypeOK, LinkTypes
  <2> QED BY <1>15, <2>1, <2>2 DEF AnnounceCrash, EventsConserved, Publish
<1>16. CASE AnnounceFinished
  <2>1. UNCHANGED <<delivered, eventQueue_, sending, generated>>
    BY <1>16 DEF AnnounceFinished, Publish
  <2>2. faults' = 0 => faults = 0
    BY <1>16 DEF AnnounceFinished, Publish, Fault, TypeOK, LinkTypes
  <2> QED BY <1>16, <2>1, <2>2 DEF AnnounceFinished, EventsConserved, Publish
<1>17. CASE StopListener
  BY <1>17 DEF StopListener, EventsConserved
<1>18. CASE JoinListener
  BY <1>18 DEF JoinListener, EventsConserved
<1>19. CASE PostMatchResult
  BY <1>19 DEF PostMatchResult, EventsConserved, Fault, TypeOK, LinkTypes
<1>20. CASE SubscribeNext
  BY <1>20 DEF SubscribeNext, EventsConserved
<1>21. CASE ReceiveInput
  BY <1>21 DEF ReceiveInput, EventsConserved
<1>22. CASE ListenerStops
  BY <1>22 DEF ListenerStops, EventsConserved
<1>23. CASE Signal
  BY <1>23 DEF Signal, EventsConserved
<1>24. CASE UNCHANGED vars
  BY <1>24 DEF vars, EventsConserved
<1> QED
  BY <1>1, <1>2, <1>3, <1>4, <1>5, <1>6, <1>7, <1>8,
     <1>9, <1>10, <1>11, <1>12, <1>13, <1>14, <1>15, <1>16,
     <1>17, <1>18, <1>19, <1>20, <1>21, <1>22, <1>23, <1>24
     DEF Next, Main, Listener, SubscribeIdles, Terminated

(* Nothing is queued or delivered yet.                                     *)
LEMMA QueueInvInit == Init => QueueInv
<1> SUFFICES ASSUME Init PROVE QueueInv
  OBVIOUS
<1>1. SubSeq(<<>>, 1, 0) = <<>>
  BY SubSeqEmpty
<1>2. <<>> \o <<>> = <<>>
  BY ConcatEmptySeq, EmptySeq
<1> QED BY <1>1, <1>2, EmptySeq DEF Init, QueueInv, EventsConserved

(* As long as no call fails, broadcastGameState() publishes every event    *)
(* that tick() queued exactly once and in order: what has been delivered,  *)
(* followed by what still waits, is all that was ever queued.              *)
THEOREM NoEventLost == Spec => []EventsConserved
<1>1. TypeOK /\ QueueInv /\ [Next]_vars => QueueInv'
  BY QueueInvNext
<1>2. QueueInv => EventsConserved
  BY DEF QueueInv
<1> QED BY <1>1, <1>2, QueueInvInit, TypeCorrect, PTL DEF Spec


-----------------------------------------------------------------------------
(* Inputs are applied in the order of their arrival.                       *)

(* A packet is taken from the head of the queue and applied or refused.    *)
LEMMA ApplyInputInOrder ==
  ASSUME TypeOK, InputsInOrder, ApplyInput
  PROVE  InputsInOrder'
<1> DEFINE q == Len(inputQueue_)
           n == Len(arrived)
           d == n - q
           k == Len(applied)
           p == Head(inputQueue_)
           due == {i \in 1..d : Accepted(arrived[i])}
           due1 == {i \in 1..(d + 1) : Accepted(arrived[i])}
<1>1. /\ inputQueue_ # <<>> /\ inputQueue_' = Tail(inputQueue_) /\ arrived' = arrived
      /\ Accepted(p) => applied' = Append(applied, p)
      /\ ~Accepted(p) => applied' = applied
  BY DEF ApplyInput
<1>2. /\ inputQueue_ \in Seq(Packet) /\ arrived \in Seq(Packet) /\ applied \in Seq(Packet)
      /\ q \in Nat /\ n \in Nat /\ k \in Nat /\ q > 0
      /\ DOMAIN inputQueue_ = 1..q /\ DOMAIN applied = 1..k /\ DOMAIN arrived = 1..n
      /\ p = inputQueue_[1] /\ p \in Packet
  BY <1>1, LenProperties, EmptySeq, HeadTailProperties DEF TypeOK, InputTypes
<1>3. /\ Len(inputQueue_') = q - 1 /\ DOMAIN inputQueue_' = 1..(q - 1)
      /\ \A i \in 1..(q - 1) : inputQueue_'[i] = inputQueue_[i + 1]
  BY <1>1, <1>2, HeadTailProperties, LenProperties
<1>4. PICK place \in [1..k -> due] :
        /\ \A i \in due : \E j \in 1..k : place[j] = i
        /\ \A i, j \in 1..k : i < j => place[i] < place[j]
        /\ \A j \in 1..k : applied[j] = arrived[place[j]]
  BY <1>2 DEF InputsInOrder
<1>5. d >= 0 /\ \A i \in 1..q : inputQueue_[i] = arrived[d + i]
  BY <1>2 DEF InputsInOrder
<1>6. p = arrived[d + 1] /\ d \in Nat /\ Len(arrived') - Len(inputQueue_') = d + 1
  <2>1. d \in Nat /\ Len(arrived') - Len(inputQueue_') = d + 1
    BY <1>1, <1>2, <1>3, <1>5
  <2>2. 1 \in 1..q
    BY <1>2
  <2> HIDE DEF d, q, p
  <2> QED BY <1>2, <1>5, <2>1, <2>2
<1>7. \A i \in 1..(q - 1) : inputQueue_'[i] = arrived'[d + 1 + i]
  <2> HIDE DEF d, q, p
  <2> SUFFICES ASSUME NEW i \in 1..(q - 1) PROVE inputQueue_'[i] = arrived[d + 1 + i]
    BY <1>1
  <2>1. i + 1 \in 1..q /\ d + (i + 1) = d + 1 + i
    BY <1>2, <1>6
  <2>2. inputQueue_[i + 1] = arrived[d + (i + 1)]
    BY <1>5, <2>1
  <2> QED BY <1>3, <2>1, <2>2
<1>8. due \subseteq due1 /\ \A i \in due1 : i \in due \/ (i = d + 1 /\ Accepted(p))
  BY <1>6
<1>9. due \subseteq 1..d /\ (Accepted(p) => d + 1 \in due1)
  BY <1>6
<1> HIDE DEF q, n, d, k, p, due, due1
<1>10. \E f \in [DOMAIN applied' -> due1] :
         /\ \A i \in due1 : \E j \in DOMAIN applied' : f[j] = i
         /\ \A i, j \in DOMAIN applied' : i < j => f[i] < f[j]
         /\ \A j \in DOMAIN applied' : applied'[j] = arrived'[f[j]]
  <2>1. CASE ~Accepted(p)
    <3>1. DOMAIN applied' = 1..k /\ applied' = applied /\ due1 = due
      BY <1>1, <1>2, <1>8, <2>1
    <3>2. place \in [DOMAIN applied' -> due1]
      BY <1>4, <3>1
    <3> WITNESS place \in [DOMAIN applied' -> due1]
    <3> QED BY <1>1, <1>4, <3>1
  <2>2. CASE Accepted(p)
    <3> DEFINE f == [j \in 1..(k + 1) |-> IF j <= k THEN place[j] ELSE d + 1]
    <3>1. /\ DOMAIN applied' = 1..(k + 1) /\ applied'[k + 1] = p
          /\ \A j \in 1..k : applied'[j] = applied[j]
      <4>1. applied \in Seq(Packet) /\ p \in Packet /\ applied' = Append(applied, p)
        BY <1>1, <1>2, <2>2
      <4>2. k = Len(applied) /\ k \in Nat /\ DOMAIN applied = 1..k
        BY <1>2 DEF k
      <4> HIDE DEF f
      <4> QED BY <4>1, <4>2, AppendProperties, LenProperties
    <3>2. /\ \A j \in 1..k : f[j] = place[j] /\ place[j] \in due /\ place[j] \in 1..d
          /\ f[k + 1] = d + 1
      <4>1. \A j \in 1..k : j \in 1..(k + 1) /\ j <= k
        BY <1>2
      <4>2. k + 1 \in 1..(k + 1) /\ ~(k + 1 <= k)
        BY <1>2
      <4>3. \A j \in 1..k : place[j] \in due /\ place[j] \in 1..d
        BY <1>4, <1>9
      <4> QED BY <4>1, <4>2, <4>3
    <3>3. f \in [1..(k + 1) -> due1]
      <4>1. \A j \in 1..(k + 1) : j \in 1..k \/ j = k + 1
        BY <1>2
      <4>2. \A j \in 1..(k + 1) : f[j] \in due1
        BY <1>8, <1>9, <2>2, <3>2, <4>1
      <4> QED BY <4>2
    <3>4. ASSUME NEW j \in 1..(k + 1) PROVE j \in 1..k \/ j = k + 1
      BY <1>2
    <3> HIDE DEF f
    <3>5. \A i \in due1 : \E j \in 1..(k + 1) : f[j] = i
      <4> SUFFICES ASSUME NEW i \in due1 PROVE \E j \in 1..(k + 1) : f[j] = i
        OBVIOUS
      <4>1. CASE i \in due
        <5>1. PICK j \in 1..k : place[j] = i
          BY <1>4, <4>1
        <5>2. j \in 1..(k + 1)
          BY <1>2
        <5> QED BY <3>2, <5>1, <5>2
      <4>2. CASE i = d + 1
        <5>1. k + 1 \in 1..(k + 1)
          BY <1>2
        <5> QED BY <3>2, <4>2, <5>1
      <4> QED BY <1>8, <4>1, <4>2
    <3>6. ASSUME NEW i \in 1..(k + 1), NEW j \in 1..(k + 1), i < j PROVE f[i] < f[j]
      <4>1. i \in 1..k
        BY <1>2, <3>6
      <4>2. CASE j \in 1..k
        BY <1>4, <3>2, <3>6, <4>1, <4>2
      <4>3. CASE j = k + 1
        <5>1. f[i] \in 1..d /\ f[j] = d + 1
          BY <3>2, <4>1, <4>3
        <5> QED BY <1>6, <5>1
      <4> QED BY <3>4, <4>2, <4>3
    <3>7. \A j \in 1..(k + 1) : applied'[j] = arrived'[f[j]]
      BY <1>1, <1>4, <1>6, <3>1, <3>2, <3>4
    <3>8. f \in [DOMAIN applied' -> due1]
      BY <3>1, <3>3
    <3> WITNESS f \in [DOMAIN applied' -> due1]
    <3> QED BY <3>1, <3>5, <3>6, <3>7
  <2> QED BY <2>1, <2>2
<1>11. due1 = {i \in 1..(Len(arrived') - Len(inputQueue_')) : Accepted(arrived'[i])}
  BY <1>1, <1>6 DEF due1
<1>12. /\ Len(arrived') - Len(inputQueue_') >= 0
       /\ \A i \in DOMAIN inputQueue_' :
            inputQueue_'[i] = arrived'[Len(arrived') - Len(inputQueue_') + i]
  BY <1>3, <1>6, <1>7
<1> QED BY <1>10, <1>11, <1>12, Zenon DEF InputsInOrder

(* A packet joins what has arrived and the queue at their ends.            *)
LEMMA ReceiveInputInOrder ==
  ASSUME TypeOK, InputsInOrder, ReceiveInput
  PROVE  InputsInOrder'
<1> DEFINE q == Len(inputQueue_)
           n == Len(arrived)
           d == n - q
           due == {i \in 1..d : Accepted(arrived[i])}
<1>1. /\ inputQueue_' = Append(inputQueue_, packet) /\ arrived' = Append(arrived, packet)
      /\ applied' = applied /\ packet \in Packet
  BY DEF ReceiveInput, TypeOK, InputTypes
<1>2. /\ q \in Nat /\ n \in Nat /\ inputQueue_ \in Seq(Packet) /\ arrived \in Seq(Packet)
      /\ DOMAIN inputQueue_ = 1..q /\ DOMAIN arrived = 1..n
  BY LenProperties DEF TypeOK, InputTypes
<1>3. /\ Len(inputQueue_') = q + 1 /\ DOMAIN inputQueue_' = 1..(q + 1)
      /\ inputQueue_'[q + 1] = packet /\ \A i \in 1..q : inputQueue_'[i] = inputQueue_[i]
  BY <1>1, <1>2, AppendProperties, LenProperties
<1>4. /\ Len(arrived') = n + 1 /\ arrived'[n + 1] = packet
      /\ \A i \in 1..n : arrived'[i] = arrived[i]
  BY <1>1, <1>2, AppendProperties, LenProperties
<1>5. /\ d >= 0 /\ d \in Nat /\ \A i \in 1..q : inputQueue_[i] = arrived[d + i]
      /\ Len(arrived') - Len(inputQueue_') = d
  <2>1. d >= 0 /\ \A i \in 1..q : inputQueue_[i] = arrived[d + i]
    BY <1>2 DEF InputsInOrder
  <2>2. d \in Nat /\ Len(arrived') - Len(inputQueue_') = d
    BY <1>2, <1>3, <1>4, <2>1
  <2> QED BY <2>1, <2>2
<1>6. \A i \in 1..(q + 1) : inputQueue_'[i] = arrived'[d + i]
  <2> SUFFICES ASSUME NEW i \in 1..(q + 1) PROVE inputQueue_'[i] = arrived'[d + i]
    OBVIOUS
  <2>1. CASE i \in 1..q
    <3>1. d + i \in 1..n
      BY <1>2, <1>5, <2>1
    <3> QED BY <1>3, <1>4, <1>5, <2>1, <3>1
  <2>2. CASE i = q + 1
    <3>1. d + i = n + 1
      BY <1>2, <2>2
    <3> QED BY <1>3, <1>4, <2>2, <3>1
  <2> QED BY <1>2, <2>1, <2>2
<1>7. \A i \in 1..d : arrived'[i] = arrived[i]
  BY <1>2, <1>4, <1>5
<1>8. due = {i \in 1..d : Accepted(arrived'[i])} /\ due \subseteq 1..d
  BY <1>7
<1> HIDE DEF d, n, q, due
<1>9. PICK place \in [DOMAIN applied -> due] :
        /\ \A i \in due : \E j \in DOMAIN applied : place[j] = i
        /\ \A i, j \in DOMAIN applied : i < j => place[i] < place[j]
        /\ \A j \in DOMAIN applied : applied[j] = arrived[place[j]]
  BY DEF InputsInOrder, d, n, q, due
<1>10. \A j \in DOMAIN applied : applied[j] = arrived'[place[j]]
  BY <1>7, <1>8, <1>9
<1> QED BY <1>1, <1>3, <1>5, <1>6, <1>8, <1>9, <1>10 DEF InputsInOrder

(* InputsInOrder is inductive.                                             *)
LEMMA InputsInOrderNext ==
  ASSUME TypeOK, InputsInOrder, [Next]_vars
  PROVE  InputsInOrder'
<1>1. CASE ApplyInput
  BY <1>1, ApplyInputInOrder
<1>2. CASE ReceiveInput
  BY <1>2, ReceiveInputInOrder
<1>3. CASE UNCHANGED <<arrived, inputQueue_, applied>>
  BY <1>3 DEF InputsInOrder
<1>4. CASE SendMatchSetup \/ AnnounceReady \/ LoopHead \/ BeginTick \/ LockInputs
           \/ UnlockInputs \/ StepAndDetect \/ StepThrows
  BY <1>3, <1>4 DEF SendMatchSetup, AnnounceReady, LoopHead, BeginTick, LockInputs,
                    UnlockInputs, StepAndDetect, StepThrows, inputVars
<1>5. CASE BroadcastState \/ BroadcastEvent \/ ClearEvents \/ BroadcastTactical \/ Heartbeat
  BY <1>3, <1>5 DEF BroadcastState, BroadcastEvent, ClearEvents, BroadcastTactical,
                    Heartbeat, inputVars
<1>6. CASE AnnounceCrash \/ AnnounceFinished \/ StopListener \/ JoinListener \/ PostMatchResult
  BY <1>3, <1>6 DEF AnnounceCrash, AnnounceFinished, StopListener, JoinListener,
                    PostMatchResult, inputVars
<1>7. CASE SubscribeNext \/ SubscribeIdles \/ ListenerStops \/ Signal \/ Terminated
           \/ UNCHANGED vars
  BY <1>3, <1>7 DEF SubscribeNext, SubscribeIdles, ListenerStops, Signal, Terminated,
                    vars, inputVars
<1> QED BY <1>1, <1>2, <1>4, <1>5, <1>6, <1>7 DEF Next, Main, Listener

(* No packet of a human player is lost, applied twice or overtaken between *)
(* receiveInput() and applyPendingInputs().                                *)
THEOREM InputsKeepTheirOrder == Spec => []InputsInOrder
<1>1. Init => InputsInOrder
  <2> SUFFICES ASSUME Init PROVE InputsInOrder
    OBVIOUS
  <2>1. /\ arrived = <<>> /\ inputQueue_ = <<>> /\ applied = <<>>
        /\ Len(<<>>) = 0 /\ DOMAIN <<>> = {}
    BY EmptySeq DEF Init
  <2>2. /\ Len(arrived) - Len(inputQueue_) = 0
        /\ DOMAIN applied = {} /\ DOMAIN inputQueue_ = {}
    BY <2>1
  <2> DEFINE due == {i \in 1..0 : Accepted(arrived[i])}
             place == [j \in {} |-> 0]
  <2>3. due = {} /\ place \in [DOMAIN applied -> due]
    BY <2>2
  <2>4. \E f \in [DOMAIN applied -> due] :
          /\ \A i \in due : \E j \in DOMAIN applied : f[j] = i
          /\ \A i, j \in DOMAIN applied : i < j => f[i] < f[j]
          /\ \A j \in DOMAIN applied : applied[j] = arrived[f[j]]
    <3>1. place \in [DOMAIN applied -> due]
      BY <2>3
    <3> HIDE DEF place, due
    <3> WITNESS place \in [DOMAIN applied -> due]
    <3> QED BY <2>2, <2>3
  <2>5. due = {i \in 1..(Len(arrived) - Len(inputQueue_)) : Accepted(arrived[i])}
    BY <2>2
  <2> HIDE DEF due
  <2>6. /\ Len(arrived) - Len(inputQueue_) >= 0
        /\ \A i \in DOMAIN inputQueue_ :
             inputQueue_[i] = arrived[Len(arrived) - Len(inputQueue_) + i]
    BY <2>2
  <2> QED BY <2>4, <2>5, <2>6, Zenon DEF InputsInOrder
<1>2. TypeOK /\ InputsInOrder /\ [Next]_vars => InputsInOrder'
  BY InputsInOrderNext
<1> QED BY <1>1, <1>2, TypeCorrect, PTL DEF Spec

-----------------------------------------------------------------------------
(* The match clock: the tick that reaches full time is the last one, and   *)
(* the only one in which the end of the match is detected.                 *)

FullTime == Duration * SimTicksPerSec
LastTick == Larger(1, FullTime)

(* While the loop body may still step the engine, the loop's flag is set;  *)
(* while it is set, the last tick is not over.                             *)
ClockInv ==
  /\ main \in {"tick", "lock", "drain", "step"} => running_
  /\ main \in {"lock", "drain", "step"} => tickCounter_ >= 1
  /\ tickCounter_ <= LastTick
  /\ running_ /\ main \notin {"lock", "drain", "step", "crash"} => tickCounter_ < LastTick

(* The last tick is a positive number, and at least that of full time.     *)
LEMMA LastTickType ==
  /\ FullTime \in Nat /\ LastTick \in Nat /\ LastTick >= 1 /\ LastTick >= FullTime
  /\ LastTick \in {1, FullTime}
  BY ServerAssumption DEF FullTime, LastTick, Larger

(* ClockInv is inductive.                                                  *)
LEMMA ClockInvNext ==
  ASSUME TypeOK, ClockInv, [Next]_vars
  PROVE  ClockInv'
<1> USE DEF loopVars, matchVars, inputVars, linkVars
<1>t. tickCounter_ \in Nat /\ LastTick \in Nat
  BY LastTickType DEF TypeOK, MatchTypes
<1>1. CASE tickCounter_' = tickCounter_ /\ running_' = running_
           /\ main' \notin {"tick", "lock", "drain", "step"}
           /\ main \notin {"lock", "drain", "step", "crash"}
  BY <1>1 DEF ClockInv
<1>2. CASE LoopHead
  BY <1>2 DEF LoopHead, MayTick, ClockInv
<1>3. CASE BeginTick
  <2>1. main = "tick" /\ main' = "lock" /\ tickCounter_' = tickCounter_ + 1
        /\ running_' = running_
    BY <1>3 DEF BeginTick
  <2>2. running_ /\ tickCounter_ < LastTick
    BY <2>1 DEF ClockInv
  <2>3. tickCounter_ + 1 <= LastTick /\ tickCounter_ + 1 >= 1
    BY <1>t, <2>2
  <2> QED BY <2>1, <2>2, <2>3 DEF ClockInv
<1>4. CASE LockInputs \/ ApplyInput \/ UnlockInputs \/ StepThrows
  BY <1>4 DEF LockInputs, ApplyInput, UnlockInputs, StepThrows, ClockInv
<1>5. CASE StepAndDetect
  <2>1. PICK info : \E cards \in CardOrders(info) : Detect(info, cards)
    BY <1>5 DEF StepAndDetect
  <2>2. /\ main = "step" /\ main' = "state" /\ tickCounter_' = tickCounter_
        /\ running_' = (running_ /\ ~FullTimeReached)
    BY <1>5, <2>1 DEF StepAndDetect, Detect
  <2>3. ~FullTimeReached => tickCounter_ < LastTick
    BY <1>t, LastTickType DEF FullTimeReached, FullTime
  <2> QED BY <2>2, <2>3 DEF ClockInv
<1>6. CASE AnnounceCrash
  BY <1>6 DEF AnnounceCrash, ClockInv
<1>7. CASE SendMatchSetup \/ AnnounceReady \/ BroadcastState \/ BroadcastEvent \/ ClearEvents
  BY <1>1, <1>7 DEF SendMatchSetup, AnnounceReady, BroadcastState, BroadcastEvent, ClearEvents
<1>8. CASE BroadcastTactical \/ Heartbeat \/ AnnounceFinished \/ StopListener
           \/ JoinListener \/ PostMatchResult
  BY <1>1, <1>8 DEF BroadcastTactical, Heartbeat, AnnounceFinished, StopListener,
                    JoinListener, PostMatchResult
<1>9. CASE Listener \/ Signal \/ Terminated \/ UNCHANGED vars
  <2>1. UNCHANGED <<tickCounter_, running_, main>>
    BY <1>9 DEF Listener, SubscribeNext, SubscribeIdles, ReceiveInput, ListenerStops,
                Signal, Terminated, vars
  <2> QED BY <2>1 DEF ClockInv
<1> QED BY <1>2, <1>3, <1>4, <1>5, <1>6, <1>7, <1>8, <1>9 DEF Next, Main

(* The clock never runs past the last tick.                                *)
LEMMA ClockInvAlways == Spec => []ClockInv
<1>1. Init => ClockInv
  BY LastTickType DEF Init, ClockInv
<1>2. TypeOK /\ ClockInv /\ [Next]_vars => ClockInv'
  BY ClockInvNext
<1> QED BY <1>1, <1>2, TypeCorrect, PTL DEF Spec

-----------------------------------------------------------------------------
(* Termination.  Every step of main() lowers a measure that no step of the *)
(* listener and no signal touches: the ticks that may still be begun, then *)
(* the places left in the loop body, then what is left to drain or to      *)
(* send.  So main() can take only finitely many steps, however the threads *)
(* interleave and however many packets arrive.                             *)

TicksLeft == LastTick - tickCounter_
PlacesLeft ==
  [setup |-> 16, ready |-> 15, lock |-> 14, drain |-> 13, step |-> 12, state |-> 11,
   events |-> 10, tactical |-> 9, heartbeat |-> 8, loop |-> 7, tick |-> 6, crash |-> 5,
   finish |-> 4, stop |-> 3, join |-> 2, post |-> 1, exited |-> 0]
PlaceLeft == PlacesLeft[main]
WorkLeft ==
  CASE main = "drain" -> Len(inputQueue_)
    [] main = "events" -> Len(eventQueue_) - sending
    [] OTHER -> 0

Descends ==
  \/ TicksLeft' < TicksLeft
  \/ TicksLeft' = TicksLeft /\ PlaceLeft' < PlaceLeft
  \/ TicksLeft' = TicksLeft /\ PlaceLeft' = PlaceLeft /\ WorkLeft' < WorkLeft

(* A measure of natural numbers, lowered by main() and by nobody raised.   *)
MeasureIsNatural == TicksLeft \in Nat /\ PlaceLeft \in Nat /\ WorkLeft \in Nat
MainDescends ==
  /\ Main => Descends
  /\ ~Main => UNCHANGED <<TicksLeft, PlaceLeft, WorkLeft>>

(* Every step of main() lowers the measure.                                *)
LEMMA MainStepDescends ==
  ASSUME TypeOK, ClockInv, Main
  PROVE  Descends
<1> USE DEF loopVars, matchVars, inputVars, linkVars
<1>t. tickCounter_ \in Nat /\ LastTick \in Nat
  BY LastTickType DEF TypeOK, MatchTypes
<1>1. CASE BeginTick
  <2>1. main = "tick" /\ tickCounter_' = tickCounter_ + 1
    BY <1>1 DEF BeginTick
  <2> QED BY <1>t, <2>1 DEF Descends, TicksLeft
<1>2. CASE ApplyInput
  <2>1. /\ main = "drain" /\ main' = "drain" /\ tickCounter_' = tickCounter_
        /\ inputQueue_ # <<>> /\ inputQueue_' = Tail(inputQueue_)
    BY <1>2 DEF ApplyInput
  <2>2. Len(inputQueue_') = Len(inputQueue_) - 1 /\ Len(inputQueue_) \in Nat
    BY <2>1, HeadTailProperties, LenProperties DEF TypeOK, InputTypes
  <2>3. WorkLeft = Len(inputQueue_) /\ WorkLeft' = Len(inputQueue_')
    BY <2>1 DEF WorkLeft
  <2>4. WorkLeft' < WorkLeft
    BY <2>2, <2>3
  <2> QED BY <2>1, <2>4 DEF Descends, TicksLeft, PlaceLeft
<1>3. CASE BroadcastEvent
  <2>1. /\ main = "events" /\ main' = "events" /\ tickCounter_' = tickCounter_
        /\ sending' = sending + 1 /\ eventQueue_' = eventQueue_
    BY <1>3 DEF BroadcastEvent
  <2>2. sending \in Nat /\ Len(eventQueue_) \in Nat
    BY LenProperties DEF TypeOK, QueueTypes
  <2>3. WorkLeft = Len(eventQueue_) - sending /\ WorkLeft' = Len(eventQueue_) - (sending + 1)
    BY <2>1 DEF WorkLeft
  <2>4. WorkLeft' < WorkLeft
    BY <2>2, <2>3
  <2> QED BY <2>1, <2>4 DEF Descends, TicksLeft, PlaceLeft
<1>4. CASE SendMatchSetup \/ AnnounceReady \/ LoopHead \/ LockInputs \/ UnlockInputs
  BY <1>4 DEF SendMatchSetup, AnnounceReady, LoopHead, LockInputs, UnlockInputs,
              Descends, TicksLeft, PlaceLeft, PlacesLeft
<1>5. CASE StepAndDetect \/ StepThrows \/ BroadcastState \/ ClearEvents
  BY <1>5 DEF StepAndDetect, StepThrows, BroadcastState, ClearEvents,
              Descends, TicksLeft, PlaceLeft, PlacesLeft
<1>6. CASE BroadcastTactical \/ Heartbeat \/ AnnounceCrash
  BY <1>6 DEF BroadcastTactical, Heartbeat, AnnounceCrash,
              Descends, TicksLeft, PlaceLeft, PlacesLeft
<1>7. CASE AnnounceFinished \/ StopListener \/ JoinListener \/ PostMatchResult
  BY <1>7 DEF AnnounceFinished, StopListener, JoinListener, PostMatchResult,
              Descends, TicksLeft, PlaceLeft, PlacesLeft
<1> QED BY <1>1, <1>2, <1>3, <1>4, <1>5, <1>6, <1>7 DEF Main

(* The listener, a signal and a stuttering step leave the measure alone:   *)
(* in particular no packet joins the queue while it is drained.            *)
LEMMA OthersKeepTheMeasure ==
  ASSUME [Next]_vars, ~Main
  PROVE  UNCHANGED <<TicksLeft, PlaceLeft, WorkLeft>>
<1> USE DEF loopVars, matchVars, inputVars, linkVars
<1>1. UNCHANGED <<main, tickCounter_, eventQueue_, sending>>
      /\ (main = "drain" => inputQueue_' = inputQueue_)
  BY DEF Next, Listener, SubscribeNext, SubscribeIdles, ReceiveInput, ListenerStops,
         Signal, Terminated, vars
<1>2. TicksLeft' = TicksLeft /\ PlaceLeft' = PlaceLeft
  BY <1>1 DEF TicksLeft, PlaceLeft
<1>3. WorkLeft' = WorkLeft
  BY <1>1 DEF WorkLeft
<1> QED BY <1>2, <1>3

(* Server::run() and main() take finitely many steps, for every duration,  *)
(* tick rate and number of packets: the safety half of Terminates.         *)
THEOREM MainRunsDown == Spec => []MeasureIsNatural /\ [][MainDescends]_vars
<1>1. TypeOK /\ ClockInv => MeasureIsNatural
  <2> SUFFICES ASSUME TypeOK, ClockInv PROVE MeasureIsNatural
    OBVIOUS
  <2>1. TicksLeft \in Nat
    BY LastTickType DEF TypeOK, MatchTypes, ClockInv, TicksLeft
  <2>2. PlaceLeft \in Nat
    BY DEF TypeOK, ThreadTypes, MainPc, PlaceLeft, PlacesLeft
  <2>3. Len(inputQueue_) \in Nat /\ Len(eventQueue_) \in Nat /\ sending \in 0..Len(eventQueue_)
    BY LenProperties DEF TypeOK, QueueTypes, InputTypes
  <2>4. Len(eventQueue_) - sending \in Nat
    BY <2>3
  <2>5. WorkLeft \in Nat
    BY <2>3, <2>4 DEF WorkLeft
  <2> QED BY <2>1, <2>2, <2>5 DEF MeasureIsNatural
<1>2. TypeOK /\ ClockInv /\ [Next]_vars => [MainDescends]_vars
  BY MainStepDescends, OthersKeepTheMeasure DEF MainDescends
<1> QED BY <1>1, <1>2, TypeCorrect, ClockInvAlways, PTL DEF Spec

(* main() waits for one thing only, the listener in the join, and by then  *)
(* the stop flag is down: it stays down, and every step the listener still *)
(* takes brings it nearer to its end.                                      *)
ListenerLeft ==
  CASE listener = "deliver" -> 2 [] listener = "poll" -> 1 [] OTHER -> 0
JoinIsSafe == main \in {"join", "post", "exited"} => ~gRunning
ListenerDescends ==
  ~gRunning =>
    /\ ~gRunning'
    /\ Listener => ListenerLeft' < ListenerLeft
    /\ ~Listener => ListenerLeft' = ListenerLeft

(* The join in main() cannot wait for a listener that goes on polling.     *)
THEOREM JoinIsAnswered == Spec => []JoinIsSafe /\ [][ListenerDescends]_vars
<1> USE DEF loopVars, matchVars, inputVars, linkVars
<1>1. Init => JoinIsSafe
  BY DEF Init, JoinIsSafe
<1>2. JoinIsSafe /\ [Next]_vars => JoinIsSafe'
  BY DEF JoinIsSafe, Next, Main, SendMatchSetup, AnnounceReady, LoopHead, BeginTick, LockInputs,
         ApplyInput, UnlockInputs, StepAndDetect, StepThrows, BroadcastState, BroadcastEvent,
         ClearEvents, BroadcastTactical, Heartbeat, AnnounceCrash, AnnounceFinished,
         StopListener, JoinListener, PostMatchResult, Listener, SubscribeNext, SubscribeIdles,
         ReceiveInput, ListenerStops, Signal, Terminated, vars
<1>3. [Next]_vars => [ListenerDescends]_vars
  <2> SUFFICES ASSUME Next, ~gRunning PROVE ListenerDescends \/ UNCHANGED vars
    BY DEF ListenerDescends
  <2>1. CASE Listener
    BY <2>1 DEF Listener, SubscribeNext, SubscribeIdles, ReceiveInput, ListenerStops,
                ListenerLeft, ListenerDescends
  <2>2. CASE ~Listener
    <3>1. listener' = listener /\ ~gRunning'
      BY <2>2 DEF Next, Main, SendMatchSetup, AnnounceReady, LoopHead, BeginTick, LockInputs,
         ApplyInput, UnlockInputs, StepAndDetect, StepThrows, BroadcastState, BroadcastEvent,
         ClearEvents, BroadcastTactical, Heartbeat, AnnounceCrash, AnnounceFinished,
         StopListener, JoinListener, PostMatchResult, Signal, Terminated, vars
    <3> QED BY <2>2, <3>1 DEF ListenerDescends, ListenerLeft
  <2> QED BY <2>1, <2>2
<1> QED BY <1>1, <1>2, <1>3, PTL DEF Spec

-----------------------------------------------------------------------------
(* The end of the match is announced if, and only if, the last tick is due *)
(* for a broadcast.                                                        *)

EndIsDue == LastTick % BroadcastSkip = 0

Ends(e) == e.type = "end_match"
HasEnd(q) == \E i \in DOMAIN q : Ends(q[i])

(* Whoever has seen the end has seen the last tick.                        *)
EndInv ==
  HasEnd(generated) \/ HasEnd(eventQueue_) => ~running_ /\ tickCounter_ = LastTick

(* A tick before full time ends nothing.                                   *)
LEMMA NoEndYet ==
  ASSUME MatchTypes, NEW info \in Engine, NEW cards \in CardOrders(info), ~FullTimeReached,
         NEW i \in DOMAIN (cards \o OtherEvents(info))
  PROVE  ~Ends((cards \o OtherEvents(info))[i])
<1> DEFINE S == {e \in Event : ~Ends(e)}
<1>1. cards \in Seq(S)
  <2>1. cards \in [1..Cardinality(CardEvents(info)) -> CardEvents(info)]
    BY DEF CardOrders
  <2>2. \A e \in CardEvents(info) : ~Ends(e)
    BY DEF CardEvents, Mk, Ends
  <2>3. cards \in Seq(CardEvents(info)) /\ CardEvents(info) \subseteq S
    BY <2>1, <2>2, CardEventsType
  <2> QED BY <2>3, SeqMonotonic
<1>2. ASSUME NEW type \in EventTypes \ {"end_match"}, NEW team \in Teams, NEW cond
      PROVE  When(cond, Mk(type, team, 0, info)) \in Seq(S)
  <2>1. Mk(type, team, 0, info) \in S
    <3>1. Mk(type, team, 0, info) \in Event
      BY <1>2, MkType
    <3>2. ~Ends(Mk(type, team, 0, info))
      BY <1>2 DEF Mk, Ends
    <3> QED BY <3>1, <3>2
  <2> HIDE DEF S
  <2>2. \A e \in S : <<e>> \in Seq(S)
    OBVIOUS
  <2>3. <<>> \in Seq(S)
    BY EmptySeq
  <2> QED BY <2>1, <2>2, <2>3 DEF When
<1>3. 0 \in Teams /\ 1 \in Teams
  BY DEF Teams
<1>5. When(info.mode # lastGameMode_ /\ info.mode # "normal", Mk(info.mode, 0, 0, info)) \in Seq(S)
  <2>1. CASE info.mode # "normal"
    <3>1. info.mode \in EventTypes \ {"end_match"}
      BY <2>1, EngineAssumption DEF Engine, Modes, EventTypes
    <3> QED BY <1>2, <1>3, <3>1
  <2>2. CASE info.mode = "normal"
    BY <2>2, EmptySeq DEF When
  <2> QED BY <2>1, <2>2
<1>6. /\ When(Scored(info, 0), Mk("goal", 0, 0, info)) \in Seq(S)
      /\ When(Scored(info, 1), Mk("goal", 1, 0, info)) \in Seq(S)
      /\ When(HalfTimeReached, Mk("half_time", 0, 0, info)) \in Seq(S)
  BY <1>2, <1>3 DEF EventTypes
<1>7. When(FullTimeReached, Mk("end_match", 0, 0, info)) \in Seq(S)
  BY EmptySeq DEF When
<1> HIDE DEF S
<1>8. OtherEvents(info) \in Seq(S)
  BY <1>5, <1>6, <1>7, ConcatProperties DEF OtherEvents
<1>9. cards \o OtherEvents(info) \in Seq(S)
  BY <1>1, <1>8, ConcatProperties
<1>10. (cards \o OtherEvents(info))[i] \in S
  BY <1>9, ElementOfSeq, LenProperties
<1> QED BY <1>10 DEF S

(* Neither sequence gets the event of the end before full time.            *)
LEMMA NoEndAdded ==
  ASSUME TypeOK, NEW info \in Engine, NEW cards \in CardOrders(info), ~FullTimeReached,
         NEW q \in Seq(Event), ~HasEnd(q)
  PROVE  ~HasEnd(q \o (cards \o OtherEvents(info)))
<1> DEFINE new == cards \o OtherEvents(info)
<1>1. new \in Seq(Event)
  BY CardOrdersType, OtherEventsType, ConcatProperties DEF TypeOK
<1>2. \A i \in DOMAIN new : ~Ends(new[i])
  BY NoEndYet DEF TypeOK
<1> HIDE DEF new
<1> SUFFICES ASSUME NEW i \in DOMAIN (q \o new) PROVE ~Ends((q \o new)[i])
  BY DEF HasEnd, new
<1>3. /\ Len(q) \in Nat /\ Len(new) \in Nat
      /\ DOMAIN q = 1..Len(q) /\ DOMAIN new = 1..Len(new)
      /\ DOMAIN (q \o new) = 1..(Len(q) + Len(new))
      /\ (q \o new)[i] = IF i <= Len(q) THEN q[i] ELSE new[i - Len(q)]
  BY <1>1, ConcatProperties, LenProperties
<1>4. CASE i <= Len(q)
  BY <1>3, <1>4 DEF HasEnd
<1>5. CASE ~(i <= Len(q))
  <2>1. i - Len(q) \in DOMAIN new
    BY <1>3, <1>5
  <2> QED BY <1>2, <1>3, <1>5, <2>1
<1> QED BY <1>4, <1>5

(* EndInv is inductive.                                                    *)
LEMMA EndInvNext ==
  ASSUME TypeOK, ClockInv, EndInv, [Next]_vars
  PROVE  EndInv'
<1> USE DEF loopVars, matchVars, inputVars, linkVars
<1>1. CASE StepAndDetect
  <2>1. PICK info \in EngineStep(engine) : \E cards \in CardOrders(info) : Detect(info, cards)
    BY <1>1 DEF StepAndDetect
  <2>2. info \in Engine
    BY EngineStepType DEF TypeOK, MatchTypes
  <2>3. PICK cards \in CardOrders(info) : Detect(info, cards)
    BY <2>1
  <2> DEFINE new == cards \o OtherEvents(info)
  <2>4. /\ main = "step" /\ tickCounter_' = tickCounter_
        /\ running_' = (running_ /\ ~FullTimeReached)
        /\ generated' = generated \o new /\ eventQueue_' = eventQueue_ \o new
    BY <1>1, <2>3 DEF StepAndDetect, Detect
  <2>5. running_ /\ tickCounter_ >= 1 /\ tickCounter_ <= LastTick
    BY <2>4 DEF ClockInv
  <2>6. ~HasEnd(generated) /\ ~HasEnd(eventQueue_)
    BY <2>5 DEF EndInv
  <2>7. generated \in Seq(Event) /\ eventQueue_ \in Seq(Event) /\ tickCounter_ \in Nat
    BY DEF TypeOK, QueueTypes, MatchTypes
  <2>8. ~FullTimeReached => ~HasEnd(generated \o new) /\ ~HasEnd(eventQueue_ \o new)
    BY <2>2, <2>6, <2>7, NoEndAdded
  <2>9. FullTimeReached => tickCounter_ = LastTick
    <3>1. FullTimeReached <=> tickCounter_ >= FullTime
      BY DEF FullTimeReached, FullTime
    <3> QED BY <2>5, <2>7, <3>1, LastTickType
  <2> HIDE DEF new
  <2>10. HasEnd(generated') \/ HasEnd(eventQueue_') => FullTimeReached
    BY <2>4, <2>8
  <2> QED BY <2>4, <2>9, <2>10 DEF EndInv
<1>2. CASE BeginTick
  <2>1. running_ /\ UNCHANGED <<generated, eventQueue_>>
    BY <1>2 DEF BeginTick, ClockInv
  <2> QED BY <2>1 DEF EndInv
<1>3. CASE ClearEvents
  <2>1. ~HasEnd(<<>>)
    BY EmptySeq DEF HasEnd
  <2> QED BY <1>3, <2>1 DEF ClearEvents, EndInv
<1>4. CASE LoopHead \/ AnnounceCrash
  BY <1>4 DEF LoopHead, MayTick, AnnounceCrash, EndInv
<1>5. CASE UNCHANGED <<generated, eventQueue_, running_, tickCounter_>>
  BY <1>5 DEF EndInv
<1>6. CASE SendMatchSetup \/ AnnounceReady \/ LockInputs \/ ApplyInput \/ UnlockInputs \/ StepThrows
  BY <1>5, <1>6 DEF SendMatchSetup, AnnounceReady, LockInputs, ApplyInput, UnlockInputs, StepThrows
<1>7. CASE BroadcastState \/ BroadcastEvent \/ BroadcastTactical \/ Heartbeat
  BY <1>5, <1>7 DEF BroadcastState, BroadcastEvent, BroadcastTactical, Heartbeat
<1>8. CASE AnnounceFinished \/ StopListener \/ JoinListener \/ PostMatchResult
  BY <1>5, <1>8 DEF AnnounceFinished, StopListener, JoinListener, PostMatchResult
<1>9. CASE Listener \/ Signal \/ Terminated \/ UNCHANGED vars
  BY <1>5, <1>9 DEF Listener, SubscribeNext, SubscribeIdles, ReceiveInput, ListenerStops,
                    Signal, Terminated, vars
<1> QED BY <1>1, <1>2, <1>3, <1>4, <1>6, <1>7, <1>8, <1>9 DEF Next, Main

(* One end_match event at most, and at full time only.                     *)
LEMMA EndInvAlways == Spec => []EndInv
<1>1. Init => EndInv
  BY EmptySeq DEF Init, EndInv, HasEnd
<1>2. TypeOK /\ ClockInv /\ EndInv /\ [Next]_vars => EndInv'
  BY EndInvNext
<1> QED BY <1>1, <1>2, TypeCorrect, ClockInvAlways, PTL DEF Spec

(* The broadcast of the last tick leaves nothing queued.                   *)
DueInv ==
  HasEnd(generated) /\ Configured /\ main \notin {"state", "events"} => eventQueue_ = <<>>

(* While calls succeed, a due end_match event is queued or published.      *)
LEMMA DueInvNext ==
  ASSUME EndIsDue, TypeOK, ClockInv, EndInv, DueInv, [Next]_vars
  PROVE  DueInv'
<1> USE DEF loopVars, matchVars, inputVars, linkVars
<1>1. CASE StepAndDetect \/ BroadcastEvent \/ ClearEvents
  BY <1>1 DEF StepAndDetect, BroadcastEvent, ClearEvents, DueInv
<1>2. CASE BroadcastState
  <2>1. HasEnd(generated) /\ Configured => MayBroadcast /\ BroadcastDue
    BY DEF EndInv, EndIsDue, MayBroadcast, BroadcastDue
  <2> QED BY <1>2, <2>1 DEF BroadcastState, DueInv
<1>3. CASE UNCHANGED <<generated, eventQueue_>> /\ main \notin {"state", "events"}
  BY <1>3 DEF DueInv
<1>4. CASE SendMatchSetup \/ AnnounceReady \/ LoopHead \/ BeginTick \/ LockInputs
           \/ ApplyInput \/ UnlockInputs \/ StepThrows
  BY <1>3, <1>4 DEF SendMatchSetup, AnnounceReady, LoopHead, BeginTick, LockInputs,
                    ApplyInput, UnlockInputs, StepThrows
<1>5. CASE BroadcastTactical \/ Heartbeat \/ AnnounceCrash \/ AnnounceFinished
           \/ StopListener \/ JoinListener \/ PostMatchResult
  BY <1>3, <1>5 DEF BroadcastTactical, Heartbeat, AnnounceCrash, AnnounceFinished,
                    StopListener, JoinListener, PostMatchResult
<1>6. CASE Listener \/ Signal \/ Terminated \/ UNCHANGED vars
  <2>1. UNCHANGED <<generated, eventQueue_, main>>
    BY <1>6 DEF Listener, SubscribeNext, SubscribeIdles, ReceiveInput, ListenerStops,
                Signal, Terminated, vars
  <2> QED BY <2>1 DEF DueInv
<1> QED BY <1>1, <1>2, <1>4, <1>5, <1>6 DEF Next, Main

(* When the last tick is due for a broadcast, as it is at the default rate *)
(* of 20 per second, and no call fails, the end of a match that is played  *)
(* to its end has been published by the time gf.finished is.               *)
THEOREM TheEndIsAnnounced ==
  ASSUME EndIsDue
  PROVE  Spec => []EndMatchIsAnnounced
<1>1. Init => DueInv
  BY EmptySeq DEF Init, DueInv, HasEnd
<1>2. TypeOK /\ ClockInv /\ EndInv /\ DueInv /\ [Next]_vars => DueInv'
  BY DueInvNext
<1>3. TypeOK /\ QueueInv /\ DueInv => EndMatchIsAnnounced
  <2> SUFFICES ASSUME TypeOK, QueueInv, DueInv, Configured, faults = 0, HasEnd(generated),
                      main \in {"finish", "stop"}
               PROVE  HasEnd(delivered)
    BY DEF EndMatchIsAnnounced, HasEnd, Ends
  <2>1. eventQueue_ = <<>> /\ sending = 0
    BY DEF DueInv, QueueInv
  <2>2. generated = delivered \o SubSeq(<<>>, 1, 0)
    BY <2>1, EmptySeq DEF QueueInv, EventsConserved
  <2>3. SubSeq(<<>>, 1, 0) = <<>> /\ delivered \in Seq(Event)
    BY SubSeqEmpty DEF TypeOK, LinkTypes
  <2>4. generated = delivered
    BY <2>2, <2>3, ConcatEmptySeq
  <2> QED BY <2>4
<1>4. Init => QueueInv
  BY QueueInvInit
<1>5. TypeOK /\ QueueInv /\ [Next]_vars => QueueInv'
  BY QueueInvNext
<1> QED BY <1>1, <1>2, <1>3, <1>4, <1>5, TypeCorrect, ClockInvAlways, EndInvAlways, PTL DEF Spec

(* The end of a match is never published, whatever else happens, when its  *)
(* last tick is not due: the events wait in eventQueue_ for a broadcast    *)
(* that the loop no longer makes.                                          *)
EndStaysQueued == ~HasEnd(delivered)
LostInv == EndStaysQueued /\ (main = "events" => BroadcastDue)

(* An end_match event that is not due stays in the queue.                  *)
LEMMA LostInvNext ==
  ASSUME ~EndIsDue, TypeOK, EndInv, LostInv, [Next]_vars
  PROVE  LostInv'
<1> USE DEF loopVars, matchVars, inputVars, linkVars
<1>1. CASE BroadcastEvent
  <2> DEFINE ev == eventQueue_[sending + 1]
  <2>1. /\ main = "events" /\ main' = "events" /\ sending < Len(eventQueue_)
        /\ tickCounter_' = tickCounter_
        /\ delivered' \in {delivered, Append(delivered, ev)}
    BY <1>1 DEF BroadcastEvent, Publish
  <2>2. ~HasEnd(eventQueue_)
    BY <2>1 DEF LostInv, EndInv, EndIsDue, BroadcastDue
  <2>3. /\ sending + 1 \in DOMAIN eventQueue_
    BY <2>1, LenProperties DEF TypeOK, QueueTypes
  <2>4. ~Ends(ev) /\ ev \in Event
    BY <2>2, <2>3, ElementOfSeq, LenProperties DEF HasEnd, TypeOK, QueueTypes
  <2> HIDE DEF ev
  <2>5. ~HasEnd(Append(delivered, ev))
    <3>1. delivered \in Seq(Event) /\ ~HasEnd(delivered)
      BY DEF TypeOK, LinkTypes, LostInv, EndStaysQueued
    <3>2. /\ Len(delivered) \in Nat /\ DOMAIN delivered = 1..Len(delivered)
          /\ DOMAIN Append(delivered, ev) = 1..(Len(delivered) + 1)
          /\ \A i \in 1..Len(delivered) : Append(delivered, ev)[i] = delivered[i]
          /\ Append(delivered, ev)[Len(delivered) + 1] = ev
      BY <2>4, <3>1, AppendProperties, LenProperties
    <3>3. ASSUME NEW i \in DOMAIN Append(delivered, ev)
          PROVE  ~Ends(Append(delivered, ev)[i])
      <4>1. i \in 1..Len(delivered) \/ i = Len(delivered) + 1
        BY <3>2
      <4> QED BY <2>4, <3>1, <3>2, <4>1 DEF HasEnd
    <3> QED BY <3>3 DEF HasEnd
  <2> QED BY <2>1, <2>5 DEF LostInv, EndStaysQueued, BroadcastDue
<1>2. CASE BroadcastState
  <2>1. /\ delivered' = delivered /\ tickCounter_' = tickCounter_
        /\ main' = "events" => BroadcastDue
    BY <1>2 DEF BroadcastState, Publish
  <2> QED BY <2>1 DEF LostInv, EndStaysQueued, BroadcastDue
<1>3. CASE delivered' = delivered /\ main' # "events"
  BY <1>3 DEF LostInv, EndStaysQueued
<1>4. CASE SendMatchSetup \/ AnnounceReady \/ LoopHead \/ BeginTick \/ LockInputs
           \/ UnlockInputs \/ StepThrows \/ StepAndDetect \/ ClearEvents
  BY <1>3, <1>4 DEF SendMatchSetup, AnnounceReady, LoopHead, BeginTick, LockInputs,
                    UnlockInputs, StepThrows, StepAndDetect, ClearEvents, Publish
<1>5. CASE BroadcastTactical \/ Heartbeat \/ AnnounceCrash \/ AnnounceFinished
           \/ StopListener \/ JoinListener \/ PostMatchResult
  BY <1>3, <1>5 DEF BroadcastTactical, Heartbeat, AnnounceCrash, AnnounceFinished,
                    StopListener, JoinListener, PostMatchResult, Publish
<1>6. CASE ApplyInput \/ Listener \/ Signal \/ Terminated \/ UNCHANGED vars
  <2>1. UNCHANGED <<delivered, tickCounter_, main>>
    BY <1>6 DEF ApplyInput, Listener, SubscribeNext, SubscribeIdles, ReceiveInput,
                ListenerStops, Signal, Terminated, vars
  <2> QED BY <2>1 DEF LostInv, EndStaysQueued, BroadcastDue
<1> QED BY <1>1, <1>2, <1>4, <1>5, <1>6 DEF Next, Main

(* So EndIsDue is needed as well as enough: with a broadcast rate whose    *)
(* skip does not divide the last tick, no subscriber is ever told that the *)
(* match is over by its event.                                             *)
THEOREM TheEndIsLost ==
  ASSUME ~EndIsDue
  PROVE  Spec => []EndStaysQueued
<1>1. Init => LostInv
  BY EmptySeq DEF Init, LostInv, EndStaysQueued, HasEnd
<1>2. TypeOK /\ EndInv /\ LostInv /\ [Next]_vars => LostInv'
  BY LostInvNext
<1>3. LostInv => EndStaysQueued
  BY DEF LostInv
<1> QED BY <1>1, <1>2, <1>3, TypeCorrect, EndInvAlways, PTL DEF Spec
=============================================================================
