------------------------ MODULE GameServerRefinement ------------------------
(* GameServer implements MatchFeed and RoomServer; subscribers see the     *)
(* events in the order of their detection, goals that add up to the score  *)
(* and cards that agree with the statistics, for every value of the        *)
(* constants.                                                              *)
EXTENDS GameServerProofs

(* The ticks of the events follow the order in which they were detected,   *)
(* no event is detected twice, and at the stages between the beginning of  *)
(* a tick and its detection all of them are of earlier ticks.              *)
Fresh == {"lock", "drain", "step"}
Chronicle ==
  /\ \A i, j \in DOMAIN generated : i < j =>
       generated[i] # generated[j] /\ generated[i].tick <= generated[j].tick
  /\ \A i \in DOMAIN generated :
       /\ generated[i].tick <= tickCounter_
       /\ main \in Fresh => generated[i].tick < tickCounter_

(* The queue holds the latest of them; all before Sent have had their turn *)
(* in a broadcast.                                                         *)
Sent == Len(generated) - Len(eventQueue_) + sending
Waiting ==
  /\ Len(eventQueue_) <= Len(generated)
  /\ \A i \in DOMAIN eventQueue_ :
       eventQueue_[i] = generated[Len(generated) - Len(eventQueue_) + i]

(* What Redis has accepted: events that have had their turn, and reports   *)
(* of this tick only once the tick has come to them.                       *)
Reported ==
  \A i \in DOMAIN channel :
    /\ channel[i].ch = "gf.event" => \E k \in 1..Sent : generated[k] = channel[i].ev
    /\ channel[i].ch = "gf.gamestate" =>
         /\ channel[i].tick <= tickCounter_
         /\ main \in Fresh \cup {"state"} => channel[i].tick < tickCounter_
    /\ channel[i].ch = "gf.tactical" =>
         /\ channel[i].tick <= tickCounter_
         /\ main \in Fresh \cup {"state", "events", "tactical"} => channel[i].tick < tickCounter_

Ordered ==
  /\ \A i \in DOMAIN delivered : \E k \in 1..Sent : generated[k] = delivered[i]
  /\ \A i, j \in DOMAIN delivered : i < j =>
       \E k, l \in 1..Sent : k < l /\ generated[k] = delivered[i] /\ generated[l] = delivered[j]

Failing ==
  /\ main = "crash" => thrown
  /\ thrown => main \in {"crash", "finish", "stop", "join", "post", "exited"}

Order == Chronicle /\ Waiting /\ Reported /\ Ordered /\ Failing

-----------------------------------------------------------------------------
(* The events of one tick.                                                 *)

Once(s) == \A i, j \in DOMAIN s : i < j => s[i] # s[j]

(* Two sequences without repetitions, of different elements, one after the *)
(* other.                                                                  *)
LEMMA ConcatOnce ==
  ASSUME NEW A, NEW B, NEW s \in Seq(A), NEW t \in Seq(B),
         A \cap B = {}, Once(s), Once(t)
  PROVE  s \o t \in Seq(A \cup B) /\ Once(s \o t)
<1>1. s \in Seq(A \cup B) /\ t \in Seq(A \cup B)
  BY SeqMonotonic
<1>2. /\ s \o t \in Seq(A \cup B) /\ Len(s \o t) = Len(s) + Len(t)
      /\ \A i \in 1..Len(s) + Len(t) : (s \o t)[i] = IF i <= Len(s) THEN s[i] ELSE t[i - Len(s)]
  BY <1>1, ConcatProperties
<1>3. /\ Len(s) \in Nat /\ Len(t) \in Nat /\ DOMAIN s = 1..Len(s) /\ DOMAIN t = 1..Len(t)
      /\ DOMAIN (s \o t) = 1..Len(s) + Len(t)
  BY <1>1, <1>2, LenProperties
<1>4. ASSUME NEW i \in DOMAIN (s \o t), NEW j \in DOMAIN (s \o t), i < j
      PROVE  (s \o t)[i] # (s \o t)[j]
  <2>1. CASE j <= Len(s)
    <3>1. (s \o t)[i] = s[i] /\ (s \o t)[j] = s[j] /\ i \in DOMAIN s /\ j \in DOMAIN s
      BY <1>2, <1>3, <1>4, <2>1
    <3> QED BY <1>4, <3>1 DEF Once
  <2>2. CASE i <= Len(s) /\ ~(j <= Len(s))
    <3>1. (s \o t)[i] = s[i] /\ (s \o t)[j] = t[j - Len(s)]
          /\ i \in 1..Len(s) /\ j - Len(s) \in 1..Len(t)
      BY <1>2, <1>3, <1>4, <2>2
    <3>2. s[i] \in A /\ t[j - Len(s)] \in B
      BY <3>1, ElementOfSeq
    <3> QED BY <3>1, <3>2
  <2>3. CASE ~(i <= Len(s))
    <3>1. /\ (s \o t)[i] = t[i - Len(s)] /\ (s \o t)[j] = t[j - Len(s)]
          /\ i - Len(s) \in DOMAIN t /\ j - Len(s) \in DOMAIN t /\ i - Len(s) < j - Len(s)
      BY <1>2, <1>3, <1>4, <2>3
    <3> QED BY <3>1 DEF Once
  <2> QED BY <1>3, <1>4, <2>1, <2>2, <2>3
<1> QED BY <1>2, <1>4 DEF Once

(* The shortest sequences have no repetitions.                             *)
LEMMA ShortOnce ==
  ASSUME NEW S
  PROVE  /\ <<>> \in Seq(S) /\ Once(<<>>)
         /\ \A e \in S : <<e>> \in Seq(S) /\ Once(<<e>>)
<1>1. <<>> \in Seq(S) /\ DOMAIN <<>> = {}
  BY EmptySeq
<1>2. ASSUME NEW e \in S PROVE <<e>> \in Seq(S) /\ DOMAIN <<e>> = 1..1
  OBVIOUS
<1>3. ASSUME NEW e \in S PROVE Once(<<e>>)
  <2> SUFFICES ASSUME NEW i \in DOMAIN <<e>>, NEW j \in DOMAIN <<e>>, i < j PROVE FALSE
    BY DEF Once
  <2> QED BY <1>2
<1> QED BY <1>1, <1>2, <1>3 DEF Once

(* The events of this tick of the given types and teams.                   *)
Now(types, teams) ==
  {e \in Event : e.tick = tickCounter_ /\ e.type \in types /\ e.team \in teams}

(* An event that is queued if a condition holds.                           *)
LEMMA WhenOnce ==
  ASSUME MatchTypes, NEW info \in Engine, NEW type, NEW team \in Teams, NEW cond,
         cond => type \in EventTypes
  PROVE  /\ When(cond, Mk(type, team, 0, info)) \in Seq(Now({type}, {team}))
         /\ Once(When(cond, Mk(type, team, 0, info)))
<1>1. CASE cond
  <2>1. Mk(type, team, 0, info) \in Event
    BY <1>1, MkType
  <2>2. Mk(type, team, 0, info) \in Now({type}, {team})
    BY <2>1 DEF Mk, Now
  <2>3. When(cond, Mk(type, team, 0, info)) = <<Mk(type, team, 0, info)>>
    BY <1>1 DEF When
  <2> QED BY <2>2, <2>3, ShortOnce
<1>2. CASE ~cond
  <2>1. When(cond, Mk(type, team, 0, info)) = <<>>
    BY <1>2 DEF When
  <2> QED BY <2>1, ShortOnce
<1> QED BY <1>1, <1>2

(* The events of cards and those that follow are of this tick, and no two  *)
(* of them are the same.                                                   *)
LEMMA NewEvents ==
  ASSUME TypeOK, NEW info \in Engine, NEW cards \in CardOrders(info)
  PROVE  /\ cards \o OtherEvents(info) \in Seq({e \in Event : e.tick = tickCounter_})
         /\ Once(cards \o OtherEvents(info))
<1> DEFINE Cards == {"yellow_card", "red_card"}
           goal0 == When(Scored(info, 0), Mk("goal", 0, 0, info))
           goal1 == When(Scored(info, 1), Mk("goal", 1, 0, info))
           piece == When(info.mode # lastGameMode_ /\ info.mode # "normal", Mk(info.mode, 0, 0, info))
           half == When(HalfTimeReached, Mk("half_time", 0, 0, info))
           full == When(FullTimeReached, Mk("end_match", 0, 0, info))
<1>a. MatchTypes /\ 0 \in Teams /\ 1 \in Teams
  BY DEF TypeOK, Teams
<1>b. info.mode # lastGameMode_ /\ info.mode # "normal" => info.mode \in SetPieces
  BY DEF Engine, Modes
<1>1. /\ goal0 \in Seq(Now({"goal"}, {0})) /\ Once(goal0)
      /\ goal1 \in Seq(Now({"goal"}, {1})) /\ Once(goal1)
      /\ half \in Seq(Now({"half_time"}, {0})) /\ Once(half)
      /\ full \in Seq(Now({"end_match"}, {0})) /\ Once(full)
  BY <1>a, WhenOnce DEF EventTypes
<1>2. piece \in Seq(Now(SetPieces, {0})) /\ Once(piece)
  <2>1. CASE info.mode # lastGameMode_ /\ info.mode # "normal"
    <3>1. piece \in Seq(Now({info.mode}, {0})) /\ Once(piece)
      BY <1>a, <1>b, WhenOnce DEF EventTypes
    <3>2. Now({info.mode}, {0}) \subseteq Now(SetPieces, {0})
      BY <1>b, <2>1 DEF Now
    <3> QED BY <3>1, <3>2, SeqMonotonic
  <2>2. CASE ~(info.mode # lastGameMode_ /\ info.mode # "normal")
    <3>1. piece = <<>>
      BY <2>2 DEF When
    <3> QED BY <3>1, ShortOnce
  <2> QED BY <2>1, <2>2
<1>3. cards \in Seq(Now(Cards, Teams)) /\ Once(cards)
  <2>1. cards \in [1..Cardinality(CardEvents(info)) -> CardEvents(info)]
        /\ \A i, j \in DOMAIN cards : i < j => CardBefore(cards[i], cards[j])
    BY DEF CardOrders
  <2>2. CardEvents(info) \subseteq Event /\ Cardinality(CardEvents(info)) \in Nat
    BY <1>a, CardEventsType
  <2>3. \A e \in CardEvents(info) : e.tick = tickCounter_ /\ e.type \in Cards
    BY DEF CardEvents, Mk
  <2>4. \A e \in CardEvents(info) : e \in Now(Cards, Teams)
    BY <2>2, <2>3 DEF Now, Event
  <2>5. cards \in Seq(CardEvents(info))
    BY <2>1, <2>2
  <2>6. cards \in Seq(Now(Cards, Teams))
    BY <2>4, <2>5, SeqMonotonic
  <2>7. ASSUME NEW i \in DOMAIN cards, NEW j \in DOMAIN cards, i < j
        PROVE  cards[i] # cards[j]
    <3>1. CardBefore(cards[i], cards[j]) /\ cards[i] \in Event
      BY <2>1, <2>2, <2>7
    <3>2. cards[i].who \in Int
      BY <3>1 DEF Event
    <3> QED BY <3>1, <3>2 DEF CardBefore
  <2> QED BY <2>6, <2>7 DEF Once
<1> HIDE DEF goal0, goal1, piece, half, full
<1> DEFINE A == Now({"goal"}, {0}) \cup Now({"goal"}, {1})
           B == A \cup Now(SetPieces, {0})
           C == B \cup Now({"half_time"}, {0})
           D == C \cup Now({"end_match"}, {0})
<1>s. \A x \in SetPieces : x \notin Cards \cup {"goal", "half_time", "end_match"}
  BY EngineAssumption
<1>4. goal0 \o goal1 \in Seq(A) /\ Once(goal0 \o goal1)
  <2>1. Now({"goal"}, {0}) \cap Now({"goal"}, {1}) = {}
    BY DEF Now
  <2> QED BY <1>1, <2>1, ConcatOnce
<1>5. (goal0 \o goal1) \o piece \in Seq(B) /\ Once((goal0 \o goal1) \o piece)
  <2>1. A \cap Now(SetPieces, {0}) = {}
    BY <1>s DEF Now
  <2> HIDE DEF A
  <2> QED BY <1>2, <1>4, <2>1, ConcatOnce
<1>6. /\ ((goal0 \o goal1) \o piece) \o half \in Seq(C)
      /\ Once(((goal0 \o goal1) \o piece) \o half)
  <2>1. B \cap Now({"half_time"}, {0}) = {}
    BY <1>s DEF Now
  <2> HIDE DEF B
  <2> QED BY <1>1, <1>5, <2>1, ConcatOnce
<1>7. /\ (((goal0 \o goal1) \o piece) \o half) \o full \in Seq(D)
      /\ Once((((goal0 \o goal1) \o piece) \o half) \o full)
  <2>1. C \cap Now({"end_match"}, {0}) = {}
    BY <1>s DEF Now
  <2> HIDE DEF C
  <2> QED BY <1>1, <1>6, <2>1, ConcatOnce
<1>8. OtherEvents(info) = (((goal0 \o goal1) \o piece) \o half) \o full
  BY DEF OtherEvents, goal0, goal1, piece, half, full
<1>9. Now(Cards, Teams) \cap D = {}
  BY <1>s DEF Now
<1>10. Now(Cards, Teams) \cup D \subseteq {e \in Event : e.tick = tickCounter_}
  BY DEF Now
<1> HIDE DEF D, Cards
<1>11. /\ cards \o OtherEvents(info) \in Seq(Now(Cards, Teams) \cup D)
       /\ Once(cards \o OtherEvents(info))
  BY <1>3, <1>7, <1>8, <1>9, ConcatOnce
<1> QED BY <1>10, <1>11, SeqMonotonic

-----------------------------------------------------------------------------
(* Order is inductive.                                                     *)

(* The sizes of the histories, and the event whose turn it is.             *)
LEMMA Sizes ==
  ASSUME TypeOK, Waiting
  PROVE  /\ Len(generated) \in Nat /\ Len(eventQueue_) \in Nat /\ sending \in Nat
         /\ DOMAIN generated = 1..Len(generated)
         /\ DOMAIN eventQueue_ = 1..Len(eventQueue_)
         /\ Sent \in Nat /\ Sent <= Len(generated)
         /\ sending < Len(eventQueue_) =>
              /\ Sent + 1 \in DOMAIN generated
              /\ eventQueue_[sending + 1] = generated[Sent + 1]
<1>1. /\ Len(generated) \in Nat /\ Len(eventQueue_) \in Nat
      /\ DOMAIN generated = 1..Len(generated)
      /\ DOMAIN eventQueue_ = 1..Len(eventQueue_) /\ sending \in 0..Len(eventQueue_)
  BY LenProperties DEF TypeOK, QueueTypes
<1>2. Len(eventQueue_) <= Len(generated)
  BY DEF Waiting
<1>3. Sent \in Nat /\ Sent <= Len(generated)
  BY <1>1, <1>2 DEF Sent
<1>4. ASSUME sending < Len(eventQueue_)
      PROVE  Sent + 1 \in DOMAIN generated /\ eventQueue_[sending + 1] = generated[Sent + 1]
  <2>1. sending + 1 \in DOMAIN eventQueue_ /\ Sent + 1 \in DOMAIN generated
    BY <1>1, <1>2, <1>4 DEF Sent
  <2>2. Len(generated) - Len(eventQueue_) + (sending + 1) = Sent + 1
    BY <1>1 DEF Sent
  <2> QED BY <2>1, <2>2 DEF Waiting
<1> QED BY <1>1, <1>3, <1>4

(* The clock moves on, or no report that was made becomes early.           *)
Forward ==
  \/ tickCounter_' = tickCounter_ + 1
  \/ /\ tickCounter_' = tickCounter_
     /\ main' \in Fresh => main \in Fresh
     /\ main' \in Fresh \cup {"state"} => main \in Fresh \cup {"state"}
     /\ main' \in Fresh \cup {"state", "events", "tactical"} =>
          main \in Fresh \cup {"state", "events", "tactical"}

(* The stamps of events and messages are numbers.                          *)
LEMMA Stamps ==
  ASSUME TypeOK
  PROVE  /\ tickCounter_ \in Nat
         /\ \A i \in DOMAIN generated : generated[i].tick \in Nat
         /\ \A i \in DOMAIN channel :
              channel[i].ch \in {"gf.gamestate", "gf.tactical"} => channel[i].tick \in Nat
<1>1. tickCounter_ \in Nat
  BY DEF TypeOK, MatchTypes
<1>2. ASSUME NEW i \in DOMAIN generated PROVE generated[i].tick \in Nat
  <2>1. generated[i] \in Event
    BY <1>2, ElementOfSeq, LenProperties DEF TypeOK, QueueTypes
  <2> QED BY <2>1 DEF Event
<1>3. ASSUME NEW i \in DOMAIN channel, channel[i].ch \in {"gf.gamestate", "gf.tactical"}
      PROVE  channel[i].tick \in Nat
  <2>1. channel[i] \in Message
    BY <1>3, ElementOfSeq, LenProperties DEF TypeOK, LinkTypes
  <2> QED BY <1>3, <2>1 DEF Message
<1> QED BY <1>1, <1>2, <1>3

(* Steps that neither detect events nor take their turn, and publish       *)
(* nothing or a message that is no event.                                  *)
LEMMA OtherSteps ==
  ASSUME TypeOK, Order, UNCHANGED <<generated, eventQueue_, sending, delivered>>,
         Forward, Failing', NEW m \in Message, m.ch # "gf.event",
         channel' = channel \/ Publish(m),
         m.ch = "gf.gamestate" =>
           /\ m.tick = tickCounter_ /\ tickCounter_' = tickCounter_
           /\ main' \notin Fresh \cup {"state"},
         m.ch = "gf.tactical" =>
           /\ m.tick = tickCounter_ /\ tickCounter_' = tickCounter_
           /\ main' \notin Fresh \cup {"state", "events", "tactical"}
  PROVE  Order'
<1>1. Sent' = Sent
  BY DEF Sent
<1>2. Chronicle'
  <2>1. \A i \in DOMAIN generated :
          /\ generated[i].tick <= tickCounter_'
          /\ main' \in Fresh => generated[i].tick < tickCounter_'
    BY Stamps DEF Order, Chronicle, Forward
  <2> QED BY <2>1 DEF Order, Chronicle
<1>3. Waiting' /\ Ordered'
  BY <1>1 DEF Order, Waiting, Ordered
<1>4. ASSUME NEW i \in DOMAIN channel', i \in DOMAIN channel, channel'[i] = channel[i]
      PROVE  /\ channel'[i].ch = "gf.event" =>
                   \E k \in 1..Sent : generated[k] = channel'[i].ev
             /\ channel'[i].ch = "gf.gamestate" =>
                  /\ channel'[i].tick <= tickCounter_'
                  /\ main' \in Fresh \cup {"state"} => channel'[i].tick < tickCounter_'
             /\ channel'[i].ch = "gf.tactical" =>
                  /\ channel'[i].tick <= tickCounter_'
                  /\ main' \in Fresh \cup {"state", "events", "tactical"} =>
                       channel'[i].tick < tickCounter_'
  <2>1. channel[i].ch = "gf.event" => \E k \in 1..Sent : generated[k] = channel[i].ev
    BY <1>4 DEF Order, Reported
  <2>2. /\ channel[i].ch = "gf.gamestate" =>
             /\ channel[i].tick <= tickCounter_ /\ channel[i].tick \in Nat
             /\ main \in Fresh \cup {"state"} => channel[i].tick < tickCounter_
        /\ channel[i].ch = "gf.tactical" =>
             /\ channel[i].tick <= tickCounter_ /\ channel[i].tick \in Nat
             /\ main \in Fresh \cup {"state", "events", "tactical"} =>
                  channel[i].tick < tickCounter_
    BY <1>4, Stamps DEF Order, Reported
  <2>3. tickCounter_ \in Nat
    BY Stamps
  <2> QED BY <1>4, <2>1, <2>2, <2>3 DEF Forward
<1>5. Reported'
  <2>1. CASE channel' = channel
    BY <1>1, <1>4, <2>1 DEF Reported
  <2>2. CASE Publish(m) /\ channel' # channel
    <3>1. /\ DOMAIN channel' = DOMAIN channel \cup {Len(channel) + 1}
          /\ channel'[Len(channel) + 1] = m
          /\ \A i \in DOMAIN channel : channel'[i] = channel[i]
      BY <2>2, PublishExtends DEF TypeOK
    <3>2. tickCounter_ \in Nat
      BY Stamps
    <3> QED BY <1>1, <1>4, <3>1, <3>2 DEF Reported
  <2> QED BY <2>1, <2>2
<1> QED BY <1>2, <1>3, <1>5 DEF Order

(* The turn of an event, whether or not Redis accepts it.                  *)
LEMMA BroadcastEventStep ==
  ASSUME TypeOK, Order, BroadcastEvent
  PROVE  Order'
<1> DEFINE e == eventQueue_[sending + 1]
           m == [ch |-> "gf.event", ev |-> e]
<1>1. /\ main' = main /\ sending < Len(eventQueue_) /\ sending' = sending + 1
      /\ UNCHANGED <<generated, eventQueue_, tickCounter_, thrown>> /\ Publish(m)
  BY DEF BroadcastEvent, matchVars, loopVars
<1>2. /\ Sent \in Nat /\ Sent' = Sent + 1 /\ Sent + 1 \in DOMAIN generated
      /\ e = generated[Sent + 1]
  BY <1>1, Sizes DEF Order, Sent
<1>3. m \in Message /\ m.ch = "gf.event" /\ m.ev = e
  BY <1>1, ReportTypes
<1>4. delivered' = delivered \/ delivered' = Append(delivered, e)
  BY <1>1 DEF Publish
<1>5. Chronicle' /\ Waiting' /\ Failing'
  BY <1>1 DEF Order, Chronicle, Waiting, Failing
<1> HIDE DEF e, m
<1>6. Reported'
  <2>1. ASSUME NEW i \in DOMAIN channel, channel'[i] = channel[i], channel[i].ch = "gf.event"
        PROVE  \E k \in 1..Sent' : generated'[k] = channel'[i].ev
    <3>1. PICK k \in 1..Sent : generated[k] = channel[i].ev
      BY <2>1 DEF Order, Reported
    <3> QED BY <1>1, <1>2, <2>1, <3>1
  <2>2. CASE channel' = channel
    BY <1>1, <2>1, <2>2 DEF Order, Reported
  <2>3. CASE channel' # channel
    <3>1. /\ DOMAIN channel' = DOMAIN channel \cup {Len(channel) + 1}
          /\ channel'[Len(channel) + 1] = m
          /\ \A i \in DOMAIN channel : channel'[i] = channel[i]
      BY <1>1, <1>3, <2>3, PublishExtends DEF TypeOK
    <3>2. \E k \in 1..Sent' : generated'[k] = m.ev
      BY <1>1, <1>2, <1>3
    <3> QED BY <1>1, <1>3, <2>1, <3>1, <3>2 DEF Order, Reported
  <2> QED BY <2>2, <2>3
<1>7. Ordered'
  <2>1. CASE delivered' = delivered
    <3>1. ASSUME NEW i \in DOMAIN delivered PROVE \E k \in 1..Sent' : generated'[k] = delivered'[i]
      <4>1. PICK k \in 1..Sent : generated[k] = delivered[i]
        BY DEF Order, Ordered
      <4> QED BY <1>1, <1>2, <2>1, <4>1
    <3>2. ASSUME NEW i \in DOMAIN delivered, NEW j \in DOMAIN delivered, i < j
          PROVE  \E k, l \in 1..Sent' : k < l /\ generated'[k] = delivered'[i]
                                              /\ generated'[l] = delivered'[j]
      <4>1. PICK k \in 1..Sent, l \in 1..Sent :
              k < l /\ generated[k] = delivered[i] /\ generated[l] = delivered[j]
        BY <3>2 DEF Order, Ordered
      <4>2. k \in 1..Sent' /\ l \in 1..Sent'
        BY <1>2
      <4> QED BY <1>1, <2>1, <4>1, <4>2
    <3> QED BY <2>1, <3>1, <3>2 DEF Ordered
  <2>2. CASE delivered' = Append(delivered, e)
    <3>1. delivered \in Seq(Event) /\ e \in Event
      BY <1>2, ElementOfSeq, LenProperties DEF TypeOK, LinkTypes, QueueTypes
    <3>2. /\ Len(delivered) \in Nat /\ DOMAIN delivered = 1..Len(delivered)
          /\ DOMAIN delivered' = 1..Len(delivered) + 1
          /\ delivered'[Len(delivered) + 1] = e
          /\ \A i \in DOMAIN delivered : delivered'[i] = delivered[i]
      BY <2>2, <3>1, AppendProperties, LenProperties
    <3>3. ASSUME NEW i \in DOMAIN delivered
          PROVE  \E k \in 1..Sent : generated'[k] = delivered'[i]
      BY <1>1, <3>2 DEF Order, Ordered
    <3>4. Sent + 1 \in 1..Sent' /\ generated'[Sent + 1] = e /\ 1..Sent \subseteq 1..Sent'
      BY <1>1, <1>2
    <3>5. \A i \in DOMAIN delivered' : \E k \in 1..Sent' : generated'[k] = delivered'[i]
      BY <3>2, <3>3, <3>4
    <3>6. ASSUME NEW i \in DOMAIN delivered', NEW j \in DOMAIN delivered', i < j
          PROVE  \E k, l \in 1..Sent' : k < l /\ generated'[k] = delivered'[i]
                                              /\ generated'[l] = delivered'[j]
      <4>1. CASE j \in DOMAIN delivered
        <5>1. i \in DOMAIN delivered
          BY <3>2, <3>6, <4>1
        <5>2. PICK k \in 1..Sent, l \in 1..Sent :
                k < l /\ generated[k] = delivered[i] /\ generated[l] = delivered[j]
          BY <3>6, <4>1, <5>1 DEF Order, Ordered
        <5>3. k \in 1..Sent' /\ l \in 1..Sent'
          BY <3>4
        <5> QED BY <1>1, <3>2, <4>1, <5>1, <5>2, <5>3
      <4>2. CASE j = Len(delivered) + 1
        <5>1. i \in DOMAIN delivered
          BY <3>2, <3>6, <4>2
        <5>2. PICK k \in 1..Sent : generated'[k] = delivered'[i]
          BY <3>3, <5>1
        <5>3. k < Sent + 1 /\ k \in 1..Sent'
          BY <1>2, <3>4
        <5> QED BY <3>2, <3>4, <4>2, <5>2, <5>3
      <4> QED BY <3>2, <4>1, <4>2
    <3> QED BY <3>5, <3>6 DEF Ordered
  <2> QED BY <1>4, <2>1, <2>2
<1> QED BY <1>5, <1>6, <1>7 DEF Order

(* The queue is emptied once all of it has had its turn.                   *)
LEMMA ClearEventsStep ==
  ASSUME TypeOK, Order, ClearEvents
  PROVE  Order'
<1>1. /\ main = "events" /\ main' = "tactical" /\ sending = Len(eventQueue_)
      /\ eventQueue_' = <<>> /\ sending' = 0
      /\ UNCHANGED <<generated, tickCounter_, thrown, channel, delivered>>
  BY DEF ClearEvents, matchVars, loopVars, linkVars
<1>2. Len(eventQueue_') = 0 /\ DOMAIN eventQueue_' = {} /\ Len(generated) \in Nat
  BY <1>1, EmptySeq, Sizes DEF Order
<1>3. Sent' = Sent
  BY <1>1, <1>2, Sizes DEF Sent, Order
<1>4. Chronicle' /\ Waiting' /\ Failing'
  BY <1>1, <1>2 DEF Order, Chronicle, Waiting, Failing, Fresh
<1>5. Reported'
  BY <1>1, <1>3 DEF Order, Reported, Fresh
<1>6. Ordered'
  BY <1>1, <1>3 DEF Order, Ordered
<1> QED BY <1>4, <1>5, <1>6 DEF Order

(* The events of this tick join the history and the queue.                 *)
LEMMA StepAndDetectStep ==
  ASSUME TypeOK, Order, StepAndDetect
  PROVE  Order'
<1>1. PICK info \in EngineStep(engine) : \E cards \in CardOrders(info) : Detect(info, cards)
  BY DEF StepAndDetect
<1>2. info \in Engine
  BY EngineStepType DEF TypeOK, MatchTypes
<1>3. PICK cards \in CardOrders(info) : Detect(info, cards)
  BY <1>1
<1> DEFINE new == cards \o OtherEvents(info)
           g == Len(generated)
           q == Len(eventQueue_)
           n == Len(new)
<1>4. /\ generated' = generated \o new /\ eventQueue_' = eventQueue_ \o new
      /\ main = "step" /\ main' = "state"
      /\ UNCHANGED <<sending, tickCounter_, thrown, channel, delivered>>
  BY <1>3 DEF Detect, StepAndDetect, linkVars
<1>5. new \in Seq({e \in Event : e.tick = tickCounter_}) /\ Once(new)
  BY <1>2, NewEvents
<1> HIDE DEF new
<1>6. new \in Seq(Event)
  BY <1>5, SeqMonotonic
<1>7. /\ g \in Nat /\ q \in Nat /\ n \in Nat /\ q <= g /\ tickCounter_ \in Nat
      /\ DOMAIN generated = 1..g /\ DOMAIN eventQueue_ = 1..q /\ DOMAIN new = 1..n
  BY <1>6, Sizes, Stamps, LenProperties DEF Order, Waiting
<1>8. /\ Len(generated') = g + n /\ DOMAIN generated' = 1..g + n
      /\ \A i \in 1..g + n : generated'[i] = IF i <= g THEN generated[i] ELSE new[i - g]
  BY <1>4, <1>6, ConcatProperties, LenProperties DEF TypeOK, QueueTypes
<1>9. /\ Len(eventQueue_') = q + n /\ DOMAIN eventQueue_' = 1..q + n
      /\ \A i \in 1..q + n : eventQueue_'[i] = IF i <= q THEN eventQueue_[i] ELSE new[i - q]
  BY <1>4, <1>6, ConcatProperties, LenProperties DEF TypeOK, QueueTypes
<1>10. Sent' = Sent /\ Sent \in Nat /\ Sent <= g
  BY <1>4, <1>7, <1>8, <1>9, Sizes DEF Order, Sent
<1>11. ASSUME NEW i \in 1..g
       PROVE  /\ generated'[i] = generated[i] /\ generated[i].tick \in Nat
              /\ generated[i].tick < tickCounter_
  BY <1>4, <1>7, <1>8, Stamps DEF Order, Chronicle, Fresh
<1>12. ASSUME NEW i \in 1..g + n, ~(i <= g)
       PROVE  /\ i - g \in 1..n /\ generated'[i] = new[i - g]
              /\ generated'[i].tick = tickCounter_
  <2>1. i - g \in 1..n /\ generated'[i] = new[i - g]
    BY <1>7, <1>8, <1>12
  <2>2. new[i - g] \in {e \in Event : e.tick = tickCounter_}
    BY <1>5, <2>1, ElementOfSeq
  <2> QED BY <2>1, <2>2
<1>13. Chronicle'
  <2>1. ASSUME NEW i \in 1..g + n PROVE generated'[i].tick <= tickCounter_
    BY <1>7, <1>11, <1>12
  <2>2. ASSUME NEW i \in 1..g + n, NEW j \in 1..g + n, i < j
        PROVE  generated'[i] # generated'[j] /\ generated'[i].tick <= generated'[j].tick
    <3>1. CASE j <= g
      <4>1. i \in 1..g /\ j \in 1..g
        BY <1>7, <2>2, <3>1
      <4>2. generated[i] # generated[j] /\ generated[i].tick <= generated[j].tick
        BY <1>7, <2>2, <4>1 DEF Order, Chronicle
      <4> QED BY <1>11, <4>1, <4>2
    <3>2. CASE i <= g /\ ~(j <= g)
      <4>1. /\ generated'[i].tick \in Nat /\ generated'[i].tick < tickCounter_
            /\ generated'[j].tick = tickCounter_
        BY <1>7, <1>11, <1>12, <3>2
      <4> QED BY <1>7, <4>1
    <3>3. CASE ~(i <= g)
      <4>1. i - g \in DOMAIN new /\ j - g \in DOMAIN new /\ i - g < j - g /\ ~(j <= g)
        BY <1>7, <2>2, <3>3
      <4>2. new[i - g] # new[j - g]
        BY <1>5, <4>1 DEF Once
      <4> QED BY <1>7, <1>12, <3>3, <4>1, <4>2
    <3> QED BY <1>7, <2>2, <3>1, <3>2, <3>3
  <2> QED BY <1>4, <1>8, <2>1, <2>2 DEF Chronicle, Fresh
<1>14. Waiting'
  <2>1. ASSUME NEW i \in 1..q + n
        PROVE  eventQueue_'[i] = generated'[g + n - (q + n) + i]
    <3>1. g + n - (q + n) + i = g - q + i /\ g - q + i \in 1..g + n
      BY <1>7
    <3>2. CASE i <= q
      <4>1. g - q + i <= g /\ i \in 1..q
        BY <1>7, <3>2
      <4>2. eventQueue_[i] = generated[g - q + i]
        BY <1>7, <4>1 DEF Order, Waiting
      <4> QED BY <1>8, <1>9, <3>1, <3>2, <4>1, <4>2
    <3>3. CASE ~(i <= q)
      <4>1. ~(g - q + i <= g) /\ g - q + i - g = i - q
        BY <1>7, <3>3
      <4>2. generated'[g - q + i] = new[g - q + i - g]
        BY <1>8, <3>1, <4>1
      <4>3. generated'[g - q + i] = new[i - q] /\ eventQueue_'[i] = new[i - q]
        BY <1>9, <3>3, <4>1, <4>2
      <4> QED BY <3>1, <4>3
    <3> QED BY <3>2, <3>3
  <2>2. q + n <= g + n
    BY <1>7
  <2> QED BY <1>8, <1>9, <2>1, <2>2 DEF Waiting
<1>15. \A k \in 1..Sent : generated'[k] = generated[k]
  BY <1>7, <1>10, <1>11
<1>16. Reported'
  BY <1>4, <1>10, <1>15 DEF Order, Reported, Fresh
<1>17. Ordered'
  BY <1>4, <1>10, <1>15 DEF Order, Ordered
<1>18. Failing'
  BY <1>4 DEF Order, Failing
<1> QED BY <1>13, <1>14, <1>16, <1>17, <1>18 DEF Order

(* Order is inductive.                                                     *)
LEMMA OrderNext ==
  ASSUME TypeOK, Order, [Next]_vars
  PROVE  Order'
<1> USE DEF loopVars, matchVars, inputVars, linkVars
<1> DEFINE setup == [ch |-> "gf.setup"]
<1>m. /\ setup \in Message /\ setup.ch \notin {"gf.event", "gf.gamestate", "gf.tactical"}
  BY MessageTypes
<1>k. /\ main = "crash" => thrown
      /\ thrown => main \in {"crash", "finish", "stop", "join", "post", "exited"}
  BY DEF Order, Failing
<1>1. CASE SendMatchSetup
  <2>1. UNCHANGED <<generated, eventQueue_, sending, delivered>> /\ Publish(setup)
    BY <1>1 DEF SendMatchSetup, Publish
  <2>2. Forward /\ Failing'
    BY <1>1, <1>k DEF SendMatchSetup, Forward, Failing, Fresh
  <2> QED BY <1>m, <2>1, <2>2, OtherSteps
<1>2. CASE AnnounceReady
  <2>1. UNCHANGED <<generated, eventQueue_, sending, delivered>> /\ Publish([ch |-> "gf.ready"])
    BY <1>2 DEF AnnounceReady, Publish
  <2>2. Forward /\ Failing'
    BY <1>2, <1>k DEF AnnounceReady, Forward, Failing, Fresh
  <2> QED BY <2>1, <2>2, MessageTypes, OtherSteps
<1>3. CASE LoopHead \/ BeginTick \/ LockInputs \/ ApplyInput \/ UnlockInputs \/ StepThrows
  <2>1. UNCHANGED <<generated, eventQueue_, sending, delivered, channel>>
    BY <1>3 DEF LoopHead, BeginTick, LockInputs, ApplyInput, UnlockInputs, StepThrows
  <2>2. Forward
    BY <1>3 DEF LoopHead, BeginTick, LockInputs, ApplyInput, UnlockInputs, StepThrows,
                Forward, Fresh
  <2>3. Failing'
    BY <1>3, <1>k DEF LoopHead, BeginTick, LockInputs, ApplyInput, UnlockInputs, StepThrows,
                      Failing
  <2> QED BY <1>m, <2>1, <2>2, <2>3, OtherSteps
<1>4. CASE StepAndDetect
  BY <1>4, StepAndDetectStep
<1>5. CASE BroadcastState
  <2> DEFINE m == [ch |-> "gf.gamestate", tick |-> tickCounter_, score |-> score]
  <2>1. /\ UNCHANGED <<generated, eventQueue_, sending, delivered, tickCounter_>>
        /\ channel' = channel \/ Publish(m)
    BY <1>5 DEF BroadcastState, Publish
  <2>2. Forward /\ Failing' /\ main' \notin Fresh \cup {"state"}
    BY <1>5, <1>k DEF BroadcastState, Forward, Failing, Fresh
  <2>3. m \in Message /\ m.ch = "gf.gamestate" /\ m.tick = tickCounter_
    BY ReportTypes
  <2> HIDE DEF m
  <2> QED BY <2>1, <2>2, <2>3, OtherSteps
<1>6. CASE BroadcastEvent
  BY <1>6, BroadcastEventStep
<1>7. CASE ClearEvents
  BY <1>7, ClearEventsStep
<1>8. CASE BroadcastTactical
  <2> DEFINE m == [ch |-> "gf.tactical", tick |-> tickCounter_]
  <2>1. /\ UNCHANGED <<generated, eventQueue_, sending, delivered, tickCounter_>>
        /\ channel' = channel \/ Publish(m)
    BY <1>8 DEF BroadcastTactical, Publish
  <2>2. /\ Forward /\ Failing'
        /\ main' \notin Fresh \cup {"state", "events", "tactical"}
    BY <1>8, <1>k DEF BroadcastTactical, Forward, Failing, Fresh
  <2>3. m \in Message /\ m.ch = "gf.tactical" /\ m.tick = tickCounter_
    BY ReportTypes
  <2> HIDE DEF m
  <2> QED BY <2>1, <2>2, <2>3, OtherSteps
<1>9. CASE AnnounceCrash
  <2>1. UNCHANGED <<generated, eventQueue_, sending, delivered>> /\ Publish([ch |-> "gf.crashed"])
    BY <1>9 DEF AnnounceCrash, Publish
  <2>2. Forward /\ Failing'
    BY <1>9, <1>k DEF AnnounceCrash, Forward, Failing, Fresh
  <2> QED BY <2>1, <2>2, MessageTypes, OtherSteps
<1>10. CASE AnnounceFinished
  <2>1. UNCHANGED <<generated, eventQueue_, sending, delivered>> /\ Publish([ch |-> "gf.finished"])
    BY <1>10 DEF AnnounceFinished, Publish
  <2>2. Forward /\ Failing'
    BY <1>10, <1>k DEF AnnounceFinished, Forward, Failing, Fresh
  <2> QED BY <2>1, <2>2, MessageTypes, OtherSteps
<1>11. CASE Heartbeat \/ StopListener \/ JoinListener \/ PostMatchResult
  <2>1. UNCHANGED <<generated, eventQueue_, sending, delivered, channel>>
    BY <1>11 DEF Heartbeat, StopListener, JoinListener, PostMatchResult
  <2>2. Forward
    BY <1>11 DEF Heartbeat, StopListener, JoinListener, PostMatchResult, Forward, Fresh
  <2>3. Failing'
    BY <1>11, <1>k DEF Heartbeat, StopListener, JoinListener, PostMatchResult, Failing
  <2> QED BY <1>m, <2>1, <2>2, <2>3, OtherSteps
<1>12. CASE Listener \/ Signal \/ Terminated \/ UNCHANGED vars
  <2>1. UNCHANGED <<generated, eventQueue_, sending, delivered, channel, main, thrown, tickCounter_>>
    BY <1>12 DEF Listener, SubscribeNext, SubscribeIdles, ReceiveInput, ListenerStops,
                 Signal, Terminated, vars
  <2>2. Forward /\ Failing'
    BY <1>k, <2>1 DEF Forward, Failing
  <2> QED BY <1>m, <2>1, <2>2, OtherSteps
<1> QED BY <1>1, <1>2, <1>3, <1>4, <1>5, <1>6, <1>7, <1>8, <1>9, <1>10, <1>11, <1>12
        DEF Next, Main

(* Nothing has happened yet.                                               *)
LEMMA OrderInit == Init => Order
<1> SUFFICES ASSUME Init PROVE Order
  OBVIOUS
<1>1. /\ generated = <<>> /\ eventQueue_ = <<>> /\ channel = <<>> /\ delivered = <<>>
      /\ main = "setup" /\ thrown = FALSE
  BY DEF Init
<1>2. DOMAIN <<>> = {} /\ Len(<<>>) = 0
  BY EmptySeq
<1> QED BY <1>1, <1>2 DEF Order, Chronicle, Waiting, Reported, Ordered, Failing

(* Subscribers see the events in the order of their detection and never    *)
(* twice, whichever messages are lost.                                     *)
THEOREM EventsSeenInOrder == Spec => []EventsInOrderOnce
<1>1. TypeOK /\ Order /\ [Next]_vars => Order'
  BY OrderNext
<1>2. TypeOK /\ Order => EventsInOrderOnce
  <2> SUFFICES ASSUME TypeOK, Order PROVE EventsInOrderOnce
    OBVIOUS
  <2>1. /\ DOMAIN generated = 1..Len(generated) /\ Len(generated) \in Nat
        /\ Sent \in Nat /\ Sent <= Len(generated)
    BY Sizes DEF Order
  <2>2. ASSUME NEW i \in DOMAIN generated, NEW j \in DOMAIN generated, i # j
        PROVE  generated[i] # generated[j]
    <3>1. i < j \/ j < i
      BY <2>1, <2>2
    <3> QED BY <3>1 DEF Order, Chronicle
  <2>3. ASSUME NEW i \in DOMAIN delivered, NEW j \in DOMAIN delivered, i < j
        PROVE  \E k, l \in DOMAIN generated :
                 k < l /\ generated[k] = delivered[i] /\ generated[l] = delivered[j]
    <3>1. PICK k \in 1..Sent, l \in 1..Sent :
            k < l /\ generated[k] = delivered[i] /\ generated[l] = delivered[j]
      BY <2>3 DEF Order, Ordered
    <3> QED BY <2>1, <3>1
  <2> QED BY <2>2, <2>3 DEF EventsInOrderOnce
<1> QED BY <1>1, <1>2, OrderInit, TypeCorrect, PTL DEF Spec

-----------------------------------------------------------------------------
(* GameServer implements MatchFeed.                                        *)

(* A message that Redis accepts is what the feed says.                     *)
LEMMA Speaks ==
  ASSUME LinkTypes, NEW m \in Message, channel' = Append(channel, m)
  PROVE  /\ Feed!Latest = m /\ Feed!Says(m)
         /\ \A kinds : m.ch \in kinds => Feed!Accepts(kinds)
<1>1. channel \in Seq(Message)
  BY DEF LinkTypes
<1>2. Len(channel') = Len(channel) + 1 /\ channel'[Len(channel) + 1] = m
  BY <1>1, AppendProperties
<1>3. channel' # <<>>
  BY <1>1, <1>2, EmptySeq, LenProperties
<1> QED BY <1>2, <1>3 DEF Feed!Latest, Feed!Says, Feed!Accepts

(* The feed stays as it is when nothing is published and the stage too.    *)
LEMMA SameStage ==
  ASSUME channel' = channel, Stage' = Stage
  PROVE  [Feed!Next]_<<channel, Stage>>
  OBVIOUS

(* A report while the match is live.                                       *)
LEMMA Reports ==
  ASSUME TypeOK, NEW m \in Message, m.ch \in Feed!Reports,
         Publish(m) \/ channel' = channel,
         Stage = "live", Stage' = "live",
         \A i \in DOMAIN channel : channel[i].ch = m.ch =>
           /\ channel[i] # m
           /\ Feed!Stamp(channel[i]) <= Feed!Stamp(m)
           /\ m.ch # "gf.event" => Feed!Stamp(channel[i]) < Feed!Stamp(m)
  PROVE  [Feed!Next]_<<channel, Stage>>
<1>1. CASE channel' = channel
  BY <1>1, SameStage
<1>2. CASE channel' = Append(channel, m)
  <2>1. Feed!Accepts(Feed!Reports) /\ Feed!Latest = m
    BY <1>2, Speaks DEF TypeOK
  <2>2. Feed!Report
    BY <2>1 DEF Feed!Report, Feed!Follows
  <2> QED BY <2>2 DEF Feed!Next
<1> QED BY <1>1, <1>2 DEF Publish

(* Every step of the server is one of the feed's or leaves it alone.       *)
LEMMA FeedStep ==
  ASSUME TypeOK, FeedInv, Order, [Next]_vars
  PROVE  [Feed!Next]_<<channel, Stage>>
<1> USE DEF loopVars, matchVars, inputVars, linkVars
<1>k. /\ main = "crash" => thrown
      /\ thrown => main \in {"crash", "finish", "stop", "join", "post", "exited"}
  BY DEF Order, Failing
<1>1. CASE SendMatchSetup
  <2>1. /\ main = "setup" /\ main' = "ready" /\ Publish([ch |-> "gf.setup"])
    BY <1>1 DEF SendMatchSetup
  <2>2. Stage = "opening" /\ Stage' = "opening"
    BY <2>1 DEF Stage
  <2>3. CASE channel' = channel
    BY <2>2, <2>3, SameStage
  <2>4. CASE channel' = Append(channel, [ch |-> "gf.setup"])
    <3>1. Feed!Accepts({"gf.setup", "gf.ready"})
      BY <2>4, Speaks, MessageTypes DEF TypeOK
    <3>2. DOMAIN channel = {}
      BY <2>1, EmptySeq DEF FeedInv
    <3> QED BY <2>2, <3>1, <3>2 DEF Feed!Next, Feed!Open, Feed!Opening
  <2> QED BY <2>1, <2>3, <2>4 DEF Publish
<1>2. CASE AnnounceReady
  <2>1. /\ main = "ready" /\ main' = "loop" /\ Publish([ch |-> "gf.ready"])
    BY <1>2 DEF AnnounceReady
  <2>2. Stage = "opening" /\ Stage' = "live"
    BY <2>1 DEF Stage
  <2>3. CASE channel' = channel
    BY <2>2, <2>3 DEF Feed!Next, Feed!Open, Feed!Silent
  <2>4. CASE channel' = Append(channel, [ch |-> "gf.ready"])
    <3>1. Feed!Accepts({"gf.setup", "gf.ready"}) /\ Feed!Latest = [ch |-> "gf.ready"]
      BY <2>4, Speaks, MessageTypes DEF TypeOK
    <3>2. \A i \in DOMAIN channel : channel[i].ch = "gf.setup"
      BY <2>1 DEF FeedInv
    <3> QED BY <2>2, <3>1, <3>2 DEF Feed!Next, Feed!Open, Feed!Opening
  <2> QED BY <2>1, <2>3, <2>4 DEF Publish
<1>3. CASE LoopHead \/ BeginTick \/ LockInputs \/ ApplyInput \/ UnlockInputs
           \/ StepAndDetect \/ StepThrows
  <2>1. channel' = channel
    BY <1>3 DEF LoopHead, BeginTick, LockInputs, ApplyInput, UnlockInputs, StepAndDetect,
                StepThrows
  <2>2. /\ ~thrown
        /\ main \notin {"setup", "ready", "stop", "join", "post", "exited"}
        /\ main' \notin {"setup", "ready", "stop", "join", "post", "exited"}
        /\ main' = "finish" => ~thrown'
    BY <1>3, <1>k DEF LoopHead, BeginTick, LockInputs, ApplyInput, UnlockInputs,
                      StepAndDetect, StepThrows
  <2>3. Stage = "live" /\ Stage' = "live"
    BY <2>2 DEF Stage
  <2> QED BY <2>1, <2>3, SameStage
<1>4. CASE BroadcastState
  <2> DEFINE m == [ch |-> "gf.gamestate", tick |-> tickCounter_, score |-> score]
  <2>1. /\ main = "state" /\ main' \in {"events", "tactical"} /\ thrown' = thrown
        /\ channel' = channel \/ Publish(m)
    BY <1>4 DEF BroadcastState
  <2>2. Stage = "live" /\ Stage' = "live"
    BY <2>1 DEF Stage
  <2>3. m \in Message /\ m.ch = "gf.gamestate" /\ m.tick = tickCounter_
    BY ReportTypes
  <2> HIDE DEF m
  <2>4. \A i \in DOMAIN channel : channel[i].ch = "gf.gamestate" =>
          /\ channel[i].tick \in Nat /\ tickCounter_ \in Nat
          /\ channel[i].tick < tickCounter_
    BY <2>1, Stamps DEF Order, Reported
  <2>5. \A i \in DOMAIN channel : channel[i].ch = m.ch =>
          /\ channel[i] # m /\ Feed!Stamp(channel[i]) <= Feed!Stamp(m)
          /\ Feed!Stamp(channel[i]) < Feed!Stamp(m)
    BY <2>3, <2>4 DEF Feed!Stamp
  <2> QED BY <2>1, <2>2, <2>3, <2>5, Reports DEF Feed!Reports
<1>5. CASE BroadcastEvent
  <2> DEFINE e == eventQueue_[sending + 1]
             m == [ch |-> "gf.event", ev |-> e]
  <2>1. /\ main = "events" /\ main' = "events" /\ thrown' = thrown
        /\ sending < Len(eventQueue_) /\ Publish(m)
    BY <1>5 DEF BroadcastEvent
  <2>2. Stage = "live" /\ Stage' = "live"
    BY <2>1 DEF Stage
  <2>3. m \in Message /\ m.ch = "gf.event" /\ m.ev = e
    BY <2>1, ReportTypes
  <2>4. /\ Sent \in Nat /\ Sent + 1 \in DOMAIN generated /\ e = generated[Sent + 1]
        /\ 1..Sent \subseteq DOMAIN generated
    BY <2>1, Sizes DEF Order
  <2> HIDE DEF m, e
  <2>5. ASSUME NEW i \in DOMAIN channel, channel[i].ch = m.ch
        PROVE  /\ channel[i] # m
               /\ Feed!Stamp(channel[i]) <= Feed!Stamp(m)
    <3>1. PICK k \in 1..Sent : generated[k] = channel[i].ev
      BY <2>3, <2>5 DEF Order, Reported
    <3>2. k \in DOMAIN generated /\ k < Sent + 1
      BY <2>4
    <3>3. generated[k] # e /\ generated[k].tick <= e.tick
      BY <2>4, <3>2 DEF Order, Chronicle
    <3> QED BY <2>3, <2>5, <3>1, <3>3 DEF Feed!Stamp
  <2> QED BY <2>1, <2>2, <2>3, <2>5, Reports DEF Feed!Reports
<1>6. CASE BroadcastTactical
  <2> DEFINE m == [ch |-> "gf.tactical", tick |-> tickCounter_]
  <2>1. /\ main = "tactical" /\ main' = "heartbeat" /\ thrown' = thrown
        /\ channel' = channel \/ Publish(m)
    BY <1>6 DEF BroadcastTactical
  <2>2. Stage = "live" /\ Stage' = "live"
    BY <2>1 DEF Stage
  <2>3. m \in Message /\ m.ch = "gf.tactical" /\ m.tick = tickCounter_
    BY ReportTypes
  <2> HIDE DEF m
  <2>4. \A i \in DOMAIN channel : channel[i].ch = "gf.tactical" =>
          /\ channel[i].tick \in Nat /\ tickCounter_ \in Nat
          /\ channel[i].tick < tickCounter_
    BY <2>1, Stamps DEF Order, Reported
  <2>5. \A i \in DOMAIN channel : channel[i].ch = m.ch =>
          /\ channel[i] # m /\ Feed!Stamp(channel[i]) <= Feed!Stamp(m)
          /\ Feed!Stamp(channel[i]) < Feed!Stamp(m)
    BY <2>3, <2>4 DEF Feed!Stamp
  <2> QED BY <2>1, <2>2, <2>3, <2>5, Reports DEF Feed!Reports
<1>7. CASE ClearEvents \/ Heartbeat
  <2>1. /\ main \in {"events", "heartbeat"} /\ main' \in {"tactical", "loop"}
        /\ channel' = channel
    BY <1>7 DEF ClearEvents, Heartbeat
  <2>2. Stage = "live" /\ Stage' = "live"
    BY <2>1 DEF Stage
  <2> QED BY <2>1, <2>2, SameStage
<1>8. CASE AnnounceCrash
  <2>1. /\ main = "crash" /\ main' = "finish" /\ thrown' /\ Publish([ch |-> "gf.crashed"])
    BY <1>8, <1>k DEF AnnounceCrash
  <2>2. Stage = "live" /\ Stage' = "failed"
    BY <2>1 DEF Stage
  <2>3. CASE channel' = channel
    BY <2>2, <2>3 DEF Feed!Next, Feed!Fail, Feed!Silent
  <2>4. CASE channel' = Append(channel, [ch |-> "gf.crashed"])
    <3>1. Feed!Accepts({"gf.crashed"})
      BY <2>4, Speaks, MessageTypes DEF TypeOK
    <3> QED BY <2>2, <3>1 DEF Feed!Next, Feed!Fail
  <2> QED BY <2>1, <2>3, <2>4 DEF Publish
<1>9. CASE AnnounceFinished
  <2>1. /\ main = "finish" /\ main' = "stop" /\ Publish([ch |-> "gf.finished"])
    BY <1>9 DEF AnnounceFinished
  <2>2. Stage \in {"live", "failed"} /\ Stage' = "closed"
    BY <2>1 DEF Stage
  <2>3. CASE channel' = channel
    BY <2>2, <2>3 DEF Feed!Next, Feed!Close, Feed!Silent
  <2>4. CASE channel' = Append(channel, [ch |-> "gf.finished"])
    <3>1. Feed!Accepts({"gf.finished"})
      BY <2>4, Speaks, MessageTypes DEF TypeOK
    <3> QED BY <2>2, <3>1 DEF Feed!Next, Feed!Close
  <2> QED BY <2>1, <2>3, <2>4 DEF Publish
<1>10. CASE StopListener \/ JoinListener \/ PostMatchResult
  <2>1. /\ main \in {"stop", "join", "post"} /\ main' \in {"join", "post", "exited"}
        /\ channel' = channel
    BY <1>10 DEF StopListener, JoinListener, PostMatchResult
  <2>2. Stage = "closed" /\ Stage' = "closed"
    BY <2>1 DEF Stage
  <2> QED BY <2>1, <2>2, SameStage
<1>11. CASE Listener \/ Signal \/ Terminated \/ UNCHANGED vars
  <2>1. UNCHANGED <<channel, main, thrown>>
    BY <1>11 DEF Listener, SubscribeNext, SubscribeIdles, ReceiveInput, ListenerStops,
                 Signal, Terminated, vars
  <2> QED BY <2>1, SameStage DEF Stage
<1> QED BY <1>1, <1>2, <1>3, <1>4, <1>5, <1>6, <1>7, <1>8, <1>9, <1>10, <1>11 DEF Next, Main

(* What a subscriber sees of a room is what MatchFeed promises: the server *)
(* implements it, whichever messages are lost and whenever it is stopped.  *)
THEOREM ImplementsFeed == Spec => FeedSpec
<1>1. Init => Feed!Init /\ FeedInv
  BY DEF Init, Feed!Init, Stage, FeedInv, FeedIsWellFormed, Closed
<1>2. TypeOK /\ FeedInv /\ [Next]_vars => FeedInv'
  BY FeedInvNext
<1>3. TypeOK /\ Order /\ [Next]_vars => Order'
  BY OrderNext
<1>4. TypeOK /\ FeedInv /\ Order /\ [Next]_vars => [Feed!Next]_<<channel, Stage>>
  BY FeedStep
<1> QED BY <1>1, <1>2, <1>3, <1>4, OrderInit, TypeCorrect, PTL DEF Spec, FeedSpec, Feed!Spec

-----------------------------------------------------------------------------
(* GameServer implements RoomServer.                                       *)

(* The messages of the room, by what they say about its life.              *)
Said == [i \in DOMAIN channel |-> Word(channel[i].ch)]

(* What Redis accepts of a publish is said.                                *)
LEMMA PublishSays ==
  ASSUME LinkTypes, NEW m \in Message, Publish(m)
  PROVE  Said' \in {Said, Append(Said, Word(m.ch))}
<1>1. CASE channel' = channel
  BY <1>1 DEF Said
<1>2. CASE channel' = Append(channel, m)
  <2> DEFINE n == Len(channel)
             S == {Word(channel[i].ch) : i \in DOMAIN channel}
             T == S \cup {Word(m.ch)}
             longer == Append(Said, Word(m.ch))
  <2>1. /\ n \in Nat /\ DOMAIN channel = 1..n /\ DOMAIN channel' = 1..(n + 1)
        /\ channel'[n + 1] = m /\ \A i \in 1..n : channel'[i] = channel[i]
    BY <1>2, AppendProperties, LenProperties DEF LinkTypes
  <2>2. Said \in [1..n -> S]
    BY <2>1 DEF Said
  <2> HIDE DEF n, S
  <2>3. Said \in [1..n -> T] /\ Word(m.ch) \in T
    BY <2>2
  <2> HIDE DEF T
  <2>4. Said \in Seq(T) /\ Len(Said) = n
    BY <2>1, <2>3
  <2>5. /\ longer \in Seq(T) /\ Len(longer) = n + 1 /\ longer[n + 1] = Word(m.ch)
        /\ \A i \in 1..n : longer[i] = Said[i]
    BY <2>3, <2>4, AppendProperties
  <2> HIDE DEF longer
  <2>6. longer = [i \in 1..(n + 1) |-> longer[i]]
    BY <2>5, LenProperties
  <2>7. ASSUME NEW i \in 1..(n + 1)
        PROVE  longer[i] = Word(channel'[i].ch)
    <3>1. CASE i = n + 1
      BY <2>1, <2>5, <3>1
    <3>2. CASE i # n + 1
      <4>1. i \in 1..n
        BY <2>1, <3>2
      <4>2. Said[i] = Word(channel[i].ch) /\ channel'[i] = channel[i]
        BY <2>1, <4>1 DEF Said
      <4> QED BY <2>5, <4>1, <4>2
    <3> QED BY <3>1, <3>2
  <2>8. Said' = [i \in 1..(n + 1) |-> Word(channel'[i].ch)]
    BY <2>1 DEF Said
  <2>9. Said' = longer
    BY <2>6, <2>7, <2>8
  <2> QED BY <2>9 DEF longer
<1> QED BY <1>1, <1>2 DEF Publish

(* Every step of the server is one of a RoomServer's.                      *)
LEMMA LifeStep ==
  ASSUME TypeOK, Order, [Next]_vars
  PROVE  [Life!Next]_<<ServerState, Said>>
<1> USE DEF loopVars, matchVars, inputVars, linkVars
<1>k. /\ main = "crash" => thrown
      /\ thrown => main \in {"crash", "finish", "stop", "join", "post", "exited"}
  BY DEF Order, Failing
<1>1. CASE SendMatchSetup
  <2>1. main = "setup" /\ main' = "ready" /\ Publish([ch |-> "gf.setup"])
    BY <1>1 DEF SendMatchSetup
  <2>2. Said' \in {Said, Append(Said, "setup")}
    BY <2>1, PublishSays, MessageTypes DEF TypeOK, Word
  <2> QED BY <2>1, <2>2 DEF Said, ServerState, Life!Next, Life!SetsUp, Life!Says
<1>2. CASE AnnounceReady
  <2>1. main = "ready" /\ main' = "loop" /\ Publish([ch |-> "gf.ready"])
    BY <1>2 DEF AnnounceReady
  <2>2. Said' \in {Said, Append(Said, "ready")}
    BY <2>1, PublishSays, MessageTypes DEF TypeOK, Word
  <2> QED BY <2>1, <2>2 DEF Said, ServerState, Life!Next, Life!Ready, Life!Says, Life!Moves
<1>3. CASE LoopHead \/ BeginTick \/ LockInputs \/ ApplyInput \/ UnlockInputs
  <2>1. /\ main \in {"loop", "tick", "lock", "drain"} /\ ~thrown /\ ~thrown'
        /\ main' \in {"tick", "finish", "lock", "drain", "step"} /\ channel' = channel
    BY <1>3, <1>k DEF LoopHead, BeginTick, LockInputs, ApplyInput, UnlockInputs
  <2> QED BY <2>1 DEF Said, ServerState
<1>4. CASE StepAndDetect \/ StepThrows \/ ClearEvents \/ Heartbeat
  <2>1. /\ main \in {"step", "events", "heartbeat"}
        /\ main' \in {"state", "crash", "tactical", "loop"} /\ channel' = channel
    BY <1>4 DEF StepAndDetect, StepThrows, ClearEvents, Heartbeat
  <2> QED BY <2>1 DEF Said, ServerState
<1>5. CASE BroadcastState \/ BroadcastEvent \/ BroadcastTactical
  <2>1. /\ main \in {"state", "events", "tactical"}
        /\ main' \in {"events", "tactical", "heartbeat"}
        /\ \/ channel' = channel
           \/ Publish([ch |-> "gf.gamestate", tick |-> tickCounter_, score |-> score])
           \/ Publish([ch |-> "gf.event", ev |-> eventQueue_[sending + 1]])
              /\ sending < Len(eventQueue_)
           \/ Publish([ch |-> "gf.tactical", tick |-> tickCounter_])
    BY <1>5 DEF BroadcastState, BroadcastEvent, BroadcastTactical
  <2>2. \/ channel' = channel
        \/ \E m \in Message : Publish(m) /\ Word(m.ch) = "report"
    BY <2>1, ReportTypes DEF Word
  <2>3. Said' \in {Said, Append(Said, "report")}
    BY <2>2, PublishSays DEF TypeOK, Said
  <2> QED BY <2>1, <2>3 DEF Said, ServerState, Life!Next, Life!Reports, Life!Says
<1>6. CASE AnnounceCrash
  <2>1. main = "crash" /\ main' = "finish" /\ thrown' /\ Publish([ch |-> "gf.crashed"])
    BY <1>6, <1>k DEF AnnounceCrash
  <2>2. Said' \in {Said, Append(Said, "crashed")}
    BY <2>1, PublishSays, MessageTypes DEF TypeOK, Word
  <2> QED BY <2>1, <2>2 DEF Said, ServerState, Life!Next, Life!Throws, Life!Says, Life!Moves
<1>7. CASE AnnounceFinished
  <2>1. main = "finish" /\ main' = "stop" /\ Publish([ch |-> "gf.finished"])
    BY <1>7 DEF AnnounceFinished
  <2>2. Said' \in {Said, Append(Said, "finished")}
    BY <2>1, PublishSays, MessageTypes DEF TypeOK, Word
  <2> QED BY <2>1, <2>2 DEF Said, ServerState, Life!Next, Life!Finishes, Life!Says, Life!Moves
<1>8. CASE StopListener \/ JoinListener
  <2>1. main \in {"stop", "join"} /\ main' \in {"join", "post"} /\ channel' = channel
    BY <1>8 DEF StopListener, JoinListener
  <2> QED BY <2>1 DEF Said, ServerState
<1>9. CASE PostMatchResult
  <2>1. main = "post" /\ main' = "exited" /\ channel' = channel
    BY <1>9 DEF PostMatchResult
  <2> QED BY <2>1 DEF Said, ServerState, Life!Next, Life!Exits, Life!Moves, Life!Silent
<1>10. CASE Listener \/ Signal \/ Terminated \/ UNCHANGED vars
  <2>1. UNCHANGED <<channel, main, thrown>>
    BY <1>10 DEF Listener, SubscribeNext, SubscribeIdles, ReceiveInput, ListenerStops,
                 Signal, Terminated, vars
  <2> QED BY <2>1 DEF Said, ServerState
<1> QED BY <1>1, <1>2, <1>3, <1>4, <1>5, <1>6, <1>7, <1>8, <1>9, <1>10 DEF Next, Main

(* A gf_server is what the worker takes it to be: it says "ready" once and *)
(* before all reports of the match, "crashed" when the engine throws,      *)
(* "finished" at the end of either, and exits only after that.             *)
THEOREM ImplementsServer == Spec => ServerLife
<1>1. Init => Life!Init
  BY DEF Init, Life!Init, ServerState
<1>2. TypeOK /\ Order /\ [Next]_vars => Order'
  BY OrderNext
<1>3. TypeOK /\ Order /\ [Next]_vars
        => [Life!Next]_<<ServerState, [i \in DOMAIN channel |-> Word(channel[i].ch)]>>
  BY LifeStep DEF Said
<1> QED BY <1>1, <1>2, <1>3, OrderInit, TypeCorrect, PTL DEF Spec, ServerLife, Life!Alone

-----------------------------------------------------------------------------
(* Counting the events of a kind.                                          *)

Tally(s, S) == Cardinality({i \in DOMAIN s : s[i] \in S})

(* Two sets of which one numbers the other have the same size.             *)
LEMMA SameSize ==
  ASSUME NEW S, NEW T, IsFiniteSet(S), NEW f \in [S -> T],
         \A x, y \in S : f[x] = f[y] => x = y,
         \A y \in T : \E x \in S : f[x] = y
  PROVE  IsFiniteSet(T) /\ Cardinality(T) = Cardinality(S)
<1>1. f \in Injection(S, T)
  BY DEF Injection, IsInjective
<1>2. f \in Surjection(S, T)
  BY DEF Surjection
<1>3. f \in Bijection(S, T)
  BY <1>1, <1>2 DEF Bijection
<1> QED BY <1>3, FS_Bijection DEF ExistsBijection

(* A tally is a number, and zero of what does not occur.                   *)
LEMMA TallyType ==
  ASSUME NEW A, NEW s \in Seq(A), NEW S
  PROVE  /\ IsFiniteSet({i \in DOMAIN s : s[i] \in S}) /\ Tally(s, S) \in Nat
         /\ (\A i \in DOMAIN s : s[i] \notin S) <=> Tally(s, S) = 0
<1> DEFINE I == {i \in DOMAIN s : s[i] \in S}
<1>1. DOMAIN s = 1..Len(s) /\ Len(s) \in Nat
  BY LenProperties
<1>2. IsFiniteSet(DOMAIN s)
  BY <1>1, FS_Interval
<1>3. IsFiniteSet(I) /\ Cardinality(I) \in Nat
  BY <1>2, FS_Subset, FS_CardinalityType
<1>4. (\A i \in DOMAIN s : s[i] \notin S) <=> I = {}
  OBVIOUS
<1> HIDE DEF I
<1>5. I = {} <=> Cardinality(I) = 0
  BY <1>3, FS_EmptySet
<1> QED BY <1>3, <1>4, <1>5 DEF Tally, I

(* The tally of two sequences one after the other.                         *)
LEMMA TallyConcat ==
  ASSUME NEW A, NEW s \in Seq(A), NEW t \in Seq(A), NEW S
  PROVE  Tally(s \o t, S) = Tally(s, S) + Tally(t, S)
<1> DEFINE m == Len(s)
           n == Len(t)
           I == {i \in DOMAIN s : s[i] \in S}
           J == {j \in DOMAIN t : t[j] \in S}
           K == {k \in DOMAIN (s \o t) : (s \o t)[k] \in S}
           L == {k \in (m + 1)..(m + n) : t[k - m] \in S}
<1>1. /\ s \o t \in Seq(A) /\ m \in Nat /\ n \in Nat
      /\ DOMAIN s = 1..m /\ DOMAIN t = 1..n /\ DOMAIN (s \o t) = 1..(m + n)
      /\ \A k \in 1..(m + n) : (s \o t)[k] = IF k <= m THEN s[k] ELSE t[k - m]
  BY ConcatProperties, LenProperties
<1> HIDE DEF m, n
<1>2. IsFiniteSet(I) /\ IsFiniteSet(J)
  BY TallyType
<1>3. K = I \cup L /\ I \cap L = {}
  <2>1. ASSUME NEW k \in K PROVE k \in I \cup L
    <3>1. CASE k <= m
      <4>1. k \in 1..m /\ (s \o t)[k] = s[k]
        BY <1>1, <3>1
      <4> QED BY <1>1, <4>1
    <3>2. CASE ~(k <= m)
      <4>1. k \in (m + 1)..(m + n) /\ (s \o t)[k] = t[k - m]
        BY <1>1, <3>2
      <4> QED BY <4>1
    <3> QED BY <3>1, <3>2
  <2>2. ASSUME NEW k \in I PROVE k \in K /\ k \notin L
    <3>1. k \in 1..(m + n) /\ k <= m /\ (s \o t)[k] = s[k] /\ k \notin (m + 1)..(m + n)
      BY <1>1
    <3> QED BY <1>1, <3>1
  <2>3. ASSUME NEW k \in L PROVE k \in K
    <3>1. k \in 1..(m + n) /\ ~(k <= m)
      BY <1>1
    <3> QED BY <1>1, <3>1
  <2> HIDE DEF I, K, L
  <2> QED BY <2>1, <2>2, <2>3
<1>4. IsFiniteSet(L) /\ Cardinality(L) = Cardinality(J)
  <2> DEFINE f == [j \in J |-> j + m]
  <2>1. \A j \in J : j \in 1..n
    BY <1>1
  <2>2. ASSUME NEW j \in J PROVE j + m \in L
    <3>1. j + m \in (m + 1)..(m + n) /\ (j + m) - m = j
      BY <1>1, <2>1
    <3>2. t[(j + m) - m] \in S
      BY <3>1
    <3> QED BY <3>1, <3>2
  <2>3. ASSUME NEW k \in L PROVE k - m \in J /\ k - m + m = k
    BY <1>1
  <2> HIDE DEF J, L
  <2>4. f \in [J -> L]
    BY <2>2
  <2>5. \A x, y \in J : f[x] = f[y] => x = y
    BY <1>1, <2>1
  <2>6. \A y \in L : \E x \in J : f[x] = y
    BY <2>3
  <2> HIDE DEF f
  <2> QED BY <1>2, <2>4, <2>5, <2>6, SameSize
<1> HIDE DEF I, J, K, L
<1>5. Cardinality(K) = Cardinality(I) + Cardinality(L)
  <2>1. Cardinality(I \cap L) = 0
    BY <1>3, FS_EmptySet
  <2>2. Cardinality(I) \in Nat /\ Cardinality(L) \in Nat
    BY <1>2, <1>4, FS_CardinalityType
  <2>3. Cardinality(I \cup L) = Cardinality(I) + Cardinality(L) - Cardinality(I \cap L)
    BY <1>2, <1>4, FS_Union
  <2> QED BY <1>3, <2>1, <2>2, <2>3
<1> QED BY <1>4, <1>5 DEF Tally, I, J, K

(* The tally of one event that is queued if a condition holds.             *)
LEMMA TallyWhen ==
  ASSUME NEW S, NEW cond, NEW e
  PROVE  Tally(When(cond, e), S) = IF cond /\ e \in S THEN 1 ELSE 0
<1>1. CASE cond
  <2>1. When(cond, e) = <<e>> /\ DOMAIN <<e>> = {1} /\ <<e>>[1] = e
    BY <1>1 DEF When
  <2>2. {i \in DOMAIN <<e>> : <<e>>[i] \in S} = IF e \in S THEN {1} ELSE {}
    BY <2>1
  <2>3. Tally(<<e>>, S) = Cardinality(IF e \in S THEN {1} ELSE {})
    BY <2>2 DEF Tally
  <2>4. Cardinality({}) = 0 /\ Cardinality({1}) = 1
    BY FS_EmptySet, FS_Singleton
  <2>5. CASE e \in S
    BY <1>1, <2>1, <2>3, <2>4, <2>5
  <2>6. CASE e \notin S
    BY <1>1, <2>1, <2>3, <2>4, <2>6
  <2> QED BY <2>5, <2>6
<1>2. CASE ~cond
  <2>1. When(cond, e) = <<>> /\ {i \in DOMAIN <<>> : <<>>[i] \in S} = {}
    BY <1>2, EmptySeq DEF When
  <2> QED BY <1>2, <2>1, FS_EmptySet DEF Tally
<1> QED BY <1>1, <1>2

(* A tally over all of a finite set in an order of its own.                *)
LEMMA TallyOfOrder ==
  ASSUME NEW C, IsFiniteSet(C), NEW s \in [1..Cardinality(C) -> C],
         \A i, j \in DOMAIN s : s[i] = s[j] => i = j, NEW S
  PROVE  Tally(s, S) = Cardinality(C \cap S)
<1> DEFINE N == Cardinality(C)
           I == {i \in DOMAIN s : s[i] \in S}
           f == [i \in I |-> s[i]]
<1>1. N \in Nat /\ IsFiniteSet(1..N) /\ Cardinality(1..N) = N /\ DOMAIN s = 1..N
  BY FS_CardinalityType, FS_Interval
<1>2. s \in Injection(1..N, C)
  BY <1>1 DEF Injection, IsInjective
<1> HIDE DEF N
<1>3. s \in Surjection(1..N, C)
  BY <1>1, <1>2, FS_Injection DEF N
<1>4. \A c \in C : \E i \in 1..N : s[i] = c
  BY <1>3 DEF Surjection
<1>5. IsFiniteSet(I)
  BY <1>1, FS_Subset
<1>6. \A i \in I : i \in 1..N /\ s[i] \in C \cap S
  BY <1>1 DEF N
<1>7. \A c \in C \cap S : \E i \in I : s[i] = c
  BY <1>1, <1>4
<1> HIDE DEF I
<1>8. /\ f \in [I -> C \cap S]
      /\ \A x, y \in I : f[x] = f[y] => x = y
      /\ \A y \in C \cap S : \E x \in I : f[x] = y
  BY <1>1, <1>6, <1>7
<1> HIDE DEF f
<1> QED BY <1>5, <1>8, SameSize DEF Tally, I

-----------------------------------------------------------------------------
(* What one tick adds to the tallies.                                      *)

OfTeam(type, t) == {e \in Event : e.type = type /\ e.team = t}
OfPlayer(type, p) == {e \in Event : e.type = type /\ e.who = p}

(* A tally of one event, if its condition holds.                           *)
LEMMA TallyOne ==
  ASSUME MatchTypes, NEW info \in Engine, NEW type, NEW team \in Teams, NEW cond,
         cond => type \in EventTypes, NEW S
  PROVE  /\ When(cond, Mk(type, team, 0, info)) \in Seq(Event)
         /\ Tally(When(cond, Mk(type, team, 0, info)), S) =
              IF cond /\ Mk(type, team, 0, info) \in S THEN 1 ELSE 0
<1>1. When(cond, Mk(type, team, 0, info)) \in Seq(Now({type}, {team}))
  BY WhenOnce
<1>2. Now({type}, {team}) \subseteq Event
  BY DEF Now
<1> QED BY <1>1, <1>2, SeqMonotonic, TallyWhen

(* Goals are tallied with the scores that rise, cards not at all.          *)
LEMMA TallyOther ==
  ASSUME MatchTypes, NEW info \in Engine
  PROVE  /\ \A t \in Teams : Tally(OtherEvents(info), OfTeam("goal", t)) =
                               IF Scored(info, t) THEN 1 ELSE 0
         /\ \A S : (\A e \in S : e.type \in {"yellow_card", "red_card"}) =>
                     Tally(OtherEvents(info), S) = 0
<1> DEFINE Piece == info.mode # lastGameMode_ /\ info.mode # "normal"
           goal0 == When(Scored(info, 0), Mk("goal", 0, 0, info))
           goal1 == When(Scored(info, 1), Mk("goal", 1, 0, info))
           piece == When(Piece, Mk(info.mode, 0, 0, info))
           half == When(HalfTimeReached, Mk("half_time", 0, 0, info))
           full == When(FullTimeReached, Mk("end_match", 0, 0, info))
           One(c, e, S) == IF c /\ e \in S THEN 1 ELSE 0
<1>a. 0 \in Teams /\ 1 \in Teams
  BY DEF Teams
<1>b. Piece => info.mode \in SetPieces
  BY DEF Engine, Modes
<1>c. {"goal", "half_time", "end_match"} \cup SetPieces \subseteq EventTypes
  BY DEF EventTypes
<1>1. ASSUME NEW S
      PROVE  /\ goal0 \in Seq(Event) /\ goal1 \in Seq(Event) /\ piece \in Seq(Event)
             /\ half \in Seq(Event) /\ full \in Seq(Event)
             /\ Tally(goal0, S) = One(Scored(info, 0), Mk("goal", 0, 0, info), S)
             /\ Tally(goal1, S) = One(Scored(info, 1), Mk("goal", 1, 0, info), S)
             /\ Tally(piece, S) = One(Piece, Mk(info.mode, 0, 0, info), S)
             /\ Tally(half, S) = One(HalfTimeReached, Mk("half_time", 0, 0, info), S)
             /\ Tally(full, S) = One(FullTimeReached, Mk("end_match", 0, 0, info), S)
  <2>1. goal0 \in Seq(Event) /\ Tally(goal0, S) = One(Scored(info, 0), Mk("goal", 0, 0, info), S)
    BY <1>a, <1>c, TallyOne
  <2>2. goal1 \in Seq(Event) /\ Tally(goal1, S) = One(Scored(info, 1), Mk("goal", 1, 0, info), S)
    BY <1>a, <1>c, TallyOne
  <2>3. piece \in Seq(Event) /\ Tally(piece, S) = One(Piece, Mk(info.mode, 0, 0, info), S)
    <3> HIDE DEF Piece
    <3> QED BY <1>a, <1>b, <1>c, TallyOne
  <2>4. half \in Seq(Event) /\ Tally(half, S) = One(HalfTimeReached, Mk("half_time", 0, 0, info), S)
    BY <1>a, <1>c, TallyOne
  <2>5. full \in Seq(Event) /\ Tally(full, S) = One(FullTimeReached, Mk("end_match", 0, 0, info), S)
    BY <1>a, <1>c, TallyOne
  <2> HIDE DEF goal0, goal1, piece, half, full, One, Piece
  <2> QED BY <2>1, <2>2, <2>3, <2>4, <2>5
<1>2. OtherEvents(info) = (((goal0 \o goal1) \o piece) \o half) \o full
  BY DEF OtherEvents
<1> HIDE DEF goal0, goal1, piece, half, full, One
<1>3. ASSUME NEW S
      PROVE  Tally(OtherEvents(info), S) =
               Tally(goal0, S) + Tally(goal1, S) + Tally(piece, S) + Tally(half, S) + Tally(full, S)
  <2> DEFINE two == goal0 \o goal1
             three == two \o piece
             four == three \o half
  <2>1. two \in Seq(Event) /\ Tally(two, S) = Tally(goal0, S) + Tally(goal1, S)
    BY <1>1, ConcatProperties, TallyConcat
  <2> HIDE DEF two
  <2>2. three \in Seq(Event) /\ Tally(three, S) = Tally(two, S) + Tally(piece, S)
    BY <1>1, <2>1, ConcatProperties, TallyConcat
  <2> HIDE DEF three
  <2>3. four \in Seq(Event) /\ Tally(four, S) = Tally(three, S) + Tally(half, S)
    BY <1>1, <2>2, ConcatProperties, TallyConcat
  <2> HIDE DEF four
  <2>4. Tally(four \o full, S) = Tally(four, S) + Tally(full, S)
    BY <1>1, <2>3, TallyConcat
  <2>5. OtherEvents(info) = four \o full
    BY <1>2 DEF two, three, four
  <2> QED BY <2>1, <2>2, <2>3, <2>4, <2>5
<1>4. ASSUME NEW t \in Teams
      PROVE  Tally(OtherEvents(info), OfTeam("goal", t)) = IF Scored(info, t) THEN 1 ELSE 0
  <2> DEFINE S == OfTeam("goal", t)
  <2>1. /\ Mk("goal", 0, 0, info) \in S <=> t = 0
        /\ Mk("goal", 1, 0, info) \in S <=> t = 1
    <3>1. Mk("goal", 0, 0, info) \in Event /\ Mk("goal", 1, 0, info) \in Event
      BY <1>a, <1>c, MkType
    <3> QED BY <3>1 DEF OfTeam, Mk
  <2>2. /\ Piece => Mk(info.mode, 0, 0, info) \notin S
        /\ Mk("half_time", 0, 0, info) \notin S /\ Mk("end_match", 0, 0, info) \notin S
    <3>1. "goal" \notin SetPieces
      BY EngineAssumption
    <3> QED BY <1>b, <3>1 DEF OfTeam, Mk
  <2> HIDE DEF S, Piece
  <2>3. Tally(piece, S) = 0 /\ Tally(half, S) = 0 /\ Tally(full, S) = 0
    BY <1>1, <2>2 DEF One
  <2>4. Tally(goal0, S) = (IF Scored(info, 0) /\ t = 0 THEN 1 ELSE 0)
        /\ Tally(goal1, S) = (IF Scored(info, 1) /\ t = 1 THEN 1 ELSE 0)
    BY <1>1, <2>1 DEF One
  <2>5. t = 0 \/ t = 1
    BY DEF Teams
  <2>6. Tally(OtherEvents(info), S) = IF Scored(info, t) THEN 1 ELSE 0
    <3>1. Tally(OtherEvents(info), S) =
            Tally(goal0, S) + Tally(goal1, S) + Tally(piece, S) + Tally(half, S) + Tally(full, S)
      BY <1>3
    <3>2. CASE t = 0
      BY <2>3, <2>4, <3>1, <3>2
    <3>3. CASE t = 1
      BY <2>3, <2>4, <3>1, <3>3
    <3> QED BY <2>5, <3>2, <3>3
  <2> QED BY <2>6 DEF S
<1>5. ASSUME NEW S, \A e \in S : e.type \in {"yellow_card", "red_card"}
      PROVE  Tally(OtherEvents(info), S) = 0
  <2>1. /\ Mk("goal", 0, 0, info) \notin S /\ Mk("goal", 1, 0, info) \notin S
        /\ Mk("half_time", 0, 0, info) \notin S /\ Mk("end_match", 0, 0, info) \notin S
    BY <1>5 DEF Mk
  <2>2. Piece => Mk(info.mode, 0, 0, info) \notin S
    <3>1. Piece => info.mode \notin {"yellow_card", "red_card"}
      BY <1>b, EngineAssumption
    <3>2. Mk(info.mode, 0, 0, info).type = info.mode
      BY DEF Mk
    <3> QED BY <1>5, <3>1, <3>2
  <2> HIDE DEF Piece
  <2>3. /\ Tally(goal0, S) = 0 /\ Tally(goal1, S) = 0 /\ Tally(piece, S) = 0
        /\ Tally(half, S) = 0 /\ Tally(full, S) = 0
    BY <1>1, <2>1, <2>2 DEF One
  <2> QED BY <1>3, <2>3
<1> QED BY <1>4, <1>5

(* The cards of one tick: one event for each flag that changes.            *)
LEMMA CardsOfTick ==
  ASSUME MatchTypes, NEW info \in Engine
  PROVE  /\ IsFiniteSet(CardEvents(info))
         /\ \A p \in Players :
              /\ Cardinality(CardEvents(info) \cap OfPlayer("yellow_card", p)) =
                   IF YellowRise(info, p) THEN 1 ELSE 0
              /\ Cardinality(CardEvents(info) \cap OfPlayer("red_card", p)) =
                   IF ActiveFall(info, p) THEN 1 ELSE 0
         /\ \A t \in Teams :
              /\ CardEvents(info) \cap OfTeam("goal", t) = {}
              /\ Cardinality(CardEvents(info) \cap OfTeam("yellow_card", t)) =
                   Cardinality({p \in Players : TeamOf(p) = t /\ YellowRise(info, p)})
              /\ Cardinality(CardEvents(info) \cap OfTeam("red_card", t)) =
                   Cardinality({p \in Players : TeamOf(p) = t /\ ActiveFall(info, p)})
<1> DEFINE Yellow(p) == Mk("yellow_card", TeamOf(p), p, info)
           Red(p) == Mk("red_card", TeamOf(p), p, info)
<1>1. ASSUME NEW p \in Players
      PROVE  /\ Yellow(p) \in Event /\ Red(p) \in Event
             /\ Yellow(p).type = "yellow_card" /\ Red(p).type = "red_card"
             /\ Yellow(p).who = p /\ Red(p).who = p
             /\ Yellow(p).team = TeamOf(p) /\ Red(p).team = TeamOf(p)
  <2>1. p \in Nat /\ TeamOf(p) \in Teams
    BY EngineAssumption DEF TeamOf, Teams
  <2>2. Yellow(p) \in Event /\ Red(p) \in Event
    BY <2>1, MkType DEF EventTypes
  <2> QED BY <2>2 DEF Mk
<1>2. CardEvents(info) = {Yellow(p) : p \in {q \in Players : YellowRise(info, q)}}
                         \cup {Red(p) : p \in {q \in Players : ActiveFall(info, q)}}
  BY DEF CardEvents
<1> HIDE DEF Yellow, Red
<1>3. IsFiniteSet(Players)
  BY EngineAssumption
<1>4. ASSUME NEW t \in Teams
      PROVE  /\ CardEvents(info) \cap OfTeam("goal", t) = {}
             /\ Cardinality(CardEvents(info) \cap OfTeam("yellow_card", t)) =
                  Cardinality({p \in Players : TeamOf(p) = t /\ YellowRise(info, p)})
             /\ Cardinality(CardEvents(info) \cap OfTeam("red_card", t)) =
                  Cardinality({p \in Players : TeamOf(p) = t /\ ActiveFall(info, p)})
  <2>1. CardEvents(info) \cap OfTeam("goal", t) = {}
    BY <1>1, <1>2 DEF OfTeam
  <2>2. Cardinality(CardEvents(info) \cap OfTeam("yellow_card", t)) =
          Cardinality({p \in Players : TeamOf(p) = t /\ YellowRise(info, p)})
    <3> DEFINE P == {p \in Players : TeamOf(p) = t /\ YellowRise(info, p)}
               E == CardEvents(info) \cap OfTeam("yellow_card", t)
               f == [p \in P |-> Yellow(p)]
    <3>1. IsFiniteSet(P)
      BY <1>3, FS_Subset
    <3>2. \A p \in P : Yellow(p) \in E
      BY <1>1, <1>2 DEF OfTeam
    <3>3. \A e \in E : \E p \in P : Yellow(p) = e
      BY <1>1, <1>2 DEF OfTeam
    <3>4. \A p, q \in P : Yellow(p) = Yellow(q) => p = q
      BY <1>1
    <3> HIDE DEF P, E
    <3>5. /\ f \in [P -> E]
          /\ \A p, q \in P : f[p] = f[q] => p = q
          /\ \A e \in E : \E p \in P : f[p] = e
      BY <3>2, <3>3, <3>4
    <3> HIDE DEF f
    <3>6. Cardinality(E) = Cardinality(P)
      BY <3>1, <3>5, SameSize
    <3> QED BY <3>6 DEF E, P
  <2>3. Cardinality(CardEvents(info) \cap OfTeam("red_card", t)) =
          Cardinality({p \in Players : TeamOf(p) = t /\ ActiveFall(info, p)})
    <3> DEFINE P == {p \in Players : TeamOf(p) = t /\ ActiveFall(info, p)}
               E == CardEvents(info) \cap OfTeam("red_card", t)
               f == [p \in P |-> Red(p)]
    <3>1. IsFiniteSet(P)
      BY <1>3, FS_Subset
    <3>2. \A p \in P : Red(p) \in E
      BY <1>1, <1>2 DEF OfTeam
    <3>3. \A e \in E : \E p \in P : Red(p) = e
      BY <1>1, <1>2 DEF OfTeam
    <3>4. \A p, q \in P : Red(p) = Red(q) => p = q
      BY <1>1
    <3> HIDE DEF P, E
    <3>5. /\ f \in [P -> E]
          /\ \A p, q \in P : f[p] = f[q] => p = q
          /\ \A e \in E : \E p \in P : f[p] = e
      BY <3>2, <3>3, <3>4
    <3> HIDE DEF f
    <3>6. Cardinality(E) = Cardinality(P)
      BY <3>1, <3>5, SameSize
    <3> QED BY <3>6 DEF E, P
  <2> QED BY <2>1, <2>2, <2>3
<1>5. ASSUME NEW p \in Players
      PROVE  /\ Cardinality(CardEvents(info) \cap OfPlayer("yellow_card", p)) =
                  IF YellowRise(info, p) THEN 1 ELSE 0
             /\ Cardinality(CardEvents(info) \cap OfPlayer("red_card", p)) =
                  IF ActiveFall(info, p) THEN 1 ELSE 0
  <2>1. /\ YellowRise(info, p) => CardEvents(info) \cap OfPlayer("yellow_card", p) = {Yellow(p)}
        /\ ~YellowRise(info, p) => CardEvents(info) \cap OfPlayer("yellow_card", p) = {}
    BY <1>1, <1>2 DEF OfPlayer
  <2>2. /\ ActiveFall(info, p) => CardEvents(info) \cap OfPlayer("red_card", p) = {Red(p)}
        /\ ~ActiveFall(info, p) => CardEvents(info) \cap OfPlayer("red_card", p) = {}
    BY <1>1, <1>2 DEF OfPlayer
  <2>3. Cardinality({}) = 0 /\ Cardinality({Yellow(p)}) = 1 /\ Cardinality({Red(p)}) = 1
    BY FS_EmptySet, FS_Singleton
  <2> QED BY <2>1, <2>2, <2>3
<1>6. IsFiniteSet(CardEvents(info))
  <2> DEFINE Y == {q \in Players : YellowRise(info, q)}
             R == {q \in Players : ActiveFall(info, q)}
  <2>1. IsFiniteSet(Y) /\ IsFiniteSet(R)
    BY <1>3, FS_Subset
  <2>2. IsFiniteSet({Yellow(p) : p \in Y})
    <3> DEFINE f == [p \in Y |-> Yellow(p)]
               T == {Yellow(p) : p \in Y}
    <3>1. \A p, q \in Y : Yellow(p) = Yellow(q) => p = q
      BY <1>1
    <3> HIDE DEF Y
    <3>2. /\ f \in [Y -> T] /\ \A p, q \in Y : f[p] = f[q] => p = q
          /\ \A e \in T : \E p \in Y : f[p] = e
      BY <3>1
    <3> HIDE DEF f, T
    <3> QED BY <2>1, <3>2, SameSize DEF T
  <2>3. IsFiniteSet({Red(p) : p \in R})
    <3> DEFINE f == [p \in R |-> Red(p)]
               T == {Red(p) : p \in R}
    <3>1. \A p, q \in R : Red(p) = Red(q) => p = q
      BY <1>1
    <3> HIDE DEF R
    <3>2. /\ f \in [R -> T] /\ \A p, q \in R : f[p] = f[q] => p = q
          /\ \A e \in T : \E p \in R : f[p] = e
      BY <3>1
    <3> HIDE DEF f, T
    <3> QED BY <2>1, <3>2, SameSize DEF T
  <2> QED BY <1>2, <2>2, <2>3, FS_Union
<1> QED BY <1>4, <1>5, <1>6

(* A tick adds its card events and the others to each tally.               *)
LEMMA TallyOfTick ==
  ASSUME TypeOK, NEW info \in Engine, NEW cards \in CardOrders(info),
         Detect(info, cards), NEW S
  PROVE  Tally(generated', S) =
           Tally(generated, S) + Cardinality(CardEvents(info) \cap S) + Tally(OtherEvents(info), S)
<1>1. MatchTypes /\ generated \in Seq(Event)
  BY DEF TypeOK, QueueTypes
<1>2. cards \in Seq(Event) /\ OtherEvents(info) \in Seq(Event)
  BY <1>1, CardOrdersType, OtherEventsType
<1> DEFINE other == OtherEvents(info)
           new == cards \o other
<1> HIDE DEF other
<1>3. new \in Seq(Event) /\ Tally(new, S) = Tally(cards, S) + Tally(other, S)
  BY <1>2, ConcatProperties, TallyConcat DEF other
<1>4. generated' = generated \o new
  BY DEF Detect, other
<1> HIDE DEF new
<1>5. Tally(generated', S) = Tally(generated, S) + Tally(new, S)
  BY <1>1, <1>3, <1>4, TallyConcat
<1>6. Tally(cards, S) = Cardinality(CardEvents(info) \cap S)
  <2> DEFINE C == CardEvents(info)
  <2>1. IsFiniteSet(C) /\ C \subseteq Event
    BY <1>1, CardsOfTick, CardEventsType
  <2>2. cards \in [1..Cardinality(C) -> C]
        /\ \A i, j \in DOMAIN cards : i < j => CardBefore(cards[i], cards[j])
    BY DEF CardOrders
  <2> HIDE DEF C
  <2>3. Cardinality(C) \in Nat
    BY <2>1, FS_CardinalityType
  <2>4. \A i \in DOMAIN cards : i \in Nat /\ cards[i].who \in Int
    BY <2>1, <2>2, <2>3 DEF Event
  <2>5. ASSUME NEW i \in DOMAIN cards, NEW j \in DOMAIN cards, cards[i] = cards[j], i # j
        PROVE  FALSE
    <3>1. i < j \/ j < i
      BY <2>4, <2>5
    <3>2. CardBefore(cards[i], cards[i])
      BY <2>2, <2>5, <3>1
    <3>3. cards[i].who \in Int
      BY <2>4
    <3> QED BY <3>2, <3>3 DEF CardBefore
  <2>6. Tally(cards, S) = Cardinality(C \cap S)
    BY <2>1, <2>2, <2>5, TallyOfOrder
  <2> QED BY <2>6 DEF C
<1>7. Tally(generated, S) \in Nat /\ Tally(cards, S) \in Nat /\ Tally(other, S) \in Nat
  BY <1>1, <1>2, TallyType DEF other
<1> QED BY <1>3, <1>5, <1>6, <1>7 DEF other

-----------------------------------------------------------------------------
(* The score and the goals that subscribers see.                           *)

(* stats_ counts the goals detected; the latest game state shows the score *)
(* that was counted when its broadcast began, and its events follow it.    *)
Counted == \A t \in Teams : stats_.goals[t] = Tally(generated, OfTeam("goal", t))

Shows(i) ==
  /\ i \in DOMAIN channel /\ channel[i].ch = "gf.gamestate"
  /\ \A j \in DOMAIN channel : channel[j].ch = "gf.gamestate" => j <= i
Shown ==
  faults = 0 =>
    /\ (\E i \in DOMAIN channel : channel[i].ch = "gf.gamestate") => \E i : Shows(i)
    /\ \A i : Shows(i) =>
         IF main = "events"
           THEN channel[i].score = score
           ELSE \A t \in Teams : channel[i].score[t] = Tally(delivered, OfTeam("goal", t)) % 256

(* Steps outside a broadcast that publish no game state.                   *)
LEMMA ShownSteps ==
  ASSUME TypeOK, Shown, main # "events", main' # "events", NEW m \in Message,
         m.ch \notin {"gf.gamestate", "gf.event"},
         Publish(m) \/ UNCHANGED <<channel, delivered>>, faults' = 0 => faults = 0
  PROVE  Shown'
<1> SUFFICES ASSUME faults' = 0 PROVE Shown'
  BY DEF Shown
<1>1. delivered' = delivered
  BY DEF Publish
<1>2. CASE channel' = channel
  BY <1>1, <1>2 DEF Shown, Shows
<1>3. CASE channel' # channel
  <2>1. /\ DOMAIN channel' = DOMAIN channel \cup {Len(channel) + 1}
        /\ channel'[Len(channel) + 1] = m
        /\ \A i \in DOMAIN channel : channel'[i] = channel[i]
    BY <1>3, PublishExtends DEF TypeOK
  <2>2. \A i : Shows(i)' <=> Shows(i)
    BY <2>1 DEF Shows
  <2>3. \A i : Shows(i) => channel'[i] = channel[i]
    BY <2>1 DEF Shows
  <2>4. (\E i \in DOMAIN channel' : channel'[i].ch = "gf.gamestate") =>
          \E i \in DOMAIN channel : channel[i].ch = "gf.gamestate"
    BY <2>1
  <2> QED BY <1>1, <2>2, <2>3, <2>4 DEF Shown
<1> QED BY <1>2, <1>3

(* Publish only adds to the failed calls.                                  *)
LEMMA FaultsGrow ==
  ASSUME TypeOK, NEW m, Publish(m)
  PROVE  faults' = 0 => faults = 0 /\ (Configured => channel' = Append(channel, m))
<1>1. faults \in Nat
  BY ServerAssumption DEF TypeOK, LinkTypes
<1> QED BY <1>1 DEF Publish, Fault

(* A game state is published with the score of its tick.                   *)
LEMMA BroadcastStateShows ==
  ASSUME TypeOK, Shown, BroadcastState
  PROVE  Shown'
<1> DEFINE m == [ch |-> "gf.gamestate", tick |-> tickCounter_, score |-> score]
<1>1. m \in Message /\ m.ch = "gf.gamestate" /\ m.score = score
  BY ReportTypes
<1> HIDE DEF m
<1>2. main = "state" /\ score' = score
  BY DEF BroadcastState, matchVars
<1>3. CASE MayBroadcast /\ BroadcastDue
  <2>1. Configured /\ main' = "events" /\ Publish(m)
    BY <1>3 DEF BroadcastState, MayBroadcast, m
  <2> SUFFICES ASSUME faults' = 0 PROVE Shown'
    BY DEF Shown
  <2>2. channel' = Append(channel, m)
    BY <2>1, FaultsGrow
  <2>3. channel \in Seq(Message)
    BY DEF TypeOK, LinkTypes
  <2>4. PICK n \in Nat : /\ n > 0 /\ DOMAIN channel' = 1..n /\ channel'[n] = m
    BY <2>2, <2>3, <1>1, AppendProperties, LenProperties
  <2>5. Shows(n)'
    BY <1>1, <2>4 DEF Shows
  <2>6. ASSUME NEW i, Shows(i)' PROVE i = n
    <3>1. i \in 1..n /\ n \in DOMAIN channel'
      BY <2>4, <2>6 DEF Shows
    <3>2. n <= i
      BY <1>1, <2>4, <2>6, <3>1 DEF Shows
    <3> QED BY <3>1, <3>2
  <2> QED BY <1>1, <1>2, <2>1, <2>4, <2>5, <2>6 DEF Shown
<1>4. CASE ~(MayBroadcast /\ BroadcastDue)
  BY <1>2, <1>4 DEF BroadcastState, Shown, Shows
<1> QED BY <1>3, <1>4

(* Its events follow it.                                                   *)
LEMMA BroadcastEventShows ==
  ASSUME TypeOK, Shown, BroadcastEvent
  PROVE  Shown'
<1> DEFINE m == [ch |-> "gf.event", ev |-> eventQueue_[sending + 1]]
<1>1. m \in Message /\ m.ch = "gf.event"
  BY ReportTypes DEF BroadcastEvent
<1> HIDE DEF m
<1>2. main = "events" /\ main' = "events" /\ score' = score /\ Publish(m)
  BY DEF BroadcastEvent, matchVars, m
<1> SUFFICES ASSUME faults' = 0 PROVE Shown'
  BY DEF Shown
<1>3. faults = 0
  BY <1>2, FaultsGrow
<1>4. CASE channel' = channel
  BY <1>2, <1>3, <1>4 DEF Shown, Shows
<1>5. CASE channel' # channel
  <2>1. /\ DOMAIN channel' = DOMAIN channel \cup {Len(channel) + 1}
        /\ channel'[Len(channel) + 1] = m
        /\ \A i \in DOMAIN channel : channel'[i] = channel[i]
    BY <1>1, <1>2, <1>5, PublishExtends DEF TypeOK
  <2>2. \A i : Shows(i)' <=> Shows(i)
    BY <1>1, <2>1 DEF Shows
  <2>3. \A i : Shows(i) => channel'[i] = channel[i]
    BY <2>1 DEF Shows
  <2>4. (\E i \in DOMAIN channel' : channel'[i].ch = "gf.gamestate") =>
          \E i \in DOMAIN channel : channel[i].ch = "gf.gamestate"
    BY <1>1, <2>1
  <2> QED BY <1>2, <1>3, <2>2, <2>3, <2>4 DEF Shown
<1> QED BY <1>4, <1>5

(* When the queue is cleared, every event detected has been delivered.     *)
LEMMA ClearEventsShows ==
  ASSUME TypeOK, QueueInv, ResultInv, Counted, Shown, ClearEvents
  PROVE  Shown'
<1>1. /\ main = "events" /\ main' = "tactical" /\ sending = Len(eventQueue_)
      /\ UNCHANGED <<channel, delivered, faults>>
  BY DEF ClearEvents, linkVars
<1>2. ASSUME faults = 0
      PROVE  \A t \in Teams : score[t] = Tally(delivered, OfTeam("goal", t)) % 256
  <2>1. generated = delivered \o SubSeq(eventQueue_, sending + 1, Len(eventQueue_))
    BY <1>2 DEF QueueInv, EventsConserved
  <2>2. eventQueue_ \in Seq(Event) /\ delivered \in Seq(Event) /\ Len(eventQueue_) \in Nat
    BY LenProperties DEF TypeOK, QueueTypes, LinkTypes
  <2>3. SubSeq(eventQueue_, sending + 1, Len(eventQueue_)) = <<>>
    BY <1>1, <2>2, SubSeqEmpty
  <2>4. generated = delivered
    BY <2>1, <2>2, <2>3, ConcatEmptySeq
  <2>5. \A t \in Teams : score[t] = lastScore[t] % 256 /\ stats_.goals[t] = lastScore[t]
    BY DEF ResultInv, Bytes
  <2> QED BY <2>4, <2>5 DEF Counted
<1> QED BY <1>1, <1>2 DEF Shown, Shows

(* Counted and Shown are inductive.                                        *)
LEMMA ShownNext ==
  ASSUME TypeOK, QueueInv, ResultInv, Counted, Shown, [Next]_vars
  PROVE  Counted' /\ Shown'
<1> USE DEF loopVars, matchVars, inputVars, linkVars
<1>f. faults \in Nat
  BY ServerAssumption DEF TypeOK, LinkTypes
<1>m. /\ [ch |-> "gf.setup"] \in Message
      /\ [ch |-> "gf.setup"].ch \notin {"gf.gamestate", "gf.event"}
  BY MessageTypes
<1>1. CASE UNCHANGED <<stats_, generated>> /\ main # "events" /\ main' # "events"
           /\ UNCHANGED <<channel, delivered>> /\ (faults' = faults \/ faults' = faults + 1)
  <2>1. faults' = 0 => faults = 0
    BY <1>f, <1>1
  <2> QED BY <1>m, <1>1, <2>1, ShownSteps DEF Counted
<1>2. ASSUME UNCHANGED <<stats_, generated>>, main # "events", main' # "events",
             NEW m \in Message, m.ch \notin {"gf.gamestate", "gf.event"}, Publish(m)
      PROVE  Counted' /\ Shown'
  BY <1>2, FaultsGrow, ShownSteps DEF Counted
<1>3. CASE SendMatchSetup
  BY <1>2, <1>3, <1>m DEF SendMatchSetup
<1>4. CASE AnnounceReady
  <2>1. UNCHANGED <<stats_, generated>> /\ main # "events" /\ main' # "events"
        /\ Publish([ch |-> "gf.ready"])
    BY <1>4 DEF AnnounceReady
  <2> QED BY <1>2, <2>1, MessageTypes
<1>5. CASE AnnounceCrash
  <2>1. UNCHANGED <<stats_, generated>> /\ main # "events" /\ main' # "events"
        /\ Publish([ch |-> "gf.crashed"])
    BY <1>5 DEF AnnounceCrash
  <2> QED BY <1>2, <2>1, MessageTypes
<1>6. CASE AnnounceFinished
  <2>1. UNCHANGED <<stats_, generated>> /\ main # "events" /\ main' # "events"
        /\ Publish([ch |-> "gf.finished"])
    BY <1>6 DEF AnnounceFinished
  <2> QED BY <1>2, <2>1, MessageTypes
<1>7. CASE BroadcastTactical
  <2> DEFINE m == [ch |-> "gf.tactical", tick |-> tickCounter_]
  <2>1. m \in Message /\ m.ch = "gf.tactical"
    BY ReportTypes
  <2>2. /\ UNCHANGED <<stats_, generated>> /\ main # "events" /\ main' # "events"
        /\ Publish(m) \/ UNCHANGED <<channel, delivered, faults>>
    BY <1>7 DEF BroadcastTactical
  <2> HIDE DEF m
  <2> QED BY <1>1, <1>2, <2>1, <2>2
<1>8. CASE BroadcastState
  BY <1>8, BroadcastStateShows DEF BroadcastState, Counted
<1>9. CASE BroadcastEvent
  BY <1>9, BroadcastEventShows DEF BroadcastEvent, Counted
<1>10. CASE ClearEvents
  BY <1>10, ClearEventsShows DEF ClearEvents, Counted
<1>11. CASE StepAndDetect
  <2>1. PICK info \in EngineStep(engine) : \E cards \in CardOrders(info) : Detect(info, cards)
    BY <1>11 DEF StepAndDetect
  <2>2. PICK cards \in CardOrders(info) : Detect(info, cards)
    BY <2>1
  <2>3. info \in Engine /\ MatchTypes
    BY EngineStepType DEF TypeOK, MatchTypes
  <2>4. ASSUME NEW t \in Teams
        PROVE  stats_'.goals[t] = Tally(generated', OfTeam("goal", t))
    <3> DEFINE S == OfTeam("goal", t)
    <3>1. Tally(generated', S) =
            Tally(generated, S) + Cardinality(CardEvents(info) \cap S) + Tally(OtherEvents(info), S)
      BY <2>2, <2>3, TallyOfTick
    <3>2. CardEvents(info) \cap S = {}
          /\ Tally(OtherEvents(info), S) = IF Scored(info, t) THEN 1 ELSE 0
      BY <2>3, CardsOfTick, TallyOther
    <3>3. stats_.goals[t] = Tally(generated, S) /\ stats_.goals[t] \in Nat
      BY <2>3 DEF Counted, MatchTypes, Stats
    <3>4. stats_'.goals[t] = stats_.goals[t] + IF Scored(info, t) THEN 1 ELSE 0
      BY <2>2 DEF Detect, CountStats
    <3> HIDE DEF S
    <3>5. Cardinality(CardEvents(info) \cap S) = 0
      BY <3>2, FS_EmptySet
    <3>6. stats_'.goals[t] = Tally(generated', S)
      BY <3>1, <3>2, <3>3, <3>4, <3>5
    <3> QED BY <3>6 DEF S
  <2>5. Counted'
    BY <2>4 DEF Counted
  <2>6. main # "events" /\ main' # "events" /\ UNCHANGED <<channel, delivered, faults>>
    BY <1>11 DEF StepAndDetect
  <2> QED BY <1>m, <2>5, <2>6, ShownSteps
<1>12. CASE LoopHead \/ BeginTick \/ LockInputs \/ ApplyInput \/ UnlockInputs \/ StepThrows
            \/ Heartbeat \/ StopListener \/ JoinListener \/ PostMatchResult
  BY <1>1, <1>12 DEF LoopHead, BeginTick, LockInputs, ApplyInput, UnlockInputs, StepThrows,
                     Heartbeat, StopListener, JoinListener, PostMatchResult, Fault
<1>13. CASE Listener \/ Signal \/ Terminated \/ UNCHANGED vars
  <2>1. UNCHANGED <<stats_, generated, channel, delivered, faults, main, score>>
    BY <1>13 DEF Listener, SubscribeNext, SubscribeIdles, ReceiveInput, ListenerStops,
                 Signal, Terminated, vars
  <2> QED BY <2>1 DEF Counted, Shown, Shows
<1> QED BY <1>3, <1>4, <1>5, <1>6, <1>7, <1>8, <1>9, <1>10, <1>11, <1>12, <1>13
        DEF Next, Main

(* A subscriber that adds up goal events agrees with the score of the game *)
(* state they were sent with.                                              *)
THEOREM ScoreIsTheGoals == Spec => []ScoreMatchesGoalEvents
<1>1. Init => Counted /\ Shown
  <2> SUFFICES ASSUME Init PROVE Counted /\ Shown
    OBVIOUS
  <2>1. generated = <<>> /\ channel = <<>> /\ DOMAIN <<>> = {}
        /\ \A t \in Teams : stats_.goals[t] = 0
    BY EmptySeq DEF Init
  <2>2. \A S : Tally(<<>>, S) = 0
    BY <2>1, FS_EmptySet DEF Tally
  <2> QED BY <2>1, <2>2 DEF Counted, Shown, Shows
<1>2. TypeOK /\ QueueInv /\ ResultInv /\ (Counted /\ Shown) /\ [Next]_vars => (Counted /\ Shown)'
  BY ShownNext
<1>3. TypeOK /\ (Counted /\ Shown) => ScoreMatchesGoalEvents
  <2> DEFINE states == {i \in DOMAIN channel : channel[i].ch = "gf.gamestate"}
             last == CHOOSE i \in states : \A j \in states : j <= i
             goals(t) == Cardinality({i \in DOMAIN delivered :
                           delivered[i].type = "goal" /\ delivered[i].team = t})
  <2> SUFFICES ASSUME TypeOK, Shown, faults = 0, states # {}, main # "events", NEW t \in Teams
               PROVE  channel[last].score[t] = goals(t) % 256
    BY DEF ScoreMatchesGoalEvents
  <2>1. \E i \in states : \A j \in states : j <= i
    BY DEF Shown, Shows
  <2>2. last \in states /\ \A j \in states : j <= last
    BY <2>1
  <2>3. Shows(last)
    <3> HIDE DEF last
    <3> QED BY <2>2 DEF Shows
  <2> HIDE DEF last
  <2>4. channel[last].score[t] = Tally(delivered, OfTeam("goal", t)) % 256
    BY <2>3 DEF Shown
  <2>5. \A i \in DOMAIN delivered : delivered[i] \in Event
    BY ElementOfSeq, LenProperties DEF TypeOK, LinkTypes
  <2>6. {i \in DOMAIN delivered : delivered[i] \in OfTeam("goal", t)} =
          {i \in DOMAIN delivered : delivered[i].type = "goal" /\ delivered[i].team = t}
    BY <2>5 DEF OfTeam
  <2> QED BY <2>4, <2>6 DEF Tally
<1>4. Init => ResultInv
  BY InitResult
<1>5. TypeOK /\ ResultInv /\ [Next]_vars => ResultInv'
  BY ResultInvNext
<1>6. TypeOK /\ QueueInv /\ [Next]_vars => QueueInv'
  BY QueueInvNext
<1> QED BY <1>1, <1>2, <1>3, <1>4, <1>5, <1>6, QueueInvInit, TypeCorrect, PTL DEF Spec

-----------------------------------------------------------------------------
(* The cards that subscribers see.                                         *)

(* Unless a step threw, the flags of the tick before are the engine's,     *)
(* except that nobody was known to be active before the first tick.  A     *)
(* yellow event has been detected of whoever had a card then, and a player *)
(* with a red one is gone for good.                                        *)
Carded ==
  \A p \in Players :
    /\ Tally(generated, OfPlayer("yellow_card", p)) = IF previousFlags[p].card THEN 1 ELSE 0
    /\ Tally(generated, OfPlayer("red_card", p)) <= 1
    /\ Tally(generated, OfPlayer("red_card", p)) > 0 =>
         ~previousFlags[p].active /\ ~engine.flags[p].active
    /\ ~thrown => /\ previousFlags[p].card = engine.flags[p].card
                  /\ previousFlags[p].active => engine.flags[p].active
YellowFirst ==
  \A p \in Players, i \in DOMAIN generated : generated[i] \in OfPlayer("red_card", p) =>
    \E j \in DOMAIN generated : j < i /\ generated[j] \in OfPlayer("yellow_card", p)
Totals ==
  \A t \in Teams :
    /\ stats_.yellow_cards[t] = Tally(generated, OfTeam("yellow_card", t))
    /\ stats_.red_cards[t] = Tally(generated, OfTeam("red_card", t))
CardInv == Carded /\ YellowFirst /\ Totals

(* What one step of the engine may change of a player.                     *)
LEMMA FlagsOfStep ==
  ASSUME NEW e \in Engine, NEW info \in EngineStep(e), NEW p \in Players
  PROVE  /\ e.flags[p].card \in BOOLEAN /\ e.flags[p].active \in BOOLEAN
         /\ info.flags[p].card \in BOOLEAN /\ info.flags[p].active \in BOOLEAN
         /\ FlagAfter(e.flags[p], info.flags[p])
<1>1. info \in Engine
  BY EngineStepType
<1>2. info.flags \in FlagsAfter(e)
  BY DEF EngineStep
<1>3. FlagAfter(e.flags[p], info.flags[p])
  BY <1>2 DEF FlagsAfter
<1>4. e.flags \in [Players -> Flags] /\ info.flags \in [Players -> Flags]
  BY <1>1 DEF Engine
<1>5. e.flags[p] \in Flags /\ info.flags[p] \in Flags
  BY <1>4
<1> QED BY <1>3, <1>5 DEF Flags

(* The detection keeps the tallies of each player.                         *)
LEMMA DetectCarded ==
  ASSUME TypeOK, Carded, ~thrown, thrown' = thrown, NEW info \in EngineStep(engine),
         engine' = info, NEW cards \in CardOrders(info), Detect(info, cards)
  PROVE  Carded'
<1>1. info \in Engine /\ engine \in Engine /\ MatchTypes /\ generated \in Seq(Event)
  BY EngineStepType DEF TypeOK, MatchTypes, QueueTypes
<1>2. previousFlags' = info.flags
  BY DEF Detect
<1> SUFFICES ASSUME NEW p \in Players
             PROVE  /\ Tally(generated', OfPlayer("yellow_card", p)) =
                         IF info.flags[p].card THEN 1 ELSE 0
                    /\ Tally(generated', OfPlayer("red_card", p)) <= 1
                    /\ Tally(generated', OfPlayer("red_card", p)) > 0 => ~info.flags[p].active
  BY <1>2 DEF Carded
<1> DEFINE Y == OfPlayer("yellow_card", p)
           R == OfPlayer("red_card", p)
<1>3. /\ Tally(OtherEvents(info), Y) = 0 /\ Tally(OtherEvents(info), R) = 0
  <2>1. /\ \A e \in Y : e.type \in {"yellow_card", "red_card"}
        /\ \A e \in R : e.type \in {"yellow_card", "red_card"}
    BY DEF OfPlayer
  <2> HIDE DEF Y, R
  <2> QED BY <1>1, <2>1, TallyOther
<1>4. /\ Cardinality(CardEvents(info) \cap Y) = IF YellowRise(info, p) THEN 1 ELSE 0
      /\ Cardinality(CardEvents(info) \cap R) = IF ActiveFall(info, p) THEN 1 ELSE 0
  BY <1>1, CardsOfTick
<1>5. /\ Tally(generated, Y) = IF previousFlags[p].card THEN 1 ELSE 0
      /\ Tally(generated, R) <= 1
      /\ Tally(generated, R) > 0 => ~previousFlags[p].active /\ ~engine.flags[p].active
      /\ previousFlags[p].card = engine.flags[p].card
      /\ previousFlags[p].active => engine.flags[p].active
  BY DEF Carded
<1>6. Tally(generated, Y) \in Nat /\ Tally(generated, R) \in Nat
  BY <1>1, TallyType
<1>7. /\ Tally(generated', Y) = Tally(generated, Y)
           + Cardinality(CardEvents(info) \cap Y) + Tally(OtherEvents(info), Y)
      /\ Tally(generated', R) = Tally(generated, R)
           + Cardinality(CardEvents(info) \cap R) + Tally(OtherEvents(info), R)
  BY <1>1, TallyOfTick
<1>8. FlagAfter(engine.flags[p], info.flags[p])
  BY <1>1, FlagsOfStep
<1> HIDE DEF Y, R
<1>9. Tally(generated', Y) = IF info.flags[p].card THEN 1 ELSE 0
  <2>1. CASE previousFlags[p].card
    <3>1. ~YellowRise(info, p) /\ info.flags[p].card
      BY <1>5, <1>8, <2>1 DEF YellowRise, FlagAfter
    <3> QED BY <1>3, <1>4, <1>5, <1>6, <1>7, <2>1, <3>1
  <2>2. CASE ~previousFlags[p].card
    <3>1. YellowRise(info, p) <=> info.flags[p].card
      BY <2>2 DEF YellowRise
    <3> QED BY <1>3, <1>4, <1>5, <1>6, <1>7, <2>2, <3>1
  <2> QED BY <2>1, <2>2
<1>10. /\ Tally(generated', R) <= 1
       /\ Tally(generated', R) > 0 => ~info.flags[p].active
  <2>1. CASE ActiveFall(info, p)
    <3>1. previousFlags[p].active /\ ~info.flags[p].active
      BY <2>1 DEF ActiveFall
    <3>2. ~(Tally(generated, R) > 0)
      BY <1>5, <3>1
    <3>3. Tally(generated', R) = Tally(generated, R) + 1
      BY <1>3, <1>4, <1>6, <1>7, <2>1
    <3> QED BY <1>6, <3>1, <3>2, <3>3
  <2>2. CASE ~ActiveFall(info, p)
    <3>1. Tally(generated', R) = Tally(generated, R)
      BY <1>3, <1>4, <1>6, <1>7, <2>2
    <3>2. ~engine.flags[p].active => ~info.flags[p].active
      BY <1>8 DEF FlagAfter
    <3> QED BY <1>5, <3>1, <3>2
  <2> QED BY <2>1, <2>2
<1> QED BY <1>9, <1>10 DEF Y, R

(* A red event follows a yellow one of an earlier tick: only a player with *)
(* a card is sent off.                                                     *)
LEMMA DetectYellowFirst ==
  ASSUME TypeOK, Carded, YellowFirst, ~thrown, NEW info \in EngineStep(engine),
         NEW cards \in CardOrders(info), Detect(info, cards)
  PROVE  YellowFirst'
<1> DEFINE new == cards \o OtherEvents(info)
           g == Len(generated)
<1>1. info \in Engine /\ engine \in Engine /\ MatchTypes /\ generated \in Seq(Event)
  BY EngineStepType DEF TypeOK, MatchTypes, QueueTypes
<1>2. new \in Seq(Event) /\ cards \in Seq(Event) /\ OtherEvents(info) \in Seq(Event)
  BY <1>1, CardOrdersType, OtherEventsType, ConcatProperties
<1>3. generated' = generated \o new
  BY DEF Detect
<1> SUFFICES ASSUME NEW p \in Players, NEW i \in DOMAIN generated',
                    generated'[i] \in OfPlayer("red_card", p)
             PROVE  \E j \in DOMAIN generated' :
                      j < i /\ generated'[j] \in OfPlayer("yellow_card", p)
  BY DEF YellowFirst
<1> DEFINE R == OfPlayer("red_card", p)
<1>4. Tally(new, R) = Cardinality(CardEvents(info) \cap R)
  <2>1. Tally(generated', R) = Tally(generated, R) + Tally(new, R)
    <3> HIDE DEF new
    <3> QED BY <1>1, <1>2, <1>3, TallyConcat
  <2>2. Tally(generated', R) = Tally(generated, R)
           + Cardinality(CardEvents(info) \cap R) + Tally(OtherEvents(info), R)
    BY <1>1, TallyOfTick
  <2>3. Tally(OtherEvents(info), R) = 0
    <3>1. \A e \in R : e.type \in {"yellow_card", "red_card"}
      BY DEF OfPlayer
    <3> HIDE DEF R
    <3> QED BY <1>1, <3>1, TallyOther
  <2>4. Cardinality(CardEvents(info) \cap R) \in Nat
    <3>1. Cardinality(CardEvents(info) \cap R) = IF ActiveFall(info, p) THEN 1 ELSE 0
      BY <1>1, CardsOfTick
    <3> QED BY <3>1
  <2> HIDE DEF new, R
  <2>5. Tally(generated, R) \in Nat /\ Tally(new, R) \in Nat
    BY <1>1, <1>2, TallyType
  <2> QED BY <2>1, <2>2, <2>3, <2>4, <2>5
<1> HIDE DEF new
<1>5. /\ g \in Nat /\ Len(new) \in Nat /\ DOMAIN generated = 1..g /\ DOMAIN new = 1..Len(new)
      /\ DOMAIN generated' = 1..(g + Len(new))
      /\ \A k \in 1..(g + Len(new)) :
           generated'[k] = IF k <= g THEN generated[k] ELSE new[k - g]
  BY <1>1, <1>2, <1>3, ConcatProperties, LenProperties
<1>6. \A j \in DOMAIN generated : j \in DOMAIN generated' /\ generated'[j] = generated[j]
  BY <1>5
<1>7. CASE i <= g
  <2>1. i \in DOMAIN generated /\ generated[i] \in OfPlayer("red_card", p)
    BY <1>5, <1>7
  <2>2. PICK j \in DOMAIN generated : j < i /\ generated[j] \in OfPlayer("yellow_card", p)
    BY <2>1 DEF YellowFirst
  <2> QED BY <1>6, <2>2
<1>8. CASE ~(i <= g)
  <2>1. i - g \in DOMAIN new /\ new[i - g] \in R
    BY <1>5, <1>8
  <2>2. Tally(new, R) # 0
    BY <1>2, <2>1, TallyType
  <2>3. ActiveFall(info, p)
    <3>1. Cardinality(CardEvents(info) \cap R) = IF ActiveFall(info, p) THEN 1 ELSE 0
      BY <1>1, CardsOfTick
    <3> QED BY <1>4, <2>2, <3>1
  <2>4. previousFlags[p].card
    <3>1. FlagAfter(engine.flags[p], info.flags[p])
      BY <1>1, FlagsOfStep
    <3>2. /\ previousFlags[p].card = engine.flags[p].card
          /\ previousFlags[p].active => engine.flags[p].active
      BY DEF Carded
    <3> QED BY <2>3, <3>1, <3>2 DEF ActiveFall, FlagAfter
  <2>5. Tally(generated, OfPlayer("yellow_card", p)) # 0
    BY <2>4 DEF Carded
  <2>6. PICK j \in DOMAIN generated : generated[j] \in OfPlayer("yellow_card", p)
    BY <1>1, <2>5, TallyType
  <2>7. j < i
    BY <1>5, <1>8
  <2> QED BY <1>6, <2>6, <2>7
<1> QED BY <1>7, <1>8

(* stats_ counts each of them.                                             *)
LEMMA DetectTotals ==
  ASSUME TypeOK, Totals, NEW info \in EngineStep(engine),
         NEW cards \in CardOrders(info), Detect(info, cards)
  PROVE  Totals'
<1>1. info \in Engine /\ MatchTypes /\ generated \in Seq(Event)
  BY EngineStepType DEF TypeOK, MatchTypes, QueueTypes
<1>2. ASSUME NEW t \in Teams
      PROVE  /\ stats_'.yellow_cards[t] = Tally(generated', OfTeam("yellow_card", t))
             /\ stats_'.red_cards[t] = Tally(generated', OfTeam("red_card", t))
  <2> DEFINE Y == OfTeam("yellow_card", t)
             R == OfTeam("red_card", t)
             risen == Cardinality({p \in Players : TeamOf(p) = t /\ YellowRise(info, p)})
             fallen == Cardinality({p \in Players : TeamOf(p) = t /\ ActiveFall(info, p)})
  <2>1. Tally(OtherEvents(info), Y) = 0 /\ Tally(OtherEvents(info), R) = 0
    <3>1. /\ \A e \in Y : e.type \in {"yellow_card", "red_card"}
          /\ \A e \in R : e.type \in {"yellow_card", "red_card"}
      BY DEF OfTeam
    <3> HIDE DEF Y, R
    <3> QED BY <1>1, <3>1, TallyOther
  <2>2. /\ Cardinality(CardEvents(info) \cap Y) = risen
        /\ Cardinality(CardEvents(info) \cap R) = fallen
    BY <1>1, CardsOfTick
  <2>3. risen \in Nat /\ fallen \in Nat
    BY EngineAssumption, FS_Subset, FS_CardinalityType
  <2>4. /\ Tally(generated', Y) = Tally(generated, Y)
             + Cardinality(CardEvents(info) \cap Y) + Tally(OtherEvents(info), Y)
        /\ Tally(generated', R) = Tally(generated, R)
             + Cardinality(CardEvents(info) \cap R) + Tally(OtherEvents(info), R)
    BY <1>1, TallyOfTick
  <2>5. /\ stats_'.yellow_cards[t] = stats_.yellow_cards[t] + risen
        /\ stats_'.red_cards[t] = stats_.red_cards[t] + fallen
    BY DEF Detect, CountStats
  <2>6. stats_.yellow_cards[t] = Tally(generated, Y) /\ stats_.red_cards[t] = Tally(generated, R)
    BY DEF Totals
  <2>7. Tally(generated, Y) \in Nat /\ Tally(generated, R) \in Nat
    BY <1>1, TallyType
  <2> HIDE DEF Y, R, risen, fallen
  <2>8. /\ stats_'.yellow_cards[t] = Tally(generated', Y)
        /\ stats_'.red_cards[t] = Tally(generated', R)
    BY <2>1, <2>2, <2>3, <2>4, <2>5, <2>6, <2>7
  <2> QED BY <2>8 DEF Y, R
<1> QED BY <1>2 DEF Totals

(* CardInv is inductive.                                                   *)
LEMMA CardInvNext ==
  ASSUME TypeOK, Order, CardInv, [Next]_vars
  PROVE  CardInv'
<1> USE DEF loopVars, matchVars, inputVars, linkVars
<1>1. CASE UNCHANGED <<stats_, generated, previousFlags, engine, thrown>>
  BY <1>1 DEF CardInv, Carded, YellowFirst, Totals
<1>2. CASE StepAndDetect
  <2>1. ~thrown /\ thrown' = thrown
    BY <1>2 DEF StepAndDetect, Order, Failing
  <2>2. PICK info \in EngineStep(engine) :
          engine' = info /\ \E cards \in CardOrders(info) : Detect(info, cards)
    BY <1>2 DEF StepAndDetect
  <2>3. PICK cards \in CardOrders(info) : Detect(info, cards)
    BY <2>2
  <2>4. Carded' /\ YellowFirst' /\ Totals'
    BY <2>1, <2>2, <2>3, DetectCarded, DetectYellowFirst, DetectTotals DEF CardInv
  <2> QED BY <2>4 DEF CardInv
<1>3. CASE StepThrows
  <2>1. thrown' /\ engine' \in EngineStep(engine) \cup {engine}
        /\ UNCHANGED <<stats_, generated, previousFlags>>
    BY <1>3 DEF StepThrows
  <2>2. engine \in Engine
    BY DEF TypeOK, MatchTypes
  <2>3. \A p \in Players : ~engine.flags[p].active => ~engine'.flags[p].active
    <3>1. CASE engine' = engine
      BY <3>1
    <3>2. CASE engine' \in EngineStep(engine)
      BY <2>2, <3>2, FlagsOfStep DEF FlagAfter
    <3> QED BY <2>1, <3>1, <3>2
  <2>4. Carded'
    BY <2>1, <2>3 DEF CardInv, Carded
  <2> QED BY <2>1, <2>4 DEF CardInv, YellowFirst, Totals
<1>4. CASE SendMatchSetup \/ AnnounceReady \/ LoopHead \/ BeginTick \/ LockInputs \/ ApplyInput
           \/ UnlockInputs \/ BroadcastState \/ BroadcastEvent \/ ClearEvents
  BY <1>1, <1>4 DEF SendMatchSetup, AnnounceReady, LoopHead, BeginTick, LockInputs, ApplyInput,
                    UnlockInputs, BroadcastState, BroadcastEvent, ClearEvents
<1>5. CASE BroadcastTactical \/ Heartbeat \/ AnnounceCrash \/ AnnounceFinished \/ StopListener
           \/ JoinListener \/ PostMatchResult
  BY <1>1, <1>5 DEF BroadcastTactical, Heartbeat, AnnounceCrash, AnnounceFinished, StopListener,
                    JoinListener, PostMatchResult
<1>6. CASE Listener \/ Signal \/ Terminated \/ UNCHANGED vars
  BY <1>1, <1>6 DEF Listener, SubscribeNext, SubscribeIdles, ReceiveInput, ListenerStops,
                    Signal, Terminated, vars
<1> QED BY <1>2, <1>3, <1>4, <1>5, <1>6 DEF Next, Main

(* At most one yellow and one red event of each player, the yellow one     *)
(* first, and as many of each as stats_ counts.                            *)
THEOREM CardsAreConsistent == Spec => []CardEventsAgree
<1>1. Init => CardInv
  <2> SUFFICES ASSUME Init PROVE CardInv
    OBVIOUS
  <2>1. /\ generated = <<>> /\ DOMAIN <<>> = {}
        /\ \A t \in Teams : stats_.yellow_cards[t] = 0 /\ stats_.red_cards[t] = 0
    BY EmptySeq DEF Init
  <2>0. ASSUME NEW p \in Players
        PROVE  /\ previousFlags[p] = [active |-> FALSE, card |-> FALSE]
               /\ engine.flags[p] = [active |-> TRUE, card |-> FALSE]
    BY DEF Init, KickedOff
  <2>2. \A S : Tally(<<>>, S) = 0
    BY <2>1, FS_EmptySet DEF Tally
  <2>3. Carded
    <3> SUFFICES ASSUME NEW p \in Players
                 PROVE  /\ Tally(generated, OfPlayer("yellow_card", p)) =
                             IF previousFlags[p].card THEN 1 ELSE 0
                        /\ Tally(generated, OfPlayer("red_card", p)) = 0
                        /\ previousFlags[p].card = engine.flags[p].card
                        /\ previousFlags[p].active => engine.flags[p].active
      BY DEF Carded
    <3>1. /\ previousFlags[p].card = FALSE /\ previousFlags[p].active = FALSE
          /\ engine.flags[p].card = FALSE
      BY <2>0
    <3>2. /\ Tally(generated, OfPlayer("yellow_card", p)) = 0
          /\ Tally(generated, OfPlayer("red_card", p)) = 0
      BY <2>1, <2>2
    <3> QED BY <3>1, <3>2
  <2>4. YellowFirst
    BY <2>1 DEF YellowFirst
  <2>5. Totals
    BY <2>1, <2>2 DEF Totals
  <2> QED BY <2>3, <2>4, <2>5 DEF CardInv
<1>2. TypeOK /\ Order /\ CardInv /\ [Next]_vars => CardInv'
  BY CardInvNext
<1>3. TypeOK /\ CardInv => CardEventsAgree
  <2> SUFFICES ASSUME TypeOK, CardInv PROVE CardEventsAgree
    OBVIOUS
  <2>1. \A i \in DOMAIN generated : generated[i] \in Event
    BY ElementOfSeq, LenProperties DEF TypeOK, QueueTypes
  <2>2. \A type, p : {i \in DOMAIN generated : generated[i].type = type /\ generated[i].who = p} =
                     {i \in DOMAIN generated : generated[i] \in OfPlayer(type, p)}
    BY <2>1 DEF OfPlayer
  <2>3. \A type, t : {i \in DOMAIN generated : generated[i].type = type /\ generated[i].team = t} =
                     {i \in DOMAIN generated : generated[i] \in OfTeam(type, t)}
    BY <2>1 DEF OfTeam
  <2>4. ASSUME NEW p \in Players
        PROVE  /\ Tally(generated, OfPlayer("yellow_card", p)) <= 1
               /\ Tally(generated, OfPlayer("red_card", p)) <= 1
    BY DEF CardInv, Carded
  <2>5. ASSUME NEW p \in Players,
               NEW i \in {k \in DOMAIN generated : generated[k] \in OfPlayer("red_card", p)}
        PROVE  \E j \in {k \in DOMAIN generated : generated[k] \in OfPlayer("yellow_card", p)} : j < i
    BY DEF CardInv, YellowFirst
  <2>6. ASSUME NEW t \in Teams
        PROVE  /\ stats_.yellow_cards[t] = Tally(generated, OfTeam("yellow_card", t))
               /\ stats_.red_cards[t] = Tally(generated, OfTeam("red_card", t))
    BY DEF CardInv, Totals
  <2> QED BY <2>2, <2>3, <2>4, <2>5, <2>6 DEF CardEventsAgree, Tally
<1>4. TypeOK /\ Order /\ [Next]_vars => Order'
  BY OrderNext
<1> QED BY <1>1, <1>2, <1>3, <1>4, OrderInit, TypeCorrect, PTL DEF Spec
=============================================================================
