---------------------------- MODULE RefereeProofs ----------------------------
(* Theorems of Referee, for every value of its constants.                  *)
EXTENDS Referee, TLAPS

FoulOK(f) == f \in Foul /\ (f.type # 0 => f.by \in Players)
Carded == cards \in [Players -> Nat] /\ effective \in [Players -> Nat]

(* What a decision of the referee may do: nothing but settle a foul, or    *)
(* stop play.  A card is given only for a pending foul, and its effect is  *)
(* further away than another bump of the clock reaches.                    *)
Calm == NoAward /\ FoulOK(foul') /\ (Pending' => Pending /\ foul' = foul)

Stoppage ==
  /\ inPlay' = FALSE /\ prepared' = FALSE /\ buffer' \in Buffer /\ buffer'.active
  /\ now' \in Nat /\ now <= now' /\ now' < buffer'.prepare /\ buffer'.prepare <= buffer'.start
  /\ FoulOK(foul') /\ ~Pending' /\ Carded'
  /\ \/ UNCHANGED <<cards, effective>>
     \/ Pending /\ \A p \in Players : \/ cards'[p] = cards[p] /\ effective'[p] = effective[p]
                                      \/ cards'[p] >= cards[p] /\ effective'[p] > now' + BumpMs

(* The constants as numbers.                                               *)
LEMMA Numbers ==
  /\ StepMs \in Nat /\ StepMs > 0 /\ HalfMs \in Nat /\ HalfMs > 0
  /\ PrepareMs \in Nat /\ BumpMs \in Nat /\ StartMs \in Nat /\ CardPauseMs \in Nat
  /\ CardMs \in Nat /\ GoalMs \in Nat /\ GoalBumpMs \in Nat /\ GoalStartMs \in Nat
  /\ HalfStartMs \in Nat /\ AdvantageMs \in Nat /\ CancelMs \in Nat
  /\ RelaxSteps \in Nat /\ MaxTime \in Nat /\ MaxGoals \in Nat
  /\ BumpMs < PrepareMs /\ GoalBumpMs < GoalMs /\ BumpMs < CardMs /\ AdvantageMs <= CancelMs
  BY RefereeAssumption

(* The types the arithmetic below needs.                                   *)
LEMMA Types ==
  ASSUME TypeOK
  PROVE  /\ now \in Nat /\ inPlay \in BOOLEAN /\ inSetPiece \in BOOLEAN
         /\ buffer \in Buffer /\ prepared \in BOOLEAN /\ FoulOK(foul) /\ foul \in Foul
         /\ cards \in [Players -> Nat] /\ effective \in [Players -> Nat] /\ Carded
         /\ onPitch \subseteq Players /\ goals \in [Teams -> Nat]
         /\ phase \in {"pre", "first", "second"} /\ goalScored \in BOOLEAN
  BY DEF TypeOK, FoulOK, Carded

(* Award() stops play with the restart ahead.                              *)
LEMMA AwardStops ==
  ASSUME now \in Nat, buffer \in Buffer, NEW piece \in Awards, NEW delay \in Nat,
         NEW bump \in Nat, NEW wait \in Nat, bump < delay, Award(piece, delay, bump, wait)
  PROVE  /\ inPlay' = FALSE /\ prepared' = FALSE /\ buffer' \in Buffer /\ buffer'.active
         /\ now' \in Nat /\ now' = now + bump /\ now <= now'
         /\ now' < buffer'.prepare /\ buffer'.prepare <= buffer'.start
<1>1. buffer' = [piece |-> piece, prepare |-> now + delay, start |-> now + delay + wait,
                 active |-> TRUE, endPhase |-> buffer.endPhase, taker |-> buffer.taker]
  BY DEF Award, Buffer
<1>2. /\ now + delay \in Nat /\ now + delay + wait \in Nat
      /\ buffer.endPhase \in BOOLEAN /\ buffer.taker \in Players \cup {NoOne}
  BY DEF Buffer
<1>3. buffer' \in Buffer
  BY <1>1, <1>2 DEF Buffer
<1> QED BY <1>1, <1>2, <1>3 DEF Award

(* A foul is forgotten.                                                    *)
LEMMA CancelledFoul ==
  ASSUME NEW f \in Foul
  PROVE  /\ FoulOK(Cancelled(f)) /\ Cancelled(f).type = 0
         /\ Cancelled(f).processed = f.processed
<1>1. [f EXCEPT !.by = NoOne] \in Foul
  BY DEF Foul
<1>2. Cancelled(f) = [[f EXCEPT !.by = NoOne] EXCEPT !.type = 0]
  BY DEF Cancelled
<1> DEFINE g == [f EXCEPT !.by = NoOne]
<1>3. g \in Foul /\ g.processed = f.processed
  BY <1>1 DEF Foul
<1> HIDE DEF g
<1>4. [g EXCEPT !.type = 0] \in Foul
  BY <1>3 DEF Foul
<1> QED BY <1>2, <1>3, <1>4 DEF g, Foul, FoulOK

(* A foul that is punished stops play, and perhaps costs its author a card.*)
LEMMA PunishStops ==
  ASSUME TypeOK, NEW g, FoulOK(g), Pending, Punishable(g), Punish(g)
  PROVE  Stoppage
<1> DEFINE pause == IF g.type >= 2 THEN CardPauseMs ELSE 0
           piece == IF g.box THEN "penalty" ELSE "free_kick"
<1>0. now \in Nat /\ buffer \in Buffer /\ cards \in [Players -> Nat] /\ effective \in [Players -> Nat]
  BY Types
<1>1. g.by \in Players /\ g.type \in 0..3 /\ g \in Foul
  BY DEF FoulOK, Foul, Punishable
<1>2. pause \in Nat /\ piece \in Awards
  BY Numbers DEF Awards
<1>3. /\ Award(piece, PrepareMs + pause, BumpMs + pause, StartMs)
      /\ foul' = [g EXCEPT !.processed = TRUE]
      /\ IF g.type >= 2
         THEN /\ cards' = [cards EXCEPT ![g.by] = @ + CardsFor(g.type)]
              /\ effective' = [effective EXCEPT ![g.by] = now + BumpMs + pause + CardMs]
         ELSE UNCHANGED <<cards, effective>>
  BY DEF Punish
<1> HIDE DEF pause, piece
<1>4. /\ inPlay' = FALSE /\ prepared' = FALSE /\ buffer' \in Buffer /\ buffer'.active
      /\ now' \in Nat /\ now <= now' /\ now' < buffer'.prepare /\ buffer'.prepare <= buffer'.start
      /\ now' = now + BumpMs + pause
  <2>1. PrepareMs + pause \in Nat /\ BumpMs + pause \in Nat /\ StartMs \in Nat
        /\ BumpMs + pause < PrepareMs + pause /\ now + BumpMs + pause = now + (BumpMs + pause)
    BY <1>0, <1>2, Numbers
  <2> QED BY <1>0, <1>2, <1>3, <2>1, AwardStops
<1>5. FoulOK(foul') /\ ~Pending'
  <2>1. foul' \in Foul /\ foul'.by = g.by /\ foul'.processed
    BY <1>1, <1>3 DEF Foul
  <2> QED BY <1>1, <2>1 DEF FoulOK, Pending
<1>6. CASE g.type >= 2
  <2>1. CardsFor(g.type) \in Nat
    BY DEF CardsFor
  <2>2. Carded'
    BY <1>0, <1>1, <1>2, <1>3, <1>6, <2>1, Numbers DEF Carded
  <2>3. now + BumpMs + pause + CardMs > now' + BumpMs
    BY <1>0, <1>2, <1>4, Numbers
  <2>4. \A p \in Players : \/ cards'[p] = cards[p] /\ effective'[p] = effective[p]
                           \/ cards'[p] >= cards[p] /\ effective'[p] > now' + BumpMs
    BY <1>0, <1>1, <1>3, <1>6, <2>1, <2>3
  <2> QED BY <1>4, <1>5, <2>2, <2>4 DEF Stoppage
<1>7. CASE ~(g.type >= 2)
  BY <1>0, <1>3, <1>4, <1>5, <1>7 DEF Stoppage, Carded
<1> QED BY <1>6, <1>7

(* A set piece for another reason stops play when no foul is pending.      *)
LEMMA SetPieceStops ==
  ASSUME TypeOK, NEW piece \in Awards, SetPiece(piece), FoulOK(foul'), ~Pending'
  PROVE  Stoppage /\ now' = now + BumpMs /\ UNCHANGED <<cards, effective>>
<1>0. now \in Nat /\ buffer \in Buffer /\ Carded
  BY Types
<1>1. /\ inPlay' = FALSE /\ prepared' = FALSE /\ buffer' \in Buffer /\ buffer'.active
      /\ now' = now + BumpMs /\ now' \in Nat /\ now <= now'
      /\ now' < buffer'.prepare /\ buffer'.prepare <= buffer'.start
  BY <1>0, Numbers, AwardStops DEF SetPiece
<1>2. UNCHANGED <<cards, effective>>
  BY DEF SetPiece
<1> QED BY <1>0, <1>1, <1>2 DEF Stoppage, Carded

(* The ball is out, or a player is offside: the pending foul, if there is  *)
(* one, is punished instead.                                               *)
LEMMA OtherwiseStops ==
  ASSUME TypeOK, NEW piece \in Awards, CheckFoul(NoAdvantage(foul), SetPiece(piece))
  PROVE  /\ Stoppage
         /\ ~Pending => now' = now + BumpMs /\ UNCHANGED <<cards, effective>>
<1> DEFINE f == NoAdvantage(foul)
<1>1. FoulOK(f) /\ ~f.advantage /\ (Punishable(f) <=> Pending)
  <2>1. f \in Foul /\ ~f.advantage /\ f.type = foul.type /\ f.by = foul.by
        /\ f.processed = foul.processed
    BY Types DEF Foul, NoAdvantage
  <2> QED BY Types, <2>1 DEF FoulOK, Punishable, Pending
<1>2. PICK g : Weighed(f, g) /\ \/ Punishable(g) /\ Punish(g)
                                \/ ~Punishable(g) /\ foul' = g /\ SetPiece(piece)
  BY DEF CheckFoul
<1>3. g = f
  BY <1>1, <1>2 DEF Weighed
<1> HIDE DEF f
<1>4. CASE Punishable(g)
  <2>1. FoulOK(g) /\ Pending
    BY <1>1, <1>3, <1>4
  <2>2. Punish(g)
    BY <1>2, <1>4
  <2>3. Stoppage
    BY <1>4, <2>1, <2>2, PunishStops
  <2> QED BY ONLY <2>1, <2>3
<1>5. CASE ~Punishable(g)
  <2>1. FoulOK(foul') /\ ~Pending'
    BY <1>1, <1>2, <1>3, <1>5 DEF Pending, Punishable
  <2> QED BY <1>2, <1>5, <2>1, SetPieceStops
<1> QED BY <1>4, <1>5

(* The regular check: the foul is punished, waits on, or is forgotten.  If *)
(* it waits its advantage has not run out.                                 *)
LEMMA CheckSettles ==
  ASSUME TypeOK, CheckFoul(foul, NoAward)
  PROVE  /\ (Stoppage /\ Pending) \/ Calm
         /\ Pending' => now <= foul.time + CancelMs
<1>1. PICK g \in {foul, NoAdvantage(foul), Cancelled(foul)} :
        Weighed(foul, g) /\ \/ Punishable(g) /\ Punish(g)
                            \/ ~Punishable(g) /\ foul' = g /\ NoAward
  BY DEF CheckFoul
<1>2. /\ FoulOK(g) /\ g.processed = foul.processed
      /\ g.type # 0 => g.type = foul.type
      /\ g.type # 0 /\ g.advantage => g = foul
  <2>1. CASE g = foul
    BY Types, <2>1
  <2>2. CASE g = NoAdvantage(foul)
    BY Types, <2>2 DEF Foul, NoAdvantage, FoulOK
  <2>3. CASE g = Cancelled(foul)
    BY Types, <2>3, CancelledFoul
  <2> QED BY <1>1, <2>1, <2>2, <2>3
<1>3. CASE Punishable(g)
  <2>1. Pending
    BY <1>2, <1>3 DEF Punishable, Pending
  <2>2. Stoppage
    BY <1>1, <1>2, <1>3, <2>1, PunishStops
  <2> QED BY <2>1, <2>2 DEF Stoppage
<1>4. CASE ~Punishable(g)
  <2>1. foul' = g /\ NoAward
    BY <1>1, <1>4
  <2>2. ASSUME Pending' PROVE Pending /\ foul' = foul /\ now <= foul.time + CancelMs
    <3>1. g.type # 0 /\ ~g.processed /\ g.advantage
      BY <1>4, <2>1, <2>2 DEF Pending, Punishable
    <3>2. g = foul
      BY <1>2, <3>1
    <3>3. ~Past(AdvantageMs, foul) \/ ~Past(CancelMs, foul)
      <4>1. NoAdvantage(foul) # foul /\ Cancelled(foul) # foul
        BY Types, <3>1, <3>2 DEF Foul, NoAdvantage, Cancelled
      <4> QED BY <1>1, <3>1, <3>2, <4>1 DEF Weighed
    <3>4. now \in Nat /\ foul.time \in Nat
      BY Types DEF Foul
    <3> QED BY <2>1, <3>1, <3>2, <3>3, <3>4, Numbers DEF Past, Pending
  <2> QED BY <1>2, <2>1, <2>2 DEF Calm
<1> QED BY <1>3, <1>4

(* A touch of the ball.                                                    *)
LEMMA TouchSettles ==
  ASSUME TypeOK, BallTouched
  PROVE  /\ offside' \in BOOLEAN
         /\ Calm \/ (Stoppage /\ inPlay /\ ~inSetPiece)
<1>1. offside' \in BOOLEAN
  BY DEF BallTouched
<1>2. CASE NoAward /\ UNCHANGED foul
  <2>1. FoulOK(foul') /\ (Pending' => Pending)
    BY <1>2, Types DEF Pending
  <2>2. Calm
    BY <1>2, <2>1 DEF Calm
  <2> QED BY <1>1, <2>2
<1>3. CASE inPlay /\ ~inSetPiece /\ CheckFoul(NoAdvantage(foul), SetPiece("free_kick"))
  BY <1>1, <1>3, OtherwiseStops DEF Awards
<1> QED BY <1>1, <1>2, <1>3 DEF BallTouched

-----------------------------------------------------------------------------
(* Types.  What a decision of the referee does keeps them.                 *)
LEMMA DecisionTypes ==
  ASSUME TypeOK, Calm \/ Stoppage, at' \in Stages, offside' \in BOOLEAN,
         onPitch' \subseteq Players, UNCHANGED <<game, relax, seen>>
  PROVE  TypeOK'
<1>1. now' \in Nat /\ inPlay' \in BOOLEAN /\ buffer' \in Buffer /\ prepared' \in BOOLEAN
      /\ FoulOK(foul') /\ Carded'
  <2>1. CASE Calm
    BY <2>1, Types DEF Calm, NoAward, Carded
  <2>2. CASE Stoppage
    BY <2>2 DEF Stoppage
  <2> QED BY <2>1, <2>2
<1>2. UNCHANGED <<inSetPiece, goalScored, phase, goals, relax, seen>>
  BY DEF game
<1> QED BY <1>1, <1>2 DEF TypeOK, FoulOK, Carded

(* A ball over a goal line stops play or changes nothing, and a goal       *)
(* settles a foul.                                                         *)
LEMMA GoalLinesSettles ==
  ASSUME TypeOK, GoalLines
  PROVE  (Stoppage \/ Calm) /\ (goalScored => ~Pending')
<1>1. CASE goalScored
  <2>1. /\ foul' = [foul EXCEPT !.advantage = FALSE, !.type = 0]
        /\ Award("kick_off", GoalMs, GoalBumpMs, GoalStartMs)
        /\ UNCHANGED <<cards, effective>>
    BY <1>1 DEF GoalLines
  <2>2. FoulOK(foul') /\ ~Pending'
    <3> DEFINE g == [foul EXCEPT !.advantage = FALSE]
    <3>1. g \in Foul
      BY Types DEF Foul
    <3>2. foul' = [g EXCEPT !.type = 0]
      BY <2>1
    <3> HIDE DEF g
    <3>3. foul' \in Foul /\ foul'.type = 0
      BY <3>1, <3>2 DEF Foul
    <3> QED BY <3>3 DEF FoulOK, Pending
  <2>3. /\ inPlay' = FALSE /\ prepared' = FALSE /\ buffer' \in Buffer /\ buffer'.active
        /\ now' \in Nat /\ now <= now' /\ now' < buffer'.prepare /\ buffer'.prepare <= buffer'.start
    <3>1. now \in Nat /\ buffer \in Buffer /\ "kick_off" \in Awards
      BY Types DEF Awards
    <3> QED BY <2>1, <3>1, Numbers, AwardStops
  <2>4. Carded'
    BY <2>1, Types DEF Carded
  <2> QED BY <2>1, <2>2, <2>3, <2>4 DEF Stoppage
<1>2. ASSUME ~goalScored, NEW piece \in {"corner", "goal_kick"},
             CheckFoul(NoAdvantage(foul), SetPiece(piece))
      PROVE  Stoppage
  BY <1>2, OtherwiseStops DEF Awards
<1>3. CASE ~goalScored /\ NoAward /\ UNCHANGED foul
  <2>1. FoulOK(foul') /\ (Pending' => Pending)
    BY <1>3, Types DEF Pending
  <2>2. Calm
    BY <1>3, <2>1 DEF Calm
  <2> QED BY <1>3, <2>2
<1> QED BY <1>1, <1>2, <1>3 DEF GoalLines

(* A ball over a sideline stops play or changes nothing.                   *)
LEMMA SidelinesSettles ==
  ASSUME TypeOK, Sidelines
  PROVE  \/ Calm
         \/ Stoppage /\ (~Pending => now' = now + BumpMs /\ UNCHANGED <<cards, effective>>)
<1>1. CASE CheckFoul(NoAdvantage(foul), SetPiece("throw_in"))
  BY <1>1, OtherwiseStops DEF Awards
<1>2. CASE NoAward /\ UNCHANGED foul
  <2>1. FoulOK(foul') /\ (Pending' => Pending)
    BY <1>2, Types DEF Pending
  <2> QED BY <1>2, <2>1 DEF Calm
<1> QED BY <1>1, <1>2 DEF Sidelines

(* Touches of the teams stop play or change nothing.                       *)
LEMMA TeamsSettle ==
  ASSUME TypeOK, TeamsProcess
  PROVE  /\ offside' \in BOOLEAN
         /\ Calm \/ (Stoppage /\ inPlay /\ ~inSetPiece)
<1>1. CASE BallTouched
  BY <1>1, TouchSettles
<1>2. CASE NoAward /\ UNCHANGED <<foul, offside>>
  <2>1. FoulOK(foul') /\ (Pending' => Pending) /\ offside' \in BOOLEAN
    BY <1>2, Types DEF Pending, TypeOK
  <2>2. Calm
    BY <1>2, <2>1 DEF Calm
  <2> QED BY <2>1, <2>2
<1> QED BY <1>1, <1>2 DEF TeamsProcess

(* Setting some fields of the buffer.                                      *)
LEMMA HalfTimeBuffer ==
  ASSUME TypeOK, HalfTime
  PROVE  \/ /\ buffer' \in Buffer /\ buffer'.active /\ now' = now /\ inPlay' = FALSE
            /\ prepared' = FALSE /\ foul' \in Foul /\ foul'.type = 0
            /\ now < buffer'.prepare /\ buffer'.prepare <= buffer'.start /\ phase' = "second"
         \/ UNCHANGED <<now, inPlay, buffer, prepared, foul, phase>>
<1> SUFFICES ASSUME ~UNCHANGED <<now, inPlay, buffer, prepared, foul, phase>>
             PROVE  /\ buffer' \in Buffer /\ buffer'.active /\ now' = now /\ inPlay' = FALSE
                    /\ prepared' = FALSE /\ foul' \in Foul /\ foul'.type = 0
                    /\ now < buffer'.prepare /\ buffer'.prepare <= buffer'.start
                    /\ phase' = "second"
  OBVIOUS
<1>1. /\ buffer' = [buffer EXCEPT !.piece = "kick_off", !.active = TRUE, !.endPhase = TRUE,
                                  !.taker = NoOne, !.prepare = now + HalfMs,
                                  !.start = now + HalfMs + HalfStartMs]
      /\ foul' = [foul EXCEPT !.by = NoOne, !.type = 0, !.advantage = FALSE,
                              !.time = 0, !.processed = TRUE]
      /\ now' = now /\ inPlay' = FALSE /\ prepared' = FALSE /\ phase' = "second"
  BY DEF HalfTime
<1>2. now \in Nat /\ buffer \in Buffer /\ foul \in Foul
  BY Types
<1>3. buffer' = [piece |-> "kick_off", prepare |-> now + HalfMs,
                 start |-> now + HalfMs + HalfStartMs, active |-> TRUE, endPhase |-> TRUE,
                 taker |-> NoOne]
  BY <1>1, <1>2 DEF Buffer
<1>4. foul' = [by |-> NoOne, type |-> 0, box |-> foul.box, advantage |-> FALSE,
               time |-> 0, processed |-> TRUE]
  BY <1>1, <1>2 DEF Foul
<1>5. foul.box \in BOOLEAN
  BY <1>2 DEF Foul
<1>6. foul' \in Foul /\ foul'.type = 0
  BY <1>4, <1>5 DEF Foul
<1>7. now + HalfMs \in Nat /\ now + HalfMs + HalfStartMs \in Nat /\ now < now + HalfMs
      /\ now + HalfMs <= now + HalfMs + HalfStartMs
  BY <1>2, Numbers
<1>8. buffer' \in Buffer
  BY <1>3, <1>7 DEF Buffer, Awards
<1> QED BY <1>1, <1>3, <1>6, <1>7, <1>8

(* PrepareSetPiece() changes neither the times nor the kind of the set     *)
(* piece.                                                                  *)
LEMMA RestartBuffer ==
  ASSUME TypeOK, Restart
  PROVE  /\ buffer' \in Buffer /\ buffer'.active = buffer.active /\ buffer'.piece = buffer.piece
         /\ buffer'.prepare = buffer.prepare /\ buffer'.start = buffer.start
<1>1. buffer \in Buffer /\ onPitch \subseteq Players
  BY Types
<1>2. CASE Prepare
  <2>1. PICK p \in onPitch : buffer' = [buffer EXCEPT !.endPhase = FALSE, !.taker = p]
    BY <1>2 DEF Prepare
  <2>2. buffer' = [piece |-> buffer.piece, prepare |-> buffer.prepare, start |-> buffer.start,
                   active |-> buffer.active, endPhase |-> FALSE, taker |-> p]
    BY <1>1, <2>1 DEF Buffer
  <2> QED BY <1>1, <2>1, <2>2 DEF Buffer
<1>3. CASE buffer' = buffer
  BY <1>1, <1>3
<1> QED BY <1>2, <1>3 DEF Restart

(* A set piece that is taken is not pending any more, nor is a foul.       *)
LEMMA TakenBuffer ==
  ASSUME TypeOK, SetPieceTaken
  PROVE  /\ buffer' \in Buffer /\ ~buffer'.active /\ buffer'.piece = buffer.piece
         /\ buffer'.prepare = buffer.prepare /\ buffer'.start = buffer.start
         /\ foul' \in Foul /\ foul'.type = 0
<1>1. buffer' \in Buffer /\ ~buffer'.active /\ buffer'.piece = buffer.piece
      /\ buffer'.prepare = buffer.prepare /\ buffer'.start = buffer.start
  BY Types DEF SetPieceTaken, Buffer
<1>2. foul' \in Foul /\ foul'.type = 0
  BY Types, CancelledFoul DEF SetPieceTaken, FoulOK
<1> QED BY <1>1, <1>2

(* CountDown() keeps a whole number of steps.                              *)
LEMMA RelaxSteady ==
  ASSUME NEW ms \in {n * StepMs : n \in 0..RelaxSteps}
  PROVE  CountDown(ms) \in {n * StepMs : n \in 0..RelaxSteps}
<1>1. PICK n \in 0..RelaxSteps : ms = n * StepMs
  OBVIOUS
<1>2. CASE n = 0
  BY <1>1, <1>2, Numbers DEF CountDown
<1>3. CASE n > 0
  <2>1. ms > 0 /\ ms - StepMs = (n - 1) * StepMs /\ n - 1 \in 0..RelaxSteps
    BY <1>1, <1>3, Numbers
  <2> QED BY <2>1 DEF CountDown
<1> QED BY <1>1, <1>2, <1>3, Numbers

(* What GetState() answers is of the engine's type.                        *)
LEMMA ReportType ==
  ASSUME TypeOK, Report, goals' \in [Teams -> Nat], inPlay' \in BOOLEAN, buffer' \in Buffer,
         now' \in Nat
  PROVE  seen' \in M!Engine
<1>1. (IF inSetPiece' THEN buffer'.piece ELSE "normal") \in M!Modes
  BY DEF M!Modes, Buffer
<1>2. (inPlay' \/ now' = StartMs - StepMs) \in BOOLEAN
  OBVIOUS
<1>3. [p \in Players |-> [active |-> p \in onPitch', card |-> cards'[p] > 0]] \in [Players -> M!Flags]
  BY DEF M!Flags
<1>4. goals' \in [M!Teams -> Nat]
  BY DEF M!Teams, Teams
<1> QED BY <1>1, <1>2, <1>3, <1>4 DEF Report, M!Engine

(* Types at kick-off.                                                      *)
LEMMA InitTypes == Init => TypeOK
<1> SUFFICES ASSUME Init PROVE TypeOK
  OBVIOUS
<1>1. buffer \in Buffer /\ foul \in Foul /\ foul.type = 0
  BY Numbers DEF Init, Buffer, Foul, Awards
<1>2. relax \in {n * StepMs : n \in 0..RelaxSteps}
  <2>1. 0 \in 0..RelaxSteps /\ relax = 0 * StepMs
    BY Numbers DEF Init
  <2> QED BY <2>1
<1>3. seen \in M!Engine
  BY DEF Init, M!KickedOff, M!Engine, M!Teams, M!Modes, M!Flags
<1> QED BY <1>1, <1>2, <1>3 DEF Init, TypeOK, Stages, Teams

(* Every step keeps the types.                                             *)
LEMMA TypesStep ==
  ASSUME TypeOK, [Next]_vars
  PROVE  TypeOK'
<1>1. ASSUME Begin PROVE TypeOK'
  BY <1>1 DEF Begin, TypeOK, Stages, game, squad, Carded
<1>2. ASSUME HalfTime PROVE TypeOK'
  <2>1. /\ at' \in Stages /\ UNCHANGED <<inSetPiece, goalScored, goals, relax, offside, seen>>
        /\ UNCHANGED <<cards, effective, onPitch>>
    BY <1>2 DEF HalfTime, Stages, squad
  <2> QED BY <1>2, <2>1, HalfTimeBuffer DEF TypeOK
<1>3. ASSUME GoalLines PROVE TypeOK'
  BY <1>3, GoalLinesSettles, DecisionTypes DEF GoalLines, Stages, TypeOK
<1>4. ASSUME Sidelines PROVE TypeOK'
  BY <1>4, SidelinesSettles, DecisionTypes DEF Sidelines, Stages, TypeOK
<1>5. ASSUME LastFoulCheck PROVE TypeOK'
  BY <1>5, CheckSettles, DecisionTypes DEF LastFoulCheck, Stages, TypeOK
<1>6. ASSUME Restart PROVE TypeOK'
  <2>1. /\ at' \in Stages /\ UNCHANGED <<now, goals, foul, relax, cards, effective, onPitch, seen>>
    BY <1>6 DEF Restart, Stages, squad
  <2>2. phase' \in {"pre", "first", "second"} /\ prepared' \in BOOLEAN /\ goalScored' \in BOOLEAN
        /\ offside' \in BOOLEAN /\ inPlay' \in BOOLEAN /\ inSetPiece' \in BOOLEAN
    <3>1. Due(buffer.start) \in BOOLEAN /\ offside \in BOOLEAN
      BY DEF Due, TypeOK
    <3> QED BY <1>6, <3>1, Types DEF Restart, Prepare
  <2> QED BY <1>6, <2>1, <2>2, RestartBuffer DEF TypeOK
<1>7. ASSUME Taken PROVE TypeOK'
  <2>1. /\ at' \in Stages
        /\ UNCHANGED <<now, inPlay, goalScored, goals, prepared, offside, cards, effective, onPitch, seen>>
    BY <1>7 DEF Taken, Stages, squad
  <2>2. CASE SetPieceTaken
    <3>1. RelaxMs \in {n * StepMs : n \in 0..RelaxSteps}
      BY Numbers DEF RelaxMs
    <3>2. relax' \in {n * StepMs : n \in 0..RelaxSteps}
      BY <2>2, <3>1, RelaxSteady DEF SetPieceTaken
    <3>3. inSetPiece' \in BOOLEAN /\ phase' \in {"pre", "first", "second"}
      BY <2>2, Types DEF SetPieceTaken
    <3> QED BY <2>1, <2>2, <3>2, <3>3, TakenBuffer DEF TypeOK
  <2>3. CASE relax' = CountDown(relax) /\ UNCHANGED <<buffer, inSetPiece, foul, phase>>
    <3>1. relax' \in {n * StepMs : n \in 0..RelaxSteps}
      BY <2>3, RelaxSteady DEF TypeOK
    <3> QED BY <2>1, <2>3, <3>1 DEF TypeOK
  <2> QED BY <1>7, <2>2, <2>3 DEF Taken
<1>8. ASSUME Hold PROVE TypeOK'
  <2>1. now' \in Nat /\ at' \in Stages /\ Report
    BY <1>8, Types, Numbers DEF Hold, Stages
  <2>2. UNCHANGED <<inPlay, inSetPiece, goalScored, phase, goals, buffer, prepared, foul, relax,
                    offside, cards, effective, onPitch>>
    BY <1>8 DEF Hold, game, squad
  <2>3. seen' \in M!Engine
    BY <2>1, <2>2, Types, ReportType
  <2> QED BY <2>1, <2>2, <2>3 DEF TypeOK
<1>9. ASSUME Simulate PROVE TypeOK'
  BY <1>9 DEF Simulate, TypeOK, Stages, game, squad
<1>10. ASSUME TeamsProcess PROVE TypeOK'
  <2>1. onPitch' \subseteq Players
    BY <1>10, Types DEF TeamsProcess
  <2> QED BY <1>10, <2>1, TeamsSettle, DecisionTypes DEF TeamsProcess, Stages
<1>11. ASSUME EndStep PROVE TypeOK'
  <2>1. now' \in Nat /\ at' \in Stages /\ Report
    BY <1>11, Types, Numbers DEF EndStep, Stages
  <2>2. UNCHANGED <<inPlay, inSetPiece, phase, buffer, prepared, foul, relax,
                    offside, cards, effective, onPitch>>
    BY <1>11 DEF EndStep, squad
  <2>3. goals' \in [Teams -> Nat] /\ goalScored' \in BOOLEAN
    <3>1. CASE UNCHANGED <<goals, goalScored>>
      BY <3>1, Types
    <3>2. CASE goalScored' = TRUE /\ \E t \in Teams : goals' = [goals EXCEPT ![t] = @ + 1]
      <4>1. PICK t \in Teams : goals' = [goals EXCEPT ![t] = goals[t] + 1]
        BY <3>2
      <4>2. goals[t] + 1 \in Nat
        BY Types
      <4> QED BY <3>2, <4>1, <4>2, Types
    <3> QED BY <1>11, <3>1, <3>2 DEF EndStep
  <2>4. seen' \in M!Engine
    BY <2>1, <2>2, <2>3, Types, ReportType
  <2> QED BY <2>1, <2>2, <2>3, <2>4 DEF TypeOK
<1>12. ASSUME Touch PROVE TypeOK'
  <2>1. at' \in Stages /\ onPitch' \subseteq Players /\ UNCHANGED <<game, relax, seen>>
    BY <1>12 DEF Touch, Stages, TypeOK
  <2> QED BY <1>12, <2>1, TouchSettles, DecisionTypes DEF Touch
<1>13. ASSUME Trip PROVE TypeOK'
  <2>1. foul' \in Foul /\ foul'.by \in Players
    <3>1. PICK p \in onPitch, box \in BOOLEAN, type \in 1..3, advantage \in BOOLEAN :
            foul' = [by |-> p, type |-> type, box |-> box, advantage |-> advantage,
                     time |-> now, processed |-> FALSE]
      <4>1. 1 \in 1..3 /\ TRUE \in BOOLEAN /\ FALSE \in BOOLEAN
        OBVIOUS
      <4> QED BY ONLY <1>13, <4>1, Zenon DEF Trip
    <3>2. p \in Players /\ now \in Nat /\ type \in 0..3
      BY Types
    <3> QED BY <3>1, <3>2 DEF Foul
  <2>2. UNCHANGED <<at, now, inPlay, inSetPiece, goalScored, phase, goals, buffer, prepared, relax,
                    offside, cards, effective, onPitch, seen>>
    BY <1>13 DEF Trip, game, squad
  <2> QED BY <2>1, <2>2 DEF TypeOK
<1>14. ASSUME UNCHANGED vars PROVE TypeOK'
  BY <1>14 DEF vars, game, squad, TypeOK
<1> QED BY <1>1, <1>2, <1>3, <1>4, <1>5, <1>6, <1>7, <1>8, <1>9, <1>10, <1>11, <1>12, <1>13,
           <1>14 DEF Next, Process, Finished

(* The types of all variables, for every choice of the referee's delays.   *)
THEOREM TypeCorrect == Spec => []TypeOK
<1> QED BY InitTypes, TypesStep, PTL DEF Spec

-----------------------------------------------------------------------------
(* Stoppages and fouls.  Where the game may be at each stage; the restart  *)
(* after its preparation, and both ahead of the clock; a foul that is not  *)
(* dealt with belongs to open play.                                        *)
Path ==
  /\ at = "half" => inPlay /\ ~inSetPiece
  /\ at \in {"lines", "sideline", "foul"} => ~inSetPiece
  /\ at = "restart" => ~inPlay \/ inSetPiece

RestartInv == RestartAhead /\ buffer.prepare <= buffer.start /\ (inSetPiece => buffer.active)

FoulInv ==
  Pending => /\ ~buffer.active /\ inPlay /\ ~inSetPiece
             /\ now <= foul.time + CancelMs + StepMs
             /\ at \in {"taken", "hold", "teams", "trips"} => now <= foul.time + CancelMs

Timing == Path /\ RestartInv /\ FoulInv

Early == at \in {"collide", "half", "restart"}

(* The times and flags as numbers and Booleans.                            *)
LEMMA BufferTypes ==
  ASSUME TypeOK
  PROVE  /\ now \in Nat /\ buffer.prepare \in Nat /\ buffer.start \in Nat
         /\ buffer.active \in BOOLEAN /\ foul.time \in Nat /\ inPlay \in BOOLEAN
         /\ inSetPiece \in BOOLEAN /\ buffer.piece \in Awards
BY Types DEF Buffer, Foul

(* What a decision does to the restart and to a pending foul.              *)
LEMMA DecisionTiming ==
  ASSUME TypeOK, RestartInv, FoulInv, Calm \/ (Stoppage /\ ~inSetPiece),
         inSetPiece' = inSetPiece, Early <=> Early'
  PROVE  /\ RestartInv'
         /\ Pending' => /\ foul' = foul /\ now' = now /\ Pending
                       /\ ~buffer'.active /\ inPlay' /\ ~inSetPiece'
<1>1. CASE Calm
  <2>1. UNCHANGED <<now, inPlay, buffer, prepared>> /\ (Pending' => Pending /\ foul' = foul)
    BY <1>1 DEF Calm, NoAward
  <2> QED BY <2>1 DEF RestartInv, RestartAhead, Ahead, Early, FoulInv
<1>2. CASE Stoppage /\ ~inSetPiece
  <2>1. now' < buffer'.prepare /\ buffer'.prepare <= buffer'.start /\ inPlay' = FALSE
        /\ buffer'.active /\ ~inSetPiece' /\ ~Pending'
    BY <1>2 DEF Stoppage
  <2>2. now' < buffer'.start /\ now' < buffer'.prepare + StepMs /\ now' < buffer'.start + StepMs
    <3>1. now' \in Nat /\ buffer'.prepare \in Nat /\ buffer'.start \in Nat
      BY <1>2 DEF Stoppage, Buffer
    <3> QED BY <2>1, <3>1, Numbers
  <2> QED BY <2>1, <2>2 DEF RestartInv, RestartAhead, Ahead
<1> QED BY <1>1, <1>2

(* The kick-off is ahead at the beginning.                                 *)
LEMMA InitTiming == Init => Timing
BY Numbers DEF Init, Timing, Path, RestartInv, RestartAhead, Ahead, FoulInv, Pending

(* Every step keeps the restart ahead and a foul in open play.             *)
LEMMA TimingStep ==
  ASSUME TypeOK, Timing, [Next]_vars
  PROVE  Timing'
<1> USE DEF Timing
<1>1. ASSUME Begin PROVE Timing'
  <2>1. UNCHANGED <<now, inPlay, inSetPiece, buffer, prepared, foul>>
    BY <1>1 DEF Begin, game
  <2>2. Path'
    BY <1>1, <2>1, BufferTypes DEF Begin, Path
  <2>3. RestartInv' /\ FoulInv'
    BY <1>1, <2>1 DEF Begin, RestartInv, RestartAhead, Ahead, FoulInv, Pending
  <2> QED BY <2>2, <2>3
<1>2. ASSUME HalfTime PROVE Timing'
  <2>1. inSetPiece' = inSetPiece /\ ~inSetPiece /\ inPlay /\ at = "half" /\ at' = "lines"
    BY <1>2 DEF HalfTime, Path
  <2>2. CASE UNCHANGED <<now, inPlay, buffer, prepared, foul, phase>>
    BY <2>1, <2>2 DEF Path, RestartInv, RestartAhead, Ahead, FoulInv, Pending
  <2>3. CASE ~UNCHANGED <<now, inPlay, buffer, prepared, foul, phase>>
    <3>1. /\ buffer'.active /\ now' = now /\ now < buffer'.prepare /\ prepared' = FALSE
          /\ buffer'.prepare <= buffer'.start /\ foul'.type = 0 /\ buffer' \in Buffer
      BY <1>2, <2>3, HalfTimeBuffer
    <3>2. now' < buffer'.start
      BY <3>1, BufferTypes DEF Buffer
    <3> QED BY <2>1, <3>1, <3>2 DEF Path, RestartInv, RestartAhead, Ahead, FoulInv, Pending
  <2> QED BY <2>2, <2>3
<1>3. ASSUME GoalLines PROVE Timing'
  <2>1. inSetPiece' = inSetPiece /\ ~inSetPiece /\ at = "lines" /\ at' = "sideline"
    BY <1>3 DEF GoalLines, Path, game
  <2>2. RestartInv' /\ (Pending' => /\ foul' = foul /\ now' = now /\ Pending
                                   /\ ~buffer'.active /\ inPlay' /\ ~inSetPiece')
    BY <1>3, <2>1, GoalLinesSettles, DecisionTiming DEF Early
  <2> QED BY <2>1, <2>2 DEF Path, FoulInv
<1>4. ASSUME Sidelines PROVE Timing'
  <2>1. inSetPiece' = inSetPiece /\ ~inSetPiece /\ at = "sideline" /\ at' = "foul"
    BY <1>4 DEF Sidelines, Path, game
  <2>2. RestartInv' /\ (Pending' => /\ foul' = foul /\ now' = now /\ Pending
                                   /\ ~buffer'.active /\ inPlay' /\ ~inSetPiece')
    BY <1>4, <2>1, SidelinesSettles, DecisionTiming DEF Early
  <2> QED BY <2>1, <2>2 DEF Path, FoulInv
<1>5. ASSUME LastFoulCheck PROVE Timing'
  <2>1. inSetPiece' = inSetPiece /\ ~inSetPiece /\ at = "foul" /\ at' = "taken"
        /\ CheckFoul(foul, NoAward)
    BY <1>5 DEF LastFoulCheck, Path, game
  <2>2. ((Stoppage /\ Pending) \/ Calm) /\ (Pending' => now <= foul.time + CancelMs)
    BY <2>1, CheckSettles
  <2>3. RestartInv' /\ (Pending' => /\ foul' = foul /\ now' = now /\ Pending
                                   /\ ~buffer'.active /\ inPlay' /\ ~inSetPiece')
    BY <2>1, <2>2, DecisionTiming DEF Early
  <2>4. now <= foul.time + CancelMs => now <= foul.time + CancelMs + StepMs
    BY BufferTypes, Numbers
  <2> QED BY <2>1, <2>2, <2>3, <2>4 DEF Path, FoulInv
<1>6. ASSUME Restart PROVE Timing'
  <2>1. now' = now /\ foul' = foul /\ at = "restart" /\ at' = "taken"
    BY <1>6 DEF Restart
  <2>2. /\ buffer'.active = buffer.active /\ buffer'.prepare = buffer.prepare
        /\ buffer'.start = buffer.start
    BY <1>6, RestartBuffer
  <2>3. ~Pending'
    BY <2>1 DEF Path, FoulInv, Pending
  <2>4. CASE inPlay
    <3>1. UNCHANGED <<inPlay, inSetPiece, prepared>> /\ inSetPiece
      BY <1>6, <2>1, <2>4 DEF Restart, Path
    <3> QED BY <2>1, <2>2, <2>3, <2>4, <3>1 DEF Path, RestartInv, RestartAhead, FoulInv
  <2>5. CASE ~inPlay
    <3>1. /\ buffer.active /\ ~inSetPiece /\ now < buffer.start + StepMs
          /\ ~prepared => now < buffer.prepare + StepMs
          /\ buffer.prepare <= buffer.start
      BY <2>1, <2>5 DEF RestartInv, RestartAhead, Ahead
    <3>2. /\ inPlay' = Due(buffer.start) /\ inSetPiece' = Due(buffer.start)
          /\ prepared' = (prepared \/ Due(buffer.prepare))
      <4>1. Due(buffer.prepare) => prepared' = TRUE
        BY <1>6, <2>5, <3>1 DEF Restart, Prepare
      <4>2. ~Due(buffer.prepare) => prepared' = prepared
        BY <1>6, <2>5, <3>1 DEF Restart
      <4>3. inPlay' = Due(buffer.start) /\ inSetPiece' = Due(buffer.start)
        BY <1>6, <2>5, <3>1 DEF Restart
      <4> QED BY <4>1, <4>2, <4>3, Types
    <3>3. CASE Due(buffer.start)
      <4>1. buffer.start <= now
        BY <3>3 DEF Due
      <4>2. prepared'
        <5>1. now < buffer.prepare + StepMs => Due(buffer.prepare)
          BY <3>1, <4>1, BufferTypes, Numbers DEF Due
        <5> QED BY <3>1, <3>2, <5>1
      <4> QED BY <2>1, <2>2, <2>3, <3>1, <3>2, <3>3, <4>2
              DEF Path, RestartInv, RestartAhead, FoulInv
    <3>4. CASE ~Due(buffer.start)
      <4>1. now < buffer.start
        BY <3>1, <3>4, BufferTypes DEF Due
      <4>2. ~prepared' => now < buffer.prepare
        <5>1. now < buffer.prepare + StepMs /\ ~Due(buffer.prepare) => now < buffer.prepare
          BY BufferTypes DEF Due
        <5> QED BY <3>1, <3>2, <5>1
      <4>3. ~inPlay' /\ ~inSetPiece'
        BY <3>2, <3>4
      <4> QED BY <2>1, <2>2, <2>3, <3>1, <4>1, <4>2, <4>3
              DEF Path, RestartInv, RestartAhead, Ahead, FoulInv
    <3> QED BY <3>3, <3>4
  <2> QED BY <2>4, <2>5
<1>7. ASSUME Taken PROVE Timing'
  <2>1. UNCHANGED <<now, inPlay, prepared>> /\ at = "taken" /\ at' = "hold"
    BY <1>7 DEF Taken
  <2>2. CASE SetPieceTaken
    <3>1. inSetPiece /\ ~inSetPiece' /\ foul'.type = 0 /\ inPlay
          /\ buffer'.prepare = buffer.prepare /\ buffer'.start = buffer.start
      BY <2>2, TakenBuffer DEF SetPieceTaken, RestartInv, RestartAhead
    <3> QED BY <2>1, <3>1 DEF Path, RestartInv, RestartAhead, FoulInv, Pending
  <2>3. CASE UNCHANGED <<buffer, inSetPiece, foul, phase>>
    BY <2>1, <2>3 DEF Path, RestartInv, RestartAhead, Ahead, FoulInv, Pending
  <2> QED BY <1>7, <2>2, <2>3 DEF Taken
<1>8. ASSUME Hold PROVE Timing'
  <2>1. UNCHANGED <<inPlay, inSetPiece, buffer, prepared, foul>> /\ now' = now + StepMs
        /\ at = "hold" /\ at' = "collide" /\ ~inPlay
    BY <1>8 DEF Hold, OnHold, game
  <2>2. now < buffer.start => now + StepMs < buffer.start + StepMs
    BY BufferTypes, Numbers
  <2>3. now < buffer.prepare => now + StepMs < buffer.prepare + StepMs
    BY BufferTypes, Numbers
  <2> QED BY <2>1, <2>2, <2>3 DEF Path, RestartInv, RestartAhead, Ahead, FoulInv, Pending
<1>9. ASSUME Simulate PROVE Timing'
  BY <1>9 DEF Simulate, game, Path, RestartInv, RestartAhead, Ahead, FoulInv, Pending
<1>10. ASSUME TeamsProcess PROVE Timing'
  <2>1. inSetPiece' = inSetPiece /\ at = "teams" /\ at' = "trips"
    BY <1>10 DEF TeamsProcess, game
  <2>2. RestartInv' /\ (Pending' => /\ foul' = foul /\ now' = now /\ Pending
                                   /\ ~buffer'.active /\ inPlay' /\ ~inSetPiece')
    BY <1>10, <2>1, TeamsSettle, DecisionTiming DEF Early
  <2> QED BY <2>1, <2>2 DEF Path, FoulInv
<1>11. ASSUME EndStep PROVE Timing'
  <2>1. UNCHANGED <<inPlay, inSetPiece, buffer, prepared, foul>> /\ now' = now + StepMs
        /\ at = "trips" /\ at' = "collide"
    BY <1>11 DEF EndStep
  <2>2. now < buffer.start => now + StepMs < buffer.start + StepMs
    BY BufferTypes, Numbers
  <2>3. now < buffer.prepare => now + StepMs < buffer.prepare + StepMs
    BY BufferTypes, Numbers
  <2>4. now <= foul.time + CancelMs => now + StepMs <= foul.time + CancelMs + StepMs
    BY BufferTypes, Numbers
  <2> QED BY <2>1, <2>2, <2>3, <2>4
          DEF Path, RestartInv, RestartAhead, Ahead, FoulInv, Pending
<1>12. ASSUME Touch PROVE Timing'
  <2>1. inSetPiece' = inSetPiece /\ at \in {"collide", "teams"} /\ at' = at
    BY <1>12 DEF Touch, game
  <2>2. RestartInv' /\ (Pending' => /\ foul' = foul /\ now' = now /\ Pending
                                   /\ ~buffer'.active /\ inPlay' /\ ~inSetPiece')
    BY <1>12, <2>1, TouchSettles, DecisionTiming DEF Touch, Early
  <2> QED BY <2>1, <2>2 DEF Path, FoulInv
<1>13. ASSUME Trip PROVE Timing'
  <2>1. UNCHANGED <<at, now, inPlay, inSetPiece, buffer, prepared>> /\ at = "trips"
        /\ ~buffer.active /\ foul'.time = now
    BY <1>13 DEF Trip, game
  <2>2. inPlay /\ ~inSetPiece
    BY <2>1, Types DEF RestartInv, RestartAhead
  <2>3. now <= now + CancelMs /\ now <= now + CancelMs + StepMs
    BY BufferTypes, Numbers
  <2> QED BY <2>1, <2>2, <2>3 DEF Path, RestartInv, RestartAhead, Ahead, FoulInv, Pending
<1>14. ASSUME UNCHANGED vars PROVE Timing'
  BY <1>14 DEF vars, game, Path, RestartInv, RestartAhead, Ahead, FoulInv, Pending
<1> QED BY <1>1, <1>2, <1>3, <1>4, <1>5, <1>6, <1>7, <1>8, <1>9, <1>10, <1>11, <1>12, <1>13,
           <1>14 DEF Next, Process, Finished

(* And so they are in every match.                                         *)
LEMMA TimingCorrect == Spec => []Timing
<1> QED BY InitTiming, TimingStep, TypeCorrect, PTL DEF Spec

(* No restart is missed: whatever the delays, the clock that jumps over    *)
(* the pauses never jumps over the window of a set piece.                  *)
THEOREM RestartNeverMissed == Spec => []RestartAhead
<1>1. Timing => RestartAhead
  BY DEF Timing, RestartInv
<1> QED BY <1>1, TimingCorrect, PTL

(* No foul outlives the passage of play it was made in, nor its advantage. *)
THEOREM FoulsAreSettled == Spec => []FoulsSettled
<1>1. Timing => FoulsSettled
  BY DEF Timing, FoulInv, FoulsSettled
<1> QED BY <1>1, TimingCorrect, PTL

-----------------------------------------------------------------------------
(* What is shown.  GetState() shows the score, the set piece as it was when *)
(* the step began, and every card before its effect: a card that is not    *)
(* shown yet belongs to a stoppage and takes effect later than the clock   *)
(* reaches before the next step ends.                                      *)
GoalInv == seen.goals = goals

Mode == IF inSetPiece THEN buffer.piece ELSE "normal"
Before == at \in {"collide", "half", "lines", "sideline", "foul", "restart"}
ModeInv ==
  /\ Before => seen.mode = Mode
  /\ seen.mode # "normal" => Mode \in {seen.mode, "normal"}

Unseen(p) == cards[p] > 0 /\ ~seen.flags[p].card
CardAhead(p) ==
  /\ seen.flags[p].card => cards[p] > 0
  /\ Unseen(p) => /\ ~inPlay /\ at \notin {"half", "lines"} /\ now < buffer.prepare
                  /\ effective[p] > now + (IF at = "sideline" THEN BumpMs ELSE 0)
OffShown(p) ==
  /\ p \in onPitch => seen.flags[p].active
  /\ seen.flags[p].active /\ p \notin onPitch => seen.flags[p].card
CardInv == \A p \in Players : CardAhead(p) /\ OffShown(p)

Shown == GoalInv /\ ModeInv /\ CardInv

(* A decision leaves the set piece that is shown alone.                    *)
LEMMA DecisionMode ==
  ASSUME ModeInv, inSetPiece' = inSetPiece, seen' = seen,
         Calm \/ (Stoppage /\ ~inSetPiece), Before' => Before
  PROVE  ModeInv'
<1>1. CASE Calm
  BY <1>1 DEF Calm, NoAward, ModeInv, Mode
<1>2. CASE Stoppage /\ ~inSetPiece
  BY <1>2 DEF ModeInv, Mode
<1> QED BY <1>1, <1>2

(* A decision gives a card only if no other is waiting to be shown, or     *)
(* moves the clock towards a card less than its effect is away.            *)
LEMMA DecisionCards ==
  ASSUME TypeOK, CardInv, Calm \/ Stoppage, seen' = seen, NEW p \in Players,
         \/ Calm \/ ~Unseen(p)
         \/ /\ at = "sideline" /\ at' = "foul" /\ now' = now + BumpMs
            /\ UNCHANGED <<cards, effective>>,
         at' \notin {"half", "lines"}, at' = "sideline" => at = "lines"
  PROVE  CardAhead(p)'
<1>1. now \in Nat /\ cards[p] \in Nat /\ effective[p] \in Nat /\ BumpMs \in Nat
  BY Types, Numbers
<1>2. CardAhead(p)
  BY DEF CardInv
<1>3. CASE Calm
  <2>1. UNCHANGED <<now, inPlay, buffer, cards, effective, seen>>
    BY <1>3 DEF Calm, NoAward
  <2>2. Unseen(p) => effective[p] > now + 0
    BY <1>1, <1>2 DEF CardAhead
  <2>3. Unseen(p)' <=> Unseen(p)
    BY <2>1 DEF Unseen
  <2>4. CASE Unseen(p)
    <3>1. at' # "sideline" /\ ~inPlay' /\ now' < buffer'.prepare
      BY <1>2, <2>1, <2>4 DEF CardAhead
    <3>2. effective'[p] > now' + 0
      BY <2>1, <2>2, <2>4
    <3>3. seen'.flags[p].card => cards'[p] > 0
      BY <1>2, <2>1 DEF CardAhead
    <3> QED BY <3>1, <3>2, <3>3 DEF CardAhead
  <2>5. CASE ~Unseen(p)
    BY <1>2, <2>1, <2>3, <2>5 DEF CardAhead
  <2> QED BY <2>4, <2>5
<1>4. CASE Stoppage /\ ~Unseen(p)
  <2>1. \/ cards'[p] = cards[p] /\ effective'[p] = effective[p]
        \/ cards'[p] >= cards[p] /\ effective'[p] > now' + BumpMs
    BY <1>4 DEF Stoppage
  <2>2. ~inPlay' /\ now' < buffer'.prepare /\ now' \in Nat /\ cards'[p] \in Nat
        /\ effective'[p] \in Nat
    BY <1>4 DEF Stoppage, Carded
  <2>3. seen'.flags[p].card => cards'[p] > 0
    BY <1>1, <1>2, <2>1, <2>2 DEF CardAhead
  <2>4. Unseen(p)' => effective'[p] > now' + BumpMs /\ effective'[p] > now' + 0
    BY <1>1, <1>4, <2>1, <2>2 DEF Unseen
  <2> QED BY <2>2, <2>3, <2>4 DEF CardAhead
<1>5. CASE /\ Stoppage /\ at = "sideline" /\ at' = "foul" /\ now' = now + BumpMs
           /\ UNCHANGED <<cards, effective>>
  <2>1. ~inPlay' /\ now' < buffer'.prepare
    BY <1>5 DEF Stoppage
  <2>2. Unseen(p) => effective[p] > now + BumpMs + 0
    BY <1>1, <1>2, <1>5 DEF CardAhead
  <2> QED BY <1>2, <1>5, <2>1, <2>2 DEF CardAhead, Unseen
<1> QED BY <1>3, <1>4, <1>5

(* In play every card has been shown.                                      *)
LEMMA NoneUnseen ==
  ASSUME CardInv, NEW p \in Players, inPlay \/ at \in {"half", "lines"}
  PROVE  ~Unseen(p)
BY DEF CardInv, CardAhead

(* After a report what is shown is what is the case.                       *)
LEMMA ReportShows ==
  ASSUME Report
  PROVE  Shown'
<1>1. seen'.goals = goals' /\ seen'.mode = Mode'
  BY DEF Report, Mode
<1>2. ASSUME NEW p \in Players
      PROVE  seen'.flags[p] = [active |-> p \in onPitch', card |-> cards'[p] > 0]
  BY DEF Report
<1>3. CardInv'
  <2> SUFFICES ASSUME NEW p \in Players PROVE CardAhead(p)' /\ OffShown(p)'
    BY DEF CardInv
  <2>1. (seen'.flags[p].active <=> p \in onPitch') /\ (seen'.flags[p].card <=> cards'[p] > 0)
    <3> DEFINE a == p \in onPitch'
               c == cards'[p] > 0
    <3>1. seen'.flags[p] = [active |-> a, card |-> c]
      BY <1>2
    <3> HIDE DEF a, c
    <3>2. seen'.flags[p].active = a /\ seen'.flags[p].card = c
      BY <3>1
    <3> QED BY ONLY <3>2, Zenon DEF a, c
  <2>2. ~Unseen(p)'
    BY <2>1 DEF Unseen
  <2> QED BY <2>1, <2>2 DEF CardAhead, OffShown
<1> QED BY <1>1, <1>3 DEF Shown, GoalInv, ModeInv

(* What is shown before the kick-off.                                      *)
LEMMA InitShown == Init => Shown
<1> SUFFICES ASSUME Init PROVE Shown
  OBVIOUS
<1>1. GoalInv /\ ModeInv
  BY DEF Init, M!KickedOff, GoalInv, ModeInv, Mode, M!Teams, Teams
<1>2. CardInv
  BY DEF Init, M!KickedOff, CardInv, CardAhead, OffShown, Unseen
<1> QED BY <1>1, <1>2 DEF Shown

(* A step that neither decides nor shows anything.                         *)
LEMMA QuietShown ==
  ASSUME Shown, UNCHANGED <<goals, cards, effective, onPitch, seen>>, ModeInv',
         \A p \in Players : CardAhead(p)'
  PROVE  Shown'
BY DEF Shown, GoalInv, CardInv, OffShown

(* Every step keeps what has been shown apart from what is still to be.    *)
LEMMA ShownStep ==
  ASSUME TypeOK, Timing, Shown, [Next]_vars
  PROVE  Shown'
<1>0. GoalInv /\ ModeInv /\ CardInv /\ Path /\ RestartInv /\ FoulInv
  BY DEF Shown, Timing
<1>1. ASSUME Begin PROVE Shown'
  <2>1. /\ UNCHANGED <<goals, cards, effective, onPitch, seen, inSetPiece, buffer, inPlay, now>>
        /\ at = "collide" /\ at' \in {"half", "restart"} /\ (at' = "half" => inPlay)
    BY <1>1 DEF Begin, game, squad
  <2>2. ModeInv'
    BY <1>0, <2>1 DEF ModeInv, Before, Mode
  <2>3. ASSUME NEW p \in Players PROVE CardAhead(p)'
    BY <1>0, <2>1, NoneUnseen DEF CardInv, CardAhead, Unseen
  <2> QED BY <2>1, <2>2, <2>3, QuietShown
<1>2. ASSUME HalfTime PROVE Shown'
  <2>1. /\ UNCHANGED <<goals, cards, effective, onPitch, seen, inSetPiece>>
        /\ at = "half" /\ at' = "lines"
    BY <1>2 DEF HalfTime, squad
  <2>2. ModeInv'
    BY <1>0, <2>1 DEF ModeInv, Before, Mode, Path
  <2>3. ASSUME NEW p \in Players PROVE CardAhead(p)'
    BY <1>0, <2>1, NoneUnseen DEF CardInv, CardAhead, Unseen
  <2> QED BY <2>1, <2>2, <2>3, QuietShown
<1>3. ASSUME GoalLines PROVE Shown'
  <2>1. /\ UNCHANGED <<goals, onPitch, seen, inSetPiece>> /\ ~inSetPiece
        /\ at = "lines" /\ at' = "sideline"
    BY <1>0, <1>3 DEF GoalLines, game, Path
  <2>2. Calm \/ Stoppage
    BY <1>3, GoalLinesSettles
  <2>3. ModeInv'
    BY <1>0, <2>1, <2>2, DecisionMode DEF Before
  <2>4. ASSUME NEW p \in Players PROVE CardAhead(p)'
    <3>1. ~Unseen(p)
      BY <1>0, <2>1, NoneUnseen
    <3> QED BY <1>0, <2>1, <2>2, <3>1, DecisionCards
  <2> QED BY <1>0, <2>1, <2>3, <2>4 DEF Shown, GoalInv, CardInv, OffShown
<1>4. ASSUME Sidelines PROVE Shown'
  <2>1. /\ UNCHANGED <<goals, onPitch, seen, inSetPiece>> /\ ~inSetPiece
        /\ at = "sideline" /\ at' = "foul"
    BY <1>0, <1>4 DEF Sidelines, game, Path
  <2>2. \/ Calm
        \/ Stoppage /\ (~Pending => now' = now + BumpMs /\ UNCHANGED <<cards, effective>>)
    BY <1>4, SidelinesSettles
  <2>3. ModeInv'
    BY <1>0, <2>1, <2>2, DecisionMode DEF Before
  <2>4. ASSUME NEW p \in Players PROVE CardAhead(p)'
    <3>1. Pending => ~Unseen(p)
      BY <1>0, NoneUnseen DEF FoulInv
    <3> QED BY <1>0, <2>1, <2>2, <3>1, DecisionCards
  <2> QED BY <1>0, <2>1, <2>3, <2>4 DEF Shown, GoalInv, CardInv, OffShown
<1>5. ASSUME LastFoulCheck PROVE Shown'
  <2>1. /\ UNCHANGED <<goals, onPitch, seen, inSetPiece>> /\ ~inSetPiece
        /\ at = "foul" /\ at' = "taken" /\ CheckFoul(foul, NoAward)
    BY <1>0, <1>5 DEF LastFoulCheck, game, Path
  <2>2. (Stoppage /\ Pending) \/ Calm
    BY <2>1, CheckSettles
  <2>3. ModeInv'
    BY <1>0, <2>1, <2>2, DecisionMode DEF Before
  <2>4. ASSUME NEW p \in Players PROVE CardAhead(p)'
    <3>1. Pending => ~Unseen(p)
      BY <1>0, NoneUnseen DEF FoulInv
    <3> QED BY <1>0, <2>1, <2>2, <3>1, DecisionCards
  <2> QED BY <1>0, <2>1, <2>3, <2>4 DEF Shown, GoalInv, CardInv, OffShown
<1>6. ASSUME Restart PROVE Shown'
  <2>1. /\ UNCHANGED <<goals, cards, effective, onPitch, seen, now>>
        /\ at = "restart" /\ at' = "taken"
    BY <1>6 DEF Restart, squad
  <2>2. buffer'.piece = buffer.piece /\ buffer'.prepare = buffer.prepare
    BY <1>6, RestartBuffer
  <2>3. ModeInv'
    <3>1. CASE inSetPiece
      BY <1>0, <1>6, <2>1, <2>2, <3>1 DEF Restart, ModeInv, Before, Mode
    <3>2. CASE ~inSetPiece
      BY <1>0, <2>1, <3>2 DEF ModeInv, Before, Mode
    <3> QED BY <3>1, <3>2
  <2>4. ASSUME NEW p \in Players PROVE CardAhead(p)'
    <3>1. CASE ~Unseen(p)
      BY <1>0, <2>1, <3>1 DEF CardInv, CardAhead, Unseen
    <3>2. CASE Unseen(p)
      <4>1. ~inPlay /\ now < buffer.prepare /\ effective[p] > now + 0
        BY <1>0, <2>1, <3>2 DEF CardInv, CardAhead
      <4>2. ~Due(buffer.start)
        BY <1>0, <4>1, BufferTypes DEF RestartInv, Due
      <4>3. ~inPlay'
        BY <1>6, <4>1, <4>2 DEF Restart
      <4> QED BY <1>0, <2>1, <2>2, <4>1, <4>3 DEF CardInv, CardAhead
    <3> QED BY <3>1, <3>2
  <2> QED BY <2>1, <2>3, <2>4, QuietShown
<1>7. ASSUME Taken PROVE Shown'
  <2>1. /\ UNCHANGED <<goals, cards, effective, onPitch, seen, now, inPlay>>
        /\ at = "taken" /\ at' = "hold"
    BY <1>7 DEF Taken, squad
  <2>2. /\ buffer'.piece = buffer.piece /\ buffer'.prepare = buffer.prepare
        /\ inSetPiece' = inSetPiece \/ ~inSetPiece'
    BY <1>7, TakenBuffer DEF Taken, SetPieceTaken
  <2>3. ModeInv'
    BY <1>0, <2>1, <2>2 DEF ModeInv, Before, Mode
  <2>4. ASSUME NEW p \in Players PROVE CardAhead(p)'
    BY <1>0, <2>1, <2>2 DEF CardInv, CardAhead, Unseen
  <2> QED BY <2>1, <2>3, <2>4, QuietShown
<1>8. ASSUME Hold PROVE Shown'
  BY <1>8, ReportShows DEF Hold
<1>9. ASSUME Simulate PROVE Shown'
  <2>1. /\ UNCHANGED <<goals, cards, effective, onPitch, seen, inSetPiece, buffer, inPlay, now>>
        /\ at = "hold" /\ at' = "teams"
    BY <1>9 DEF Simulate, game, squad
  <2>2. ModeInv'
    BY <1>0, <2>1 DEF ModeInv, Before, Mode
  <2>3. ASSUME NEW p \in Players PROVE CardAhead(p)'
    BY <1>0, <2>1 DEF CardInv, CardAhead, Unseen
  <2> QED BY <2>1, <2>2, <2>3, QuietShown
<1>10. ASSUME TeamsProcess PROVE Shown'
  <2>1. /\ UNCHANGED <<goals, seen, inSetPiece>> /\ at = "teams" /\ at' = "trips"
    BY <1>10 DEF TeamsProcess, game
  <2>2. Calm \/ (Stoppage /\ inPlay /\ ~inSetPiece)
    BY <1>10, TeamsSettle
  <2>3. ModeInv'
    BY <1>0, <2>1, <2>2, DecisionMode DEF Before
  <2>4. ASSUME NEW p \in Players PROVE CardAhead(p)'
    <3>1. Calm \/ ~Unseen(p)
      BY <1>0, <2>2, NoneUnseen
    <3> QED BY <1>0, <2>1, <2>2, <3>1, DecisionCards
  <2>5. ASSUME NEW p \in Players PROVE OffShown(p)'
    <3>1. PICK gone \in SUBSET {q \in onPitch : Dismissed(q, now')} : onPitch' = onPitch \ gone
      BY <1>10 DEF TeamsProcess
    <3>2. OffShown(p)
      BY <1>0 DEF CardInv
    <3>3. CASE p \in gone
      <4>1. cards[p] > 1 /\ effective[p] <= now'
        BY <3>1, <3>3 DEF Dismissed
      <4>2. ~Unseen(p)
        <5>1. SUFFICES ASSUME Unseen(p) PROVE FALSE
          OBVIOUS
        <5>2. ~inPlay /\ effective[p] > now + 0
          BY <1>0, <2>1, <5>1 DEF CardInv, CardAhead
        <5>3. now' = now
          BY <2>2, <5>2 DEF Calm, NoAward
        <5> QED BY <4>1, <5>2, <5>3, Types
      <4>3. cards[p] > 0
        BY <4>1, Types
      <4> QED BY <2>1, <3>1, <3>2, <3>3, <4>2, <4>3 DEF OffShown, Unseen
    <3>4. CASE p \notin gone
      BY <2>1, <3>1, <3>2, <3>4 DEF OffShown
    <3> QED BY <3>3, <3>4
  <2> QED BY <1>0, <2>1, <2>3, <2>4, <2>5 DEF Shown, GoalInv, CardInv
<1>11. ASSUME EndStep PROVE Shown'
  BY <1>11, ReportShows DEF EndStep
<1>12. ASSUME Touch PROVE Shown'
  <2>1. /\ UNCHANGED <<goals, onPitch, seen, inSetPiece, at>> /\ at \in {"collide", "teams"}
    BY <1>12 DEF Touch, game
  <2>2. Calm \/ (Stoppage /\ inPlay /\ ~inSetPiece)
    BY <1>12, TouchSettles DEF Touch
  <2>3. ModeInv'
    BY <1>0, <2>1, <2>2, DecisionMode DEF Before
  <2>4. ASSUME NEW p \in Players PROVE CardAhead(p)'
    <3>1. Calm \/ ~Unseen(p)
      BY <1>0, <2>2, NoneUnseen
    <3> QED BY <1>0, <2>1, <2>2, <3>1, DecisionCards
  <2> QED BY <1>0, <2>1, <2>3, <2>4 DEF Shown, GoalInv, CardInv, OffShown
<1>13. ASSUME Trip PROVE Shown'
  <2>1. UNCHANGED <<goals, cards, effective, onPitch, seen, inSetPiece, buffer, inPlay, now, at>>
    BY <1>13 DEF Trip, game, squad
  <2>2. ModeInv'
    BY <1>0, <2>1 DEF ModeInv, Before, Mode
  <2>3. ASSUME NEW p \in Players PROVE CardAhead(p)'
    BY <1>0, <2>1 DEF CardInv, CardAhead, Unseen
  <2> QED BY <2>1, <2>2, <2>3, QuietShown
<1>14. ASSUME UNCHANGED vars PROVE Shown'
  <2>1. UNCHANGED <<goals, cards, effective, onPitch, seen, inSetPiece, buffer, inPlay, now, at>>
    BY <1>14 DEF vars, game, squad
  <2>2. ModeInv'
    BY <1>0, <2>1 DEF ModeInv, Before, Mode
  <2>3. ASSUME NEW p \in Players PROVE CardAhead(p)'
    BY <1>0, <2>1 DEF CardInv, CardAhead, Unseen
  <2> QED BY <2>1, <2>2, <2>3, QuietShown
<1> QED BY <1>1, <1>2, <1>3, <1>4, <1>5, <1>6, <1>7, <1>8, <1>9, <1>10, <1>11, <1>12, <1>13,
           <1>14 DEF Next, Process, Finished

(* What is shown after a step is a step of MatchEngine from what was shown *)
(* before it.                                                              *)
LEMMA ReportSteps ==
  ASSUME TypeOK, TypeOK', Shown, Report, UNCHANGED <<inSetPiece, buffer, cards, onPitch>>,
         goals' \in M!GoalsAfter(seen)
  PROVE  seen' \in M!EngineStep(seen)
<1>1. seen \in M!Engine /\ seen' \in M!Engine
  BY DEF TypeOK
<1>2. seen'.goals \in M!GoalsAfter(seen)
  BY DEF Report
<1>3. seen'.mode \in M!ModeAfter(seen)
  <2>1. seen'.mode = Mode
    BY DEF Report, Mode
  <2>2. seen.mode # "normal" => Mode \in {seen.mode, "normal"}
    BY DEF Shown, ModeInv
  <2>3. seen'.mode \in M!Modes
    BY <1>1 DEF M!Engine
  <2> QED BY <2>1, <2>2, <2>3 DEF M!ModeAfter
<1>4. seen'.flags \in M!FlagsAfter(seen)
  <2>1. seen'.flags \in [Players -> M!Flags]
    BY <1>1 DEF M!Engine
  <2>2. ASSUME NEW p \in Players PROVE M!FlagAfter(seen.flags[p], seen'.flags[p])
    <3> DEFINE a == p \in onPitch
               c == cards[p] > 0
    <3>1. seen'.flags[p] = [active |-> a, card |-> c]
      BY DEF Report
    <3>2. /\ seen.flags[p].card => c
          /\ a => seen.flags[p].active
          /\ seen.flags[p].active /\ ~a => seen.flags[p].card
      BY DEF Shown, CardInv, CardAhead, OffShown
    <3> HIDE DEF a, c
    <3>3. seen'.flags[p].active = a /\ seen'.flags[p].card = c
      BY <3>1
    <3> QED BY ONLY <3>2, <3>3, Zenon DEF M!FlagAfter
  <2> QED BY <2>1, <2>2 DEF M!FlagsAfter
<1>5. seen'.inPlay \in BOOLEAN
  BY <1>1 DEF M!Engine
<1>6. seen' \in [goals : M!GoalsAfter(seen), mode : M!ModeAfter(seen), inPlay : BOOLEAN \cup {TRUE},
                 flags : M!FlagsAfter(seen)]
  BY <1>1, <1>2, <1>3, <1>4, <1>5 DEF M!Engine
<1> QED BY <1>5, <1>6 DEF M!EngineStep

(* From one report to the next the match makes a step of MatchEngine.      *)
LEMMA EngineStepped ==
  ASSUME TypeOK, TypeOK', Shown, [Next]_vars
  PROVE  [seen' \in M!EngineStep(seen)]_seen
<1>1. ASSUME Hold PROVE seen' \in M!EngineStep(seen)
  <2>1. UNCHANGED <<inSetPiece, buffer, cards, onPitch, goals>> /\ Report
    BY <1>1 DEF Hold, game, squad
  <2>2. goals' \in M!GoalsAfter(seen)
    BY <2>1 DEF M!GoalsAfter, Shown, GoalInv
  <2> QED BY <2>1, <2>2, ReportSteps
<1>2. ASSUME EndStep PROVE seen' \in M!EngineStep(seen)
  <2>1. UNCHANGED <<inSetPiece, buffer, cards, onPitch>> /\ Report
    BY <1>2 DEF EndStep, squad
  <2>2. goals' \in M!GoalsAfter(seen)
    <3>1. seen.goals = goals
      BY DEF Shown, GoalInv
    <3>2. CASE goals' = goals
      BY <3>1, <3>2 DEF M!GoalsAfter
    <3>3. CASE goals[0] + goals[1] < MaxGoals /\ \E t \in Teams : goals' = [goals EXCEPT ![t] = @ + 1]
      <4>1. PICK t \in Teams : goals' = [goals EXCEPT ![t] = @ + 1]
        BY <3>3
      <4>2. t \in {u \in M!Teams : seen.goals[0] + seen.goals[1] < MaxGoals}
        BY <3>1, <3>3 DEF M!Teams, Teams
      <4> QED BY <3>1, <4>1, <4>2 DEF M!GoalsAfter
    <3> QED BY <1>2, <3>2, <3>3 DEF EndStep
  <2> QED BY <2>1, <2>2, ReportSteps
<1>3. CASE ~Hold /\ ~EndStep
  <2>1. seen' = seen
    BY <1>3 DEF Next, Process, Finished, Begin, HalfTime, GoalLines, Sidelines, LastFoulCheck,
       Restart, Taken, Simulate, TeamsProcess, Touch, Trip, vars
  <2> QED BY <2>1
<1> QED BY <1>1, <1>2, <1>3

(* Every step of the match is a step of the engine as the server's modules *)
(* see it.                                                                 *)
THEOREM ImplementsEngine == Spec => EngineRelation
<1> QED BY InitTypes, TypesStep, InitTiming, TimingStep, InitShown, ShownStep, EngineStepped,
           PTL DEF Spec, EngineRelation

-----------------------------------------------------------------------------
(* What PlayResumes rests on besides fairness: a stoppage that has been    *)
(* decided is only so long.                                                *)
Waiting == ~inPlay /\ at \notin {"half", "lines", "sideline", "foul"}

StagesLeft ==  \* of this step
  CASE at = "collide" -> 5 [] at = "restart" -> 4 [] at = "taken" -> 3
    [] at = "hold" -> 2 [] at = "teams" -> 1 [] OTHER -> 0

UntilPlay == 6 * (buffer.start + StepMs - now) + StagesLeft

WaitingDescends ==
  Waiting =>
    \/ inPlay'
    \/ /\ Waiting' /\ UntilPlay' <= UntilPlay
       /\ Process => UntilPlay' < UntilPlay

(* The clock is before the end of the window of the restart.               *)
LEMMA UntilPlayType ==
  ASSUME TypeOK, Timing, Waiting
  PROVE  UntilPlay \in Nat /\ buffer.active /\ ~inSetPiece
<1>1. /\ ~inPlay => /\ buffer.active /\ ~inSetPiece /\ Ahead(buffer.start)
      /\ now \in Nat /\ buffer.start \in Nat
  BY BufferTypes DEF Timing, RestartInv, RestartAhead
<1>2. now < buffer.start + StepMs
  BY <1>1, Numbers DEF Ahead, Waiting
<1>3. buffer.start + StepMs - now \in Nat
  BY <1>1, <1>2, Numbers
<1>4. StagesLeft \in 0..5
  BY DEF StagesLeft
<1> QED BY <1>1, <1>3, <1>4 DEF UntilPlay, Waiting

(* Nothing but a stage of Match::Process() is done while play is stopped   *)
(* and the restart is to come: the touches and trips that are left change  *)
(* nothing of it.                                                          *)
LEMMA CalmWaiting ==
  ASSUME TypeOK, Timing, Waiting, Touch \/ Trip
  PROVE  UNCHANGED <<at, now, inPlay>> /\ buffer'.start = buffer.start
<1>1. CASE Touch
  <2>1. at' = at /\ BallTouched
    BY <1>1 DEF Touch
  <2>2. Calm
    BY <2>1, TouchSettles DEF Waiting
  <2> QED BY <2>1, <2>2 DEF Calm, NoAward
<1>2. CASE Trip
  BY <1>2, UntilPlayType DEF Trip
<1> QED BY <1>1, <1>2

(* Play that has been stopped by the referee's decisions of a step is      *)
(* taken up again within so many stages: no later step of the wait moves   *)
(* the restart away, and every stage brings the clock nearer to it.        *)
THEOREM TheRestartComes == Spec => [](Waiting => UntilPlay \in Nat) /\ [][WaitingDescends]_vars
<1>1. TypeOK /\ Timing => (Waiting => UntilPlay \in Nat)
  BY UntilPlayType
<1>2. TypeOK /\ Timing /\ [Next]_vars => [WaitingDescends]_vars
  <2> SUFFICES ASSUME TypeOK, Timing, Next, Waiting, ~inPlay'
               PROVE  /\ Waiting' /\ UntilPlay' <= UntilPlay
                      /\ Process => UntilPlay' < UntilPlay
    BY DEF WaitingDescends
  <2> DEFINE left == buffer.start + StepMs - now
             leftNext == buffer'.start + StepMs - now'
  <2>0. /\ left \in Nat /\ StagesLeft \in Nat /\ UntilPlay = 6 * left + StagesLeft
        /\ UntilPlay' = 6 * leftNext + StagesLeft' /\ StepMs \in Nat /\ StepMs >= 1
        /\ now \in Nat /\ buffer.start \in Nat /\ buffer.active /\ ~inSetPiece /\ ~inPlay
        /\ at \in Stages
    <3>1. now < buffer.start + StepMs
      BY BufferTypes, Numbers DEF Timing, RestartInv, RestartAhead, Ahead, Waiting
    <3>2. StagesLeft \in Nat
      BY DEF StagesLeft
    <3>3. left \in Nat
      BY <3>1, BufferTypes, Numbers
    <3> QED BY <3>2, <3>3, BufferTypes, Numbers, UntilPlayType DEF UntilPlay, Waiting, TypeOK
  <2>1. ASSUME now' = now, buffer'.start = buffer.start, StagesLeft' \in Nat,
               StagesLeft' < StagesLeft
        PROVE  UntilPlay' < UntilPlay /\ UntilPlay' <= UntilPlay
    <3>1. leftNext = left
      BY <2>1
    <3> HIDE DEF left, leftNext
    <3>2. UntilPlay = 6 * left + StagesLeft /\ UntilPlay' = 6 * left + StagesLeft'
      BY <2>0, <3>1
    <3>3. 6 * left \in Nat /\ StagesLeft \in Nat /\ StagesLeft' \in Nat
      BY <2>0, <2>1
    <3> QED BY <2>1, <3>2, <3>3
  <2>2. ASSUME now' = now + StepMs, buffer'.start = buffer.start, StagesLeft' = 5
        PROVE  UntilPlay' < UntilPlay /\ UntilPlay' <= UntilPlay
    <3>1. leftNext = left - StepMs
      BY <2>0, <2>2
    <3> HIDE DEF left, leftNext
    <3> QED BY <2>0, <2>2, <3>1
  <2>3. CASE Begin
    <3>1. at = "collide" /\ at' = "restart" /\ now' = now /\ buffer' = buffer
      BY <2>0, <2>3 DEF Begin
    <3>2. StagesLeft = 5 /\ StagesLeft' = 4 /\ Waiting'
      BY <3>1 DEF StagesLeft, Waiting
    <3> QED BY <2>1, <3>1, <3>2
  <2>4. CASE Restart
    <3>1. at = "restart" /\ at' = "taken" /\ now' = now /\ buffer'.start = buffer.start
      BY <2>4, RestartBuffer DEF Restart
    <3>2. StagesLeft = 4 /\ StagesLeft' = 3 /\ Waiting'
      BY <3>1 DEF StagesLeft, Waiting
    <3> QED BY <2>1, <3>1, <3>2
  <2>5. CASE Taken
    <3>1. at = "taken" /\ at' = "hold" /\ now' = now /\ buffer' = buffer
      BY <2>0, <2>5 DEF Taken, SetPieceTaken
    <3>2. StagesLeft = 3 /\ StagesLeft' = 2 /\ Waiting'
      BY <3>1 DEF StagesLeft, Waiting
    <3> QED BY <2>1, <3>1, <3>2
  <2>6. CASE Hold
    <3>1. at = "hold" /\ at' = "collide" /\ now' = now + StepMs /\ buffer' = buffer
      BY <2>6 DEF Hold
    <3>2. StagesLeft' = 5 /\ Waiting'
      BY <3>1 DEF StagesLeft, Waiting
    <3> QED BY <2>2, <3>1, <3>2
  <2>7. CASE Simulate
    <3>1. at = "hold" /\ at' = "teams" /\ now' = now /\ buffer' = buffer
      BY <2>7 DEF Simulate
    <3>2. StagesLeft = 2 /\ StagesLeft' = 1 /\ Waiting'
      BY <3>1 DEF StagesLeft, Waiting
    <3> QED BY <2>1, <3>1, <3>2
  <2>8. CASE TeamsProcess
    <3>1. at = "teams" /\ at' = "trips"
      BY <2>8 DEF TeamsProcess
    <3>2. now' = now /\ buffer' = buffer
      BY <2>0, <2>8, TeamsSettle DEF Calm, NoAward
    <3>3. StagesLeft = 1 /\ StagesLeft' = 0 /\ Waiting'
      BY <3>1 DEF StagesLeft, Waiting
    <3> QED BY <2>1, <3>1, <3>2, <3>3
  <2>9. CASE EndStep
    <3>1. at = "trips" /\ at' = "collide" /\ now' = now + StepMs /\ buffer' = buffer
      BY <2>9 DEF EndStep
    <3>2. StagesLeft' = 5 /\ Waiting'
      BY <3>1 DEF StagesLeft, Waiting
    <3> QED BY <2>2, <3>1, <3>2
  <2>10. CASE HalfTime \/ GoalLines \/ Sidelines \/ LastFoulCheck
    BY <2>10 DEF HalfTime, GoalLines, Sidelines, LastFoulCheck, Waiting
  <2>11. CASE ~Process /\ (Touch \/ Trip)
    <3>1. UNCHANGED <<at, now, inPlay>> /\ buffer'.start = buffer.start
      BY <2>11, CalmWaiting
    <3>2. Waiting' /\ StagesLeft' = StagesLeft /\ leftNext = left
      BY <3>1 DEF Waiting, StagesLeft
    <3> HIDE DEF left, leftNext
    <3> QED BY <2>0, <2>11, <3>2
  <2>12. CASE Finished
    BY <2>0, <2>12 DEF Finished
  <2>13. CASE Process
    BY <2>13, <2>3, <2>4, <2>5, <2>6, <2>7, <2>8, <2>9, <2>10 DEF Process
  <2> QED BY <2>11, <2>12, <2>13 DEF Next
<1> QED BY <1>1, <1>2, TypeCorrect, TimingCorrect, PTL DEF Spec
=============================================================================
