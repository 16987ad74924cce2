------------------------------- MODULE Referee -------------------------------
(***************************************************************************)
(* The referee of a match and the steps of Match::Process() in which he    *)
(* takes part: fouls and their advantage, offside, balls out of play,      *)
(* goals, the clock that jumps over the pauses (animations is false in the *)
(* server), the restart, cards and sendings-off.  `at' is the stage of     *)
(* Match::Process() that comes next:                                       *)
(*                                                                         *)
(*   collide -> half -> lines -> sideline -> foul -> taken                 *)
(*                  \-> restart -------------------> taken -> hold         *)
(*   hold -> teams -> trips -> collide, or hold -> collide                 *)
(*                                                                         *)
(* Where the ball is, who touches it and who trips whom is chosen freely.  *)
(***************************************************************************)
EXTENDS Integers, FiniteSets

CONSTANTS
  Players, Home,   \* all players, and those of the first team
  NoOne,           \* the null pointer
  HalfTimes,       \* what the half-time test may answer
  StepMs,          \* int(kTimeStepMs)
  PrepareMs, BumpMs, StartMs,              \* a set piece: 2000, 1900, 2000
  CardPauseMs, CardMs,                     \* carded fouls: 10000, 6000
  GoalMs, GoalBumpMs, GoalStartMs,         \* after a goal: 500, 400, 500
  HalfMs, HalfStartMs,                     \* half time: 100, 200
  AdvantageMs, CancelMs,                   \* advantage: 600, 3000
  RelaxSteps,      \* afterSetPieceRelaxTime_ms in steps: 400 / 16
  MaxTime,         \* bound: no new step in play from this time on
  MaxGoals         \* bound: goals of a match

ASSUME RefereeAssumption ==
  /\ Players \subseteq Nat /\ IsFiniteSet(Players) /\ Home \subseteq Players
  /\ NoOne \notin Players
  /\ HalfTimes \subseteq BOOLEAN /\ FALSE \in HalfTimes
  /\ {StepMs, HalfMs} \subseteq Nat \ {0}
  /\ {PrepareMs, BumpMs, StartMs, CardPauseMs, CardMs, GoalMs, GoalBumpMs, GoalStartMs,
      HalfStartMs, AdvantageMs, CancelMs, RelaxSteps, MaxTime, MaxGoals} \subseteq Nat
  /\ BumpMs < PrepareMs /\ GoalBumpMs < GoalMs /\ BumpMs < CardMs
  /\ AdvantageMs <= CancelMs

Teams == {0, 1}
Awards == {"goal_kick", "corner", "free_kick", "throw_in", "penalty", "kick_off"}
Stages == {"collide", "half", "lines", "sideline", "foul", "restart", "taken",
           "hold", "teams", "trips"}
RelaxMs == RelaxSteps * StepMs

VARIABLES
  at,
  now, inPlay, inSetPiece, goalScored, phase, goals,   \* Match
  buffer,                                              \* RefereeBuffer
  prepared,    \* history: PrepareSetPiece() has run since the last award
  foul,                                                \* Foul
  relax,       \* afterSetPieceRelaxTime_ms
  offside,     \* offsidePlayers is not empty
  cards, effective, onPitch,                           \* of the players
  seen         \* history: what Match::GetState() answers after a step

game == <<inSetPiece, goalScored, phase, goals>>
squad == <<cards, effective, onPitch>>
vars == <<at, now, inPlay, game, buffer, prepared, foul, relax, offside, squad, seen>>

M == INSTANCE MatchEngine WITH SetPieces <- Awards, InPlayValues <- BOOLEAN

Init ==
  /\ at = "collide" /\ now = 0 /\ inPlay = FALSE /\ inSetPiece = FALSE
  /\ goalScored = FALSE /\ phase = "pre" /\ goals = [t \in Teams |-> 0]
  /\ buffer = [piece |-> "kick_off", prepare |-> 0, start |-> StartMs,
               active |-> TRUE, endPhase |-> TRUE, taker |-> NoOne]
  /\ prepared = FALSE
  /\ foul = [by |-> NoOne, type |-> 0, box |-> FALSE, advantage |-> FALSE,
             time |-> 0, processed |-> TRUE]
  /\ relax = 0 /\ offside = FALSE
  /\ cards = [p \in Players |-> 0] /\ effective = [p \in Players |-> 0]
  /\ onPitch = Players
  /\ seen = M!KickedOff

-----------------------------------------------------------------------------
(* Play stops, a set piece is to be prepared `delay' and taken another     *)
(* `wait' milliseconds from now, and the clock is bumped.                  *)
Award(piece, delay, bump, wait) ==
  /\ inPlay' = FALSE
  /\ buffer' = [buffer EXCEPT !.piece = piece, !.active = TRUE,
                              !.prepare = now + delay, !.start = now + delay + wait]
  /\ prepared' = FALSE
  /\ now' = now + bump

SetPiece(piece) == Award(piece, PrepareMs, BumpMs, StartMs) /\ UNCHANGED <<cards, effective>>

NoAward == UNCHANGED <<now, inPlay, buffer, prepared, cards, effective>>

(* now - ms > foulTime in unsigned arithmetic: true below ms.              *)
Past(ms, f) == now < ms \/ now - ms > f.time

NoAdvantage(f) == [f EXCEPT !.advantage = FALSE]
Cancelled(f) == [f EXCEPT !.by = NoOne, !.type = 0]

(* CheckFoul(), the advantage: g is what may become of the foul f.  After  *)
(* a while advantage ends when the victim's team loses the ball, and after *)
(* a longer one the foul is forgotten.                                     *)
Weighed(f, g) ==
  LET penalty == f.type # 0 /\ f.box
  IN  \/ ~f.advantage /\ g = f
      \/ f.advantage /\ penalty /\ g = NoAdvantage(f)
      \/ f.advantage /\ ~penalty /\ ~Past(AdvantageMs, f) /\ g = f
      \/ f.advantage /\ ~penalty /\ Past(AdvantageMs, f) /\ Past(CancelMs, f) /\ g = Cancelled(f)
      \/ f.advantage /\ ~penalty /\ Past(AdvantageMs, f) /\ ~Past(CancelMs, f)
         /\ g \in {f, NoAdvantage(f)}

Punishable(f) == f.type # 0 /\ ~f.advantage /\ ~f.processed

CardsFor(type) == IF type = 3 THEN 3 ELSE IF type = 2 THEN 1 ELSE 0

Punish_AtOnce(f) ==  \* Mutant of Punish: the card takes effect with the foul.
  /\ Award("free_kick", PrepareMs, BumpMs, StartMs)
  /\ foul' = [f EXCEPT !.processed = TRUE]
  /\ cards' = [cards EXCEPT ![f.by] = @ + CardsFor(f.type)]
  /\ effective' = [effective EXCEPT ![f.by] = now]

(* CheckFoul(), the decision.  The card takes effect CardMs after the      *)
(* bumped time.                                                            *)
Punish(f) ==
  LET pause == IF f.type >= 2 THEN CardPauseMs ELSE 0
  IN  /\ Award(IF f.box THEN "penalty" ELSE "free_kick", PrepareMs + pause, BumpMs + pause, StartMs)
      /\ foul' = [f EXCEPT !.processed = TRUE]
      /\ IF f.type >= 2
         THEN /\ cards' = [cards EXCEPT ![f.by] = @ + CardsFor(f.type)]
              /\ effective' = [effective EXCEPT ![f.by] = now + BumpMs + pause + CardMs]
         ELSE UNCHANGED <<cards, effective>>

(* CheckFoul() as it is called when something else is at hand: the foul is *)
(* punished, otherwise the other thing happens.                            *)
CheckFoul(f, Otherwise) ==
  \E g \in {f, NoAdvantage(f), Cancelled(f)} :
    /\ Weighed(f, g)
    /\ \/ Punishable(g) /\ Punish(g)
       \/ ~Punishable(g) /\ foul' = g /\ Otherwise

-----------------------------------------------------------------------------
(* BallTouched(): a player on the offside list touches the ball, or        *)
(* another; then the list is made anew.  Bound: offside before MaxTime.    *)
BallTouched ==
  /\ \/ /\ now < MaxTime
        /\ inPlay /\ ~inSetPiece /\ ~buffer.active /\ offside
        /\ CheckFoul(NoAdvantage(foul), SetPiece("free_kick"))
     \/ NoAward /\ UNCHANGED foul
  /\ offside' \in IF inPlay' /\ (~buffer'.active \/ buffer'.piece \notin {"throw_in", "corner"})
                  THEN BOOLEAN ELSE {FALSE}

(* A touch in CheckBallCollisions(), or one of several in the same step of *)
(* the teams (the last one, which may be punished, is in TeamsProcess).    *)
Touch ==
  /\ at \in {"collide", "teams"} /\ BallTouched
  /\ at = "collide" => inPlay /\ now < MaxTime
  /\ at = "teams" => now' = now
  /\ UNCHANGED <<at, game, relax, onPitch, seen>>

(* Referee::Process() begins.  A step in play is taken before MaxTime only.*)
Begin ==
  /\ at = "collide" /\ (inPlay => now < MaxTime)
  /\ at' = IF inPlay /\ ~inSetPiece THEN "half" ELSE "restart"
  /\ UNCHANGED <<now, inPlay, game, buffer, prepared, foul, relax, offside, squad, seen>>

HalfTime ==
  /\ at = "half" /\ at' = "lines"
  /\ \/ /\ TRUE \in HalfTimes /\ phase = "first"
        /\ inPlay' = FALSE /\ now' = now
        /\ buffer' = [buffer EXCEPT !.piece = "kick_off", !.active = TRUE, !.endPhase = TRUE,
                                    !.taker = NoOne, !.prepare = now + HalfMs,
                                    !.start = now + HalfMs + HalfStartMs]
        /\ prepared' = FALSE
        /\ foul' = [foul EXCEPT !.by = NoOne, !.type = 0, !.advantage = FALSE,
                                !.time = 0, !.processed = TRUE]
        /\ phase' = "second"
     \/ UNCHANGED <<now, inPlay, buffer, prepared, foul, phase>>
  /\ UNCHANGED <<inSetPiece, goalScored, goals, relax, offside, squad, seen>>

GoalLines_KeepsFoul ==  \* Mutant of GoalLines: a goal does not settle a foul.
  /\ at = "lines" /\ at' = "sideline"
  /\ \/ goalScored /\ Award("kick_off", GoalMs, GoalBumpMs, GoalStartMs)
     \/ ~goalScored /\ NoAward
  /\ UNCHANGED <<cards, effective, foul, game, relax, offside, onPitch, seen>>

(* The ball is over a goal line, or a goal has been scored, or neither.    *)
GoalLines ==
  /\ at = "lines" /\ at' = "sideline"
  /\ \/ /\ goalScored
        /\ foul' = [foul EXCEPT !.advantage = FALSE, !.type = 0]
        /\ Award("kick_off", GoalMs, GoalBumpMs, GoalStartMs)
        /\ UNCHANGED <<cards, effective>>
     \/ /\ ~goalScored
        /\ \E piece \in {"corner", "goal_kick"} : CheckFoul(NoAdvantage(foul), SetPiece(piece))
     \/ ~goalScored /\ NoAward /\ UNCHANGED foul
  /\ UNCHANGED <<game, relax, offside, onPitch, seen>>

(* The ball is over a sideline, or not.                                    *)
Sidelines ==
  /\ at = "sideline" /\ at' = "foul"
  /\ \/ relax = 0 /\ CheckFoul(NoAdvantage(foul), SetPiece("throw_in"))
     \/ NoAward /\ UNCHANGED foul
  /\ UNCHANGED <<game, relax, offside, onPitch, seen>>

LastFoulCheck ==
  /\ at = "foul" /\ at' = "taken"
  /\ CheckFoul(foul, NoAward)
  /\ UNCHANGED <<game, relax, offside, onPitch, seen>>

Due_Exact(t) == t = now  \* Mutant of Due: the comparison of the original engine.

(* The clock is in the step that begins at t.                              *)
Due(t) == t <= now /\ now < t + StepMs

(* PrepareSetPiece() and Match::ResetSituation(): one of the players on    *)
(* the pitch becomes the taker.                                            *)
Prepare ==
  /\ \E p \in onPitch : buffer' = [buffer EXCEPT !.endPhase = FALSE, !.taker = p]
  /\ phase' = IF buffer.endPhase /\ phase = "pre" THEN "first" ELSE phase
  /\ prepared' = TRUE /\ goalScored' = FALSE /\ offside' = FALSE

Restart ==
  /\ at = "restart" /\ at' = "taken"
  /\ IF ~inPlay /\ ~inSetPiece /\ buffer.active
     THEN /\ \/ Due(buffer.prepare) /\ Prepare
             \/ ~Due(buffer.prepare) /\ UNCHANGED <<buffer, phase, prepared, goalScored, offside>>
          /\ inPlay' = Due(buffer.start) /\ inSetPiece' = Due(buffer.start)
     ELSE UNCHANGED <<buffer, phase, prepared, goalScored, offside, inPlay, inSetPiece>>
  /\ UNCHANGED <<now, goals, foul, relax, squad, seen>>

CountDown_Always(ms) == ms - StepMs  \* Mutant of CountDown: below zero too.
CountDown(ms) == IF ms > 0 THEN ms - StepMs ELSE ms

(* The set piece has been taken: at once at a kick-off, else when its      *)
(* taker has touched the ball, for which he has to be on the pitch.        *)
SetPieceTaken ==
  /\ inSetPiece /\ (buffer.piece = "kick_off" \/ buffer.taker \in onPitch)
  /\ buffer' = [buffer EXCEPT !.active = FALSE]
  /\ inSetPiece' = FALSE
  /\ relax' = CountDown(RelaxMs)
  /\ foul' = Cancelled(foul)
  /\ phase' = IF phase = "pre" THEN "first" ELSE phase

Taken ==
  /\ at = "taken" /\ at' = "hold"
  /\ \/ SetPieceTaken
     \/ /\ ~(inSetPiece /\ buffer.piece = "kick_off")
        /\ relax' = CountDown(relax)
        /\ UNCHANGED <<buffer, inSetPiece, foul, phase>>
  /\ UNCHANGED <<now, inPlay, goalScored, goals, prepared, offside, squad, seen>>

-----------------------------------------------------------------------------
(* Match::GetState() after a step, in the terms of MatchEngine.            *)
Report ==
  seen' = [goals |-> goals',
           mode |-> IF inSetPiece' THEN buffer'.piece ELSE "normal",
           inPlay |-> inPlay' \/ now' = StartMs - StepMs,
           flags |-> [p \in Players |-> [active |-> p \in onPitch', card |-> cards'[p] > 0]]]

OnHold == ~inPlay /\ buffer.prepare + StepMs < now

Hold_StandsStill ==  \* Mutant of Hold: the clock is not moved while the game is on hold.
  /\ at = "hold" /\ OnHold /\ at' = "collide"
  /\ UNCHANGED <<now, inPlay, game, buffer, prepared, foul, relax, offside, squad>>
  /\ Report

(* Between preparation and start nothing is simulated.                     *)
Hold ==
  /\ at = "hold" /\ OnHold /\ at' = "collide"
  /\ now' = now + StepMs
  /\ UNCHANGED <<inPlay, game, buffer, prepared, foul, relax, offside, squad>>
  /\ Report

Simulate ==
  /\ at = "hold" /\ ~OnHold /\ at' = "teams"
  /\ UNCHANGED <<now, inPlay, game, buffer, prepared, foul, relax, offside, squad, seen>>

(* Player::Process() would send p off at time t, unless he is the last one *)
(* of his team on the pitch.                                               *)
Dismissed(p, t) == cards[p] > 1 /\ effective[p] <= t
Last(p, left) == \A q \in left \ {p} : (q \in Home) # (p \in Home)

(* The teams' players are processed one after the other: a touch that is   *)
(* punished bumps the clock for those who come after it.                   *)
TeamsProcess ==
  /\ at = "teams" /\ at' = "trips"
  /\ \/ BallTouched
     \/ NoAward /\ UNCHANGED <<foul, offside>>
  /\ \E gone \in SUBSET {p \in onPitch : Dismissed(p, now')} :
       /\ onPitch' = onPitch \ gone
       /\ \A p \in gone : ~Last(p, onPitch')
       /\ \A p \in onPitch' : Dismissed(p, now) => Last(p, onPitch')
  /\ UNCHANGED <<game, relax, seen>>

(* TripNotice() of a standing tackle (advantage is given) or of a sliding  *)
(* one.                                                                    *)
Trip ==
  /\ at = "trips" /\ ~buffer.active
  /\ \E p \in onPitch, box \in BOOLEAN :
       \/ foul' = [by |-> p, type |-> 1, box |-> box, advantage |-> TRUE,
                   time |-> now, processed |-> FALSE]
       \/ /\ p # foul.by \/ foul.type = 0
          /\ \E type \in 1..3 :
               foul' = [by |-> p, type |-> type, box |-> box, advantage |-> FALSE,
                        time |-> now, processed |-> FALSE]
  /\ UNCHANGED <<at, now, inPlay, game, buffer, prepared, relax, offside, squad, seen>>

(* The step ends, perhaps with a goal for one team: the code asks only     *)
(* whether the ball is in play, so before a set piece is taken too.        *)
EndStep ==
  /\ at = "trips" /\ at' = "collide"
  /\ now' = now + StepMs
  /\ \/ /\ inPlay /\ goals[0] + goals[1] < MaxGoals
        /\ \E t \in Teams : goals' = [goals EXCEPT ![t] = @ + 1]
        /\ goalScored' = TRUE
     \/ UNCHANGED <<goals, goalScored>>
  /\ UNCHANGED <<inPlay, inSetPiece, phase, buffer, prepared, foul, relax, offside, squad>>
  /\ Report

Process ==
  \/ Begin \/ HalfTime \/ GoalLines \/ Sidelines \/ LastFoulCheck \/ Restart \/ Taken
  \/ Hold \/ Simulate \/ TeamsProcess \/ EndStep

(* The bound is reached with the ball in play.                             *)
Finished == at = "collide" /\ inPlay /\ now >= MaxTime /\ UNCHANGED vars

Next == Process \/ Touch \/ Trip \/ Finished

Spec == Init /\ [][Next]_vars
(* The server steps the engine again and again.  A step is finite: touches *)
(* and trips do not go on for ever.                                        *)
FairSpec == Spec /\ WF_vars(Process)
-----------------------------------------------------------------------------
Foul == [by : Players \cup {NoOne}, type : 0..3, box : BOOLEAN, advantage : BOOLEAN,
         time : Nat, processed : BOOLEAN]
Buffer == [piece : Awards, prepare : Nat, start : Nat, active : BOOLEAN,
           endPhase : BOOLEAN, taker : Players \cup {NoOne}]

(* Types of all variables; afterSetPieceRelaxTime_ms is a whole number of  *)
(* steps, or it would never be 0 again (referee.cpp:193, 279).             *)
TypeOK ==
  /\ at \in Stages /\ now \in Nat /\ inPlay \in BOOLEAN /\ inSetPiece \in BOOLEAN
  /\ goalScored \in BOOLEAN /\ phase \in {"pre", "first", "second"}
  /\ goals \in [Teams -> Nat] /\ buffer \in Buffer /\ prepared \in BOOLEAN
  /\ foul \in Foul /\ (foul.type # 0 => foul.by \in Players)
  /\ relax \in {n * StepMs : n \in 0..RelaxSteps} /\ offside \in BOOLEAN
  /\ cards \in [Players -> Nat] /\ effective \in [Players -> Nat]
  /\ onPitch \subseteq Players /\ seen \in M!Engine

(* The window of t has not been passed unnoticed: it is still ahead, or    *)
(* open and about to be looked at.                                         *)
Ahead(t) == IF at \in {"collide", "half", "restart"} THEN now < t + StepMs ELSE now < t

(* Whenever play has stopped a set piece is pending, its start and, until  *)
(* it is prepared, its preparation are still ahead; and none is taken that *)
(* has not been prepared (the windows at referee.cpp:227 and 246, against  *)
(* every bump of the clock and every later award).                         *)
RestartAhead ==
  /\ ~inPlay => /\ buffer.active /\ ~inSetPiece /\ Ahead(buffer.start)
                /\ ~prepared => Ahead(buffer.prepare)
  /\ inSetPiece => inPlay /\ prepared

Pending == foul.type # 0 /\ ~foul.processed

(* A foul that has not been dealt with exists in open play only, and only  *)
(* for the time of an advantage: no stoppage, goal or offside leaves one   *)
(* behind to be punished in the next passage of play (referee.cpp:469-530).*)
FoulsSettled == Pending => ~buffer.active /\ inPlay /\ now <= foul.time + CancelMs + StepMs

(* A step of the match is a step of MatchEngine: one goal at most, a set   *)
(* piece that is shown ends before the next is shown, a card is seen       *)
(* before the sending-off and never taken back (match.cpp:811-844).        *)
EngineRelation == [][seen' \in M!EngineStep(seen)]_seen

(* Play goes on after every stoppage: the clock meets each window although *)
(* it jumps (referee.cpp:216-221: a threshold that is missed freezes the   *)
(* match).                                                                 *)
PlayResumes == ~inPlay ~> inPlay

(* While the referee waits for the taker to touch the ball, the taker is   *)
(* on the pitch (referee.cpp:250 "blow whistle and wait for set piece      *)
(* taker to touch the ball").                                              *)
TakerIsOnThePitch == inSetPiece /\ buffer.piece # "kick_off" => buffer.taker \in onPitch
=============================================================================
