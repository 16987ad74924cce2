------------------------------ MODULE Selection ------------------------------
(***************************************************************************)
(* Which player of a team its human gamer controls.  Three books are kept  *)
(* of it: HumanGamer::selectedPlayer, PlayerBase::externalController and   *)
(* Team::mainSelectedPlayer.  They change on a pass, by the engine's       *)
(* autoswitch, by the Switch button, when play stops and when a player is  *)
(* sent off.  One team with one gamer whose players can all be controlled, *)
(* as gf_server sets it up; a step of the match goes through the stages    *)
(*                                                                         *)
(*   input -> referee -> switch -> select -> players <-> cards             *)
(*                                     players -> button -> designate      *)
(*                                                                         *)
(* Where the players and the ball are is abstracted: who is closest, who   *)
(* has the ball and who gets there first is anyone the code looks at.      *)
(***************************************************************************)
EXTENDS Integers, FiniteSets

CONSTANTS
  TeamSize,     \* players.size()
  MaxBooked,    \* bound: players who get a second card
  MaxStops      \* bound: times play stops

ASSUME SelectionAssumption ==
  TeamSize \in Nat \ {0} /\ MaxBooked \in Nat /\ MaxStops \in Nat

Players == 1..TeamSize
NoOne == 0      \* the null pointer
NoPass == [by |-> NoOne, to |-> NoOne]
Stages == {"input", "referee", "switch", "select", "players", "cards", "button", "designate"}

VARIABLES
  at, turn,      \* the stage, and the player whose Process() is next
  inPlay, inSetPiece, started,   \* Match; started: ActualTime_ms >= 2000
  prepared,      \* steps since the set piece was prepared, counted to 3
  stops,
  active,        \* isActive
  keepers,       \* players whose formation entry has the role GK
  booked,        \* players with two cards whose cardEffectiveTime_ms may come
  designated,    \* designatedTeamPossessionPlayer
  main,          \* mainSelectedPlayer
  selected,      \* HumanGamer::selectedPlayer
  external,      \* players with an externalController
  disabled, switch,     \* of the gamer's AIControlledKeyboard
  pass,          \* a pass between its command and its touch
  moved,         \* history: a player has been selected in this step
  stray          \* history: a pass has been played to someone sent off

clock == <<inPlay, inSetPiece, started, prepared, stops>>
squad == <<active, keepers>>
books == <<main, selected, external, switch, moved>>
vars == <<at, turn, clock, squad, booked, designated, books, disabled, pass, stray>>

(* PlayerBase::ExternalControllerActive().                                 *)
Controlled == IF disabled THEN {} ELSE external
IsFirst(p, S) == p \in S /\ \A q \in S : p <= q
(* Team::GetGoalie().                                                      *)
IsGoalie(p) == IsFirst(p, active \cap keepers)
(* AI_GetClosestPlayer(..., true, except, true): one of these, or null.    *)
Closest(except) ==
  LET S == active \ (Controlled \cup except) IN IF S = {} THEN {NoOne} ELSE S

-----------------------------------------------------------------------------

(* HumanGamer::SetSelectedPlayer(p), which does nothing for a player who   *)
(* has a controller or is the one selected.  The controller is reset for   *)
(* its new player, which clears the buttons that are not sticky.           *)
SetSelected(p) ==
  \/ p \in external \cup {selected} /\ UNCHANGED <<selected, external, switch, moved>>
  \/ /\ p \notin external \cup {selected}
     /\ selected' = p
     /\ external' = (external \ {selected}) \cup ({p} \ {NoOne})
     /\ switch' = (switch /\ p = NoOne)
     /\ moved' = (moved \/ p # NoOne)

(* Team::SelectPlayer(p).                                                  *)
SelectPlayer(p) == designated' = p /\ main' = p /\ SetSelected(p)

Init ==
  /\ at = "input" /\ turn = 1
  /\ inPlay = FALSE /\ inSetPiece = FALSE /\ started = FALSE /\ prepared = 0 /\ stops = 0
  /\ active = Players /\ keepers = {1} /\ booked = {}
  /\ designated \in Players
  /\ selected \in Players /\ main = selected /\ external = {selected}
  /\ disabled = TRUE /\ switch = FALSE /\ moved = FALSE
  /\ pass = NoPass /\ stray = FALSE

-----------------------------------------------------------------------------
(* GameEnv::action(): an input enables the gamer's keyboard and presses or *)
(* releases Switch.                                                        *)
Input ==
  /\ at = "input" /\ disabled' = FALSE /\ switch' \in BOOLEAN
  /\ UNCHANGED <<at, turn, clock, squad, booked, designated, main, selected, external,
                 moved, pass, stray>>

BeginStep ==
  /\ at = "input" /\ at' = "referee" /\ moved' = FALSE
  /\ UNCHANGED <<turn, clock, squad, booked, designated, main, selected, external,
                 switch, disabled, pass, stray>>

(* Referee::Process().  Bound: stops.                                      *)
StopPlay ==
  /\ inPlay /\ ~inSetPiece /\ stops < MaxStops
  /\ inPlay' = FALSE /\ prepared' = 0 /\ stops' = stops + 1
  /\ UNCHANGED <<inSetPiece, started, designated, pass, booked, switch>>

Prepare_Nobody ==  \* Mutant of Prepare: the designated player is forgotten.
  /\ ~inPlay /\ prepared = 0 /\ prepared' = 1
  /\ designated' = NoOne /\ pass' = NoPass /\ switch' = (switch /\ active \cap Controlled = {})
  /\ UNCHANGED <<inPlay, inSetPiece, started, stops, booked>>

(* PrepareSetPiece() and Team::ResetSituation(), which designates          *)
(* players.at(0) whether he is on the pitch or not; animations end, and    *)
(* the controller of a player on the pitch is reset with its buttons.      *)
Prepare ==
  /\ ~inPlay /\ prepared = 0 /\ prepared' = 1
  /\ designated' = 1 /\ pass' = NoPass /\ switch' = (switch /\ active \cap Controlled = {})
  /\ UNCHANGED <<inPlay, inSetPiece, started, stops, booked>>

Wait ==
  /\ prepared' = IF ~inPlay /\ prepared \in {1, 2} THEN prepared + 1 ELSE prepared
  /\ UNCHANGED <<inPlay, inSetPiece, started, stops, designated, pass, booked, switch>>

(* Play starts after the pause; the second card of the foul that stopped   *)
(* it takes effect 3.9 seconds later.  Bound: booked.                      *)
StartPlay ==
  /\ ~inPlay /\ prepared = 3
  /\ inPlay' = TRUE /\ inSetPiece' \in BOOLEAN /\ started' = TRUE
  /\ booked' \in {booked} \cup {booked \cup {p} : p \in active}
  /\ Cardinality(booked') <= MaxBooked
  /\ UNCHANGED <<prepared, stops, designated, pass, switch>>

TakeSetPiece ==
  /\ inSetPiece /\ inSetPiece' = FALSE
  /\ UNCHANGED <<inPlay, started, prepared, stops, designated, pass, booked, switch>>

RefereeProcess ==
  /\ at = "referee" /\ at' = "switch"
  /\ StopPlay \/ Prepare \/ Wait \/ StartPlay \/ TakeSetPiece
  /\ UNCHANGED <<turn, squad, main, selected, external, moved, disabled, stray>>

(* Match::Process() returns early while the game is on hold, which is from *)
(* prepareTime + 16 ms on: from the second or the third step.              *)
Hold ==
  /\ at = "switch" /\ ~inPlay /\ prepared >= 2 /\ at' = "input"
  /\ UNCHANGED <<turn, clock, squad, booked, designated, books, disabled, pass, stray>>

(* Team::UpdateSwitch(): by proximity, for unique possession, or in a set  *)
(* piece, the designated player is selected unless he is a goalkeeper.     *)
UpdateSwitch ==
  /\ at = "switch" /\ (inPlay \/ prepared # 3) /\ at' = "select"
  /\ IF inPlay /\ designated \notin Controlled /\ designated \notin keepers
     THEN \/ SelectPlayer(designated)
          \/ ~inSetPiece /\ UNCHANGED <<designated, books>>
     ELSE UNCHANGED <<designated, books>>
  /\ UNCHANGED <<turn, clock, squad, booked, disabled, pass, stray>>

(* Team::HumanGamersSelectAnyone(): the two searches are the same one.     *)
HumanGamersSelectAnyone ==
  /\ at = "select" /\ at' = "players"
  /\ IF inPlay
     THEN \E p \in Closest({}) :
            /\ main' = IF main = NoOne THEN p ELSE main
            /\ IF selected = NoOne /\ p # NoOne THEN SetSelected(p)
               ELSE UNCHANGED <<selected, external, switch, moved>>
     ELSE UNCHANGED books
  /\ UNCHANGED <<turn, clock, squad, booked, designated, disabled, pass, stray>>

(* Player::Process() of one who is not on the pitch.                       *)
Skip ==
  /\ at = "players" /\ turn <= TeamSize /\ turn \notin active /\ turn' = turn + 1
  /\ UNCHANGED <<at, clock, squad, booked, designated, books, disabled, pass, stray>>

(* Humanoid::Process(): a pass is commanded to a player on the pitch.      *)
(* Bound: one pass at a time.                                              *)
Command ==
  /\ pass = NoPass /\ \E p \in active : pass' = [by |-> turn, to |-> p]
  /\ UNCHANGED <<designated, books, stray>>

(* The animation reaches the ball: the target is chosen again among those  *)
(* on the pitch, or the original one is kept, whoever he is by now.        *)
Touch ==
  /\ pass.by = turn /\ pass' = NoPass
  /\ \E p \in active \cup {pass.to} :
       SelectPlayer(p) /\ stray' = (stray \/ p \notin active)

PlayerProcess ==
  /\ at = "players" /\ turn \in active /\ at' = "cards"
  /\ Command \/ Touch \/ UNCHANGED <<pass, designated, books, stray>>
  /\ UNCHANGED <<turn, clock, squad, booked, disabled>>

DeselectPlayer_GamerOnly(p) ==  \* Mutant of DeselectPlayer: mainSelectedPlayer stays.
  IF selected = p
  THEN \E q \in Closest({p}) : SetSelected(q) /\ UNCHANGED main
  ELSE /\ external' = external \ {p} /\ UNCHANGED <<main, selected, switch, moved>>

(* Team::DeselectPlayer(p).                                                *)
DeselectPlayer(p) ==
  IF selected = p
  THEN \E q \in Closest({p}) : main' = q /\ SetSelected(q)
  ELSE /\ external' = external \ {p}
       /\ UNCHANGED <<main, selected, switch, moved>>

SendOff_KeepsTheEntry(p) ==  \* Mutant of SendOff: nobody becomes the goalkeeper.
  /\ p \in booked /\ Cardinality(active) > 1 /\ DeselectPlayer(p)
  /\ active' = active \ {p} /\ designated' \in active'
  /\ pass' = IF pass.by = p THEN NoPass ELSE pass
  /\ UNCHANGED keepers

SendOff_StillDesignated(p) ==  \* Mutant of SendOff: no UpdateDesignatedTeamPossessionPlayer().
  /\ p \in booked /\ Cardinality(active) > 1 /\ DeselectPlayer(p)
  /\ active' = active \ {p} /\ UNCHANGED designated
  /\ pass' = IF pass.by = p THEN NoPass ELSE pass
  /\ keepers' \in IF p \in keepers THEN {keepers \cup {q} : q \in {r \in active' : IsFirst(r, active')}}
                  ELSE {keepers}

(* Player::SendOff(): he is deselected while he still counts as active,    *)
(* deactivated, and the closest to the ball is designated; a goalkeeper's  *)
(* entry goes to the first player who is left.                             *)
SendOff(p) ==
  /\ p \in booked /\ Cardinality(active) > 1
  /\ DeselectPlayer(p)
  /\ active' = active \ {p}
  /\ designated' \in active'
  /\ pass' = IF pass.by = p THEN NoPass ELSE pass
  /\ keepers' \in IF p \in keepers THEN {keepers \cup {q} : q \in {r \in active' : IsFirst(r, active')}}
                  ELSE {keepers}

CheckCards ==
  /\ at = "cards" /\ at' = "players" /\ turn' = turn + 1
  /\ SendOff(turn) \/ UNCHANGED <<squad, designated, books, pass>>
  /\ UNCHANGED <<clock, booked, disabled, stray>>

PlayersDone ==
  /\ at = "players" /\ turn > TeamSize /\ turn' = 1 /\ at' = "button"
  /\ UNCHANGED <<clock, squad, booked, designated, books, disabled, pass, stray>>

(* The target of a switch: whether the team has the ball, and who gets to  *)
(* it first.  The last resort is AI_GetBestSwitchTargetPlayer().           *)
SwitchTargets(ours, best) ==
  CASE ours /\ designated \notin external -> {designated}
    [] ours /\ designated \in external /\ best \notin external -> {best}
    [] OTHER -> active \ (keepers \cup external)

(* The Switch button in Team::Process(), and what is done out of play.     *)
SwitchButton ==
  \E ours, dominated \in BOOLEAN, best \in active :
    /\ switch /\ (~(selected = best /\ selected = designated) \/ dominated)
    /\ \E p \in SwitchTargets(ours, best) : ~IsGoalie(p) /\ main' = p /\ SetSelected(p)

NobodySelected == main' = NoOne /\ SetSelected(NoOne)

Button_OncePrepared ==  \* Mutant of Button: nothing is done before the preparation.
  /\ at = "button" /\ at' = "designate"
  /\ CASE inPlay -> SwitchButton \/ UNCHANGED books
       [] ~inPlay /\ started /\ prepared > 0 -> NobodySelected
       [] OTHER -> UNCHANGED books
  /\ UNCHANGED <<turn, clock, squad, booked, designated, disabled, pass, stray>>

Button ==
  /\ at = "button" /\ at' = "designate"
  /\ CASE inPlay -> SwitchButton \/ UNCHANGED books
       [] ~inPlay /\ started -> NobodySelected
       [] OTHER -> UNCHANGED books
  /\ UNCHANGED <<turn, clock, squad, booked, designated, disabled, pass, stray>>

(* The end of Team::Process(), and of GameEnv::step(): in play, buttons    *)
(* that are not sticky are released.                                       *)
Designate ==
  /\ at = "designate" /\ at' = "input"
  /\ designated' \in {designated} \cup active
  /\ switch' = (switch /\ ~inPlay)
  /\ UNCHANGED <<turn, clock, squad, booked, main, selected, external, moved, disabled,
                 pass, stray>>

Next ==
  \/ Input \/ BeginStep \/ RefereeProcess \/ Hold \/ UpdateSwitch
  \/ HumanGamersSelectAnyone \/ Skip \/ PlayerProcess \/ CheckCards
  \/ PlayersDone \/ Button \/ Designate

Spec == Init /\ [][Next]_vars

-----------------------------------------------------------------------------
TypeOK ==
  /\ at \in Stages /\ turn \in 1..(TeamSize + 1)
  /\ inPlay \in BOOLEAN /\ inSetPiece \in BOOLEAN /\ started \in BOOLEAN
  /\ prepared \in 0..3 /\ stops \in 0..MaxStops
  /\ active \subseteq Players /\ keepers \subseteq Players /\ booked \subseteq Players
  /\ designated \in Players
  /\ main \in Players \cup {NoOne} /\ selected \in Players \cup {NoOne}
  /\ external \subseteq Players
  /\ disabled \in BOOLEAN /\ switch \in BOOLEAN /\ moved \in BOOLEAN /\ stray \in BOOLEAN
  /\ pass \in [by : Players, to : Players] \cup {NoPass}

(* The three books tell of the same player: the main player, whom the      *)
(* server reports to the clients, is the one the gamer has selected, and   *)
(* nobody else has a controller.                                           *)
BooksAgree == main = selected /\ external = {selected} \ {NoOne}

(* A team has one goalkeeper, and he is the first of its active players,   *)
(* through every sending-off: CalculateDynamicRoles() looks for him with   *)
(* an iterator that it never advances, and GetGoalie() takes the first.    *)
OneGoalkeeper == \A p \in active : p \in keepers <=> IsFirst(p, active)

(* When the buttons are read in play the gamer has a player: the code that *)
(* handles Switch does not ask whether selectedPlayer is null.             *)
SwitchHasASelection == at = "button" /\ inPlay => selected # NoOne

(* A selection the engine has moved in this step is not moved again by a   *)
(* press of Switch that was meant for the player before: it is cleared.    *)
PressIsForOneSelection == at = "button" /\ moved => ~switch

(* Between two steps out of play nobody is selected, whatever passes and   *)
(* presses were under way when play stopped; but for the kick-off.         *)
NobodySelectedOutOfPlay == at = "input" /\ ~inPlay /\ started => selected = NoOne

(* Whoever plays has somebody to play with, and nobody else has.           *)
SelectionFollowsPlay == SwitchHasASelection /\ NobodySelectedOutOfPlay

(* The gamer may control somebody who has left the pitch, against what     *)
(* Player::Deactivate() is meant to prevent, but in two ways only: he is   *)
(* the first of the list, designated by ResetSituation() at a restart, or  *)
(* a pass commanded before he left has been played to somebody since.      *)
OffPitchSelection ==
  selected \in active \cup {NoOne} \/ stray \/ (selected = 1 /\ stops > 0)
=============================================================================
