------------------------------ MODULE Controls ------------------------------
(***************************************************************************)
(* From the packets of a gamer to the kicks of the player he controls:     *)
(* Server::applyPendingInputs() presses and releases the buttons of his    *)
(* keyboard, HumanController queues an action and charges its power while  *)
(* the button is down, and Humanoid::Process() asks for a command whenever *)
(* the player may begin another animation.  A step of the match in play:   *)
(*                                                                         *)
(*   inputs -> control -> anim -> end -> inputs                            *)
(*                                                                         *)
(* Where the ball is, and so whether a player may kick it, is chosen       *)
(* freely.  Time is counted as the code does it, ten of its milliseconds   *)
(* a step.                                                                 *)
(***************************************************************************)
EXTENDS Integers, FiniteSets

CONSTANTS
  Packets,      \* the sets of buttons a packet may have down
  MaxGauge,     \* steps until the power is full: 100
  EarlyGauge,   \* steps after which a kick does not wait for its button: 50
  MaxBuffer     \* steps an action stays queued after its button is up: 200

Kicks == {"short", "long", "high", "shot"}
Buttons == Kicks \cup {"slide"}

ASSUME ControlsAssumption ==
  /\ Packets \subseteq SUBSET Buttons
  /\ MaxGauge \in Nat \ {0} /\ EarlyGauge \in Nat /\ MaxBuffer \in Nat
  /\ EarlyGauge < MaxGauge

VARIABLES
  at,
  held,        \* what the last packet had down
  pressed,     \* buttons_pressed_ of the AIControlledKeyboard
  late,        \* history: no packet has come for this step
  mode, button, gauge, buffer,    \* actionMode, actionButton, gauge_ms, actionBufferTime_ms
  piece,       \* a set piece, and the part the player has in it
  anim, trip,  \* Humanoid: currentAnim, and whether interruptAnim is a trip
  kicks, felled    \* history of the queued action: times the ball was kicked, counted
                   \* to 2; and whether the player was tripped after a kick

queue == <<mode, button, gauge, buffer>>
history == <<kicks, felled>>
vars == <<at, held, pressed, late, queue, piece, anim, trip, history>>

Pieces == {"none", "other", "taker", "throw_in"}
(* Functions of animations that matter here: a kick of the gamer's or of   *)
(* the AI's (which had the player before), a sliding, interfering with the *)
(* ball, a fall, and the rest.  pending: its touch of the ball is ahead.   *)
Functions == {"kick", "ai_kick", "slide", "interfere", "fall", "move"}
Anim(f) == [function |-> f, pending |-> f \notin {"fall", "move"}]
Idle == Anim("move")

Down == button \in pressed
SetPiece == piece # "none"
Taker == piece \in {"taker", "throw_in"}
Nothing == mode' = 0 /\ gauge' = 0 /\ buffer' = 0 /\ UNCHANGED button

Init ==
  /\ at = "inputs" /\ held = {} /\ pressed = {} /\ late = TRUE
  /\ mode = 0 /\ button = "short" /\ gauge = 0 /\ buffer = 0
  /\ piece \in {"other", "taker"} /\ anim = Idle /\ trip = FALSE
  /\ kicks = 0 /\ felled = FALSE

-----------------------------------------------------------------------------
Packet_PressesOnly(b) ==  \* Mutant of Packet: no button is released.
  /\ at = "inputs" /\ held' = b /\ pressed' = pressed \cup b /\ late' = FALSE
  /\ UNCHANGED <<at, queue, piece, anim, trip, history>>

(* applyPendingInputs() presses or releases each button; the last of the   *)
(* packets that have come for this step counts.                            *)
Packet(b) ==
  /\ at = "inputs" /\ held' = b /\ pressed' = b /\ late' = FALSE
  /\ UNCHANGED <<at, queue, piece, anim, trip, history>>

InputsDone ==
  /\ at = "inputs" /\ at' = "control"
  /\ UNCHANGED <<held, pressed, late, queue, piece, anim, trip, history>>

(* The gamer is given another player, or one again after play has stopped  *)
(* (module Selection): HumanController::Reset(), which also clears the     *)
(* buttons.  The player is in the midst of something of the AI's.          *)
Reselected ==
  /\ at \in {"control", "end"}
  /\ mode' = 0 /\ button' = "short" /\ gauge' = 0 /\ buffer' = 0 /\ pressed' = {}
  /\ piece' \in Pieces
  /\ \E f \in Functions \ {"kick"}, b \in BOOLEAN :
       anim' = [Anim(f) EXCEPT !.pending = @ /\ b]
  /\ trip' = FALSE /\ kicks' = 0 /\ felled' = FALSE
  /\ UNCHANGED <<at, held, late>>

-----------------------------------------------------------------------------
(* HumanController::Process() with no action queued: the last button of    *)
(* the list that is down.  Off the ball (as the code judges it) it is a    *)
(* sliding; on the ball a kick, but only short or long from a throw-in.    *)
Allowed == IF piece = "throw_in" THEN {"short", "long"} ELSE Kicks
Chosen ==
  LET down == pressed \cap Allowed
  IN  CASE "shot" \in down -> "shot"
        [] "shot" \notin down /\ "high" \in down -> "high"
        [] down \subseteq {"long", "short"} /\ "long" \in down -> "long"
        [] OTHER -> "short"

Charge_NoClamp(m, b, g, t) ==  \* Mutant of Charge: the power is not clamped.
  /\ mode' = m /\ button' = b
  /\ IF b \in pressed THEN gauge' = g + 1 /\ buffer' = 0
     ELSE gauge' = g /\ buffer' = IF t <= MaxBuffer THEN t + 1 ELSE t

Charge(m, b, g, t) ==
  /\ mode' = m /\ button' = b
  /\ IF b \in pressed
     THEN gauge' = (IF g < MaxGauge THEN g + 1 ELSE MaxGauge) /\ buffer' = 0
     ELSE gauge' = g /\ buffer' = IF t <= MaxBuffer THEN t + 1 ELSE t

OffTheBall ==
  /\ mode = 0 /\ ~SetPiece /\ "slide" \in pressed
  /\ mode' = 1 /\ button' = "slide" /\ UNCHANGED <<gauge, buffer, history>>

OnTheBall ==
  /\ mode = 0 /\ (SetPiece => Taker) /\ pressed \cap Allowed # {}
  /\ Charge(2, Chosen, gauge, buffer)
  /\ kicks' = 0 /\ felled' = FALSE

StillQueued ==
  /\ mode = 2 /\ Charge(2, button, gauge, buffer) /\ UNCHANGED history

(* No button for what the player could do is down.                         *)
NoAction == mode # 2 /\ UNCHANGED <<queue, history>>

Process ==
  /\ at = "control" /\ at' = "anim"
  /\ OffTheBall \/ OnTheBall \/ StillQueued \/ NoAction
  /\ UNCHANGED <<held, pressed, late, piece, anim, trip>>

-----------------------------------------------------------------------------
Done_SlidingOnly ==  \* Mutant of Done: a kick that is done is not noticed.
  mode = 1 /\ anim.function \in {"slide", "interfere"} /\ ~anim.pending

(* HumanController::RequestCommand(), in its order: what has been done, or *)
(* is cancelled by a short pass, by time, by the ball that has gone away   *)
(* or by interfering, is not queued any more.                              *)
Done ==
  \/ mode = 2 /\ anim.function \in {"kick", "ai_kick"} /\ ~anim.pending
  \/ mode = 1 /\ anim.function \in {"slide", "interfere"} /\ ~anim.pending

Cancelled_NeverLate(gone) ==  \* Mutant of Cancelled: time does not end an action.
  /\ mode = 2 /\ ~SetPiece
  /\ \/ button \in {"shot", "high"} /\ "short" \in pressed
     \/ gone \/ anim.function = "interfere"

Cancelled(gone) ==
  /\ mode = 2 /\ ~SetPiece
  /\ \/ button \in {"shot", "high"} /\ "short" \in pressed
     \/ buffer > MaxBuffer \/ gone \/ anim.function = "interfere"

(* A queued kick is commanded once its button is up, or the power is high  *)
(* enough, or without the ball at the feet; a sliding while it is down.    *)
Commands(hasBall) ==
  CASE mode = 2 /\ (\/ ~Down \/ gauge > EarlyGauge
                    \/ ~hasBall /\ ~SetPiece /\ buffer > 0) -> {"kick"}
    [] mode = 1 /\ Down -> {"slide"}
    [] OTHER -> {}

RequestCommand(gone, hasBall) ==
  LET clear == Done \/ Cancelled(gone)
      others == IF SetPiece THEN {"move"} ELSE {"move", "interfere"}
  IN  /\ CASE clear -> Nothing
           [] ~clear /\ mode = 1 /\ ~Down -> mode' = 0 /\ UNCHANGED <<button, gauge, buffer>>
           [] OTHER -> UNCHANGED queue
      /\ \E f \in others \cup (IF clear THEN {} ELSE Commands(hasBall)) : anim' = Anim(f)

(* Humanoid::Process(): a kick, a sliding and the like are played to their *)
(* end, where the next command is asked for; other animations may be left  *)
(* at any time.                                                            *)
Request ==
  /\ at = "anim" /\ at' = "end" /\ ~trip /\ ~anim.pending
  /\ \E gone, hasBall \in BOOLEAN : RequestCommand(gone, hasBall)
  /\ UNCHANGED <<held, pressed, late, piece, trip, history>>

(* The animation comes to its touch of the ball.  The referee sees that    *)
(* the taker's is over before any controller is processed again: the set   *)
(* piece ends and its type is Normal from then on (referee.cpp:262-267).   *)
Touch ==
  /\ at = "anim" /\ at' = "end" /\ ~trip /\ anim.pending
  /\ anim' = [anim EXCEPT !.pending = FALSE]
  /\ kicks' = IF anim.function = "kick" /\ kicks < 2 THEN kicks + 1 ELSE kicks
  /\ piece' = IF anim.function = "kick" /\ Taker THEN "none" ELSE piece
  /\ UNCHANGED <<held, pressed, late, queue, trip, felled>>

(* A trip takes the place of the animation, if there is one that fits, and *)
(* nobody is asked for a command.                                          *)
Fall ==
  /\ at = "anim" /\ at' = "end" /\ trip /\ trip' = FALSE
  /\ anim' \in {Anim("fall"), Idle}
  /\ felled' = (felled \/ (anim.function = "kick" /\ ~anim.pending))
  /\ UNCHANGED <<held, pressed, late, queue, piece, kicks>>

GoesOn ==
  /\ at = "anim" /\ at' = "end" /\ ~trip
  /\ UNCHANGED <<held, pressed, late, queue, piece, anim, trip, history>>

(* Match::Process() lets players run into each other, somebody else takes  *)
(* the set piece, and GameEnv::step() clears the buttons.                  *)
EndStep ==
  /\ at = "end" /\ at' = "inputs"
  /\ pressed' = {} /\ late' = TRUE
  /\ trip' \in IF anim.function \in {"slide", "fall"} THEN {trip} ELSE {trip, TRUE}
  /\ piece' \in IF piece = "other" THEN {"other", "none"} ELSE {piece}
  /\ UNCHANGED <<held, queue, anim, history>>

Next ==
  \/ \E b \in Packets : Packet(b)
  \/ InputsDone \/ Reselected \/ Process \/ Request \/ Touch \/ Fall \/ GoesOn \/ EndStep

Spec == Init /\ [][Next]_vars

(* The server keeps stepping the match, an animation has an end, and there *)
(* is a fall among the animations for a player who is tripped for ever.    *)
Fairness ==
  /\ WF_vars(InputsDone) /\ WF_vars(Process) /\ WF_vars(Fall \/ GoesOn) /\ WF_vars(EndStep)
  /\ SF_vars(Request) /\ SF_vars(Touch) /\ SF_vars(Fall /\ anim' # Idle)

FairSpec == Spec /\ Fairness

-----------------------------------------------------------------------------
TypeOK ==
  /\ at \in {"inputs", "control", "anim", "end"}
  /\ held \in Packets \cup {{}} /\ pressed \in Packets \cup {{}} /\ late \in BOOLEAN
  /\ mode \in 0..2 /\ button \in Buttons /\ gauge \in 0..MaxGauge /\ buffer \in 0..(MaxBuffer + 1)
  /\ piece \in Pieces /\ anim \in [function : Functions, pending : BOOLEAN]
  /\ trip \in BOOLEAN /\ kicks \in 0..2 /\ felled \in BOOLEAN

(* No power and no time are left over for the next action, however the     *)
(* last one ended: done, cancelled, or with another player.                *)
QueueIsClean == mode # 2 => gauge = 0 /\ buffer = 0

(* The engine never sees a button down that the gamer's last packet has    *)
(* released; and a button he keeps down is up for the engine (which kicks  *)
(* with what power there is) only in a step for which no packet came.      *)
ReleaseIsReal ==
  /\ pressed \subseteq held
  /\ at = "anim" /\ mode = 2 /\ button \in held => Down \/ late

(* One queued action makes one kick, unless the player is tripped between  *)
(* the touch and the end of the kick: the action is then still queued.     *)
OneKickPerAction == kicks < 2 \/ felled

(* An action does not stay queued for ever: from when its button stays up  *)
(* and no set piece is on, it is kicked, or cancelled, in the end.         *)
ActionsEnd == <>[](button \notin held /\ ~SetPiece) => []<>(mode # 2)
=============================================================================
