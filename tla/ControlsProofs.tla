--------------------------- MODULE ControlsProofs ---------------------------
(* Theorems of Controls, for every set of packets and every length of the  *)
(* gauge and of the queue.                                                 *)
EXTENDS Controls, TLAPS

(* The parts of the inductive invariant beyond the properties.             *)
PressedIsHeld == pressed \subseteq held

(* Until the controller looks, the keyboard shows the last packet, or the  *)
(* player has just been selected.                                          *)
Fresh ==
  at \in {"inputs", "control"} => late \/ pressed = held \/ (mode = 0 /\ pressed = {})

Seen == at = "anim" /\ mode = 2 /\ button \in held => Down \/ late

KickIsQueued == anim.function = "kick" => mode = 2

(* A queued action whose kick has touched the ball is still in that kick.  *)
KickIsPlayed ==
  mode = 2 /\ kicks > 0 /\ ~felled => anim.function = "kick" /\ ~anim.pending

IInv ==
  /\ TypeOK /\ QueueIsClean /\ PressedIsHeld /\ Fresh /\ Seen
  /\ KickIsQueued /\ KickIsPlayed /\ OneKickPerAction

-----------------------------------------------------------------------------
(* The constants as numbers and sets of buttons.                           *)
LEMMA Numbers ==
  /\ MaxGauge \in Nat /\ MaxGauge > 0 /\ MaxBuffer \in Nat /\ EarlyGauge \in Nat
  /\ Packets \subseteq SUBSET Buttons
  BY ControlsAssumption

(* An animation that begins is of the asked function.                      *)
LEMMA AnimType ==
  ASSUME NEW f \in Functions
  PROVE  Anim(f) \in [function : Functions, pending : BOOLEAN] /\ Anim(f).function = f
  BY DEF Anim

(* The animation of a player who does nothing of his own.                  *)
LEMMA IdleType ==
  /\ Idle \in [function : Functions, pending : BOOLEAN] /\ Idle.function = "move"
  BY DEF Idle, Anim, Functions

(* On the ball, the action queued is a kick.                               *)
LEMMA ChosenIsAKick == Chosen \in Kicks
  BY DEF Chosen, Kicks

(* What Charge keeps of the power's and the time's bounds.                 *)
LEMMA ChargeType ==
  ASSUME NEW b \in Buttons, gauge \in 0..MaxGauge, buffer \in 0..(MaxBuffer + 1),
         Charge(2, b, gauge, buffer)
  PROVE  mode' = 2 /\ button' = b /\ gauge' \in 0..MaxGauge /\ buffer' \in 0..(MaxBuffer + 1)
  BY Numbers DEF Charge

-----------------------------------------------------------------------------
(* Nothing is queued and no button down at the beginning.                  *)
LEMMA InitIInv == Init => IInv
<1> SUFFICES ASSUME Init PROVE IInv
  OBVIOUS
<1>0. /\ gauge \in 0..MaxGauge /\ buffer \in 0..(MaxBuffer + 1) /\ kicks \in 0..2 /\ mode \in 0..2
  BY Numbers DEF Init
<1>1. TypeOK
  <2>1. anim \in [function : Functions, pending : BOOLEAN]
    BY IdleType DEF Init
  <2> QED BY <1>0, <2>1 DEF Init, TypeOK, Pieces, Buttons, Kicks
<1>2. QueueIsClean /\ PressedIsHeld /\ Fresh /\ Seen /\ OneKickPerAction
  BY DEF Init, QueueIsClean, PressedIsHeld, Fresh, Seen, OneKickPerAction
<1>3. KickIsQueued /\ KickIsPlayed
  BY IdleType DEF Init, KickIsQueued, KickIsPlayed
<1> QED BY <1>1, <1>2, <1>3 DEF IInv

(* A packet sets the keyboard to what the gamer holds.                     *)
LEMMA PacketStep == ASSUME NEW b \in Packets, IInv, Packet(b) PROVE IInv'
<1>1. TypeOK'
  BY DEF IInv, TypeOK, Packet, queue, history
<1>2. QueueIsClean' /\ PressedIsHeld' /\ Fresh' /\ Seen' /\ OneKickPerAction'
  BY DEF IInv, QueueIsClean, PressedIsHeld, Fresh, Seen, OneKickPerAction, Packet, queue, history
<1>3. KickIsQueued' /\ KickIsPlayed'
  BY DEF IInv, KickIsQueued, KickIsPlayed, Packet, queue, history
<1> QED BY <1>1, <1>2, <1>3 DEF IInv

(* The last packet of the step stays in force.                             *)
LEMMA InputsDoneStep == IInv /\ InputsDone => IInv'
  BY DEF IInv, TypeOK, QueueIsClean, PressedIsHeld, Fresh, Seen, Down, KickIsQueued,
         KickIsPlayed, OneKickPerAction, InputsDone, queue, history

(* With another player the queue and the keyboard are empty.               *)
LEMMA ReselectedStep == IInv /\ Reselected => IInv'
<1> SUFFICES ASSUME IInv, Reselected PROVE IInv'
  OBVIOUS
<1>1. PICK f \in Functions \ {"kick"}, b \in BOOLEAN :
        anim' = [Anim(f) EXCEPT !.pending = @ /\ b]
  BY DEF Reselected
<1>2. anim' \in [function : Functions, pending : BOOLEAN] /\ anim'.function = f
  BY <1>1 DEF Anim
<1>3. TypeOK'
  <2>1. gauge' \in 0..MaxGauge /\ buffer' \in 0..(MaxBuffer + 1) /\ kicks' \in 0..2 /\ mode' \in 0..2
    BY Numbers DEF Reselected
  <2> QED BY <1>2, <2>1 DEF IInv, TypeOK, Reselected, Buttons, Kicks
<1>4. QueueIsClean' /\ PressedIsHeld' /\ Fresh' /\ Seen' /\ OneKickPerAction'
  BY DEF IInv, QueueIsClean, PressedIsHeld, Fresh, Seen, OneKickPerAction, Reselected
<1>5. KickIsQueued' /\ KickIsPlayed'
  BY <1>1, <1>2 DEF KickIsQueued, KickIsPlayed, Reselected
<1> QED BY <1>3, <1>4, <1>5 DEF IInv

-----------------------------------------------------------------------------
(* HumanController::Process(): an action is queued only when none is.      *)
LEMMA ProcessStep == IInv /\ Process => IInv'
<1> SUFFICES ASSUME IInv, Process PROVE IInv'
  OBVIOUS
<1>0. /\ TypeOK /\ at = "control" /\ at' = "anim"
      /\ UNCHANGED <<held, pressed, late, piece, anim, trip>>
  BY DEF IInv, Process
<1>1. CASE OffTheBall
  <2>1. mode = 0 /\ mode' = 1 /\ button' = "slide" /\ UNCHANGED <<gauge, buffer, kicks, felled>>
    BY <1>1 DEF OffTheBall, history
  <2>2. TypeOK' /\ QueueIsClean'
    BY <1>0, <2>1 DEF IInv, TypeOK, QueueIsClean, Buttons
  <2>3. PressedIsHeld' /\ Fresh' /\ Seen' /\ OneKickPerAction'
    BY <1>0, <2>1 DEF IInv, PressedIsHeld, Fresh, Seen, OneKickPerAction
  <2>4. KickIsQueued' /\ KickIsPlayed'
    BY <1>0, <2>1 DEF IInv, KickIsQueued, KickIsPlayed
  <2> QED BY <2>2, <2>3, <2>4 DEF IInv
<1>2. CASE OnTheBall
  <2>1. Chosen \in Buttons /\ mode = 0 /\ pressed # {} /\ kicks' = 0 /\ felled' = FALSE
    BY <1>2, ChosenIsAKick DEF OnTheBall, Buttons
  <2>2. mode' = 2 /\ button' = Chosen /\ gauge' \in 0..MaxGauge /\ buffer' \in 0..(MaxBuffer + 1)
    BY <1>0, <1>2, <2>1, ChargeType DEF OnTheBall, TypeOK
  <2>3. TypeOK' /\ QueueIsClean' /\ OneKickPerAction'
    <3>0. felled' \in BOOLEAN
      BY <2>1, Zenon
    <3>1. kicks' \in 0..2 /\ mode' \in 0..2 /\ kicks' < 2
      BY <2>1, <2>2
    <3>2. TypeOK'
      BY <1>0, <2>1, <2>2, <3>0, <3>1 DEF TypeOK
    <3> QED BY <2>2, <3>1, <3>2 DEF QueueIsClean, OneKickPerAction
  <2>4. PressedIsHeld' /\ Fresh' /\ Seen'
    BY <1>0, <2>1, <2>2 DEF IInv, PressedIsHeld, Fresh, Seen, Down
  <2>5. KickIsQueued' /\ KickIsPlayed'
    BY <2>1, <2>2 DEF KickIsQueued, KickIsPlayed
  <2> QED BY <2>3, <2>4, <2>5 DEF IInv
<1>3. CASE StillQueued
  <2>1. mode = 2 /\ UNCHANGED <<kicks, felled>> /\ button \in Buttons
    BY <1>0, <1>3 DEF StillQueued, history, TypeOK
  <2>2. mode' = 2 /\ button' = button /\ gauge' \in 0..MaxGauge /\ buffer' \in 0..(MaxBuffer + 1)
    BY <1>0, <1>3, <2>1, ChargeType DEF StillQueued, TypeOK
  <2>3. TypeOK' /\ QueueIsClean' /\ OneKickPerAction'
    BY <1>0, <2>1, <2>2 DEF IInv, TypeOK, QueueIsClean, OneKickPerAction
  <2>4. PressedIsHeld' /\ Fresh' /\ Seen'
    BY <1>0, <2>1, <2>2 DEF IInv, PressedIsHeld, Fresh, Seen, Down
  <2>5. KickIsQueued' /\ KickIsPlayed'
    BY <1>0, <2>1, <2>2 DEF IInv, KickIsQueued, KickIsPlayed
  <2> QED BY <2>3, <2>4, <2>5 DEF IInv
<1>4. CASE NoAction
  <2>1. mode # 2 /\ UNCHANGED <<mode, button, gauge, buffer, kicks, felled>>
    BY <1>4 DEF NoAction, queue, history
  <2>2. TypeOK' /\ QueueIsClean' /\ OneKickPerAction'
    BY <1>0, <2>1 DEF IInv, TypeOK, QueueIsClean, OneKickPerAction
  <2>3. PressedIsHeld' /\ Fresh' /\ Seen' /\ KickIsQueued' /\ KickIsPlayed'
    BY <1>0, <2>1 DEF IInv, PressedIsHeld, Fresh, Seen, KickIsQueued, KickIsPlayed
  <2> QED BY <2>2, <2>3 DEF IInv
<1> QED BY <1>1, <1>2, <1>3, <1>4 DEF Process

-----------------------------------------------------------------------------
(* HumanController::RequestCommand(): a kick that has touched the ball is  *)
(* not queued any more, and only a queued one is commanded.                *)
LEMMA RequestStep == IInv /\ Request => IInv'
<1> SUFFICES ASSUME IInv, Request PROVE IInv'
  OBVIOUS
<1>1. PICK gone \in BOOLEAN, hasBall \in BOOLEAN : RequestCommand(gone, hasBall)
  BY DEF Request
<1> DEFINE clear == Done \/ Cancelled(gone)
<1>0. /\ TypeOK /\ QueueIsClean /\ at = "anim" /\ at' = "end" /\ ~anim.pending
      /\ UNCHANGED <<held, pressed, late, piece, trip, kicks, felled>>
  BY DEF IInv, Request, history
<1>2. PICK f \in (IF SetPiece THEN {"move"} ELSE {"move", "interfere"})
                   \cup (IF clear THEN {} ELSE Commands(hasBall)) : anim' = Anim(f)
  BY <1>1 DEF RequestCommand
<1>3. Commands(hasBall) \subseteq {"kick", "slide"} /\ ("kick" \in Commands(hasBall) => mode = 2)
  BY DEF Commands
<1>4. f \in Functions /\ (f = "kick" => ~clear /\ mode = 2)
  BY <1>2, <1>3 DEF Functions
<1>5. anim' \in [function : Functions, pending : BOOLEAN] /\ anim'.function = f
  BY <1>2, <1>4, AnimType
<1>6. \/ clear /\ mode' = 0 /\ gauge' = 0 /\ buffer' = 0 /\ button' = button
      \/ ~clear /\ mode = 1 /\ mode' = 0 /\ UNCHANGED <<button, gauge, buffer>>
      \/ ~clear /\ UNCHANGED <<mode, button, gauge, buffer>>
  BY <1>1 DEF RequestCommand, Nothing, queue
<1>7. mode' = 2 => mode = 2 /\ ~clear
  BY <1>6
<1>8. TypeOK'
  BY <1>0, <1>5, <1>6, Numbers DEF TypeOK
<1>9. QueueIsClean'
  BY <1>0, <1>6 DEF QueueIsClean
<1>10. PressedIsHeld' /\ Fresh' /\ Seen' /\ OneKickPerAction'
  BY <1>0 DEF IInv, PressedIsHeld, Fresh, Seen, OneKickPerAction
<1>11. KickIsQueued'
  BY <1>4, <1>5, <1>6 DEF KickIsQueued
<1>12. mode = 2 /\ anim.function = "kick" => clear
  BY <1>0 DEF Done
<1>13. KickIsPlayed'
  BY <1>0, <1>7, <1>12 DEF IInv, KickIsPlayed
<1> QED BY <1>8, <1>9, <1>10, <1>11, <1>13 DEF IInv

(* The touch of a queued kick is its first, or the player has been felled. *)
LEMMA TouchStep == IInv /\ Touch => IInv'
<1> SUFFICES ASSUME IInv, Touch PROVE IInv'
  OBVIOUS
<1>0. /\ TypeOK /\ at' = "end" /\ anim.pending
      /\ anim \in [function : Functions, pending : BOOLEAN]
      /\ UNCHANGED <<held, pressed, late, mode, button, gauge, buffer, trip, felled>>
  BY DEF IInv, Touch, queue, TypeOK
<1>1. /\ anim' \in [function : Functions, pending : BOOLEAN]
      /\ anim'.function = anim.function /\ ~anim'.pending
  BY <1>0 DEF Touch
<1>2. kicks \in 0..2 /\ felled \in BOOLEAN
  BY <1>0 DEF TypeOK
<1>3. kicks' \in 0..2 /\ (anim.function # "kick" => kicks' = kicks) /\ kicks' <= kicks + 1
  BY <1>2 DEF Touch
<1>4. piece' \in Pieces
  BY <1>0 DEF Touch, TypeOK, Pieces
<1>5. TypeOK' /\ QueueIsClean'
  BY <1>0, <1>1, <1>3, <1>4 DEF IInv, TypeOK, QueueIsClean
<1>6. PressedIsHeld' /\ Fresh' /\ Seen' /\ KickIsQueued'
  BY <1>0, <1>1 DEF IInv, PressedIsHeld, Fresh, Seen, KickIsQueued
<1>7. anim.function = "kick" /\ ~felled => mode = 2 /\ kicks = 0
  BY <1>0, <1>2 DEF IInv, KickIsQueued, KickIsPlayed
<1>8. KickIsPlayed'
  BY <1>0, <1>1, <1>2, <1>3, <1>7 DEF IInv, KickIsPlayed
<1>9. OneKickPerAction'
  BY <1>0, <1>2, <1>3, <1>7 DEF IInv, OneKickPerAction
<1> QED BY <1>5, <1>6, <1>8, <1>9 DEF IInv

(* A fall ends the kick; history remembers it.                             *)
LEMMA FallStep == IInv /\ Fall => IInv'
<1> SUFFICES ASSUME IInv, Fall PROVE IInv'
  OBVIOUS
<1>0. /\ TypeOK /\ at' = "end" /\ trip' = FALSE
      /\ UNCHANGED <<held, pressed, late, mode, button, gauge, buffer, piece, kicks>>
      /\ felled' = (felled \/ (anim.function = "kick" /\ ~anim.pending))
  BY DEF IInv, Fall, queue
<1>1. /\ anim' \in [function : Functions, pending : BOOLEAN]
      /\ anim'.function \in {"fall", "move"}
  <2>1. anim' = Anim("fall") \/ anim' = Idle
    BY DEF Fall
  <2>2. Anim("fall") \in [function : Functions, pending : BOOLEAN] /\ Anim("fall").function = "fall"
    BY AnimType DEF Functions
  <2> QED BY <2>1, <2>2, IdleType
<1>2. felled' \in BOOLEAN /\ (felled => felled')
      /\ (anim.function = "kick" /\ ~anim.pending => felled')
  BY <1>0
<1>3. TypeOK' /\ QueueIsClean'
  BY <1>0, <1>1, <1>2 DEF IInv, TypeOK, QueueIsClean
<1>4. PressedIsHeld' /\ Fresh' /\ Seen' /\ KickIsQueued'
  BY <1>0, <1>1 DEF IInv, PressedIsHeld, Fresh, Seen, KickIsQueued
<1>5. OneKickPerAction' /\ KickIsPlayed'
  BY <1>0, <1>2 DEF IInv, OneKickPerAction, KickIsPlayed
<1> QED BY <1>3, <1>4, <1>5 DEF IInv

(* An animation that goes on changes nothing.                              *)
LEMMA GoesOnStep == IInv /\ GoesOn => IInv'
  BY DEF IInv, TypeOK, QueueIsClean, PressedIsHeld, Fresh, Seen, KickIsQueued,
         KickIsPlayed, OneKickPerAction, GoesOn, queue, history

(* The cleared keyboard counts as late until a packet comes.               *)
LEMMA EndStepStep == IInv /\ EndStep => IInv'
<1> SUFFICES ASSUME IInv, EndStep PROVE IInv'
  OBVIOUS
<1>0. /\ TypeOK /\ at' = "inputs" /\ pressed' = {} /\ late' = TRUE
      /\ UNCHANGED <<held, mode, button, gauge, buffer, anim, kicks, felled>>
  BY DEF IInv, EndStep, queue, history
<1>1. trip' \in BOOLEAN /\ piece' \in Pieces
  BY <1>0 DEF EndStep, TypeOK, Pieces
<1>2. TypeOK'
  BY <1>0, <1>1 DEF TypeOK
<1>3. QueueIsClean' /\ PressedIsHeld' /\ Fresh' /\ Seen' /\ OneKickPerAction'
  BY <1>0 DEF IInv, QueueIsClean, PressedIsHeld, Fresh, Seen, OneKickPerAction
<1>4. KickIsQueued' /\ KickIsPlayed'
  BY <1>0 DEF IInv, KickIsQueued, KickIsPlayed
<1> QED BY <1>2, <1>3, <1>4 DEF IInv

-----------------------------------------------------------------------------
(* Every step keeps the invariant.                                         *)
LEMMA NextIInv == IInv /\ [Next]_vars => IInv'
<1> SUFFICES ASSUME IInv, [Next]_vars PROVE IInv'
  OBVIOUS
<1>1. CASE UNCHANGED vars
  BY <1>1 DEF IInv, TypeOK, QueueIsClean, PressedIsHeld, Fresh, Seen, Down, KickIsQueued,
              KickIsPlayed, OneKickPerAction, vars, queue, history
<1>2. ASSUME NEW b \in Packets, Packet(b) PROVE IInv'
  BY <1>2, PacketStep
<1> QED BY <1>1, <1>2, InputsDoneStep, ReselectedStep, ProcessStep, RequestStep, TouchStep,
           FallStep, GoesOnStep, EndStepStep DEF Next

(* The inductive invariant holds in every run.                             *)
THEOREM Invariance == Spec => []IInv
  BY InitIInv, NextIInv, PTL DEF Spec

(* The variables keep their types: the power stays within its gauge and    *)
(* the queue within the time an action may wait.                           *)
THEOREM Typed == Spec => []TypeOK
<1>1. IInv => TypeOK
  BY DEF IInv
<1> QED BY Invariance, <1>1, PTL

(* However an action ends, the next one starts without power and time.     *)
THEOREM TheQueueIsClean == Spec => []QueueIsClean
<1>1. IInv => QueueIsClean
  BY DEF IInv
<1> QED BY Invariance, <1>1, PTL

(* The engine sees no press that the gamer has ended and, in a step for    *)
(* which a packet came, no release that he has not made.                   *)
THEOREM ReleasesAreReal == Spec => []ReleaseIsReal
<1>1. IInv => ReleaseIsReal
  BY DEF IInv, PressedIsHeld, Seen, ReleaseIsReal
<1> QED BY Invariance, <1>1, PTL

(* An action is kicked once, unless its player was tripped after the kick. *)
THEOREM ActionsAreKickedOnce == Spec => []OneKickPerAction
<1>1. IInv => OneKickPerAction
  BY DEF IInv
<1> QED BY Invariance, <1>1, PTL

(* What ActionsEnd rests on besides fairness.  The button of a queued      *)
(* action is up, and no set piece keeps the action in the queue.           *)
Released == mode = 2 /\ button \notin held /\ ~SetPiece

RunsOut ==
  Released =>
    /\ mode' # 2 \/ (button' = button /\ buffer' >= buffer)
    /\ Process => buffer' > buffer \/ buffer' > MaxBuffer
    /\ Request /\ buffer > MaxBuffer => mode' = 0

(* The time of such an action runs out: every control step counts, nothing *)
(* takes the count back, and once it is at its end the next command asked  *)
(* for takes the action out of the queue, kicked or not.                   *)
THEOREM ReleasedActionsRunOut == Spec => [][RunsOut]_vars
<1>1. IInv /\ [Next]_vars => [RunsOut]_vars
  <2> SUFFICES ASSUME IInv, Next, Released
               PROVE  /\ mode' # 2 \/ (button' = button /\ buffer' >= buffer)
                      /\ Process => buffer' > buffer \/ buffer' > MaxBuffer
                      /\ Request /\ buffer > MaxBuffer => mode' = 0
    BY DEF RunsOut
  <2>0. /\ buffer \in 0..(MaxBuffer + 1) /\ MaxBuffer \in Nat /\ button \notin pressed
        /\ mode = 2 /\ ~SetPiece
    BY Numbers DEF IInv, TypeOK, PressedIsHeld, Released
  <2>1. CASE UNCHANGED queue /\ ~Process /\ ~Request
    BY <2>0, <2>1 DEF queue
  <2>2. CASE Process
    <3>1. StillQueued
      BY <2>0, <2>2 DEF Process, OffTheBall, OnTheBall, NoAction
    <3>2. /\ button' = button
          /\ buffer' = IF buffer <= MaxBuffer THEN buffer + 1 ELSE buffer
      BY <2>0, <3>1 DEF StillQueued, Charge
    <3>3. ~Request
      BY <2>2 DEF Process, Request
    <3> QED BY <2>0, <3>2, <3>3
  <2>3. CASE Request
    <3>1. PICK gone \in BOOLEAN, hasBall \in BOOLEAN : RequestCommand(gone, hasBall)
      BY <2>3 DEF Request
    <3>2. buffer > MaxBuffer => Cancelled(gone)
      BY <2>0 DEF Cancelled
    <3>3. Done \/ Cancelled(gone) => mode' = 0
      BY <3>1 DEF RequestCommand, Nothing
    <3>4. ~(Done \/ Cancelled(gone)) => UNCHANGED queue
      BY <2>0, <3>1 DEF RequestCommand
    <3>5. ~Process
      BY <2>3 DEF Process, Request
    <3> QED BY <2>0, <3>2, <3>3, <3>4, <3>5 DEF queue
  <2>4. CASE Reselected
    <3>1. mode' = 0
      BY <2>4 DEF Reselected
    <3>2. ~Process
      BY <2>4 DEF Reselected, Process
    <3> QED BY <3>1, <3>2
  <2>5. ASSUME NEW b \in Packets, Packet(b) PROVE UNCHANGED queue /\ ~Process /\ ~Request
    BY <2>5 DEF Packet, Process, Request
  <2>6. InputsDone \/ Touch \/ Fall \/ GoesOn \/ EndStep => UNCHANGED queue
    BY DEF queue, InputsDone, Touch, Fall, GoesOn, EndStep
  <2> QED BY <2>0, <2>1, <2>2, <2>3, <2>4, <2>5, <2>6 DEF Next
<1> QED BY <1>1, Invariance, PTL DEF Spec
=============================================================================
