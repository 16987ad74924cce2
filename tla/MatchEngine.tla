----------------------------- MODULE MatchEngine -----------------------------
(***************************************************************************)
(* The football engine as the server sees it through GameEnv::step() and   *)
(* GameEnv::get_info(): goals, the current set piece, whether the ball is  *)
(* in play, and two flags per player.  The engine itself is much larger;   *)
(* this module states only what one step of it may change.                 *)
(***************************************************************************)
EXTENDS Integers, FiniteSets

CONSTANTS
  Players,      \* players whose flags are followed, numbers as in GameState
  SetPieces,    \* the set pieces that may be awarded
  InPlayValues, \* what IsInPlay() may answer while no set piece is pending
  MaxGoals      \* bound: goals scored in a match

ASSUME EngineAssumption ==
  /\ Players \subseteq Nat /\ IsFiniteSet(Players)
  /\ SetPieces \subseteq {"goal_kick", "corner", "free_kick", "throw_in",
                          "penalty", "kick_off"}
  /\ InPlayValues \subseteq BOOLEAN /\ InPlayValues # {}
  /\ MaxGoals \in Nat

Teams == {0, 1}
Modes == SetPieces \cup {"normal"}
Flags == [active : BOOLEAN, card : BOOLEAN]
Engine == [goals : [Teams -> Nat], mode : Modes, inPlay : BOOLEAN,
           flags : [Players -> Flags]]

KickedOff ==
  [goals |-> [t \in Teams |-> 0], mode |-> "normal", inPlay |-> FALSE,
   flags |-> [p \in Players |-> [active |-> TRUE, card |-> FALSE]]]

(* A step credits at most one goal, to one team: Match::Process picks one  *)
(* team even if both goal tests answer true.                               *)
GoalsAfter(e) ==
  {e.goals} \cup
  {[e.goals EXCEPT ![t] = @ + 1] :
     t \in {u \in Teams : e.goals[0] + e.goals[1] < MaxGoals}}

(* A set piece is shown until its taker has touched the ball; the referee  *)
(* awards the next one only in normal play.                                *)
ModeAfter(e) == IF e.mode = "normal" THEN Modes ELSE {e.mode, "normal"}

(* Cards are never taken back, a sent-off player never returns, and only a *)
(* carded player is sent off.                                              *)
FlagAfter(f, g) ==
  /\ f.card => g.card
  /\ g.active => f.active
  /\ (f.active /\ ~g.active) => f.card

FlagsAfter(e) ==
  {f \in [Players -> Flags] : \A p \in Players : FlagAfter(e.flags[p], f[p])}

(* GameEnv::step(): every state the engine may be in one step later.       *)
EngineStep(e) ==
  {n \in [goals : GoalsAfter(e), mode : ModeAfter(e),
          inPlay : InPlayValues \cup {TRUE}, flags : FlagsAfter(e)] :
     n.mode = "normal" => n.inPlay \in InPlayValues}
=============================================================================
