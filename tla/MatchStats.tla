----------------------------- MODULE MatchStats -----------------------------
(***************************************************************************)
(* How Server::tick() turns what the players are doing into the shot, pass *)
(* and tackle figures of the match report: resolveShotsOnGoal() when the   *)
(* score changes, then accumulateStats().                                  *)
(*                                                                         *)
(* Players are numbered as in GameState: team * 11 + index, the keeper of  *)
(* each team at index 0.  Possession and distance are sums of floats over  *)
(* positions, which this module does not have; they are left out.          *)
(***************************************************************************)
EXTENDS Integers, FiniteSets

CONSTANTS
  TeamSize,    \* 11 in the code
  ShotWindow,  \* ticks a shot stays pending, 60 in the code
  PassWindow,  \* ticks a pass stays pending, 30 in the code
  Actions,     \* the values of e_FunctionType that players may show
  MaxTicks,    \* bound: ticks played
  MaxChanges   \* bound: players who start another action in one tick

(* e_FunctionType as accumulateStats() tells its values apart: Catch and   *)
(* Deflect are one, and so are all that are not counted.                   *)
PassTypes == {"short_pass", "long_pass", "high_pass"}
FunctionTypes == {"other", "shot", "sliding", "save"} \cup PassTypes

ASSUME StatsAssumption ==
  /\ Actions \subseteq FunctionTypes
  /\ TeamSize \in Nat \ {0}
  /\ ShotWindow \in Nat \ {0} /\ PassWindow \in Nat \ {0}
  /\ MaxTicks \in Nat /\ MaxChanges \in Nat

Teams == {0, 1}
None == 0 - 1
Players == 0..(2 * TeamSize - 1)
Squad(t) == (t * TeamSize)..(t * TeamSize + TeamSize - 1)
TeamOf(p) == IF p < TeamSize THEN 0 ELSE 1
Keeper(t) == t * TeamSize


(* info.ball_owned_team and ball_owned_player: both are -1, or neither is. *)
NoOwner == [team |-> None, player |-> None]
Owners == {NoOwner} \cup [team : Teams, player : 0..(TeamSize - 1)]

VARIABLES
  tickCounter_,
  prevFunctionType_,
  pendingShotExpiryTick_,  \* 0: no pending shot
  pendingPassExpiryTick_,  \* 0: no pending pass
  shots, shots_on_target, passes, passes_success, tackles,
  shotTick, passTick,      \* history: when the player last shot, last passed
  goalTick,                \* history: when the team last scored
  goal                     \* history: the goal of this tick and what it counted

counters == <<shots, shots_on_target, passes, passes_success, tackles>>
pending == <<prevFunctionType_, pendingShotExpiryTick_, pendingPassExpiryTick_>>
history == <<shotTick, passTick, goalTick, goal>>
vars == <<tickCounter_, pending, counters, history>>

NoGoal == [team |-> None, owner |-> NoOwner, counted |-> {}]

Init ==
  /\ tickCounter_ = 0
  /\ prevFunctionType_ = [p \in Players |-> "other"]
  /\ pendingShotExpiryTick_ = [p \in Players |-> 0]
  /\ pendingPassExpiryTick_ = [p \in Players |-> 0]
  /\ shots = [t \in Teams |-> 0] /\ shots_on_target = [t \in Teams |-> 0]
  /\ passes = [t \in Teams |-> 0] /\ passes_success = [t \in Teams |-> 0]
  /\ tackles = [t \in Teams |-> 0]
  /\ shotTick = [p \in Players |-> 0] /\ passTick = [p \in Players |-> 0]
  /\ goalTick = [t \in Teams |-> 0] /\ goal = NoGoal

-----------------------------------------------------------------------------
(* resolveShotsOnGoal(team, ball_owned_player): the index of the ball's    *)
(* owner within the owner's team, whichever that is, applied to the team   *)
(* that scored.                                                            *)
Slot(team, owner) == team * TeamSize + owner.player

\* Mutant of CountedByGoal: the range of the index is not checked, and what
\* lies beside the array looks like a pending shot.
CountedByGoal_Unchecked(team, owner) ==
  {p \in {Slot(team, owner)} : p \in Players => pendingShotExpiryTick_[p] > 0}
CountedByGoal(team, owner) ==
  {p \in {Slot(team, owner)} \cap Players : pendingShotExpiryTick_[p] > 0}

\* Mutant of ClearedByGoal: only the shot that counted is forgotten.
ClearedByGoal_OwnOnly(team, owner) == CountedByGoal(team, owner)
ClearedByGoal(team, owner) == Squad(team) \cup CountedByGoal(team, owner)

(* The score changes by one goal of one team, or not at all.               *)
Goals(owner) ==
  {NoGoal} \cup
  {[team |-> t, owner |-> owner, counted |-> CountedByGoal(t, owner)] : t \in Teams}

ShotsAfterGoal(owner, g) ==
  IF g.team = None THEN pendingShotExpiryTick_
  ELSE [p \in Players |-> IF p \in ClearedByGoal(g.team, owner)
                            THEN 0 ELSE pendingShotExpiryTick_[p]]

-----------------------------------------------------------------------------
(* accumulateStats(), for a tick "now" in which the players do "cur".      *)

Starts(cur, kinds) ==
  {p \in Players : cur[p] \in kinds /\ cur[p] # prevFunctionType_[p]}

(* Whose pass would be resolved now (a team mate has the ball), and whose  *)
(* shot (the opposing keeper catches or deflects).                         *)
Received(owner) ==
  {p \in Players : owner.team = TeamOf(p) /\ Slot(owner.team, owner) # p}
Saved(cur) == {p \in Players : cur[Keeper(1 - TeamOf(p))] = "save"}

(* Pending expiries of one kind once this tick's actions are noted, ...    *)
Noted(expiry, begun, until) ==
  [p \in Players |-> IF p \in begun THEN until ELSE expiry[p]]
(* ... the players among them who succeed, and what stays pending.         *)
Succeed_Unasked(expiry, good) == good  \* Mutant of Succeed: pending or not.
Succeed(expiry, good) == {p \in good : expiry[p] > 0}
\* Mutant of StillPending: not reset by success.
StillPending_Won(expiry, won, now) ==
  [p \in Players |-> IF now >= expiry[p] THEN 0 ELSE expiry[p]]
StillPending(expiry, won, now) ==
  [p \in Players |-> IF p \in won \/ now >= expiry[p] THEN 0 ELSE expiry[p]]

Plus(counter, S) ==
  [t \in Teams |-> counter[t] + Cardinality({p \in S : TeamOf(p) = t})]

Accumulate(now, cur, owner, g) ==
  LET begunShots  == Starts(cur, {"shot"})
      begunPasses == Starts(cur, PassTypes)
      shotExpiry  == Noted(ShotsAfterGoal(owner, g), begunShots, now + ShotWindow)
      passExpiry  == Noted(pendingPassExpiryTick_, begunPasses, now + PassWindow)
      received    == Succeed(passExpiry, Received(owner))
      saved       == Succeed(shotExpiry, Saved(cur))
  IN /\ prevFunctionType_' = cur
     /\ shots' = Plus(shots, begunShots)
     /\ passes' = Plus(passes, begunPasses)
     /\ tackles' = Plus(tackles, Starts(cur, {"sliding"}))
     /\ passes_success' = Plus(passes_success, received)
     /\ shots_on_target' =
          [t \in Teams |-> Plus(shots_on_target, saved)[t] +
                           IF t = g.team THEN Cardinality(g.counted) ELSE 0]
     /\ pendingShotExpiryTick_' = StillPending(shotExpiry, saved, now)
     /\ pendingPassExpiryTick_' = StillPending(passExpiry, received, now)
     /\ shotTick' = [p \in Players |-> IF p \in begunShots THEN now ELSE shotTick[p]]
     /\ passTick' = [p \in Players |-> IF p \in begunPasses THEN now ELSE passTick[p]]

FunctionsAfter ==
  {cur \in [Players -> Actions] :
     Cardinality({p \in Players : cur[p] # prevFunctionType_[p]}) <= MaxChanges}

Tick ==
  /\ tickCounter_ < MaxTicks
  /\ tickCounter_' = tickCounter_ + 1
  /\ \E cur \in FunctionsAfter, owner \in Owners : \E g \in Goals(owner) :
       /\ Accumulate(tickCounter_', cur, owner, g)
       /\ goal' = g
       /\ goalTick' = [t \in Teams |-> IF t = g.team THEN tickCounter_' ELSE goalTick[t]]

Next == Tick
Spec == Init /\ [][Next]_vars

-----------------------------------------------------------------------------
(* What has to hold.                                                       *)

Sum(counter) == counter[0] + counter[1]
PendingShots == {p \in Players : pendingShotExpiryTick_[p] > 0}
PendingPasses(t) == {p \in Squad(t) : pendingPassExpiryTick_[p] > 0}

\* Every variable keeps its type; an expiry is 0 or lies in the future.
TypeOK ==
  /\ tickCounter_ \in Nat
  /\ prevFunctionType_ \in [Players -> FunctionTypes]
  /\ pendingShotExpiryTick_ \in [Players -> Nat]
  /\ pendingPassExpiryTick_ \in [Players -> Nat]
  /\ shots \in [Teams -> Nat] /\ shots_on_target \in [Teams -> Nat]
  /\ passes \in [Teams -> Nat] /\ passes_success \in [Teams -> Nat]
  /\ tackles \in [Teams -> Nat]
  /\ shotTick \in [Players -> Nat] /\ passTick \in [Players -> Nat]
  /\ goalTick \in [Teams -> Nat]
  /\ goal \in [team : Teams \cup {None}, owner : Owners, counted : SUBSET Players]

\* Over both teams, no shot is on target twice, none is on target that was
\* not counted as a shot, and those still pending leave room to succeed:
\* whatever mixture of saves, goals and new shots resolves them.
ShotsAccountedFor ==
  Sum(shots_on_target) + Cardinality(PendingShots) <= Sum(shots)

\* A pass succeeds at most once, for the team of the passer: passes_success
\* never exceeds passes, with every pending pass still to come.
PassesAccountedFor ==
  \A t \in Teams : passes_success[t] + Cardinality(PendingPasses(t)) <= passes[t]

\* What is pending is the player's latest shot or pass, and it is forgotten
\* when its window ends: the report of a later tick cannot confirm it.
PendingIsRecent ==
  \A p \in Players :
    /\ pendingShotExpiryTick_[p] > 0 =>
         /\ pendingShotExpiryTick_[p] = shotTick[p] + ShotWindow
         /\ tickCounter_ < pendingShotExpiryTick_[p]
    /\ pendingPassExpiryTick_[p] > 0 =>
         /\ pendingPassExpiryTick_[p] = passTick[p] + PassWindow
         /\ tickCounter_ < pendingPassExpiryTick_[p]

\* A goal settles all the shots its team took before it: a save after the
\* restart counts for none of them.
NoShotOutlivesAGoal ==
  \A p \in PendingShots : shotTick[p] >= goalTick[TeamOf(p)]

\* "Only the scorer's pending shot counts as on-target": the shot a goal
\* counts is one of the ball's owner, and he plays for the team that scored.
OnlyTheScorersShotCounts ==
  goal.counted # {} => goal.owner.team = goal.team
=============================================================================
