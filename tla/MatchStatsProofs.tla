-------------------------- MODULE MatchStatsProofs --------------------------
(* Theorems of MatchStats, for every squad size and all windows.           *)
EXTENDS MatchStats, FiniteSetTheorems, TLAPS

(* The players are finitely many.                                          *)
LEMMA PlayersFinite ==
  /\ IsFiniteSet(Players)
  /\ \A S \in SUBSET Players : IsFiniteSet(S) /\ Cardinality(S) \in Nat
<1>1. IsFiniteSet(Players)
  BY StatsAssumption, FS_Interval DEF Players
<1> QED BY <1>1, FS_Subset, FS_CardinalityType

(* A squad is the players of its team.                                     *)
LEMMA SquadIsTeam ==
  ASSUME NEW t \in Teams
  PROVE  Squad(t) = {p \in Players : TeamOf(p) = t}
<1>1. CASE t = 0
  BY <1>1, StatsAssumption DEF Squad, Players, TeamOf
<1>2. CASE t = 1
  BY <1>2, StatsAssumption DEF Squad, Players, TeamOf
<1> QED BY <1>1, <1>2 DEF Teams

(* The number of players of two disjoint groups is the sum, of any two at  *)
(* most the sum.                                                           *)
LEMMA CountUnion ==
  ASSUME NEW A \in SUBSET Players, NEW B \in SUBSET Players
  PROVE  /\ Cardinality(A \cup B) <= Cardinality(A) + Cardinality(B)
         /\ A \cap B = {} => Cardinality(A \cup B) = Cardinality(A) + Cardinality(B)
<1>1. IsFiniteSet(A) /\ IsFiniteSet(B)
  BY PlayersFinite
<1>2. Cardinality(A \cup B) = Cardinality(A) + Cardinality(B) - Cardinality(A \cap B)
  BY <1>1, FS_Union
<1>3. Cardinality(A) \in Nat /\ Cardinality(B) \in Nat /\ Cardinality(A \cap B) \in Nat
  BY PlayersFinite
<1>4. A \cap B = {} => Cardinality(A \cap B) = 0
  BY FS_EmptySet
<1> QED BY <1>2, <1>3, <1>4

(* A group counts no more players than a group that contains it.           *)
LEMMA CountSubset ==
  ASSUME NEW A \in SUBSET Players, NEW B \in SUBSET Players, A \subseteq B
  PROVE  Cardinality(A) <= Cardinality(B)
BY PlayersFinite, FS_Subset

(* The players of S with an expiry that has not run out.                   *)
Open(expiry, S) == {p \in S : expiry[p] > 0}

(* Whatever begins and succeeds in a tick, among the players S: those who  *)
(* succeed and those still pending were pending before or have just begun. *)
LEMMA Resolution ==
  ASSUME NEW expiry \in [Players -> Nat], NEW S \in SUBSET Players,
         NEW begun \in SUBSET Players, NEW good \in SUBSET Players,
         NEW until \in Nat, NEW now \in Nat,
         NEW noted, noted = Noted(expiry, begun, until),
         NEW won, won = Succeed(noted, good)
  PROVE  Cardinality(Open(StillPending(noted, won, now), S)) + Cardinality(won \cap S)
         <= Cardinality(Open(expiry, S)) + Cardinality(begun \cap S)
<1> DEFINE A == {p \in S : StillPending(noted, won, now)[p] > 0}
           B == won \cap S
           C == {p \in S : expiry[p] > 0}
           D == begun \cap S
<1>1. A \cap B = {}
  BY DEF StillPending
<1>2. A \cup B \subseteq C \cup D
  BY DEF StillPending, Succeed, Noted
<1>3. B \in SUBSET Players
  BY DEF Succeed
<1> HIDE DEF A, B
<1>4. A \in SUBSET Players
  BY DEF A
<1> HIDE DEF C, D
<1>5. C \in SUBSET Players /\ D \in SUBSET Players
  BY DEF C, D
<1>6. Cardinality(A \cup B) = Cardinality(A) + Cardinality(B)
  BY <1>1, <1>3, <1>4, CountUnion
<1>7. Cardinality(A \cup B) <= Cardinality(C \cup D)
  BY <1>2, <1>3, <1>4, <1>5, CountSubset
<1>8. Cardinality(C \cup D) <= Cardinality(C) + Cardinality(D)
  BY <1>5, CountUnion
<1>9. /\ Cardinality(A) \in Nat /\ Cardinality(B) \in Nat /\ Cardinality(C) \in Nat
      /\ Cardinality(D) \in Nat /\ Cardinality(C \cup D) \in Nat
  BY <1>3, <1>4, <1>5, PlayersFinite
<1> QED BY <1>6, <1>7, <1>8, <1>9 DEF A, B, C, D, Open

(* A group of players is counted team by team.                             *)
LEMMA PlusType ==
  ASSUME NEW counter \in [Teams -> Nat], NEW S \in SUBSET Players
  PROVE  /\ Plus(counter, S) \in [Teams -> Nat]
         /\ Sum(Plus(counter, S)) = Sum(counter) + Cardinality(S)
         /\ \A t \in Teams :
              Plus(counter, S)[t] = counter[t] + Cardinality(S \cap Squad(t))
<1> DEFINE Of(t) == {p \in S : TeamOf(p) = t}
<1>1. \A t \in Teams : Of(t) \in SUBSET Players /\ Cardinality(Of(t)) \in Nat
  BY PlayersFinite
<1>2. Of(0) \cap Of(1) = {} /\ Of(0) \cup Of(1) = S
  BY DEF TeamOf
<1>3. \A t \in Teams : Of(t) = S \cap Squad(t)
  BY SquadIsTeam
<1>4. \A t \in Teams : Plus(counter, S)[t] = counter[t] + Cardinality(Of(t))
  BY DEF Plus
<1> HIDE DEF Of
<1>5. Cardinality(S) = Cardinality(Of(0)) + Cardinality(Of(1))
  BY <1>1, <1>2, CountUnion DEF Teams
<1>6. Plus(counter, S) = [t \in Teams |-> counter[t] + Cardinality(Of(t))]
  BY DEF Plus, Of
<1>7. Plus(counter, S) \in [Teams -> Nat]
  BY <1>1, <1>6
<1>8. Sum(Plus(counter, S)) = Sum(counter) + Cardinality(S)
  BY <1>1, <1>4, <1>5 DEF Sum, Teams
<1> QED BY <1>3, <1>4, <1>7, <1>8

-----------------------------------------------------------------------------
(* Type correctness.                                                       *)

(* What one tick chooses.                                                  *)
LEMMA ChoiceTypes ==
  ASSUME TypeOK, NEW owner \in Owners, NEW g \in Goals(owner),
         NEW cur \in FunctionsAfter
  PROVE  /\ cur \in [Players -> FunctionTypes]
         /\ g \in [team : Teams \cup {None}, owner : Owners, counted : SUBSET Players]
         /\ ShotsAfterGoal(owner, g) \in [Players -> Nat]
         /\ g.team # None => /\ g.counted = CountedByGoal(g.team, owner)
                             /\ g.team \in Teams
<1>1. cur \in [Players -> FunctionTypes]
  BY StatsAssumption DEF FunctionsAfter
<1>2. \A t \in Teams : CountedByGoal(t, owner) \in SUBSET Players
  BY DEF CountedByGoal
<1>3. g \in [team : Teams \cup {None}, owner : Owners, counted : SUBSET Players]
  BY <1>2 DEF Goals, NoGoal, Owners
<1>4. ShotsAfterGoal(owner, g) \in [Players -> Nat]
  BY DEF ShotsAfterGoal, TypeOK
<1>5. g.team # None => g.counted = CountedByGoal(g.team, owner) /\ g.team \in Teams
  BY DEF Goals, NoGoal
<1> QED BY <1>1, <1>3, <1>4, <1>5

(* The sets of players that a tick works with.                             *)
LEMMA GroupTypes ==
  ASSUME NEW cur, NEW owner, NEW expiry
  PROVE  /\ \A kinds : Starts(cur, kinds) \in SUBSET Players
         /\ Received(owner) \in SUBSET Players /\ Saved(cur) \in SUBSET Players
         /\ Succeed(expiry, Received(owner)) \in SUBSET Players
         /\ Succeed(expiry, Saved(cur)) \in SUBSET Players
BY DEF Starts, Received, Saved, Succeed

(* Expiries stay numbers.                                                  *)
LEMMA ExpiryType ==
  ASSUME NEW expiry \in [Players -> Nat], NEW begun, NEW until \in Nat,
         NEW won, NEW now \in Nat
  PROVE  StillPending(Noted(expiry, begun, until), won, now) \in [Players -> Nat]
BY DEF StillPending, Noted

(* TypeOK holds in every reachable state: the counters of stats_ and the   *)
(* expiries of accumulateStats() are never negative and never undefined.   *)
THEOREM TypeCorrect == Spec => []TypeOK
<1>1. Init => TypeOK
  BY DEF Init, TypeOK, FunctionTypes, NoGoal, Owners
<1>2. TypeOK /\ [Next]_vars => TypeOK'
  <2> SUFFICES ASSUME TypeOK, [Next]_vars PROVE TypeOK'
    OBVIOUS
  <2>1. CASE Tick
    <3>1. PICK cur \in FunctionsAfter, owner \in Owners :
            \E g \in Goals(owner) :
              /\ Accumulate(tickCounter_', cur, owner, g)
              /\ goal' = g
              /\ goalTick' = [t \in Teams |-> IF t = g.team THEN tickCounter_' ELSE goalTick[t]]
      BY <2>1 DEF Tick
    <3>2. PICK g \in Goals(owner) :
              /\ Accumulate(tickCounter_', cur, owner, g)
              /\ goal' = g
              /\ goalTick' = [t \in Teams |-> IF t = g.team THEN tickCounter_' ELSE goalTick[t]]
      BY <3>1
    <3> DEFINE now == tickCounter_'
               shotExpiry == Noted(ShotsAfterGoal(owner, g), Starts(cur, {"shot"}), now + ShotWindow)
               passExpiry == Noted(pendingPassExpiryTick_, Starts(cur, PassTypes), now + PassWindow)
    <3>3. now \in Nat /\ now + ShotWindow \in Nat /\ now + PassWindow \in Nat
      BY <2>1, StatsAssumption DEF Tick, TypeOK
    <3>4. prevFunctionType_' \in [Players -> FunctionTypes]
      BY <3>2, ChoiceTypes DEF Accumulate
    <3>5. pendingShotExpiryTick_' \in [Players -> Nat]
      BY <3>2, <3>3, ChoiceTypes, ExpiryType DEF Accumulate
    <3>6. pendingPassExpiryTick_' \in [Players -> Nat]
      BY <3>2, <3>3, ExpiryType DEF Accumulate, TypeOK
    <3>7. /\ shots' \in [Teams -> Nat] /\ passes' \in [Teams -> Nat]
          /\ tackles' \in [Teams -> Nat] /\ passes_success' \in [Teams -> Nat]
      BY <3>2, PlusType, GroupTypes DEF Accumulate, TypeOK
    <3>8. shots_on_target' \in [Teams -> Nat]
      <4>1. Plus(shots_on_target, Succeed(shotExpiry, Saved(cur))) \in [Teams -> Nat]
        BY PlusType, GroupTypes DEF TypeOK
      <4>2. Cardinality(g.counted) \in Nat
        BY ChoiceTypes, PlayersFinite
      <4>3. shots_on_target' =
              [t \in Teams |-> Plus(shots_on_target, Succeed(shotExpiry, Saved(cur)))[t] +
                               IF t = g.team THEN Cardinality(g.counted) ELSE 0]
        BY <3>2 DEF Accumulate
      <4> HIDE DEF shotExpiry
      <4> QED BY <4>1, <4>2, <4>3
    <3>9. shotTick' \in [Players -> Nat] /\ passTick' \in [Players -> Nat]
      BY <3>2, <3>3 DEF Accumulate, TypeOK
    <3>10. goalTick' \in [Teams -> Nat]
      BY <3>2, <3>3 DEF TypeOK
    <3>11. goal' \in [team : Teams \cup {None}, owner : Owners, counted : SUBSET Players]
      BY <3>2, ChoiceTypes
    <3> QED BY <3>3, <3>4, <3>5, <3>6, <3>7, <3>8, <3>9, <3>10, <3>11 DEF TypeOK
  <2>2. CASE UNCHANGED vars
    BY <2>2 DEF TypeOK, vars, pending, counters, history
  <2> QED BY <2>1, <2>2 DEF Next
<1> QED BY <1>1, <1>2, PTL DEF Spec

-----------------------------------------------------------------------------
(* What a tick does with the choices it has made.                          *)
Chosen(cur, owner, g) ==
  /\ cur \in FunctionsAfter /\ owner \in Owners /\ g \in Goals(owner)
  /\ Accumulate(tickCounter_', cur, owner, g)
  /\ goalTick' = [t \in Teams |-> IF t = g.team THEN tickCounter_' ELSE goalTick[t]]

(* Every tick is one with such choices.                                    *)
LEMMA TickChooses ==
  ASSUME TypeOK, Tick
  PROVE  /\ \E cur, owner, g : Chosen(cur, owner, g)
         /\ tickCounter_' = tickCounter_ + 1 /\ tickCounter_' \in Nat
         /\ tickCounter_' + ShotWindow \in Nat /\ tickCounter_' + PassWindow \in Nat
BY StatsAssumption DEF Tick, Chosen, TypeOK

(* accumulateStats() never reports more successful passes of a team than   *)
(* passes, with room left for all that are still pending.  Given the       *)
(* types, the invariant is inductive as it stands.                         *)
THEOREM PassesCounted == Spec => []PassesAccountedFor
<1>1. Init => PassesAccountedFor
  <2> SUFFICES ASSUME Init, NEW t \in Teams
               PROVE  passes_success[t] + Cardinality(PendingPasses(t)) <= passes[t]
    BY DEF PassesAccountedFor
  <2>1. PendingPasses(t) = {}
    BY SquadIsTeam DEF Init, PendingPasses
  <2> QED BY <2>1, FS_EmptySet DEF Init
<1>2. TypeOK /\ PassesAccountedFor /\ [Next]_vars => PassesAccountedFor'
  <2> SUFFICES ASSUME TypeOK, PassesAccountedFor, [Next]_vars, NEW t \in Teams
               PROVE  passes_success'[t] + Cardinality(PendingPasses(t)') <= passes'[t]
    BY DEF PassesAccountedFor
  <2>1. CASE Tick
    <3>1. PICK cur, owner, g : Chosen(cur, owner, g)
      BY <2>1, TickChooses
    <3> DEFINE begun == Starts(cur, PassTypes)
               until == tickCounter_' + PassWindow
               noted == Noted(pendingPassExpiryTick_, begun, until)
               won   == Succeed(noted, Received(owner))
    <3>2. /\ passes' = Plus(passes, begun) /\ passes_success' = Plus(passes_success, won)
          /\ pendingPassExpiryTick_' = StillPending(noted, won, tickCounter_')
      BY <3>1 DEF Chosen, Accumulate
    <3>3. begun \in SUBSET Players /\ won \in SUBSET Players /\ Received(owner) \in SUBSET Players
      BY GroupTypes
    <3>4. Squad(t) \in SUBSET Players
      BY SquadIsTeam
    <3>5. pendingPassExpiryTick_ \in [Players -> Nat] /\ tickCounter_' \in Nat /\ until \in Nat
      BY <2>1, TickChooses DEF TypeOK
    <3>6. Cardinality(Open(StillPending(noted, won, tickCounter_'), Squad(t)))
            + Cardinality(won \cap Squad(t))
          <= Cardinality(Open(pendingPassExpiryTick_, Squad(t)))
            + Cardinality(begun \cap Squad(t))
      <4>1. noted = Noted(pendingPassExpiryTick_, begun, until)
        OBVIOUS
      <4>2. won = Succeed(noted, Received(owner))
        OBVIOUS
      <4> HIDE DEF begun, until, noted, won
      <4> QED BY <3>3, <3>4, <3>5, <4>1, <4>2, Resolution
    <3>7. /\ passes'[t] = passes[t] + Cardinality(begun \cap Squad(t))
          /\ passes_success'[t] = passes_success[t] + Cardinality(won \cap Squad(t))
      <4> HIDE DEF begun, won
      <4> QED BY <3>2, <3>3, PlusType DEF TypeOK
    <3>8. /\ PendingPasses(t)' = Open(StillPending(noted, won, tickCounter_'), Squad(t))
          /\ PendingPasses(t) = Open(pendingPassExpiryTick_, Squad(t))
      <4> HIDE DEF noted, won
      <4> QED BY <3>2 DEF PendingPasses, Open
    <3>9. /\ passes[t] \in Nat /\ passes_success[t] \in Nat
          /\ Cardinality(PendingPasses(t)) \in Nat
          /\ Cardinality(PendingPasses(t)') \in Nat
          /\ Cardinality(begun \cap Squad(t)) \in Nat
          /\ Cardinality(won \cap Squad(t)) \in Nat
      <4>1. /\ PendingPasses(t) \in SUBSET Players /\ PendingPasses(t)' \in SUBSET Players
            /\ begun \cap Squad(t) \in SUBSET Players /\ won \cap Squad(t) \in SUBSET Players
        BY <3>4, <3>8 DEF PendingPasses
      <4> HIDE DEF begun, won
      <4> QED BY <4>1, PlayersFinite DEF TypeOK
    <3>10. passes_success[t] + Cardinality(PendingPasses(t)) <= passes[t]
      BY DEF PassesAccountedFor
    <3> HIDE DEF begun, won, noted
    <3> QED BY <3>6, <3>7, <3>8, <3>9, <3>10
  <2>2. CASE UNCHANGED vars
    BY <2>2 DEF PassesAccountedFor, PendingPasses, vars, pending, counters
  <2> QED BY <2>1, <2>2 DEF Next
<1> QED BY <1>1, <1>2, TypeCorrect, PTL DEF Spec

(* A goal takes the shots it counts out of the pending ones.               *)
LEMMA GoalSettles ==
  ASSUME TypeOK, NEW owner \in Owners, NEW g \in Goals(owner), g.team # None
  PROVE  Cardinality({p \in Players : ShotsAfterGoal(owner, g)[p] > 0})
           + Cardinality(g.counted) <= Cardinality(PendingShots)
<1> DEFINE after == {p \in Players : ShotsAfterGoal(owner, g)[p] > 0}
<1>1. g.counted = CountedByGoal(g.team, owner)
  BY DEF Goals, NoGoal
<1>2. /\ after \cap g.counted = {} /\ after \cup g.counted \subseteq PendingShots
      /\ g.counted \in SUBSET Players
  BY <1>1 DEF ShotsAfterGoal, ClearedByGoal, CountedByGoal, PendingShots, TypeOK
<1>3. after \in SUBSET Players /\ PendingShots \in SUBSET Players
  BY DEF PendingShots
<1> HIDE DEF after
<1>4. Cardinality(after \cup g.counted) <= Cardinality(PendingShots)
  BY <1>2, <1>3, CountSubset
<1> QED BY <1>2, <1>3, <1>4, CountUnion DEF after

(* resolveShotsOnGoal() and accumulateStats() together never report more   *)
(* shots on target than shots, with room left for the pending ones.  It    *)
(* holds for the two teams together only: a goal may count a shot of the   *)
(* other team (OnlyTheScorersShotCounts).                                  *)
THEOREM ShotsCounted == Spec => []ShotsAccountedFor
<1>1. Init => ShotsAccountedFor
  <2>1. Init => PendingShots = {}
    BY DEF Init, PendingShots
  <2> QED BY <2>1, FS_EmptySet DEF Init, ShotsAccountedFor, Sum, Teams
<1>2. TypeOK /\ TypeOK' /\ ShotsAccountedFor /\ [Next]_vars => ShotsAccountedFor'
  <2> SUFFICES ASSUME TypeOK, TypeOK', ShotsAccountedFor, [Next]_vars
               PROVE  ShotsAccountedFor'
    OBVIOUS
  <2>1. CASE Tick
    <3>1. PICK cur, owner, g : Chosen(cur, owner, g)
      BY <2>1, TickChooses
    <3> DEFINE begun == Starts(cur, {"shot"})
               until == tickCounter_' + ShotWindow
               open  == ShotsAfterGoal(owner, g)
               noted == Noted(open, begun, until)
               won   == Succeed(noted, Saved(cur))
               goals == IF g.team = None THEN 0 ELSE Cardinality(g.counted)
               still == {p \in Players : open[p] > 0}
    <3>2. /\ shots' = Plus(shots, begun)
          /\ shots_on_target' = [t \in Teams |-> Plus(shots_on_target, won)[t] +
                                   IF t = g.team THEN Cardinality(g.counted) ELSE 0]
          /\ pendingShotExpiryTick_' = StillPending(noted, won, tickCounter_')
      BY <3>1 DEF Chosen, Accumulate
    <3>3. begun \in SUBSET Players /\ won \in SUBSET Players /\ Saved(cur) \in SUBSET Players
      BY GroupTypes
    <3>4. open \in [Players -> Nat] /\ tickCounter_' \in Nat /\ until \in Nat
      BY <2>1, <3>1, TickChooses, ChoiceTypes DEF Chosen
    <3>5. Cardinality(PendingShots') + Cardinality(won)
            <= Cardinality(still) + Cardinality(begun)
      <4>1. Cardinality(Open(StillPending(noted, won, tickCounter_'), Players))
              + Cardinality(won \cap Players)
            <= Cardinality(Open(open, Players)) + Cardinality(begun \cap Players)
        <5>1. noted = Noted(open, begun, until)
          OBVIOUS
        <5>2. won = Succeed(noted, Saved(cur))
          OBVIOUS
        <5>3. Players \in SUBSET Players
          OBVIOUS
        <5> HIDE DEF begun, until, open, noted, won
        <5> QED BY <3>3, <3>4, <5>1, <5>2, <5>3, Resolution
      <4>2. won \cap Players = won /\ begun \cap Players = begun
        BY <3>3
      <4>3. /\ PendingShots' = Open(StillPending(noted, won, tickCounter_'), Players)
            /\ still = Open(open, Players)
        <5> HIDE DEF noted, won, open
        <5> QED BY <3>2 DEF PendingShots, Open
      <4> HIDE DEF begun, won, noted, still, open
      <4> QED BY <4>1, <4>2, <4>3
    <3>6. Cardinality(still) + goals <= Cardinality(PendingShots) /\ goals \in Nat
      <4>1. CASE g.team = None
        <5>1. still = PendingShots
          BY <4>1 DEF ShotsAfterGoal, PendingShots
        <5> QED BY <4>1, <5>1, PlayersFinite DEF PendingShots
      <4>2. CASE g.team # None
        <5>1. g.counted \in SUBSET Players
          BY <3>1, ChoiceTypes DEF Chosen
        <5>2. Cardinality(still) + Cardinality(g.counted) <= Cardinality(PendingShots)
          BY <3>1, <4>2, GoalSettles DEF Chosen
        <5> QED BY <4>2, <5>1, <5>2, PlayersFinite
      <4> QED BY <4>1, <4>2
    <3>7. Sum(shots') = Sum(shots) + Cardinality(begun)
      <4> HIDE DEF begun
      <4> QED BY <3>2, <3>3, PlusType DEF TypeOK
    <3>8. Sum(shots_on_target') = Sum(shots_on_target) + Cardinality(won) + goals
      <4>1. Sum(Plus(shots_on_target, won)) = Sum(shots_on_target) + Cardinality(won)
        <5> HIDE DEF won
        <5> QED BY <3>3, PlusType DEF TypeOK
      <4>2. Plus(shots_on_target, won) \in [Teams -> Nat]
        <5> HIDE DEF won
        <5> QED BY <3>3, PlusType DEF TypeOK
      <4>3. g.team \in {0, 1, None}
        BY <3>1, ChoiceTypes DEF Chosen, Teams
      <4>4. goals \in Nat
        BY <3>6
      <4> HIDE DEF won
      <4>5. CASE g.team = None
        BY <3>2, <4>1, <4>2, <4>5 DEF Sum, Teams, None
      <4>6. CASE g.team = 0
        BY <3>2, <4>1, <4>2, <4>4, <4>6 DEF Sum, Teams, None
      <4>7. CASE g.team = 1
        BY <3>2, <4>1, <4>2, <4>4, <4>7 DEF Sum, Teams, None
      <4> QED BY <4>3, <4>5, <4>6, <4>7
    <3>9. /\ Cardinality(PendingShots) \in Nat /\ Cardinality(PendingShots') \in Nat
          /\ Cardinality(still) \in Nat /\ Cardinality(won) \in Nat
          /\ Cardinality(begun) \in Nat
          /\ Sum(shots) \in Nat /\ Sum(shots_on_target) \in Nat
      <4>1. PendingShots \in SUBSET Players /\ PendingShots' \in SUBSET Players
        BY DEF PendingShots
      <4>2. still \in SUBSET Players
        OBVIOUS
      <4> HIDE DEF begun, won, still
      <4> QED BY <3>3, <4>1, <4>2, PlayersFinite DEF TypeOK, Sum, Teams
    <3> HIDE DEF begun, won, still, goals
    <3> QED BY <3>5, <3>6, <3>7, <3>8, <3>9 DEF ShotsAccountedFor, Sum
  <2>2. CASE UNCHANGED vars
    BY <2>2 DEF ShotsAccountedFor, PendingShots, Sum, vars, pending, counters
  <2> QED BY <2>1, <2>2 DEF Next
<1> QED BY <1>1, <1>2, TypeCorrect, PTL DEF Spec

(* What accumulateStats() keeps pending is the player's latest shot or     *)
(* pass, and no older than its window, whichever positive windows.         *)
THEOREM PendingRecent == Spec => []PendingIsRecent
<1>1. Init => PendingIsRecent
  BY DEF Init, PendingIsRecent
<1>2. TypeOK /\ PendingIsRecent /\ [Next]_vars => PendingIsRecent'
  <2> SUFFICES ASSUME TypeOK, PendingIsRecent, [Next]_vars PROVE PendingIsRecent'
    OBVIOUS
  <2>1. CASE Tick
    <3>1. PICK cur, owner, g : Chosen(cur, owner, g)
      BY <2>1, TickChooses
    <3> SUFFICES ASSUME NEW p \in Players
                 PROVE  /\ pendingShotExpiryTick_'[p] > 0 =>
                             /\ pendingShotExpiryTick_'[p] = shotTick'[p] + ShotWindow
                             /\ tickCounter_' < pendingShotExpiryTick_'[p]
                        /\ pendingPassExpiryTick_'[p] > 0 =>
                             /\ pendingPassExpiryTick_'[p] = passTick'[p] + PassWindow
                             /\ tickCounter_' < pendingPassExpiryTick_'[p]
      BY DEF PendingIsRecent
    <3> DEFINE shotExpiry == Noted(ShotsAfterGoal(owner, g), Starts(cur, {"shot"}),
                                   tickCounter_' + ShotWindow)
               passExpiry == Noted(pendingPassExpiryTick_, Starts(cur, PassTypes),
                                   tickCounter_' + PassWindow)
    <3>2. /\ pendingShotExpiryTick_'[p] \in {0, shotExpiry[p]}
          /\ pendingShotExpiryTick_'[p] # 0 => ~(tickCounter_' >= shotExpiry[p])
          /\ pendingPassExpiryTick_'[p] \in {0, passExpiry[p]}
          /\ pendingPassExpiryTick_'[p] # 0 => ~(tickCounter_' >= passExpiry[p])
      <4> HIDE DEF shotExpiry, passExpiry
      <4>1. \A expiry, won : /\ StillPending(expiry, won, tickCounter_')[p] \in {0, expiry[p]}
                             /\ StillPending(expiry, won, tickCounter_')[p] # 0 =>
                                  ~(tickCounter_' >= expiry[p])
        BY DEF StillPending
      <4>2. /\ \E won : pendingShotExpiryTick_' = StillPending(shotExpiry, won, tickCounter_')
            /\ \E won : pendingPassExpiryTick_' = StillPending(passExpiry, won, tickCounter_')
        BY <3>1 DEF Chosen, Accumulate, shotExpiry, passExpiry
      <4> QED BY <4>1, <4>2
    <3>3. /\ shotTick'[p] = IF p \in Starts(cur, {"shot"}) THEN tickCounter_' ELSE shotTick[p]
          /\ passTick'[p] = IF p \in Starts(cur, PassTypes) THEN tickCounter_' ELSE passTick[p]
      BY <3>1 DEF Chosen, Accumulate
    <3>4. ShotsAfterGoal(owner, g)[p] \in {0, pendingShotExpiryTick_[p]}
      BY DEF ShotsAfterGoal
    <3>5. /\ shotExpiry[p] = IF p \in Starts(cur, {"shot"}) THEN tickCounter_' + ShotWindow
                              ELSE ShotsAfterGoal(owner, g)[p]
          /\ passExpiry[p] = IF p \in Starts(cur, PassTypes) THEN tickCounter_' + PassWindow
                              ELSE pendingPassExpiryTick_[p]
      BY DEF Noted
    <3>6. /\ tickCounter_' \in Nat /\ tickCounter_' + ShotWindow \in Nat
          /\ tickCounter_' + PassWindow \in Nat
          /\ pendingShotExpiryTick_[p] \in Nat /\ pendingPassExpiryTick_[p] \in Nat
      BY <2>1, TickChooses DEF TypeOK
    <3>7. /\ pendingShotExpiryTick_[p] > 0 => pendingShotExpiryTick_[p] = shotTick[p] + ShotWindow
          /\ pendingPassExpiryTick_[p] > 0 => pendingPassExpiryTick_[p] = passTick[p] + PassWindow
      BY DEF PendingIsRecent
    <3> HIDE DEF shotExpiry, passExpiry
    <3>8. pendingShotExpiryTick_'[p] > 0 =>
            /\ pendingShotExpiryTick_'[p] = shotTick'[p] + ShotWindow
            /\ tickCounter_' < pendingShotExpiryTick_'[p]
      BY <3>2, <3>3, <3>4, <3>5, <3>6, <3>7
    <3>9. pendingPassExpiryTick_'[p] > 0 =>
            /\ pendingPassExpiryTick_'[p] = passTick'[p] + PassWindow
            /\ tickCounter_' < pendingPassExpiryTick_'[p]
      BY <3>2, <3>3, <3>5, <3>6, <3>7
    <3> QED BY <3>8, <3>9
  <2>2. CASE UNCHANGED vars
    BY <2>2 DEF PendingIsRecent, vars, pending, history
  <2> QED BY <2>1, <2>2 DEF Next
<1> QED BY <1>1, <1>2, TypeCorrect, PTL DEF Spec

(* Goals lie in the past, so a shot begun in this tick is not older than   *)
(* any: with that, NoShotOutlivesAGoal is inductive.                       *)
GoalsArePast == \A t \in Teams : goalTick[t] <= tickCounter_
GoalInv == GoalsArePast /\ NoShotOutlivesAGoal

(* resolveShotsOnGoal() settles every shot that the scoring team had       *)
(* pending: none of them can still be confirmed by a later save.           *)
THEOREM GoalsSettleShots == Spec => []NoShotOutlivesAGoal
<1>1. Init => GoalInv
  BY DEF Init, GoalInv, GoalsArePast, NoShotOutlivesAGoal, PendingShots
<1>2. TypeOK /\ GoalInv /\ [Next]_vars => GoalInv'
  <2> SUFFICES ASSUME TypeOK, GoalInv, [Next]_vars PROVE GoalInv'
    OBVIOUS
  <2>1. CASE Tick
    <3>1. PICK cur, owner, g : Chosen(cur, owner, g)
      BY <2>1, TickChooses
    <3>2. tickCounter_ \in Nat /\ tickCounter_' = tickCounter_ + 1 /\ goalTick \in [Teams -> Nat]
      BY <2>1, TickChooses DEF TypeOK
    <3>3. goalTick' = [t \in Teams |-> IF t = g.team THEN tickCounter_' ELSE goalTick[t]]
      BY <3>1 DEF Chosen
    <3>4. GoalsArePast'
      BY <3>2, <3>3 DEF GoalInv, GoalsArePast
    <3>5. ASSUME NEW p \in Players, pendingShotExpiryTick_'[p] > 0
          PROVE  shotTick'[p] >= goalTick'[TeamOf(p)]
      <4> DEFINE shotExpiry == Noted(ShotsAfterGoal(owner, g), Starts(cur, {"shot"}),
                                     tickCounter_' + ShotWindow)
      <4>1. TeamOf(p) \in Teams /\ p \in Squad(TeamOf(p))
        BY SquadIsTeam DEF TeamOf, Teams
      <4>2. shotTick'[p] = IF p \in Starts(cur, {"shot"}) THEN tickCounter_' ELSE shotTick[p]
        BY <3>1 DEF Chosen, Accumulate
      <4>3. shotExpiry[p] # 0
        <5>1. \E won : pendingShotExpiryTick_' = StillPending(shotExpiry, won, tickCounter_')
          BY <3>1 DEF Chosen, Accumulate
        <5> HIDE DEF shotExpiry
        <5> QED BY <3>5, <5>1 DEF StillPending
      <4>4. CASE p \in Starts(cur, {"shot"})
        BY <3>2, <3>3, <3>4, <4>1, <4>2, <4>4 DEF GoalsArePast
      <4>5. CASE p \notin Starts(cur, {"shot"})
        <5>1. ShotsAfterGoal(owner, g)[p] # 0
          BY <4>3, <4>5 DEF Noted
        <5>2. pendingShotExpiryTick_[p] > 0 /\ TeamOf(p) # g.team
          <6>1. pendingShotExpiryTick_[p] \in Nat
            BY DEF TypeOK
          <6>2. None \notin Teams
            BY DEF None, Teams
          <6> QED BY <4>1, <5>1, <6>1, <6>2 DEF ShotsAfterGoal, ClearedByGoal
        <5>3. shotTick[p] >= goalTick[TeamOf(p)]
          BY <5>2 DEF GoalInv, NoShotOutlivesAGoal, PendingShots
        <5> QED BY <3>3, <4>1, <4>2, <4>5, <5>2, <5>3
      <4> QED BY <4>4, <4>5
    <3>6. NoShotOutlivesAGoal'
      BY <3>5 DEF NoShotOutlivesAGoal, PendingShots
    <3> QED BY <3>4, <3>6 DEF GoalInv
  <2>2. CASE UNCHANGED vars
    BY <2>2 DEF GoalInv, GoalsArePast, NoShotOutlivesAGoal, PendingShots, vars, pending, history
  <2> QED BY <2>1, <2>2 DEF Next
<1>3. GoalInv => NoShotOutlivesAGoal
  BY DEF GoalInv
<1> QED BY <1>1, <1>2, <1>3, TypeCorrect, PTL DEF Spec
=============================================================================
