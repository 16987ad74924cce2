SPECIFICATION Spec
CONSTANTS
  Players <- ThreePlayers
  Home <- LeftTeam
  NoOne = NoOne
  HalfTimes = {TRUE, FALSE}
  StepMs = 2
  PrepareMs = 4
  BumpMs = 3
  StartMs = 4
  CardPauseMs = 2
  CardMs = 12
  GoalMs = 3
  GoalBumpMs = 1
  GoalStartMs = 3
  HalfMs = 1
  HalfStartMs = 2
  AdvantageMs = 1
  CancelMs = 7
  RelaxSteps = 1
  MaxTime = 20
  MaxGoals = 1
INVARIANTS TakerIsOnThePitch
