SPECIFICATION Spec
CONSTANTS
  TeamSize = 2
  ShotWindow = 2
  PassWindow = 1
  Actions <- Shots
  MaxTicks = 3
  MaxChanges = 1
INVARIANTS OnlyTheScorersShotCounts
CHECK_DEADLOCK FALSE
