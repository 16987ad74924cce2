SPECIFICATION Spec
CONSTANTS
  TeamSize = 2
  ShotWindow = 2
  PassWindow = 2
  Actions <- ShotsAndPasses
  MaxTicks = 3
  MaxChanges = 1
INVARIANTS TypeOK ShotsAccountedFor PassesAccountedFor NoShotOutlivesAGoal
CHECK_DEADLOCK FALSE
