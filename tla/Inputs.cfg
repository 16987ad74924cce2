SPECIFICATION FairSpec
CONSTANTS
  Players <- BothTeams
  SetPieces = {}
  InPlayValues = {TRUE, FALSE}
  MaxGoals = 0
  SimTicksPerSec = 3
  TacticalRateHz = 1
  BroadcastRateHz = 1
  Duration = 1
  GameMode = 1
  Configured = TRUE
  Packets <- VsAIPackets
  MaxPackets = 2
  MaxFaults = 0
  CanThrow = TRUE
  CanSignal = TRUE
INVARIANTS InputsInOrder CardEventsAgree
