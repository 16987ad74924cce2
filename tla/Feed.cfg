SPECIFICATION FairSpec
CONSTANTS
  Players <- NoPlayers
  SetPieces = {"corner"}
  InPlayValues <- Always
  MaxGoals = 2
  SimTicksPerSec = 2
  TacticalRateHz = 1
  BroadcastRateHz = 1
  Duration = 2
  GameMode = 1
  Configured = TRUE
  Packets <- NoPackets
  MaxPackets = 0
  MaxFaults = 1
  CanThrow = TRUE
  CanSignal = TRUE
INVARIANTS TypeOK EventsConserved EventsInOrderOnce ScoreMatchesGoalEvents EndMatchIsAnnounced ResultAgrees
PROPERTIES FeedSpec ServerLife Terminates
