SPECIFICATION FairSpec
CONSTANTS
  w1 = w1
  w2 = w2
  r1 = r1
  r2 = r2
  Workers <- OneWorker
  Rooms <- OneRoom
  MaxFaults = 0
  MaxSignals = 0
  MaxEarlyExits = 0
  CanDie = TRUE
INVARIANTS CrashIsDetected
CHECK_DEADLOCK FALSE
