SPECIFICATION FairSpec
CONSTANTS
  w1 = w1
  w2 = w2
  r1 = r1
  r2 = r2
  Workers <- TwoWorkers
  Rooms <- OneRoom
  MaxFaults = 1
  MaxSignals = 2
  MaxEarlyExits = 1
  CanDie = TRUE
INVARIANTS TypeOK WatchdogHasTheLastWord NoStaleRoom
PROPERTIES EveryRoomIsSettled ServersLive
CHECK_DEADLOCK FALSE
