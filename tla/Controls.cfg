SPECIFICATION FairSpec
CONSTANTS
  Packets <- PassShootTackle
  MaxGauge = 4
  EarlyGauge = 2
  MaxBuffer = 3
INVARIANTS TypeOK ReleaseIsReal OneKickPerAction
PROPERTIES ActionsEnd
