SPECIFICATION FairSpec
CONSTANTS
  PingInterval = 4
  PongTimeout = 12
  MaxSilence = 22
  MaxDue = 2
INVARIANTS TypeOK ClosedOneIntervalLate OnlyTheDeadTimeOut
PROPERTY DeadClientCloses
CHECK_DEADLOCK FALSE
