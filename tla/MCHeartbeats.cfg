SPECIFICATION HealthSpec
CONSTANTS
  i1 = i1
  i2 = i2
  Item = {i1, i2}
  MaxFaults = 2
  Write = 1
  Stale = 4
  Skew = 1
INVARIANTS
  TypeOK
  GracefulExitLeavesNothing
  BeatingIsSeen
PROPERTIES
  WorkIsNotCutShort
  RecoveryClearsGauge
  ProcessEnds
CHECK_DEADLOCK FALSE
