SPECIFICATION Spec
CONSTANTS
  Services <- MCServices
  Broken = FALSE
INVARIANTS
  UnpassedIsRestored
CHECK_DEADLOCK FALSE
