SPECIFICATION DeploySpec
CONSTANTS
  Services <- MCServices
  Broken = TRUE
  First = {0, 4}
  Targets = {5, 6}
  MaxReleases = 2
INVARIANTS
  OutcomeIsTrue
  OutcomeTellsAll
  RunningCodeFits
  ReadyTellsSchema
PROPERTIES
  EveryReleaseEnds
CHECK_DEADLOCK FALSE
