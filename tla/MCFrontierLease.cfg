SPECIFICATION Spec
CONSTANTS
  w1 = w1
  w2 = w2
  Null = Null
  Worker = {w1, w2}
  Item = {1}
  Url = {"u"}
  Job = {1}
  JobOf <- McJobOf
  Priority <- McPriority
  FinalUrls <- McFinalUrls
  MaxAttempts <- McMaxAttempts
  OwnerOf <- McOwnerOf
  Skew <- McSkew
  LeaseSeconds = 2
  BatchSize = 1
  RetryDelays = {0, 1}
  MaxClock = 4
  MaxFaults = 2
INVARIANTS
  CommitsAreFenced
  LeasesRunOut
  AttemptBudgetKept
PROPERTIES
  SettledForever
  LeaseNotStolen
  RenewalExtends
