SPECIFICATION Spec
CONSTANTS
  Item = {1, 2, 3}
  Url = {"u", "v"}
  Job = {1, 2}
  JobOf <- McJobOf
  Priority <- McPriority
  FinalUrls <- McFinalUrls
  MaxAttempts <- McMaxAttempts
  LeaseSeconds = 1
  BatchSize = 2
  RetryDelays = {0, 1}
  MaxClock = 4
PROPERTIES
  LeaseNotStolen
  ImplementsWorkQueue
CHECK_DEADLOCK FALSE
