SPECIFICATION LiveSpec
CONSTANTS
  Null = Null
  Worker = {w1, w2}
  Item = {1}
  Url = {"u"}
  Job = {1}
  JobOf <- McJobOf
  Priority <- McPriority
  FinalUrls <- McFinalUrls
  MaxAttempts <- McMaxAttempts
  OwnerOf <- McOwnerOf
  Skew <- McSkew
  LeaseSeconds = 1
  BatchSize = 1
  RetryDelays = {1}
  MaxClock = 0
  MaxAge = 1
  MaxFaults = 2
PROPERTIES
  EveryRowSettles
