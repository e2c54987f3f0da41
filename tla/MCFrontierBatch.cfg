SPECIFICATION Spec
SYMMETRY Swap
CONSTANTS
  w1 = w1
  w2 = w2
  Null = Null
  Worker = {w1, w2}
  Item <- McItem
  Url = {"u"}
  Job = {1}
  JobOf <- McJobOf
  Priority <- McPriority
  FinalUrls <- McFinalUrls
  MaxAttempts <- McMaxAttempts
  OwnerOf <- McOwnerOf
  Skew <- McSkew
  LeaseSeconds = 1
  BatchSize = 2
  RetryDelays = {0}
  MaxClock = 2
  MaxFaults = 1
INVARIANTS
  TypeOK
  RowLocksExclusive
  PagesMatchCompletions
PROPERTIES
  JobProgressMonotone
  ImplementsWorkQueue
