SPECIFICATION FairSpec
CONSTANTS
  w1 = w1
  w2 = w2
  Worker = {w1, w2}
  Inputs <- McInputs
  Invalid = {"bad"}
  Malformed = {"["}
  Unparsable = {"c"}
  DomainOf <- McDomainOf
  Page <- McPage
  PagesOf <- McPagesOf
  NormalizedUrl <- McNormalizedUrl
  ContentHash <- McContentHash
  Sentinel = Sentinel
  QueueSize = 1
  BatchSize = 2
  PerDomain = 1
  WriterMayFail = TRUE
INVARIANTS
  JoinMeansDone
  NothingLost
  RowsDistinct
PROPERTIES
  Terminates
CHECK_DEADLOCK FALSE
