SPECIFICATION FairSpec
CONSTANTS
  r1 = r1
  r2 = r2
  r3 = r3
  r4 = r4
  r5 = r5
  u1 = u1
  u2 = u2
  Request = {r1, r2, r3, r4, r5}
  Invalid = {r5}
  Urls <- MCUrls
  Rows <- MCRows
  MaxRequests = 2
  MaxUrls = 3
  KeepMinutes = 2
  MaxClock = 2
  MaxFaults = 1
INVARIANTS
  TypeOK
  QuotaKept
  JobsAreWhole
  RefusedLeavesNothing
PROPERTIES
  EveryRequestIsAnswered
CHECK_DEADLOCK FALSE
