SPECIFICATION FetchSpec
CONSTANTS
  c1 = c1
  c2 = c2
  site = site
  public = public
  private = private
  Caller = {c1, c2}
  Rate = 1
  TicksPerSecond = 2
  Requests = 2
  Late = 1
  MaxIdle = 2
  MaxClock = 24
  Name = {site}
  Address = {public, private}
  BlockedHosts = {}
  Private = {private}
  Metadata = private
  Url <- MCUrl
  AllowPrivate = FALSE
  PerDomain = 1
  MaxRetries = 1
  MaxRedirects = 1
INVARIANTS
  RateKept
  OnlyPublicVisited
  EveryRequestIsPaid
  RetriesAreForFailures
  DomainLimitKept
PROPERTIES
  EveryFetchReturns
CHECK_DEADLOCK FALSE
