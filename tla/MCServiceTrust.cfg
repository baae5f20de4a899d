CONSTANTS
  Threads = {t1, t2}
  Inspectors = {t2}
  Base = Base
  Authorized = Authorized
  KeyPool <- MCKeyPool
  Offers <- MCOffers
  CacheSeconds = 1
  QueryLifetime = 2
  ResultLifetime = 2
  None = None
  NotMade = NotMade
  MaxTime = 2
  MaxSuspended = 1
  MaxRotations = 1
  MaxDocuments = 2
SPECIFICATION MCSpec
INVARIANTS RootWasInForce DiscoveryUseIsBounded WithdrawnKeysFade
PROPERTIES CacheMovesForward
CHECK_DEADLOCK FALSE
