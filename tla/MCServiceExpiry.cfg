CONSTANTS
  Threads = {t1}
  Inspectors = {}
  Base = Base
  Authorized = Authorized
  KeyPool <- MCKeyPool
  Offers <- MCOffers
  CacheSeconds = 1
  QueryLifetime = 1
  ResultLifetime = 1
  None = None
  NotMade = NotMade
  MaxTime = 2
  MaxSuspended = 2
  MaxRotations = 1
  MaxDocuments = 2
SPECIFICATION Spec
INVARIANTS ExpiredDiscoveryIsRefused
CHECK_DEADLOCK FALSE
