CONSTANTS
  NumMethods = 2
  NumPolicies = 1
  Limit = 1
  MaxRecords = 2
  MaxWaiting = 1
  MaxCrashes = 0
  MayUpgrade = FALSE
SPECIFICATION FairSpec
PROPERTIES QueuedIsOffered
