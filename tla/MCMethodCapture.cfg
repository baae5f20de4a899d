CONSTANTS
  NumMethods = 1
  NumPolicies = 2
  Limit = 1
  MaxRecords = 2
  MaxWaiting = 1
  MaxCrashes = 2
  MayUpgrade = TRUE
SPECIFICATION SettlingSpec
INVARIANTS OnlyConsentedLeaves RecordBeforeReply StatusIsTrue OneIntent OnlyReviewedPolicy
PROPERTIES SettledStays ImplementsLedger QueuedIsSettled
