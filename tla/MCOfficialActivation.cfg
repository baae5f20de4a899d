CONSTANTS
  r0 = r0
  r1 = r1
  r2 = r2
  r3 = r3
  Pool <- MCPool
  FirstRoot = r0
  NoDigest = 0
  MaxRootLifetime = 6
  MaxLead = 3
  MaxTransitions = 2
  MaxTime = 5
  Processes = {p1, p2}
  Locators = {1, 2}
  None = None
  MaxCalls = 3
  MaxRemovals = 1
SYMMETRY Symmetry
SPECIFICATION ActivationSpec
INVARIANTS ClientsAgree NextStepIsOpen ReturnedIsStored EnabledIsEnrolled
PROPERTIES RootsMoveOn
CHECK_DEADLOCK FALSE
