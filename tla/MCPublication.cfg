CONSTANTS
  Publishers = {p1, p2}
  Pieces = {a, b}
  None = None
  MaxPolicies = 2
  MaxDrafts = 2
  MaxEdits = 2
SPECIFICATION Spec
INVARIANTS ReportIsTrue OnlyPreparedIsHeld
CHECK_DEADLOCK FALSE
