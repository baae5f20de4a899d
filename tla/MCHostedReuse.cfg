CONSTANTS
  q1 = q1
  q2 = q2
  small = small
  large = large
  Requests = {q1, q2}
  Queries <- MCQueries
  Answers <- MCAnswers
  Fetchers = {f1, f2}
  Objects = {small, large}
  Length <- MCLength
  Probes <- MCProbes
  Width = 2
  MaxBytes = 2
  None = None
  Owner = Owner
  MaxCalls = 2
  MaxOwnerSteps = 1
SYMMETRY Symmetry
SPECIFICATION Spec
INVARIANTS AcceptedFits StagedIsSelected EndedIsSettled
PROPERTIES DestinationStays
CHECK_DEADLOCK FALSE
