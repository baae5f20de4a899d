CONSTANTS
  a1 = a1  a2 = a2  t1 = t1  t2 = t2  t3 = t3  d1 = d1  root = root
  r1 = r1  v1 = v1  v2 = v2
  Adopters <- MCAdopters
  Targets <- MCTargets
  Dirs <- MCDirs
  Root = root
  Parent <- MCParent
  Recipe <- MCRecipe
  Payload <- MCPayload
  Verifiers = 2
  ReceiptPath <- MCOnePath
  NoPath = NoPath
  User = User
  MaxEdits = 2
SPECIFICATION Spec
INVARIANTS ReceiptSound EvidenceIsOwn HandledFailureLeavesNoFile EmptyDirectoryHasCause
PROPERTIES OnlyOwnFilesTouched
CHECK_DEADLOCK FALSE
