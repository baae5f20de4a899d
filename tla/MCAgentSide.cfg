CONSTANTS
  Requests = {"r1", "r2"}
  MaxLines = 3
  MaxQueries = 2
  MaxSessions = 2
  Calls = {c1, c2}
  Catalogs = {k1, k2}
  OwnerEntries = {o1}
  Others = {x1}
  Absent = Absent
  MaxEdits = 2
  Capsules <- MCCapsules
  Queries <- MCQueries
  Readers = {a1}
  None = None
  MaxChanges = 1
SYMMETRY Symmetry
SPECIFICATION SideSpec
INVARIANTS AnswerIsOwn AnswersInOrder ReadyAfterHandshake SelectsTheBest
PROPERTIES ConnectedIsTrue OwnerEntriesStay UsedByItsCatalog
CHECK_DEADLOCK FALSE
