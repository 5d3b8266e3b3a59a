CONSTANTS
  r1 = r1
  r2 = r2
  Calls = {r1, r2}
  Names = {n1, n2, n3}
  Gone = Gone
  Queries <- SomeQueries
  MaxOrgs = 3
  PageSize = 1
  MaxObjects = 2
  MaxHeld = 3
SPECIFICATION HistorySpec
SYMMETRY Symmetry
INVARIANTS
  TypeOK
  AnswersWereTrue
  FetchedIsCurrent
  SearchMissesNothing
  SearchRepeatsNothing
  OverrunIsGrowth
CHECK_DEADLOCK FALSE
