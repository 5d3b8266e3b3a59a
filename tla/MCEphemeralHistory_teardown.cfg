CONSTANTS
  o1 = o1
  Callers = {t1, l1}
  Lookups = {l1}
  Owners = {o1}
  OwnerOf <- OnePlaybook
  Paths = {p1}
  NoManager = NoManager
  Leftover = Leftover
  Faults = {}
SPECIFICATION HistorySpec
INVARIANTS
  TornDownAfterTask
CHECK_DEADLOCK FALSE
