CONSTANTS
  Tasks = {t1, t2}
  Users = {u1}
  Teams = {m1, m2}
  Roles = {r1, r2}
  Unknown = {m2}
  Objects = {o1, o2}
  Gone = Gone
  Requests <- SomeRequests
  MaxGrants = 5
SPECIFICATION PromisesSpec
SYMMETRY Symmetry
PROPERTIES
  RevokesOnlyItsOwn
CHECK_DEADLOCK FALSE
