CONSTANTS
  Requests = {r1}
  MaxAttempts = 3
  UsesToken = TRUE
  Nobody = Nobody
SPECIFICATION Spec
INVARIANTS
  ServerErrorsRetried
CHECK_DEADLOCK FALSE
