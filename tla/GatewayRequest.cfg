CONSTANTS
  Requests = {r1, r2}
  MaxAttempts = 3
  UsesToken = TRUE
  Nobody = Nobody
SPECIFICATION FairSpec
INVARIANTS
  TypeOK
  SendsBounded
  NoFalseSuccess
PROPERTIES
  RequestEnds
  ImplementsRpc
CHECK_DEADLOCK FALSE
