CONSTANTS
  Calls = {c1, c2}
  IdleTimeout = 3
  PollFloor = 2
  PollCap = 2
  WatchInterval = 2
  InitWait = 1
  Horizon = 8
  Uses = {"direct", "request", "shutdown", "sigterm", "init_error", "owner_exit"}
SPECIFICATION HistorySpec
SYMMETRY Symmetry
INVARIANTS
  TypeOK
  OvershootBounded
  OrphanExitsInTime
  OnlySilentCallsLost
CHECK_DEADLOCK FALSE
