CONSTANTS
  o1 = o1
  Callers = {t1, l1}
  Lookups = {l1}
  Owners = {o1}
  OwnerOf <- OnePlaybook
  Paths = {p1}
  NoManager = NoManager
  Leftover = Leftover
  Faults = {"crash", "idle", "sigterm", "slow_start", "slow_init", "init_error", "worker_death", "spawn_error", "owner_killed", "lingering_owner"}
SPECIFICATION HistorySpec
INVARIANTS
  TypeOK
  FailsOnlyIfDisturbed
  OneOfTwoIsServed
PROPERTIES
  EveryCallEnds
  NoOrphans
CHECK_DEADLOCK FALSE
