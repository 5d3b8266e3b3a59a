CONSTANTS
  Workers = {w1, w2}
  Managers = {m1, m2}
  Owners = {o1}
  oneOwner = o1
  OwnerOf <- SameOwner
  Faults = {"crash", "slow_start", "slow_init", "init_error", "worker_death", "lingering_pid", "owner_killed", "lingering_owner"}
  NoManager = NoManager
  NoWorker = NoWorker
  EmptyMeta = EmptyMeta
SPECIFICATION FairHealingSpec
INVARIANTS
  OnlyDisturbedCallsRaise
PROPERTIES
  ImplementsService
  EveryCallEnds
  NoOrphans
CHECK_DEADLOCK FALSE
