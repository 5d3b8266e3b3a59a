CONSTANTS
  Workers = {w1, w2, w3}
  Managers = {m1, m2, m3}
  Owners = {o1}
  oneOwner = o1
  OwnerOf <- SameOwner
  Faults = {"crash", "idle", "sigterm", "slow_start", "worker_death", "spawn_error", "meta_io", "lingering_pid", "lingering_owner"}
  NoManager = NoManager
  NoWorker = NoWorker
  EmptyMeta = EmptyMeta
SPECIFICATION Spec
SYMMETRY Symmetry
INVARIANTS
  TypeOK
  FilesAgree
  LockHolderSparesPublished
PROPERTIES
  LaunchUnderLock
CHECK_DEADLOCK FALSE
