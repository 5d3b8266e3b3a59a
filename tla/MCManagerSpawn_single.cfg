CONSTANTS
  Workers = {w1, w2}
  Managers = {m1, m2}
  Owners = {o1}
  oneOwner = o1
  OwnerOf <- SameOwner
  Faults = {}
  NoManager = NoManager
  NoWorker = NoWorker
  EmptyMeta = EmptyMeta
SPECIFICATION Spec
SYMMETRY Symmetry
INVARIANTS
  OneWorkerSpawns
CHECK_DEADLOCK FALSE
