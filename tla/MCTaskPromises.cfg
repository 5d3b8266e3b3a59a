CONSTANTS
  Tasks = {t1, t2}
  Names = {n1, n2}
  Texts = {blank, words, digits}
  Blank = blank
  Numerals = {digits}
  Unset = Unset
  Gone = Gone
  Requests <- EveryKind
  MaxOrgs = 3
SPECIFICATION PromisesSpec
SYMMETRY Symmetry
INVARIANTS
  TypeOK
  SuccessWasReached
  SecondRunIsQuiet
  ChangedIsTrue
PROPERTIES
  UncrossedUpdatesKeepTheRest
CHECK_DEADLOCK FALSE
