SPECIFICATION Spec
CONSTANTS
  t1 = t1
  t2 = t2
  o1 = o1
  o2 = o2
  MaxTotal = 5
  Task = {t1, t2}
  Object = {o1, o2}
  MaxVersion = 3
  Lag = FALSE
  Nil = Nil
SYMMETRY Symmetry
CONSTRAINT FewVersions
INVARIANTS
  TypeOK
  TableMatchesGuards
  CacheSound
  NoEquivocation
PROPERTIES
  ImplementsLocks
CHECK_DEADLOCK FALSE
