SPECIFICATION Spec
CONSTANTS
  t1 = t1
  t2 = t2
  o1 = o1
  o2 = o2
  MaxTotal = 6
  Task = {t1, t2}
  Object = {o1}
  MaxVersion = 2
  Lag = FALSE
  Nil = Nil

PROPERTIES
  CacheKeepsLastSeen
CHECK_DEADLOCK FALSE
