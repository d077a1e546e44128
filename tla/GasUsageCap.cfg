SPECIFICATION Spec
CONSTANTS
  r1 = r1
  r2 = r2
  r3 = r3
  Request = {r1, r2, r3}
  DailyCap = 3
  Usage = {1, 2}
  MaxUsage = 2
  LastDay = 3
  MaxSpent = 17
SYMMETRY Symmetry
INVARIANTS
  OvershootBounded
  ChargedForTodayOnly
  CapForEachCounter
  ResetsBounded
