SPECIFICATION Spec
CONSTANTS
  r1 = r1
  r2 = r2
  r3 = r3
  Request = {r1, r2}
  DailyCap = 3
  Usage <- WithRebate
  MaxUsage = 2
  LastDay = 3
  MaxSpent = 12
SYMMETRY Symmetry
INVARIANT
  ChargedForTodayOnly
