SPECIFICATION Spec
CONSTANTS
  r1 = r1
  r2 = r2
  r3 = r3
  Request = {r1, r2}
  DailyCap = 2
  Usage = {1}
  MaxUsage = 1
  LastDay = 2
  MaxSpent = 12
SYMMETRY Symmetry
INVARIANT
  DayStaysCapped
