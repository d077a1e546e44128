SPECIFICATION Spec
CONSTANTS
  c1 = c1
  c2 = c2
  c3 = c3
  s1 = s1
  s2 = s2
  ObjectID = {c1, c2}
  Server = {s1, s2}
  NewCoin = {}
  Budget = {0, 1, 3, 5}
  Duration = {0, 1, 2}
  MaxGasPerQuery = 2
  MaxReservations = 3
  MaxBatch = 0
  Nil = Nil
  InitialBalance = 2
  Usage <- MCUsage
  MaxBudget = 4
  MaxDuration = 1
  WordModulus = 64
  AdvancedFaucetMode = FALSE
  MaxQueue = 4
  Faults = {"lost_add_reply"}
SYMMETRY Symmetry
INVARIANTS
  CoinToOneCaller
