SPECIFICATION InitializerSpec
CONSTANTS
  c1 = c1
  c2 = c2
  c3 = c3
  c4 = c4
  c5 = c5
  s1 = s1
  s2 = s2
  s3 = s3
  ObjectID = {c1, c2, c3, c4, c5}
  Server = {s1, s2}
  NewCoin = {}
  Budget = {3}
  Duration = {1}
  MaxGasPerQuery = 2
  MaxReservations = 1
  MaxBatch = 0
  Nil = Nil
  InitialBalance = 0
  Usage <- MCUsage
  MaxBudget = 8
  MaxDuration = 1
  WordModulus = 64
  AdvancedFaucetMode = FALSE
  MaxQueue = 4
  Faults = {"crash"}
  Genesis <- OneLarge
  Deposit <- NoDeposit
  TargetBalance = 1
  GasPerObject = 1
  MaxSplit = 2
  NewCoinFactor = 8
  ChunkSize = 2
  InitDuration = 1
  RoundFaults = {"unseen_split", "redis_error"}
SYMMETRY Symmetry
INVARIANTS
  PoolCoinsStaySmall
  RoundsPayApart
