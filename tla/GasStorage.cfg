SPECIFICATION StorageSpec
CONSTANTS
  c1 = c1
  c2 = c2
  c3 = c3
  s1 = s1
  s2 = s2
  ObjectID = {c1, c2, c3}
  Server = {s1, s2}
  NewCoin <- MCNewCoin
  Budget = {1, 3}
  Duration = {1, 2}
  MaxGasPerQuery = 2
  MaxReservations = 2
  MaxBatch = 2
  Nil = Nil
SYMMETRY Symmetry
INVARIANTS
  StorageTypeOK
  CountMatchesList
  BalanceMatchesList
  NoCoinInTwoPlaces
  LiveReservationScheduled
  ReservationWithinLimits
PROPERTIES
  QueueOrder
  CoinsConserved
