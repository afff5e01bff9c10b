CONSTANTS
  Requests = {r1}
  Dispatchers = {d1}
  MaxBytes = 2
  MaxImages = 1
  Sizes = {1}
  MaxAttempts = 2
  ReservationTTL = 2
  LeaseTime = 2
  OperationTime = 1
  RetryTime = 1
  SweepRuns = FALSE
  NoOne = NoOne
SPECIFICATION FairSpec
PROPERTIES ReservationsExpire
CHECK_DEADLOCK FALSE
