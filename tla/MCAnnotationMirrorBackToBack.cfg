CONSTANTS
  Annotations = {a1}
  Dispatchers = {d1, d2}
  MaxAttempts = 2
  LeaseTime = 2
  OperationTime = 1
  RetryTime = 1
  BackToBack = TRUE
  MaxPublished = 3
SPECIFICATION Spec
INVARIANTS RemoteWritesSerialized
CHECK_DEADLOCK FALSE
