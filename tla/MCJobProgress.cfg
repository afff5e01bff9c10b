SPECIFICATION ProgressSpec
CONSTANTS
    w1 = w1
    w2 = w2
    c1 = c1
    k1 = k1
    l1 = l1
    i1 = i1
    a1 = a1
    d1 = d1
    d2 = d2
    Requests = {r1}
    Dispatchers = {d1, d2}
    MaxBytes = 4
    MaxImages = 1
    Sizes = {1, 2}
    MaxAttempts = 2
    ReservationTTL = 2
    LeaseTime = 2
    OperationTime = 1
    RetryTime = 1
    SweepRuns = FALSE
    NoOne = none
  
PROPERTIES JobsSettle 
CHECK_DEADLOCK FALSE
