SPECIFICATION Spec
CONSTANTS
    Calls = {c1, c2}
    Payloads = {p1}
    ForItemImage = TRUE
    Deadline = FALSE
    MaxAttempts = 2
    LeaseTime = 2
    WorkTime = 1
    RetentionTime = 3
    MaxClaims = 3
INVARIANT OneWorkerPerKey
CHECK_DEADLOCK FALSE
