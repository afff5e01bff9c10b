SPECIFICATION ProgressSpec
CONSTANTS
    c1 = c1
    c2 = c2
    c3 = c3
    d1 = d1
    r1 = r1
    f1 = f1
    f2 = f2
    e1 = e1
    e2 = e2
    s1 = s1
    v1 = v1
    v2 = v2
    p1 = p1
    p2 = p2
    none = none
    Writers = {c1, c2}
    Limit = 2
    MaxEvents = 3
    MaxDisconnects = 2
INVARIANTS ClientInSync
PROPERTIES LeasesSettle ClientCatchesUp WaitersWake
CHECK_DEADLOCK FALSE
