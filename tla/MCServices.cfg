SPECIFICATION ServicesSpec
CONSTANTS
    Callers = {g1, g2, g3, g4}
    Workspaces = {o1, o2}
    Providers = {p1, p2}
    GlobalLimit = 3
    WorkspaceLimit = 2
    ProviderLimit = 2
    Files = {f1, f2}
    Uploads = {n1, n2}
    Calls = {n1, n2}
    Payloads = {y1, y2}
    Events = {o1, o2}
    Subscriptions = {p1, p2}
    Senders = {n1, n2}
    Workers = {n1, n2}
    Lines = {o1, o2}
    i1 = i1
    c1 = c1
    k1 = k1
    none = none
SYMMETRY ServicesSymmetry
INVARIANTS ServicesTypeOK CountersMatchHolders NoLostWakeup DoneOnce
PROPERTIES BatchesHold DeliveriesHold
CHECK_DEADLOCK FALSE
