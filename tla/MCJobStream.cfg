SPECIFICATION Spec
CONSTANTS
    Streams = {1}
    WorkspaceOf <- OneWorkspace
    MaxSSEConnections = 1
    MaxSSEPerWorkspace = 1
    Segments = 1
    Second = 2
    PollInterval = 1
    MaxPollInterval = 2
    MaxTime = 5
INVARIANTS StreamDeliversTerminal
CHECK_DEADLOCK FALSE
