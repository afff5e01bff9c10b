SPECIFICATION Spec
CONSTANTS
    Writers = {w1, w2}
    Limit = 2
    MaxEvents = 2
    MaxDisconnects = 1
INVARIANT IssuedCursorAccepted
CHECK_DEADLOCK FALSE
