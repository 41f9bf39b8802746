SPECIFICATION Spec
CONSTANTS
    Length = 2
    LongLength = 2
    MinBody = 2
    MaxBody = 2
    CarryBytes = 2
    Buffer = 3
    Requests = {r1, r2}
    BreakTime = 1
    MaxTime = 1
    Events = 2
    Capacity = 2
    MaxAttempts = 2
    Crashing = TRUE
INVARIANT OutageKeepsEnforcement
CHECK_DEADLOCK FALSE
