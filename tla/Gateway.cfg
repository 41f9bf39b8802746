SPECIFICATION FairSpec
CONSTANTS
    Length = 5
    LongLength = 7
    MinBody = 2
    MaxBody = 2
    CarryBytes = 2
    Buffer = 3
    Requests = {r1, r2}
    BreakTime = 1
    MaxTime = 1
    Events = 3
    Capacity = 2
    MaxAttempts = 2
    Crashing = TRUE
INVARIANTS Typed NothingLeaks TextIsKept ProxiedIsJudged
PROPERTIES OutageIsBridged WaitingEnds
CHECK_DEADLOCK FALSE
