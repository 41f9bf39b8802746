CONSTANTS
    Events = {e1, e2}
    Tasks = {t1, t2}
    MaxAttempts = 3
    Limit = 2
    Settings <- Deployments
    Env = {"outage", "crash"}
    None = None
SPECIFICATION FairSpec
INVARIANTS DeliveredIsThere FailuresAreKept
PROPERTY EveryEventSettles
CHECK_DEADLOCK FALSE
