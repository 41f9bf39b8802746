SPECIFICATION FairSpec
CONSTANTS
    Requests = {r1, r2}
    RequestEnv = {"slow", "providerDown", "misconfigured", "auditDown", "registerDown", "crash"}
    Calls = {c1, c2, c3}
    Findings = {f1}
    Plans = {p1, p2}
    Workers = 1
    UseRedis = FALSE
    RemediationEnv = {"adapterFails", "crash"}
    Words = {w}
    MaxPolicies = 2
    None = None
INVARIANTS Typed CallsAreCleared RecordsAgree AppliedIsGranted
PROPERTIES NoPolicyWeakens EveryRequestEnds ThrottleRecovers
CHECK_DEADLOCK FALSE
