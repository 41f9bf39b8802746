CONSTANTS
    Workers = {w1}
    Approvals = {a1}
    Actors = {alice, bob}
    Requests = {r1, r2, r3, r4}
    Objects = {o1}
    Codes = {1, 2}
    RequireMfa = TRUE
    DecisionWindow = 2
    ExecutionWindow = 1
    MaxNow = 2
    Env = {}
    None = None
SPECIFICATION FairSpec
INVARIANTS TypeOK SingleUse
PROPERTIES GrantSpec TokenStaysSpent RejectedNeverExecutes ExecutionSettles
