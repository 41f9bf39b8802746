CONSTANTS
    Workers = {w1, w2}
    Approvals = {a1}
    Actors = {alice}
    Requests = {r1, r2}
    Objects = {o1, o2}
    Codes = {1}
    RequireMfa = FALSE
    DecisionWindow = 1
    ExecutionWindow = 1
    MaxNow = 0
    Env = {"listing", "testRoute", "crash", "lostWrite"}
    None = None
SYMMETRY Symmetry
VIEW View
SPECIFICATION Spec
INVARIANTS HumanDecision HonestStatus
