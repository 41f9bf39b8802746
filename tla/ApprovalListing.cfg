CONSTANTS
    Workers = {w1}
    Approvals = {a1}
    Actors = {alice, bob}
    Requests = {r1, r2, r3, r4}
    Objects = {o1, o2}
    Codes = {1, 2}
    RequireMfa = TRUE
    DecisionWindow = 2
    ExecutionWindow = 1
    MaxNow = 1
    Env = {"listing"}
    None = None
SYMMETRY Symmetry
SPECIFICATION Spec
INVARIANTS SingleUse
