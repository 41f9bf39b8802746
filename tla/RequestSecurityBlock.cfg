CONSTANTS
    Requests = {r1}
    Env = {}
    None = None
SYMMETRY Symmetry
SPECIFICATION Spec
INVARIANTS SecurityBlockHolds
CHECK_DEADLOCK FALSE
