SPECIFICATION Spec
CONSTANTS
    Calls = {c1, c2, c3}
    Pair = {p1, p2}
    Original = Original
    None = None
    Limit = 1
    MaxWindow = 2
    Connections = {k1}
    MaxVersion = 4
    MaxBundles = 3
    Sizes = {2, 3}
    Mock = 1
    quiet = quiet
    busy = busy
    Bodies = {b1, b2}
    MaxId = 4
    Legacy = 1
SYMMETRY Symmetry
INVARIANTS Typed OneSuccessor LimitHolds DisconnectedIsUnused TenantsAreApart InForceIsChecked PromotionsStand VerdictsAreOfTheirSize QuietChainVerifies
PROPERTIES RegisterSpec LedgerSpec
CHECK_DEADLOCK FALSE
