CONSTANTS
    Tenants = {t1}
    Calls = {c1, c2}
    Bodies = {b1, b2}
    MaxId = 2
    Legacy = 0
    OneWriter = {}
    Dying = {}
    Touched = {}
    None = None
SYMMETRY Symmetry
SPECIFICATION Spec
CHECK_DEADLOCK FALSE
INVARIANTS FlagsOnlyTampering
