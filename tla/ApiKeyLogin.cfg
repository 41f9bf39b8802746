SPECIFICATION Spec
CONSTANTS
    Requests = {r1, r2}
    Connections = {k1}
    Tenants = {t1, t2}
    None = None
SYMMETRY Symmetry
INVARIANT KeysAuthenticate
CHECK_DEADLOCK FALSE
