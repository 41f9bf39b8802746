SPECIFICATION Spec
CONSTANTS
    Calls = {c1, c2, c3, c4}
    Users = {u1}
    SoftMail = TRUE
    Original = Original
    Emails = {e1, e2}
    Domains = {d1}
    Legacy = Legacy
    Callbacks = {k1, k2}
    home = home
    away = away
    MaxTime = 3
    FreshTime = 1
    StaleTime = 2
    None = None
SYMMETRY Symmetry
INVARIANTS Typed UsedOnce ResetSignsOut TenantIsWhole WithdrawnKeysEnd
CHECK_DEADLOCK FALSE
