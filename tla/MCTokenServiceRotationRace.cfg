SPECIFICATION Spec
CONSTANTS
    Callers = {c1, c2}
    Users = {u1}
    Jtis = {t1, t2, t3}
    RefreshTtl <- OneSecond
    MaxTime = 0
    None = None
SYMMETRY Symmetry
INVARIANTS
    OneLiveTokenPerSession
CHECK_DEADLOCK FALSE
