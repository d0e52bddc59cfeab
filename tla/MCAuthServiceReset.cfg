SPECIFICATION Spec
CONSTANTS
    Callers = {c1, c2}
    Users = {u1}
    Jtis = {t1}
    Links = {l1, l2}
    RefreshTtl <- MCRefreshTtl
    LinkTtl <- MCLinkTtl
    MaxTime = 1
    None = None
SYMMETRY Symmetry
INVARIANTS
    ResetEndsOldSessions
CHECK_DEADLOCK FALSE
