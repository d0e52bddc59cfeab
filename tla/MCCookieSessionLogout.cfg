SPECIFICATION Spec
CONSTANTS
    Tabs = {c1}
    Users = {u1}
    Tokens = {t1, t2}
    AccessTtl = 2
    AccessAge = 1
    RefreshAge = 2
    MaxTime = 2
    None = None
INVARIANTS
    LogoutRevokesSession
CHECK_DEADLOCK FALSE
