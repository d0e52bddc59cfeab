SPECIFICATION Spec
CONSTANTS
    Tabs = {c1, c2}
    Users = {u1}
    Tokens = {t1, t2, t3}
    AccessTtl = 1
    AccessAge = 1
    RefreshAge = 2
    MaxTime = 2
    None = None
SYMMETRY Symmetry
INVARIANTS
    TypeOK
    CookiesBelongTogether
    LogoutForgets
    LockedOut
CHECK_DEADLOCK FALSE
