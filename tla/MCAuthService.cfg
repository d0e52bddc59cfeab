SPECIFICATION Spec
CONSTANTS
    Callers = {c1, c2}
    Users = {u1}
    Jtis = {t1, t2}
    Links = {l1, l2}
    RefreshTtl <- MCRefreshTtl
    LinkTtl <- MCLinkTtl
    MaxTime = 1
    None = None
SYMMETRY Symmetry
VIEW View
INVARIANTS
    TypeOK
    SessionsOnlyForVerified
    VerifiedByMailedLink
    ChangesArePaidFor
    StrandedForAReason
    SurvivorsExplained
PROPERTIES
    ImplementsAccounts
CHECK_DEADLOCK FALSE
