SPECIFICATION Spec
CONSTANTS
    Callers = {c1, c2}
    Users = {u1, u2}
    Jtis = {t1, t2, t3}
    RefreshTtl <- OneSecond
    MaxTime = 2
    None = None
SYMMETRY Symmetry
INVARIANTS
    TypeOK
    PredecessorRevoked
    OneSuccessorPerCaller
    RotationNeverEndsSession
    RowOutlivesJwt
PROPERTIES
    OverForGood
    ImplementsSessions
CHECK_DEADLOCK FALSE
