SPECIFICATION Spec
CONSTANTS
    Callers = {c1, c2, c3}
    Users = {u1, u2}
    Tokens = {t1, t2}
    Ttl <- MCTtl
    MaxTime = 3
    None = None
SYMMETRY Symmetry
INVARIANTS
    TypeOK
    BoundedUses
    GrantedIsUsed
PROPERTY SpentForGood
CHECK_DEADLOCK FALSE
