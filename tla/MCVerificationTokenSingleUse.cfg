SPECIFICATION Spec
CONSTANTS
    Callers = {c1, c2}
    Users = {u1, u2}
    Tokens = {t1}
    Ttl <- MCTtl
    MaxTime = 0
    None = None
SYMMETRY Symmetry
INVARIANTS
    SingleUse

CHECK_DEADLOCK FALSE
