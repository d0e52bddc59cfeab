SPECIFICATION Spec
CONSTANTS
    Jobs = {j1, j2}
    Workers = {w1, w2}
    Attempts = 3
    MaxStalls = 1
    None = None
INVARIANTS
    TypeOK
    BoundedDeliveries
    OutcomeIsTrue
PROPERTIES
    OutcomeIsFinal
    EveryJobSettles
CHECK_DEADLOCK FALSE
