SPECIFICATION Spec
CONSTANTS
    Connections = {c1, c2}
    Ids = {i1, i2}
    LogLevels = {"error", "info"}
    MaxRequests = 2
    MaxSignals = 2
    None = None
INVARIANTS
    TypeOK
    AnswersCarryOwnId
    RefusedCostsNothing
    CookieModeIsGuarded
    AnswersAreTraced
    ExitIsClean
PROPERTIES
    ShutsDown
CHECK_DEADLOCK FALSE
