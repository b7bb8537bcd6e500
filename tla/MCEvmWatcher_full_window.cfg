CONSTANTS
    t1 = t1
    t2 = t2
    Burns = {t1, t2}
    Amount <- UnitAmount
    Thresholds <- NoThresholds
    DefaultConfirmations = 1
    TxLimit = 100
    WindowLimit = 1
    WindowSize = 2
    MaxBlock = 3
    Failures = {}
    MaxFaults = 0
    Tasks = {k1}
    NoLog = NoLog
SPECIFICATION Spec
INVARIANTS WindowRespected
CHECK_DEADLOCK FALSE
