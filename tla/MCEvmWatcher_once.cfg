CONSTANTS
    t1 = t1
    t2 = t2
    Burns = {t1}
    Amount <- UnitAmount
    Thresholds <- NoThresholds
    DefaultConfirmations = 1
    TxLimit = 100
    WindowLimit = 9
    WindowSize = 2
    MaxBlock = 3
    Failures = {"skip"}
    MaxFaults = 1
    Tasks = {k1, k2}
    NoLog = NoLog
SPECIFICATION Spec
INVARIANTS RecordedOnce
CHECK_DEADLOCK FALSE
