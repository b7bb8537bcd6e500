CONSTANTS
    t1 = t1
    t2 = t2
    Burns = {t1}
    Amount <- UnitAmount
    Thresholds <- NoThresholds
    DefaultConfirmations = 1
    TxLimit = 100
    WindowLimit = 9
    WindowSize = 2
    MaxBlock = 2
    Failures = {"reorg", "reorder", "db", "disconnect", "stop"}
    MaxFaults = 2
    Tasks = {k1, k2}
    NoLog = NoLog
SPECIFICATION FairSpec
INVARIANTS ReorgsAreReported
PROPERTIES ReorgGetsReported
CHECK_DEADLOCK FALSE
