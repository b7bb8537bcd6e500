CONSTANTS
    t1 = t1
    t2 = t2
    Burns = {t1, t2}
    Amount <- MixedAmount
    Thresholds <- TwoThresholds
    DefaultConfirmations = 1
    TxLimit = 100
    WindowLimit = 10
    WindowSize = 4
    MaxBlock = 3
    Failures = {"skip", "reorder", "db", "rpc", "disconnect", "stop"}
    MaxFaults = 1
    Tasks = {k1, k2}
    NoLog = NoLog
SPECIFICATION HistorySpec
INVARIANTS HalfWindowRespected
PROPERTIES HandedBurnsAreDeep
SYMMETRY Symmetry
CHECK_DEADLOCK FALSE
