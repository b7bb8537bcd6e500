CONSTANTS
    Txs = {t1, t2}
    Workers = {w1, w2}
    Monitors = {}
    EvmHandlers = {b1}
    NoTx = NoTx
    TxTimeoutBlocks = 1
    MaxOffersToLoop = 2
    MaxHeight = 2
    MaxFaults = 0
    MaxLag = 0
    MaxSeq = 8
SPECIFICATION FairSpec
PROPERTIES EvidenceGetsSubmitted
CHECK_DEADLOCK FALSE
