CONSTANTS
    Txs = {t1}
    Workers = {w1, w2}
    Monitors = {m1, m2}
    EvmHandlers = {b1, b2}
    NoTx = NoTx
    TxTimeoutBlocks = 1
    MaxOffersToLoop = 2
    MaxHeight = 2
    MaxFaults = 0
    MaxLag = 1
    MaxSeq = 8
SPECIFICATION Spec
INVARIANTS AtMostOneLiveOffer QueueConsistent SubmissionsSerialized
PROPERTIES ImplementsDelivery
SYMMETRY Symmetry
