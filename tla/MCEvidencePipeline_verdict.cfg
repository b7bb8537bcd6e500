CONSTANTS
    Txs = {t1}
    Workers = {w1, w2}
    Monitors = {m1}
    EvmHandlers = {b1}
    NoTx = NoTx
    TxTimeoutBlocks = 1
    MaxOffersToLoop = 1
    MaxHeight = 2
    MaxFaults = 1
    MaxLag = 1
    MaxSeq = 8
SPECIFICATION FairSpec
INVARIANTS TypeOK OfferInv VerdictsAreOnChain
PROPERTIES TimeoutNeverShrinks EvidenceGetsVerdict
