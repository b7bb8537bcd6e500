CONSTANTS
    e2 = e2
    Chains = {e1, e2}
    Configured = {e1, e2}
    NumRpcs = 2
    Environments <- SomeEnvironments
    Checks = {k1, k2}
    MaxCount = 2
    Failures = {"disconnect", "rpc", "db", "sync", "slow", "policy", "stop"}
    MaxFaults = 2
SPECIFICATION FairSpec
INVARIANTS TypeOK OneConnection NeverOvercounts
PROPERTIES ChainIsWatched SyncedNodeIsActive
CHECK_DEADLOCK FALSE
