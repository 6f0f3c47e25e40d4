SPECIFICATION Spec
CONSTANTS
    t1 = t1
    t2 = t2
    s1 = s1
    r1 = r1
    Tx <- MCTx
    Senders = {s1}
    SenderOf <- MCSender
    NonceOf <- MCNonce
    Owned = {}
    Submitters = {r1}
    MaxRetainedBlocks = 5
    MaxWatermark = 3
    MaxMempoolSize = 2
    JsonSnapshot = FALSE
    TxIndex = TRUE
    Retention = 1
    RequireRecoverable = FALSE
    SingleAuthority = FALSE
    Faults = {}
    MaxDag = 2
    MaxBatch = 2
    MaxSubmit = 0
    MaxFast = 3
    MaxCrashes = 1
    MaxFaults = 1
INVARIANTS
    ChainMatchesState
CHECK_DEADLOCK FALSE
