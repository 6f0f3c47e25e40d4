SPECIFICATION Spec
CONSTANTS
    t1 = t1
    t2 = t2
    s1 = s1
    r1 = r1
    Tx <- MCTx
    Senders = {s1}
    SenderOf <- MCSender
    NonceOf <- MCZeroNonce
    Owned = {}
    Submitters = {r1}
    MaxRetainedBlocks = 5
    MaxWatermark = 3
    MaxMempoolSize = 2
    JsonSnapshot = FALSE
    TxIndex = FALSE
    Retention = 0
    RequireRecoverable = TRUE
    SingleAuthority = FALSE
    Faults = {}
    MaxDag = 2
    MaxBatch = 2
    MaxSubmit = 1
    MaxFast = 3
    MaxCrashes = 0
    MaxFaults = 1
PROPERTIES
    FreshNonces
CHECK_DEADLOCK FALSE
