SPECIFICATION Spec
CONSTANTS
    t1 = t1
    t2 = t2
    s1 = s1
    r1 = r1
    Tx <- MCTx
    Senders = {s1}
    SenderOf <- MCSender
    NonceOf <- MCNonce
    Owned = {t1}
    Submitters = {r1}
    MaxRetainedBlocks = 5
    MaxWatermark = 3
    MaxMempoolSize = 2
    JsonSnapshot = TRUE
    TxIndex = FALSE
    Retention = 0
    RequireRecoverable = TRUE
    SingleAuthority = TRUE
    Faults = {"persist"}
    MaxDag = 1
    MaxBatch = 2
    MaxSubmit = 1
    MaxFast = 3
    MaxCrashes = 0
    MaxFaults = 1
INVARIANTS
    ChainMatchesState
CHECK_DEADLOCK FALSE
