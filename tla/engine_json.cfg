SPECIFICATION Spec
CONSTANTS
    t1 = t1
    t2 = t2
    s1 = s1
    r1 = r1
    Tx <- MCTx
    Senders = {s1}
    SenderOf <- MCSender
    NonceOf <- MCNonce
    Owned = {}
    Submitters = {r1}
    MaxRetainedBlocks = 2
    MaxWatermark = 3
    MaxMempoolSize = 2
    JsonSnapshot = TRUE
    TxIndex = TRUE
    Retention = 1
    RequireRecoverable = TRUE
    SingleAuthority = FALSE
    Faults = {"execute", "commit", "clear"}
    MaxDag = 2
    MaxBatch = 2
    MaxSubmit = 1
    MaxFast = 3
    MaxCrashes = 2
    MaxFaults = 1
INVARIANTS
    ExactlyOnce
    ChainMatchesState
    Restartable
    ReplayIndexComplete
    StoreHoldsHistory
PROPERTIES
    ImplementsLedger
