SPECIFICATION FairSpec
CONSTANTS
    t1 = t1
    t2 = t2
    s1 = s1
    r1 = r1
    Tx <- MCTx
    Senders = {s1}
    SenderOf <- MCSender
    NonceOf <- MCNonce
    Owned = {}
    Submitters = {r1}
    MaxRetainedBlocks = 5
    MaxWatermark = 3
    MaxMempoolSize = 2
    JsonSnapshot = FALSE
    TxIndex = FALSE
    Retention = 0
    RequireRecoverable = TRUE
    SingleAuthority = FALSE
    Faults = {"execute", "commit", "persist", "clear"}
    MaxDag = 2
    MaxBatch = 1
    MaxSubmit = 0
    MaxFast = 3
    MaxCrashes = 2
    MaxFaults = 2
PROPERTIES
    EverySubDagSettled
CHECK_DEADLOCK FALSE
