SPECIFICATION Spec
CONSTANTS
    t1 = t1
    t2 = t2
    s1 = s1
    r1 = r1
    Tx <- MCTx
    Senders = {s1}
    SenderOf <- MCSender
    NonceOf <- MCNonce
    Owned = {t1}
    Submitters = {r1}
    MaxRetainedBlocks = 5
    MaxWatermark = 3
    MaxMempoolSize = 2
    JsonSnapshot = FALSE
    TxIndex = TRUE
    Retention = 1
    RequireRecoverable = TRUE
    SingleAuthority = TRUE
    Faults = {"execute", "commit", "persist", "clear"}
    MaxDag = 2
    MaxBatch = 2
    MaxSubmit = 1
    MaxFast = 3
    MaxCrashes = 1
    MaxFaults = 1
INVARIANTS
    ExactlyOnce
    AckedExecuted
CHECK_DEADLOCK FALSE
