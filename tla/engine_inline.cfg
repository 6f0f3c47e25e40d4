SPECIFICATION Spec
CONSTANTS
    t1 = t1
    t2 = t2
    s1 = s1
    r1 = r1
    Tx <- MCTx
    Senders = {s1}
    SenderOf <- MCSender
    NonceOf <- MCNonce
    Owned = {}
    Submitters = {r1}
    MaxRetainedBlocks = 2
    MaxWatermark = 3
    MaxMempoolSize = 2
    JsonSnapshot = FALSE
    TxIndex = TRUE
    Retention = 0
    RequireRecoverable = TRUE
    SingleAuthority = FALSE
    Faults = {"execute", "commit", "persist", "clear"}
    MaxDag = 2
    MaxBatch = 2
    MaxSubmit = 1
    MaxFast = 3
    MaxCrashes = 2
    MaxFaults = 1
INVARIANTS
    TypeOK
    ExactlyOnce
    ChainMatchesState
    Restartable
    CommittedNeverPending
    ReplayIndexComplete
    AckedExecuted
    StoreHoldsHistory
    StateIsCanonical
PROPERTIES
    FreshNonces
    ImplementsLedger
