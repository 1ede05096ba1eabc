SPECIFICATION Spec
CONSTANTS
    Events <- MCEvents
    Keys <- MCEvents
    KeyOf <- MCKeyOf
    Txs <- MCTxs
    TxOf <- MCTxOf
    NoEvent = NoEvent
    MaxSize = 2
    DropPolicies = {"never", "oldest"}
    BatchSize = 2
    SeenLimit = 2
    SeenKept = 1
    MaxSaveFailures = 1
    MaxLapses = 1
CHECK_DEADLOCK FALSE
INVARIANT
    UnsavedIsDuplicate
