SPECIFICATION Spec
CONSTANTS
    MaxHead = 5
    TxsOf <- MCTxsOf
    Txs = {"t1", "t2", "t3", "t4", "t5", "t6", "t7"}
    Risky = {"t1", "t2", "t4", "t5", "t6"}
    Limit = 2
    MaxBlocks = 2
    SimBudget = 2
    Window = 3
    Kept = 5
    MaxFaults = 3
INVARIANTS
    BudgetKept
    FaultsCostFewBlocks
PROPERTIES
    BlocksAreReached
