SPECIFICATION Spec
CONSTANTS
    Rules = {"r1", "r2"}
    Threats = {"ml"}
    Position <- MCPosition
    Events = {tx1, tx2}
    Contracts = {"c"}
    ContractOf <- MCContractOf
    NoEvent = NoEvent
    NoDetector = NoDetector
    NoId = NoId
    EventWindow = 1
    RuleWindow = 2
    Hour = 3
    MaxTime = 3
    MaxCalls = 3
    MaxFailures = 1
    MaxRestarts = 1
SYMMETRY Symmetry
CHECK_DEADLOCK FALSE
INVARIANTS
    AlertsAreSpaced
    SuppressedIsStored
    StoredIsAnnounced
