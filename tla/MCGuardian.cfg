SPECIFICATION Spec
CONSTANTS
    Protocols = {p1, p2}
    Names = {"aave", "spark"}
    Contracts = {"pool", "guard"}
    Chains = {"ethereum", "polygon"}
    NoContract = NoContract
    Configs <- MCConfigs
    Settings <- MCSettings
    EnvironmentKey = TRUE
    Prefixes = {"inc"}
    PausePrefix <- MCPausePrefix
    ManualPrefix = "inc"
    AllPrefix = "inc"
    Cooldown = 1
    Never = Never
    MaxRecords = 2
    MaxTime = 1
    MaxChanges = 2
SYMMETRY MCSymmetry
CHECK_DEADLOCK FALSE
INVARIANTS
    PendingIsOpen
    LargeLossIsApproved
PROPERTIES
    ReportedPauseIsReal
    DecidedOnce
    CooldownKept
