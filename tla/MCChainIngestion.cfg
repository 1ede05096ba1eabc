SPECIFICATION FairSpec
CONSTANTS
    Threshold = 2
    BaseCooldown = 1
    MaxCooldown = 3
    BaseBackoff = 1
    MaxBackoff = 3
    ReconnectInterval = 1
    MaxHead = 5
    MaxFaults = 3
    MaxRestarts = 1
CHECK_DEADLOCK FALSE
INVARIANTS
    NoBlockTwice
    FewBlocksUnheard
PROPERTIES
    NoGapWhenClose
    ProbeDecides
    CatchesUp
