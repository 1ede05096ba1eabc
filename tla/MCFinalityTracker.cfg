SPECIFICATION Spec
CONSTANTS
    Confirmations = 2
    MaxReorgDepth = 2
    ForkDepth = 3
    HeadLag = 1
    MaxHeight = 7
    MaxForks = 1
    MaxReorgs = 2
CONSTRAINT Bounded
CHECK_DEADLOCK FALSE
INVARIANTS
    ConfirmedHasDepth
    ConfirmedBelowMark
    SteadyChainConfirms
    WindowBounded
PROPERTIES
    ReorgRollsBack
