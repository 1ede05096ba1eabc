SPECIFICATION Spec
CONSTANTS
    Calls <- MCCalls
    Keys <- MCKeys
    Key <- MCKey
    Ids <- MCIds
    Id <- MCId
    NoId = NoId
    PoolSize = 2
    MaxFailures = 2
    MaxCrashes = 1
    MaxDecisions = 1
CHECK_DEADLOCK FALSE
INVARIANTS
    DuplicatesOverlap
    NamedIsStored
PROPERTIES
    ProcessedIsFinal
    DecisionStands
    SavesEnd
