SPECIFICATION Spec
CONSTANTS
    Calls <- MCCalls
    Keys <- MCKeys
    Key <- MCKey
    Ids <- MCIds
    Id <- MCId
    NoId = NoId
    PoolSize = 2
    MaxFailures = 1
    MaxCrashes = 0
    MaxDecisions = 1
CHECK_DEADLOCK FALSE
INVARIANT
    ProcessedOnce
