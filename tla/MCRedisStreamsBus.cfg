SPECIFICATION FairSpec
CONSTANTS
    Keys = {k1, k2}
    Workers = {w1, w2}
    NoKey = NoKey
    NoWorker = NoWorker
    MaxLen = 2
    BatchSize = 2
    MaxEntries = 3
    MaxFailures = 1
    MaxCrashes = 1
CHECK_DEADLOCK FALSE
INVARIANTS
    EntryHandedOnce
    ReturnedIsRecorded
    LossesAreBounded
PROPERTIES
    EveryEntryReturned
    ImplementsWorkQueue
