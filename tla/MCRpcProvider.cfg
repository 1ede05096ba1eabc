SPECIFICATION ProviderSpec
CONSTANTS
    N = 2
    Callers = {"ingestion", "runtime"}
    Impatient = {"ingestion"}
    Threshold = 3
    Cooldown = 2
    MaxRetries = 3
    Nobody = Nobody
INVARIANTS
    LoneCallTriesAll
PROPERTIES
    CoolingRests
