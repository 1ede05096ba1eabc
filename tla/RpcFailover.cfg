SPECIFICATION ProviderSpec
CONSTANTS
    N = 3
    Callers = {"ingestion"}
    Impatient = {"ingestion"}
    Threshold = 3
    Cooldown = 2
    MaxRetries = 3
    Nobody = Nobody
INVARIANTS
    LoneCallTriesAll
