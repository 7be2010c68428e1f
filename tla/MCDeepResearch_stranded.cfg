SPECIFICATION FairSpec
CONSTANTS
    Workers = {p1}
    NoWorker = NoWorker
    LeaseTtl = 1
    Backoff = 1
    Freshness = 1
    MaxAttempts = 1
    MaxUnits = 1
    MaxFaults = 1
PROPERTY
    CrashStrandsNothing
