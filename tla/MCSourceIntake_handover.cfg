SPECIFICATION FairSpec
CONSTANTS
    MaxRevision = 3
    MaxSignals = 2
    Ingestors = {i}
    Backfills = {b}
    DrainLimit = 1
    RetryLimit = 2
    MaxFaults = 1
INVARIANTS
    TypeOK
    OneOwnerAtWork
    WorkMatchesDecision
PROPERTIES
    KeepsPromise
    StaysBlocked
    DeliveredInTheEnd
    DecidedInTheEnd
