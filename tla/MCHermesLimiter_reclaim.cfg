SPECIFICATION FairSpec
CONSTANTS
    Processes = {a, b, c, d}
    NoProcess = NoProcess
    MaxConcurrency = 2
    MaxCrashes = 2
    MaxSlow = 1
INVARIANTS
    TypeOK
    HolderKeepsItsLock
PROPERTY
    CrashesLeaveCapacity
