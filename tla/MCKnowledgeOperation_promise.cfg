SPECIFICATION Spec
CONSTANTS
    A = A
    B = B
    Workers = {p1, p2}
    NoWorker = NoWorker
    LeaseTtl = 1
    Backoff = 1
    Freshness = 1
    MaxAttempts = 1
    OpTtl = 1
    MaxEpoch = 2
    MaxWrites = 2
    Requests = {A, B}
    RequestOf <- Alternating
    Nothing = Nothing
    MaxFaults = 1
SYMMETRY WorkerSymmetry
INVARIANTS
    TypeOK
    UnresolvedIsLatest
    SettledHasItsAnswer
    PaidIsFoundAgain
    HeldIsNotAccepted
    CompleteIsAccepted
PROPERTIES
    KeepsPromise
