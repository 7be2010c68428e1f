SPECIFICATION FairSpec
CONSTANTS
    p1 = p1
    p2 = p2
    w1 = w1
    w2 = w2
    Workers = {p1}
    NoWorker = NoWorker
    Works = {w1, w2}
    Deep = {w2}
    Flows = {"exhausted"}
    LeaseTtl = 2
    Backoff = 1
    Freshness = 2
    MaxAttempts = 1
    HoldTtl = 1
    RecoverLimit = 1
    MaxRequeues = 0
    Results = {"packet", "receipt"}
    NoResult = NoResult
    CallLimit = 1
CHECK_DEADLOCK FALSE
PROPERTIES
    EventuallyQuiet
    FollowsTransitionTable
