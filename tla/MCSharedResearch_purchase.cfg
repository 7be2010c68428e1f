SPECIFICATION Spec
CONSTANTS
    p1 = p1
    p2 = p2
    w1 = w1
    w2 = w2
    Workers = {p1, p2}
    NoWorker = NoWorker
    Works = {w1}
    Deep = {}
    Flows = {"ordinary", "followup", "proposed"}
    LeaseTtl = 1
    Backoff = 1
    Freshness = 2
    MaxAttempts = 2
    HoldTtl = 1
    RecoverLimit = 1
    MaxRequeues = 1
    Results = {"packet", "receipt"}
    NoResult = NoResult
    CallLimit = 1
SYMMETRY WorkerSymmetry
CHECK_DEADLOCK FALSE
INVARIANTS
    TypeOK
    LeaseMatchesStatus
    HandedOffIsPastResearch
    PacketIsBaseline
    BoughtIsSettled
    SpendsInOrder
PROPERTY
    PaysOnce
