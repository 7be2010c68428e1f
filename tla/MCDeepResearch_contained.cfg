SPECIFICATION FairSpec
CONSTANTS
    Workers = {p1, p2}
    NoWorker = NoWorker
    LeaseTtl = 1
    Backoff = 1
    Freshness = 1
    MaxAttempts = 2
    MaxUnits = 2
    MaxFaults = 1
INVARIANTS
    TypeOK
    ActiveIsRegistered
    HandedOffHasPacket
    PacketOutlivesItsUnit
    LeftOnlyByFaults
PROPERTIES
    LeavesNothingRunning
    SavedPacketIsHandedOff
