CONSTANTS
    Value = {r1, r2}
    Moved = Moved
    Capacity = 2
    Modulus = 4
    MaxPush = 5
    MaxStart = 2
    MaxDay = 2
    MaxOpenFailure = 1
SPECIFICATION FairAuditSpec
INVARIANTS
    NoSlotRace
    RingInv
    DrainedAtStop
PROPERTIES
    ImplementsQueue
    StopReturns
    RecordReachesFile
CHECK_DEADLOCK FALSE
