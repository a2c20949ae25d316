CONSTANTS
    Capacity = 2
    TokensPerSec = 3
    Resolution = 1
    MaxWindow = 13
    MaxRefusal = 1
    MaxReset = 1
SPECIFICATION Spec
INVARIANTS
    RollingBound
    AvailableIsExact
    ThrottlerInv
PROPERTY ImplementsBudget
CHECK_DEADLOCK FALSE
