CONSTANTS
    Devices <- MCDevices
    OnePlus <- MCOnePlus
    InitialDelay = 1
    MaximumDelay = 3
    MaxChanges = 3
    MaxAttempts = 3
SPECIFICATION Spec
INVARIANTS
    TypeOK
    NoArrivalSleptThrough
    CacheCoherent
    HintsAreUsedOnce
    DelayFollowsAttempts
CHECK_DEADLOCK FALSE
