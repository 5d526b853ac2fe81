CONSTANTS
    Devices <- MCDevices
    OnePlus <- MCOnePlus
    InitialDelay = 1
    MaximumDelay = 3
    MaxChanges = 1
    MaxAttempts = 2
SPECIFICATION Spec
INVARIANT NoCompatibleArrivalSleptThrough
CHECK_DEADLOCK FALSE
