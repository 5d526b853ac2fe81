CONSTANTS
    Devices <- MCOneDevice
    Supported <- MCOneDevice
    NoDevice = NoDevice
    OtherErrors = TRUE
    MaxFaults = 1
    MaxChanges = 0
SPECIFICATION Spec
INVARIANT RunsUntilCancelled
CHECK_DEADLOCK FALSE
