CONSTANTS
    Devices <- MCOneDevice
    Supported <- MCUnsupported
    NoDevice = NoDevice
    OtherErrors = FALSE
    MaxFaults = 0
    MaxChanges = 1
SPECIFICATION FairSpec
PROPERTY DepartureShown
CHECK_DEADLOCK FALSE
