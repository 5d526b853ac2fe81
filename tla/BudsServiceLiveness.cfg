CONSTANTS
    Devices <- MCSupported
    Supported <- MCSupported
    NoDevice = NoDevice
    OtherErrors = FALSE
    MaxFaults = 1
    MaxChanges = 2
SPECIFICATION FairSpec
INVARIANT StoppedStaysStopped
PROPERTIES
    Reconnects
    DepartureShown
    Stops
CHECK_DEADLOCK FALSE
