CONSTANTS
    Devices = {buds, pro, new}
    Supported = {buds, pro}
    NoDevice = NoDevice
    OtherErrors = TRUE
    MaxFaults = 1
    MaxChanges = 3
SPECIFICATION Spec
INVARIANTS
    TypeOK
    ControllerConsistent
    ShownSnapshotConsistent
SYMMETRY DeviceSymmetry
CHECK_DEADLOCK FALSE
