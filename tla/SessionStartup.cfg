CONSTANTS
    Attempts <- MCAttempts
    MaxChanges = 2
    MaxFrames = 1
SPECIFICATION FairSpec
INVARIANTS
    TypeOK
    OneOwner
    NotOlderThanRead
    StaleStatusHasCause
    CodesAreOfTheSession
PROPERTY OperationsEnd
