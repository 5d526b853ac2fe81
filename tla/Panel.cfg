CONSTANTS
    Widgets = {left, right}
    PipeSize = 2
    MaxRequests = 2
    MaxGeneration = 2
SPECIFICATION FairSpec
INVARIANTS
    TypeOK
    PendingIsUnderWay
    OutcomeIsOwn
PROPERTIES
    AnsweredWhileUp
    ShowsTheLatest
CHECK_DEADLOCK FALSE
